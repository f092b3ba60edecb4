-------------------------- MODULE RunStreamProofs --------------------------
(***************************************************************************)
(* What RunStream guarantees for streams of any length, any page size, any *)
(* trimming and any number of broken connections, proved with TLAPS.       *)
(*                                                                         *)
(* That nothing is missed or repeated (Place) needs no assumption about    *)
(* time.  How a stream ends does: the reader looks at the log, at the      *)
(* record and at the log again, and what it makes up fits only because a   *)
(* writer that is overdue has fallen silent (Frozen) before that lookup    *)
(* began.  These theorems assume ~Stalls, as the code's grace period does. *)
(***************************************************************************)
EXTENDS RunStream, SequenceTheorems, TLAPS

LogFrame == {"started", "token", "end", "DONE"}

\* The log holds its first frame, and a page a reader is sending is not used up.
Typed == /\ TypeOK
         /\ Len(log) > 0
         /\ at = "deliver" => last < upto

\* Where the viewer is: all up to delivered was shown, and an open stream, replaying or
\* not, goes on from there.
Open == at # "closed"
Place == /\ Open <=> client = "reading"
         /\ Open => delivered = IF last >= floor THEN last ELSE floor
         /\ shown = [k \in 1..delivered |-> k]
         /\ at = "synthetic" <=> queue # <<>>

\* The log ends once, after the end is on record.
Within(frame, n) == \E k \in 1..n : log[k] = frame
EndOnRecord == Within("end", Len(log)) =>
                 record # "running" /\ writer \in {"signing", "finished", "dead"}
EndIsLast == \A k \in 1..Len(log) : log[k] = "end" =>
               \A m \in 1..Len(log) : m > k => log[m] = "DONE"
DoneIsLast == \A k \in 1..Len(log) : log[k] = "DONE" =>
                writer = "finished" /\ k = Len(log) /\ k > 1 /\ log[k - 1] = "end"
Written == /\ EndOnRecord /\ EndIsLast /\ DoneIsLast
           /\ writer = "signing" => log[Len(log)] = "end"
           /\ writer \in {"closing", "signing", "finished"} => record # "running"

\* Nobody writes to the log any more, and an overdue writer is one of those.
Frozen == writer \in {"finished", "dead"} /\ record # "running"
Silent == (grace => record # "running") /\ (Overdue => Frozen)

\* The reader's last look at the log is still true.
LooksRight == (at = "lookup" /\ Overdue) \/ at \in {"tail", "synthetic"} =>
                Frozen /\ last = Len(log)

\* What the client knows of the end, and what its stream has told it.
Heard ==
  /\ ~ended => ~Within("end", delivered)
  /\ ended => Within("end", delivered) \/ (Frozen /\ delivered = Len(log))
  /\ Open => ~Within("DONE", last)
  /\ at \in {"read", "deliver", "lookup", "tail"} /\ ended => Within("end", last)
  /\ Open => told = IF ended THEN <<"end">> ELSE <<>>
  /\ at = "synthetic" => queue = IF ended THEN <<"DONE">> ELSE <<"end", "DONE">>
  /\ WellEnded

\* A client that heard the end does not come back.
Over == /\ client = "done" => ended
        /\ client = "waiting" => ~ended
        /\ client # "done" => stops = 0
        /\ stops <= 1

StreamOK == Typed /\ Place /\ Written /\ Silent /\ LooksRight /\ Heard /\ Over

-----------------------------------------------------------------------------
(***************************************************************************)
(* Sequences.                                                              *)
(***************************************************************************)

\* The events shown, up to the n-th.
LEMMA Counting ==
  ASSUME NEW n \in Nat
  PROVE  LET upTo(m) == [k \in 1..m |-> k]
         IN  /\ upTo(n) \in Seq(Nat) /\ Len(upTo(n)) = n
             /\ Append(upTo(n), n + 1) = upTo(n + 1)
             /\ \A m \in Nat : n <= m => upTo(n) \in Seq(1..m)
  <1> DEFINE upTo(m) == [k \in 1..m |-> k]
             s == upTo(n)
             t == upTo(n + 1)
             u == Append(s, n + 1)
  <1>1. s \in [1..n -> Nat] /\ t \in [1..(n + 1) -> Nat]
    OBVIOUS
  <1>2. s \in Seq(Nat) /\ t \in Seq(Nat)
    BY <1>1, SeqDef
  <1>3. Len(s) = n /\ Len(t) = n + 1
    BY <1>2, LenProperties
  <1>4. \A k \in 1..n : s[k] = k
    OBVIOUS
  <1>5. \A k \in 1..(n + 1) : t[k] = k
    OBVIOUS
  <1>6. \A m \in Nat : n <= m => s \in Seq(1..m)
    <2> SUFFICES ASSUME NEW m \in Nat, n <= m PROVE s \in Seq(1..m)
      OBVIOUS
    <2>1. s \in [1..n -> 1..m]
      OBVIOUS
    <2> QED
      BY <2>1, SeqDef
  <1> HIDE DEF s, t
  <1>7. /\ u \in Seq(Nat) /\ Len(u) = n + 1 /\ u[n + 1] = n + 1
        /\ \A k \in 1..n : u[k] = s[k]
    BY <1>2, <1>3, AppendProperties
  <1> HIDE DEF u
  <1>8. \A k \in 1..Len(u) : u[k] = t[k]
    BY <1>4, <1>5, <1>7
  <1>9. u = t
    BY <1>2, <1>3, <1>7, <1>8, SeqEqual
  <1> QED
    BY <1>2, <1>3, <1>6, <1>9 DEF s, t, u

\* [DONE] behind a run_end.
LEMMA EndThenDone == Append(<<"end">>, "DONE") = <<"end", "DONE">>
  <1> DEFINE s == Append(<<"end">>, "DONE")
             t == <<"end", "DONE">>
  <1>1. <<"end">> \in Seq({"end", "DONE"}) /\ Len(<<"end">>) = 1 /\ <<"end">>[1] = "end"
    OBVIOUS
  <1>2. /\ s \in Seq({"end", "DONE"}) /\ Len(s) = 2 /\ s[1] = "end" /\ s[2] = "DONE"
    BY <1>1, AppendProperties
  <1>3. /\ t \in Seq({"end", "DONE"}) /\ Len(t) = 2 /\ t[1] = "end" /\ t[2] = "DONE"
    OBVIOUS
  <1> HIDE DEF s, t
  <1>4. \A k \in 1..Len(s) : s[k] = t[k]
    BY <1>2, <1>3
  <1>5. s = t
    BY <1>2, <1>3, <1>4, SeqEqual
  <1> QED
    BY <1>5 DEF s, t

\* The entries of the log.
LEMMA LogTyped ==
  ASSUME TypeOK
  PROVE  /\ log \in Seq(LogFrame) /\ Len(log) \in Nat /\ DOMAIN log = 1..Len(log)
         /\ \A k \in 1..Len(log) : log[k] \in LogFrame
  BY DEF TypeOK, LogFrame

\* An XADD adds one entry and trims behind the last ones.
LEMMA XAddGrows ==
  ASSUME TypeOK, NEW frame \in LogFrame, XAdd(frame)
  PROVE  /\ log' \in Seq(LogFrame) /\ Len(log') = Len(log) + 1
         /\ \A k \in 1..Len(log) : log'[k] = log[k]
         /\ log'[Len(log) + 1] = frame
         /\ trimmed' \in 0..Len(log')
  <1>1. log' = Append(log, frame) /\ log \in Seq(LogFrame) /\ Len(log) \in Nat
    BY LogTyped DEF XAdd
  <1>2. /\ log' \in Seq(LogFrame) /\ Len(log') = Len(log) + 1
        /\ \A k \in 1..Len(log) : log'[k] = log[k]
        /\ log'[Len(log) + 1] = frame
    BY <1>1, AppendProperties
  <1>3. trimmed' \in trimmed..Len(log) /\ trimmed \in 0..Len(log)
    BY DEF XAdd, TypeOK
  <1> QED
    BY <1>1, <1>2, <1>3

-----------------------------------------------------------------------------
(***************************************************************************)
(* Types, and what the viewer is shown.                                    *)
(***************************************************************************)

WriterStep == Emit \/ CloseStep \/ WriterDies \/ GraceElapses \/ RecordExpires

\* The writer writes a log that only grows.
LEMMA WriterGrows ==
  ASSUME Typed, WriterStep
  PROVE  /\ UNCHANGED <<reading, viewing>>
         /\ log' \in Seq(LogFrame) /\ Len(log') \in {Len(log), Len(log) + 1}
         /\ \A k \in 1..Len(log) : log'[k] = log[k]
         /\ trimmed' \in 0..Len(log')
         /\ writer' \in {"writing", "closing", "signing", "finished", "dead"}
         /\ record' \in {"running", "ended", "gone"} /\ grace' \in BOOLEAN
  <1>1. log \in Seq(LogFrame) /\ Len(log) \in Nat
    BY LogTyped DEF Typed
  <1>2. CASE Emit
    <2>1. XAdd("token") /\ "token" \in LogFrame
      BY <1>2 DEF Emit, LogFrame
    <2> QED
      BY <1>1, <1>2, <2>1, XAddGrows DEF Emit, Typed, TypeOK
  <1>3. CASE AppendEnd
    <2>1. XAdd("end") /\ "end" \in LogFrame
      BY <1>3 DEF AppendEnd, LogFrame
    <2> QED
      BY <1>1, <1>3, <2>1, XAddGrows DEF AppendEnd, Typed, TypeOK
  <1>4. CASE AppendDone
    <2>1. XAdd("DONE") /\ "DONE" \in LogFrame
      BY <1>4 DEF AppendDone, LogFrame
    <2> QED
      BY <1>1, <1>4, <2>1, XAddGrows DEF AppendDone, Typed, TypeOK
  <1>5. CASE Finish \/ WriterDies \/ GraceElapses \/ RecordExpires
    BY <1>1, <1>5 DEF Finish, WriterDies, GraceElapses, RecordExpires, Typed, TypeOK
  <1> QED
    BY <1>2, <1>3, <1>4, <1>5 DEF WriterStep, CloseStep

\* An event of the page is shown exactly when it is the next one.
LEMMA DeliverShows ==
  ASSUME Typed, Place, Deliver
  PROVE  /\ log[last + 1] \in LogFrame /\ last + 1 \in 1..Len(log)
         /\ last' = last + 1 /\ at' \in {"closed", "read", "deliver"}
         /\ delivered' = IF last + 1 > floor THEN last + 1 ELSE floor
         /\ delivered <= delivered'
         /\ delivered' \in 0..Len(log) /\ shown' = [k \in 1..delivered' |-> k]
         /\ shown' \in Seq(1..Len(log))
  <1> USE DEF Typed, TypeOK
  <1>1. at = "deliver" /\ Handle(last + 1) /\ last' = last + 1
        /\ at' \in {"closed", "read", "deliver"}
    BY DEF Deliver
  <1>2. Len(log) \in Nat /\ last + 1 \in 1..Len(log) /\ log[last + 1] \in LogFrame
    BY <1>1, LogTyped
  <1>3. delivered \in Nat /\ floor \in Nat /\ last \in Nat /\ floor <= Len(log)
    BY <1>2
  <1>4. delivered = (IF last >= floor THEN last ELSE floor) /\ shown = [k \in 1..delivered |-> k]
    BY <1>1 DEF Place, Open
  <1>5. delivered' = IF last + 1 > floor THEN last + 1 ELSE floor
    BY <1>1, <1>3, <1>4 DEF Handle
  <1>6. delivered' \in 0..Len(log) /\ delivered <= delivered'
    BY <1>2, <1>3, <1>4, <1>5
  <1>7. shown' = [k \in 1..delivered' |-> k]
    <2>1. CASE last + 1 > floor
      <3>1. delivered = last /\ delivered' = last + 1
        BY <1>3, <1>4, <1>5, <2>1
      <3>2. shown' = Append(shown, delivered + 1)
        BY <1>1, <1>3, <2>1, <3>1 DEF Handle, Suppressed
      <3> QED
        BY <1>3, <1>4, <3>1, <3>2, Counting
    <2>2. CASE last + 1 <= floor
      BY <1>1, <1>3, <1>4, <1>5, <2>2 DEF Handle, Suppressed
    <2> QED
      BY <1>3, <2>1, <2>2
  <1>8. shown' \in Seq(1..Len(log))
    BY <1>2, <1>6, <1>7, Counting
  <1> QED
    BY <1>1, <1>2, <1>5, <1>6, <1>7, <1>8

\* What is left to make up: an end and [DONE], or [DONE] alone.
LEMMA SynthesizeTells ==
  ASSUME Typed, Place, Synthesize
  PROVE  \/ /\ queue = <<"end", "DONE">> /\ queue' = <<"DONE">>
            /\ told' = Append(told, "end") /\ ended' = TRUE /\ stops' = stops
            /\ UNCHANGED <<at, client>>
         \/ /\ queue = <<"DONE">> /\ queue' = <<>>
            /\ told' = Append(told, "DONE") /\ ended' = ended /\ stops' = stops + 1
            /\ at' = "closed" /\ StreamOver(ended, FALSE)
  <1>1. queue \in {<<"DONE">>, <<"end", "DONE">>}
    BY DEF Synthesize, Typed, TypeOK, Place
  <1>2. CASE queue = <<"DONE">>
    <2>1. queue[1] = "DONE" /\ SubSeq(queue, 2, Len(queue)) = <<>>
      BY <1>2
    <2> QED
      BY <1>2, <2>1 DEF Synthesize, Typed, TypeOK
  <1>3. CASE queue = <<"end", "DONE">>
    <2> DEFINE rest == SubSeq(queue, 2, 2)
    <2>1. queue[1] = "end" /\ Len(queue) = 2 /\ queue[2] = "DONE"
      BY <1>3
    <2>2. \A i \in 2..2 : queue[i] \in {"DONE"}
      BY <2>1
    <2>3. rest \in Seq({"DONE"}) /\ Len(rest) = 1 /\ \A i \in 1..1 : rest[i] = queue[2 + i - 1]
      BY <2>2, SubSeqProperties
    <2> HIDE DEF rest
    <2>4. /\ <<"DONE">> \in Seq({"DONE"}) /\ Len(<<"DONE">>) = 1
          /\ \A i \in 1..1 : <<"DONE">>[i] = "DONE"
      OBVIOUS
    <2>5. \A i \in 1..1 : rest[i] = <<"DONE">>[i]
      BY <2>1, <2>3, <2>4
    <2>6. rest = <<"DONE">>
      BY <2>3, <2>4, <2>5, SeqEqual
    <2>7. SubSeq(queue, 2, Len(queue)) = <<"DONE">>
      BY <2>1, <2>6 DEF rest
    <2> QED
      BY <1>3, <2>1, <2>7 DEF Synthesize
  <1> QED
    BY <1>1, <1>2, <1>3

LEMMA PlaceStep == ASSUME Typed, Place, [Next]_vars PROVE Place'
  <1> USE DEF Place, Open, writing, reading, viewing
  <1>1. CASE WriterStep
    BY <1>1, WriterGrows
  <1>2. CASE ReadPage
    BY <1>2 DEF ReadPage, Gap
  <1>3. CASE ReadTrimmed
    BY <1>3 DEF ReadTrimmed, StreamOver
  <1>4. CASE ReadNothing \/ Lookup \/ CheckTail
    BY <1>4 DEF ReadNothing, Lookup, CheckTail
  <1>5. CASE Deliver
    <2>1. last' = last + 1 /\ floor' = floor /\ queue' = queue /\ at # "synthetic"
      BY <1>5 DEF Deliver
    <2>2. at' # "closed" <=> client' = "reading"
      BY <1>5 DEF Deliver, StreamOver
    <2>3. delivered' = IF last' >= floor' THEN last' ELSE floor'
      BY <1>5, <2>1, DeliverShows DEF Typed, TypeOK
    <2> QED
      BY <1>5, <2>1, <2>2, <2>3, DeliverShows
  <1>6. CASE Synthesize
    <2>1. UNCHANGED <<last, delivered, floor, shown>> /\ client = "reading" /\ at = "synthetic"
      BY <1>6 DEF Synthesize
    <2>2. CASE queue' = <<"DONE">> /\ UNCHANGED <<at, client>>
      BY <2>1, <2>2
    <2>3. CASE queue' = <<>> /\ at' = "closed" /\ StreamOver(ended, FALSE)
      BY <2>1, <2>3 DEF StreamOver
    <2> QED
      BY <1>6, <2>2, <2>3, SynthesizeTells
  <1>7. CASE Drop
    BY <1>7 DEF Drop, StreamOver
  <1>8. CASE Discover \/ GiveUp \/ AttachFails
    BY <1>8 DEF Discover, GiveUp, AttachFails
  <1>9. CASE Attach
    BY <1>9 DEF Attach, Typed, TypeOK
  <1>10. CASE UNCHANGED vars
    BY <1>10 DEF vars
  <1> QED
    BY <1>1, <1>2, <1>3, <1>4, <1>5, <1>6, <1>7, <1>8, <1>9, <1>10
    DEF Next, WriterStep, ReaderStep, ClientStep

LEMMA TypedStep == ASSUME Typed, Place, [Next]_vars PROVE Typed'
  <1> USE DEF Typed, TypeOK, Settled, writing, reading, viewing
  <1>1. CASE WriterStep
    <2>1. UNCHANGED <<reading, viewing>> /\ Len(log) \in Nat
      BY <1>1, WriterGrows, LogTyped
    <2>2. /\ log' \in Seq(LogFrame) /\ Len(log') \in {Len(log), Len(log) + 1}
          /\ trimmed' \in 0..Len(log')
          /\ writer' \in {"writing", "closing", "signing", "finished", "dead"}
          /\ record' \in {"running", "ended", "gone"} /\ grace' \in BOOLEAN
      BY <1>1, WriterGrows
    <2>3. Len(log') \in Nat /\ delivered \in Nat /\ delivered <= Len(log')
      BY <2>1, <2>2
    <2>4. shown \in Seq(1..Len(log'))
      BY <2>3, Counting DEF Place
    <2> QED
      BY <2>1, <2>2, <2>4 DEF LogFrame
  <1>2. CASE ReadPage
    <2>1. last < Len(log) /\ Before = last
      BY <1>2 DEF ReadPage, Behind, Gap
    <2> QED
      BY <1>2, <2>1, BoundsType DEF ReadPage
  <1>3. CASE ReadTrimmed
    BY <1>3 DEF ReadTrimmed, StreamOver
  <1>4. CASE ReadNothing \/ Lookup
    BY <1>4 DEF ReadNothing, Lookup
  <1>5. CASE CheckTail
    BY <1>5 DEF CheckTail
  <1>6. CASE Deliver
    <2>1. /\ delivered' \in 0..Len(log) /\ shown' \in Seq(1..Len(log))
          /\ last' = last + 1 /\ last + 1 \in 1..Len(log) /\ log[last + 1] \in LogFrame
      BY <1>6, DeliverShows
    <2>2. UNCHANGED <<writing, upto, queue, floor, drops>> /\ Handle(last + 1)
      BY <1>6 DEF Deliver
    <2>3. /\ known' \in BOOLEAN /\ ended' \in BOOLEAN /\ failures' \in 0..MaxFailures + 1
          /\ stops' \in Nat
      BY <2>2, BoundsType DEF Handle
    <2>4. told' \in Seq({"end", "DONE"})
      BY <2>2 DEF Handle
    <2>5. client' \in {"reading", "waiting"} \union Settled
      BY <1>6 DEF Deliver, StreamOver
    <2>6. at' \in {"closed", "read", "deliver"} /\ (at' = "deliver" => last' < upto')
      <3>1. last \in Nat /\ upto \in Nat /\ upto' = upto
        BY <2>2, LogTyped
      <3>2. at = "deliver" /\ last < upto
        BY <1>6 DEF Deliver
      <3>3. at' = "closed" \/ at' = (IF last + 1 = upto THEN "read" ELSE "deliver")
        BY <1>6 DEF Deliver
      <3> QED
        BY <2>1, <3>1, <3>2, <3>3
    <2> QED
      BY <2>1, <2>2, <2>3, <2>4, <2>5, <2>6
  <1>7. CASE Synthesize
    <2>1. UNCHANGED <<writing, last, upto, known, delivered, floor, failures, drops, shown>>
          /\ at = "synthetic"
      BY <1>7 DEF Synthesize
    <2>2. \E payload \in {"end", "DONE"} : told' = Append(told, payload)
      BY <1>7, SynthesizeTells
    <2>3. told' \in Seq({"end", "DONE"})
      BY <2>2
    <2>4. ended' \in BOOLEAN /\ stops' \in Nat
      <3>1. ended \in BOOLEAN /\ (ended' = TRUE \/ ended' = ended)
        BY <1>7, SynthesizeTells, Zenon
      <3>2. ended' \in BOOLEAN
        BY <3>1, Zenon
      <3>3. stops' = stops \/ stops' = stops + 1
        BY <1>7, SynthesizeTells, Zenon
      <3> QED
        BY <3>2, <3>3
    <2>5. /\ queue' \in {<<>>, <<"DONE">>} /\ at' \in {"synthetic", "closed"}
          /\ client' \in {"reading", "waiting"} \union Settled
      BY <1>7, <2>1, SynthesizeTells DEF StreamOver
    <2> QED
      BY <2>1, <2>3, <2>4, <2>5
  <1>8. CASE Drop
    BY <1>8, BoundsType DEF Drop, StreamOver
  <1>9. CASE Discover
    <2>1. known \in BOOLEAN /\ (known' = TRUE \/ known' = known)
      BY <1>9, Zenon DEF Discover
    <2>2. known' \in BOOLEAN
      BY <2>1, Zenon
    <2>3. UNCHANGED <<writing, reading, ended, delivered, floor, failures, drops, shown,
                      stops, told>>
          /\ client' \in {client, "lost"}
      BY <1>9 DEF Discover
    <2> QED
      BY <2>2, <2>3
  <1>10. CASE GiveUp
    BY <1>10 DEF GiveUp
  <1>11. CASE Attach
    BY <1>11, BoundsType DEF Attach
  <1>12. CASE AttachFails
    BY <1>12, BoundsType DEF AttachFails
  <1>13. CASE UNCHANGED vars
    BY <1>13 DEF vars
  <1> QED
    BY <1>1, <1>2, <1>3, <1>4, <1>5, <1>6, <1>7, <1>8, <1>9, <1>10, <1>11, <1>12, <1>13
    DEF Next, WriterStep, ReaderStep, ClientStep

LEMMA TypedInit == ASSUME Init PROVE Typed /\ Place
  <1>1. /\ log \in Seq(LogFrame) /\ Len(log) = 1 /\ told \in Seq({"end", "DONE"})
        /\ shown = <<>> /\ shown \in Seq(1..Len(log))
    BY DEF Init, LogFrame
  <1>2. [k \in 1..0 |-> k] = <<>>
    BY Counting
  <1>3. grace \in BOOLEAN /\ known \in BOOLEAN /\ ended \in BOOLEAN
    BY Zenon DEF Init
  <1>4. TypeOK /\ at = "read"
    BY <1>1, <1>3, BoundsType DEF Init, TypeOK, LogFrame, Settled
  <1>5. Place
    BY <1>2 DEF Init, Place, Open
  <1> QED
    BY <1>1, <1>4, <1>5 DEF Typed

LEMMA PlaceInvariant == Spec => [](Typed /\ Place)
  BY TypedInit, TypedStep, PlaceStep, PTL DEF Spec

\* Every variable keeps its type: no reader reads or sends past the log's end, and
\* nothing is trimmed that is not there.
THEOREM StreamTypeCorrect == Spec => []TypeOK
  BY PlaceInvariant, PTL DEF Typed

\* Whatever is trimmed, dropped and replayed, and whoever stalls, the viewer is shown
\* the events in order, none missing and none twice.
THEOREM EventsInOrder == Spec => []NoGapNoRepeat
  <1>1. Typed /\ Place => NoGapNoRepeat
    BY Counting DEF Typed, TypeOK, Place, NoGapNoRepeat
  <1> QED
    BY <1>1, PlaceInvariant, PTL

-----------------------------------------------------------------------------
(***************************************************************************)
(* The writer: one end, and then silence.                                  *)
(***************************************************************************)

\* Readers, clients and the network write nothing.
LEMMA OthersRead ==
  ASSUME ReaderStep \/ Drop \/ ClientStep \/ AttachFails PROVE UNCHANGED writing
  BY DEF ReaderStep, ClientStep, ReadPage, ReadTrimmed, ReadNothing, Deliver, Lookup, CheckTail,
     Synthesize, Drop, Discover, Attach, GiveUp, AttachFails

LEMMA WrittenStep == ASSUME Typed, Written, [Next]_vars PROVE Written'
  <1> DEFINE n == Len(log)
  <1> USE DEF Written, EndOnRecord, EndIsLast, DoneIsLast, Within
  <1>0. TypeOK /\ n \in Nat /\ n > 0
    BY LogTyped DEF Typed
  <1>1. CASE Emit
    <2>1. XAdd("token") /\ "token" \in LogFrame /\ writer \in {"writing", "closing"}
          /\ UNCHANGED <<writer, record>>
      BY <1>1 DEF Emit, LogFrame
    <2>2. /\ Len(log') = n + 1 /\ log'[n + 1] = "token"
          /\ \A k \in 1..n : log'[k] = log[k]
      BY <1>0, <2>1, XAddGrows
    <2> HIDE DEF n
    <2>3. \A k \in 1..n : log[k] # "end" /\ log[k] # "DONE"
      BY <2>1 DEF n
    <2>4. \A k \in 1..Len(log') : log'[k] # "end" /\ log'[k] # "DONE"
      BY <1>0, <2>2, <2>3
    <2> QED
      BY <2>1, <2>4
  <1>2. CASE AppendEnd
    <2>1. XAdd("end") /\ "end" \in LogFrame /\ writer = "closing" /\ writer' = "signing"
          /\ record' = record
      BY <1>2 DEF AppendEnd, LogFrame
    <2>2. /\ Len(log') = n + 1 /\ log'[n + 1] = "end"
          /\ \A k \in 1..n : log'[k] = log[k]
      BY <1>0, <2>1, XAddGrows
    <2> HIDE DEF n
    <2>3. \A k \in 1..n : log[k] # "end" /\ log[k] # "DONE"
      BY <2>1 DEF n
    <2>4. \A k \in 1..Len(log') : log'[k] # "DONE" /\ (log'[k] = "end" => k = n + 1)
      BY <1>0, <2>2, <2>3
    <2> QED
      BY <1>0, <2>1, <2>2, <2>4
  <1>3. CASE AppendDone
    <2>1. XAdd("DONE") /\ "DONE" \in LogFrame /\ writer = "signing" /\ writer' = "finished"
          /\ record' = record
      BY <1>3 DEF AppendDone, LogFrame
    <2>2. /\ Len(log') = n + 1 /\ log'[n + 1] = "DONE"
          /\ \A k \in 1..n : log'[k] = log[k]
      BY <1>0, <2>1, XAddGrows
    <2> HIDE DEF n
    <2>3. \A k \in 1..n : log[k] # "DONE"
      BY <2>1 DEF n
    <2>4. log[n] = "end" /\ \A k \in 1..n : log[k] = "end" => k = n
      <3>1. log[n] = "end"
        BY <2>1 DEF n
      <3>2. \A k \in 1..n : log[k] = "end" => \A m \in 1..n : m > k => log[m] = "DONE"
        BY DEF n
      <3> QED
        BY <1>0, <2>3, <3>1, <3>2
    <2>5. \A k \in 1..Len(log') : /\ log'[k] = "DONE" => k = n + 1
                                  /\ log'[k] = "end" => k = n
      BY <1>0, <2>2, <2>3, <2>4
    <2>6. EndIsLast'
      BY <1>0, <2>2, <2>5
    <2>7. DoneIsLast'
      BY <1>0, <2>1, <2>2, <2>4, <2>5
    <2> QED
      BY <2>1, <2>6, <2>7
  <1>4. CASE Finish
    <2>1. \A k \in 1..n : log[k] # "end" /\ log[k] # "DONE"
      BY <1>4 DEF Finish
    <2> QED
      BY <1>4, <2>1 DEF Finish
  <1>5. CASE WriterDies
    BY <1>5 DEF WriterDies
  <1>6. CASE GraceElapses \/ RecordExpires
    BY <1>6 DEF GraceElapses, RecordExpires
  <1>7. CASE UNCHANGED writing
    BY <1>7 DEF writing
  <1> QED
    BY <1>1, <1>2, <1>3, <1>4, <1>5, <1>6, <1>7, OthersRead
    DEF Next, CloseStep, vars, writing

\* A frozen log stays.
LEMMA FrozenStays == ASSUME Frozen, [Next]_vars PROVE Frozen' /\ log' = log
  <1> USE DEF Frozen
  <1>1. CASE WriterStep
    BY <1>1 DEF WriterStep, Emit, CloseStep, Finish, AppendEnd, AppendDone, WriterDies,
       GraceElapses, RecordExpires
  <1>2. CASE UNCHANGED writing
    BY <1>2 DEF writing
  <1> QED
    BY <1>1, <1>2, OthersRead DEF Next, WriterStep, vars, writing

\* Only an idle writer becomes overdue, and never under a lookup.
LEMMA SilentStep ==
  ASSUME ~Stalls, Typed, Written, Silent, [Next]_vars
  PROVE  Silent' /\ (at = "lookup" /\ Overdue' => Overdue)
  <1> USE DEF Silent, Overdue, Frozen, Typed, TypeOK
  <1>1. CASE Emit \/ AppendEnd \/ AppendDone \/ WriterDies
    BY <1>1 DEF Emit, AppendEnd, AppendDone, WriterDies, Written
  <1>2. CASE Finish
    BY <1>2 DEF Finish
  <1>3. CASE GraceElapses
    BY <1>3 DEF GraceElapses
  <1>4. CASE RecordExpires
    BY <1>4 DEF RecordExpires
  <1>5. CASE UNCHANGED writing
    BY <1>5 DEF writing
  <1> QED
    BY <1>1, <1>2, <1>3, <1>4, <1>5, OthersRead DEF Next, CloseStep, vars, writing

LEMMA LooksRightStep ==
  ASSUME ~Stalls, Typed, Written, Silent, LooksRight, [Next]_vars PROVE LooksRight'
  <1>1. CASE WriterStep
    <2>1. UNCHANGED <<at, last>>
      BY <1>1, WriterGrows DEF reading
    <2>2. SUFFICES ASSUME (at = "lookup" /\ Overdue') \/ at \in {"tail", "synthetic"}
                   PROVE  Frozen' /\ last = Len(log')
      BY <2>1 DEF LooksRight
    <2>3. at = "lookup" /\ Overdue' => Overdue
      BY SilentStep
    <2>4. Frozen /\ last = Len(log)
      BY <2>2, <2>3 DEF LooksRight
    <2> QED
      BY <2>4, FrozenStays
  <1>2. ASSUME UNCHANGED writing PROVE (Overdue' <=> Overdue) /\ (Frozen' <=> Frozen) /\ log' = log
    BY <1>2 DEF writing, Overdue, Frozen
  <1>3. CASE ReadNothing
    <2>1. /\ last = Len(log) /\ last' = last /\ UNCHANGED writing
          /\ at' = "lookup"
      BY <1>3, LogTyped DEF ReadNothing, Behind, Typed, TypeOK
    <2> QED
      BY <1>2, <2>1 DEF Silent, LooksRight
  <1>4. CASE Lookup
    BY <1>2, <1>4 DEF Lookup, LooksRight
  <1>5. CASE CheckTail
    BY <1>2, <1>5 DEF CheckTail, LooksRight
  <1>6. CASE Synthesize
    <2>1. UNCHANGED <<writing, last>> /\ at = "synthetic"
      BY <1>6 DEF Synthesize
    <2> QED
      BY <1>2, <2>1 DEF LooksRight
  <1>7. CASE ReadPage \/ ReadTrimmed \/ Deliver \/ Drop \/ Attach
    <2>1. at' \in {"closed", "read", "deliver"}
      BY <1>7 DEF ReadPage, ReadTrimmed, Deliver, Drop, Attach
    <2> QED
      BY <2>1 DEF LooksRight
  <1>8. CASE Discover \/ GiveUp \/ AttachFails \/ UNCHANGED vars
    <2>1. UNCHANGED <<writing, at, last>>
      BY <1>8 DEF Discover, GiveUp, AttachFails, vars, reading, writing
    <2> QED
      BY <1>2, <2>1 DEF LooksRight
  <1> QED
    BY <1>1, <1>3, <1>4, <1>5, <1>6, <1>7, <1>8 DEF Next, WriterStep, ReaderStep, ClientStep

-----------------------------------------------------------------------------
(***************************************************************************)
(* The end, as the viewer is told it.                                      *)
(***************************************************************************)

\* Where the reader and the viewer are is within the log.
LEMMA Positions ==
  ASSUME Typed, Place
  PROVE  /\ Len(log) \in Nat /\ last \in 0..Len(log) /\ delivered \in 0..Len(log)
         /\ floor \in Nat /\ ended \in BOOLEAN
         /\ Open => last <= delivered
  BY LogTyped DEF Typed, TypeOK, Place

\* The first entries do not change.
LEMMA WithinStays ==
  ASSUME Typed, WriterStep, NEW frame, NEW n \in 0..Len(log)
  PROVE  (\E k \in 1..n : log'[k] = frame) <=> Within(frame, n)
  <1>1. Len(log) \in Nat /\ \A k \in 1..Len(log) : log'[k] = log[k]
    BY WriterGrows, LogTyped DEF Typed
  <1>2. \A k \in 1..n : k \in 1..Len(log)
    BY <1>1
  <1> QED
    BY <1>1, <1>2 DEF Within

LEMMA HeardByWriting ==
  ASSUME Typed, Place, Heard, [Next]_vars, WriterStep PROVE Heard'
  <1>1. UNCHANGED <<reading, viewing>>
    BY WriterGrows
  <1>2. /\ (Within("end", delivered)' <=> Within("end", delivered))
        /\ (Within("end", last)' <=> Within("end", last))
        /\ (Within("DONE", last)' <=> Within("DONE", last))
    BY <1>1, Positions, WithinStays DEF Within, reading, viewing
  <1>3. Frozen => Frozen' /\ log' = log
    BY FrozenStays
  <1> QED
    BY <1>1, <1>2, <1>3 DEF Heard, Open, WellEnded, reading, viewing

\* The event that is sent next, and what the stream said before it.
LEMMA HeardByDelivery ==
  ASSUME Typed, Place, Written, Heard, Deliver PROVE Heard'
  <1> DEFINE m == last + 1
  <1>1. /\ at = "deliver" /\ UNCHANGED <<writing, queue, floor>> /\ Handle(m)
        /\ IF log[m] = "DONE" THEN at' = "closed" ELSE at' \in {"read", "deliver"}
    BY DEF Deliver
  <1>2. /\ m \in 1..Len(log) /\ log[m] \in LogFrame /\ last' = m
        /\ delivered' = (IF m > floor THEN m ELSE floor) /\ delivered <= delivered'
        /\ delivered' \in 0..Len(log)
    BY DeliverShows
  <1>3. /\ Len(log) \in Nat /\ last \in 0..Len(log) /\ delivered \in 0..Len(log)
        /\ floor \in Nat /\ ended \in BOOLEAN /\ last <= delivered
        /\ delivered = IF last >= floor THEN last ELSE floor
    BY <1>1, Positions DEF Open, Place
  <1>4. /\ told' = IF log[m] \in {"end", "DONE"} THEN Append(told, log[m]) ELSE told
        /\ ended' = (ended \/ log[m] = "end")
    BY <1>1 DEF Handle
  <1>5. told = (IF ended THEN <<"end">> ELSE <<>>) /\ ~Within("DONE", last)
        /\ (ended => Within("end", last))
    BY <1>1 DEF Heard, Open
  <1>6. log' = log /\ (Frozen' <=> Frozen)
    BY <1>1 DEF writing, Frozen
  <1> HIDE DEF m
  <1>7. \A frame \in LogFrame, j \in Nat : Within(frame, j)' <=> Within(frame, j)
    BY <1>6 DEF Within
  <1>8. /\ \A frame \in LogFrame : Within(frame, m) <=> Within(frame, last) \/ log[m] = frame
        /\ Within("end", delivered) => Within("end", delivered')
        /\ m <= delivered' /\ m = last + 1
    <2>1. 1..m = 1..last \union {m} /\ 1..delivered \subseteq 1..delivered'
      BY <1>2, <1>3 DEF m
    <2> QED
      BY <1>2, <1>3, <2>1 DEF Within, m
  <1>9. at' # "synthetic" /\ Open
    BY <1>1 DEF Open
  <1>10. CASE log[m] = "end"
    <2>1. ~ended
      <3> SUFFICES ASSUME ended PROVE FALSE
        OBVIOUS
      <3>1. PICK k \in 1..last : log[k] = "end"
        BY <1>5 DEF Within
      <3>2. k \in 1..Len(log) /\ m > k
        BY <1>2, <1>3, <1>8
      <3> QED
        BY <1>2, <1>10, <3>1, <3>2 DEF Written, EndIsLast
    <2>2. ended' = TRUE /\ told' = <<"end">>
      <3>1. ended' = TRUE
        BY <1>4, <1>10, Zenon
      <3>2. told' = Append(told, "end") /\ told = <<>>
        BY <1>4, <1>5, <1>10, <2>1
      <3> QED
        BY <3>1, <3>2
    <2>3. Within("end", m) /\ Within("end", delivered') /\ ~Within("DONE", m)
      BY <1>2, <1>3, <1>5, <1>8, <1>10 DEF Within, LogFrame
    <2> QED
      BY <1>1, <1>2, <1>7, <1>9, <1>10, <2>2, <2>3 DEF Heard, Open, WellEnded, LogFrame
  <1>11. CASE log[m] = "DONE"
    <2>1. Within("end", last)
      <3>1. m > 1 /\ log[m - 1] = "end"
        BY <1>2, <1>11 DEF Written, DoneIsLast
      <3>2. m - 1 \in 1..last /\ m - 1 = last
        BY <1>2, <1>3, <1>8, <3>1
      <3> QED
        BY <3>1, <3>2 DEF Within
    <2>2. Within("end", delivered)
      BY <1>3, <2>1 DEF Within
    <2>3. ended = TRUE
      BY <1>3, <2>2 DEF Heard
    <2>4. told' = <<"end", "DONE">> /\ ended' = TRUE
      <3>1. ended' = TRUE
        BY <1>4, <2>3, Zenon
      <3>2. told' = Append(told, "DONE") /\ told = <<"end">>
        BY <1>4, <1>5, <1>11, <2>3
      <3> QED
        BY <3>1, <3>2, EndThenDone
    <2> QED
      BY <1>1, <1>2, <1>7, <1>8, <1>11, <2>2, <2>4 DEF Heard, Open, WellEnded, LogFrame
  <1>12. CASE log[m] \notin {"end", "DONE"}
    <2>1. ended' = ended /\ told' = told
      BY <1>3, <1>4, <1>12
    <2>2. ~Within("DONE", m) /\ (ended => Within("end", m))
      BY <1>5, <1>8, <1>12 DEF LogFrame
    <2>3. ~ended => ~Within("end", delivered')
      <3>1. CASE m > floor
        <4>1. delivered = last /\ delivered' = m
          BY <1>2, <1>3, <1>8, <3>1
        <4> QED
          BY <1>8, <1>12, <4>1 DEF Heard, LogFrame
      <3>2. CASE m <= floor
        <4>1. delivered' = delivered
          BY <1>2, <1>3, <1>8, <3>2
        <4> QED
          BY <4>1 DEF Heard
      <3> QED
        BY <1>2, <1>3, <3>1, <3>2
    <2>4. ended => Within("end", delivered')
      BY <1>5, <1>3, <1>2, <1>8 DEF Within
    <2> QED
      BY <1>1, <1>2, <1>5, <1>7, <1>9, <1>12, <2>1, <2>2, <2>3, <2>4
      DEF Heard, Open, WellEnded, LogFrame
  <1> QED
    BY <1>10, <1>11, <1>12

\* The reader looks at the tail: the log tells the end exactly to those who heard it.
LEMMA HeardByTail ==
  ASSUME Typed, Place, Written, LooksRight, Heard, CheckTail PROVE Heard'
  <1>1. /\ at = "tail" /\ at' = "synthetic" /\ UNCHANGED <<writing, last, upto, viewing>>
        /\ queue' = IF LogEndsWithRunEnd THEN <<"DONE">> ELSE <<"end", "DONE">>
    BY DEF CheckTail
  <1>2. /\ Len(log) \in Nat /\ Len(log) > 0 /\ last = Len(log) /\ delivered = Len(log)
    BY <1>1, Positions DEF Open, LooksRight, Typed
  <1>3. ended => log[Len(log)] = "end"
    <2> SUFFICES ASSUME ended PROVE log[Len(log)] = "end"
      OBVIOUS
    <2>1. PICK k \in 1..last : log[k] = "end"
      BY <1>1 DEF Heard, Within
    <2>2. log[Len(log)] # "DONE"
      BY <1>1, <1>2 DEF Heard, Within, Open
    <2>3. k = Len(log)
      BY <1>2, <2>1, <2>2 DEF Written, EndIsLast
    <2> QED
      BY <2>1, <2>3
  <1>4. ~ended => log[Len(log)] # "end"
    BY <1>2 DEF Heard, Within
  <1>5. queue' = IF ended THEN <<"DONE">> ELSE <<"end", "DONE">>
    BY <1>1, <1>3, <1>4 DEF LogEndsWithRunEnd
  <1> QED
    BY <1>1, <1>5 DEF Heard, Open, Within, Frozen, WellEnded, writing, viewing

\* The rest of the end is made up.
LEMMA HeardBySynthesis ==
  ASSUME Typed, Place, LooksRight, Heard, Synthesize PROVE Heard'
  <1>1. at = "synthetic" /\ Open /\ UNCHANGED <<writing, last, delivered>>
    BY DEF Synthesize, Open
  <1>2. Frozen /\ delivered = Len(log)
    BY <1>1, Positions DEF LooksRight, Typed
  <1>3. told = (IF ended THEN <<"end">> ELSE <<>>)
        /\ queue = (IF ended THEN <<"DONE">> ELSE <<"end", "DONE">>)
    BY <1>1 DEF Heard
  <1>4. CASE /\ queue = <<"end", "DONE">> /\ queue' = <<"DONE">>
             /\ told' = Append(told, "end") /\ ended' = TRUE /\ UNCHANGED <<at, client>>
    <2>1. told = <<>> /\ Append(<<>>, "end") = <<"end">>
      BY <1>3, <1>4
    <2>2. told' = <<"end">> /\ at' = "synthetic" /\ ended'
      BY <1>1, <1>4, <2>1
    <2> QED
      BY <1>1, <1>2, <1>4, <2>2 DEF Heard, Open, Within, Frozen, WellEnded, writing
  <1>5. CASE /\ queue = <<"DONE">> /\ told' = Append(told, "DONE") /\ ended' = ended
             /\ at' = "closed"
    <2>1. told = <<"end">>
      BY <1>3, <1>5
    <2>2. told' = <<"end", "DONE">>
      BY <1>5, <2>1, EndThenDone
    <2> QED
      BY <1>1, <1>2, <1>5, <2>2 DEF Heard, Open, Within, Frozen, WellEnded, writing
  <1> QED
    BY <1>4, <1>5, SynthesizeTells

\* Reading and reconnecting tell nothing of the end; only a client that did not hear
\* it attaches again.
LEMMA HeardByOthers ==
  ASSUME Typed, Place, Written, Heard, Over,
         ReadPage \/ ReadTrimmed \/ ReadNothing \/ Lookup \/ Drop \/ ClientStep \/ AttachFails
  PROVE  Heard'
  <1> USE DEF Heard, Open, Within, Frozen, WellEnded, writing, viewing
  <1>1. CASE ReadPage
    <2>1. last' = last /\ at = "read" /\ at' = "deliver" /\ UNCHANGED <<writing, queue, viewing>>
      BY <1>1 DEF ReadPage, Gap
    <2> QED
      BY <2>1
  <1>2. CASE ReadNothing \/ Lookup
    <2>1. /\ at \in {"read", "lookup"} /\ at' \in {"lookup", "tail", "read"}
          /\ UNCHANGED <<writing, last, viewing>>
      BY <1>2 DEF ReadNothing, Lookup
    <2> QED
      BY <2>1
  <1>3. CASE ReadTrimmed \/ Drop
    <2>1. at' = "closed" /\ UNCHANGED <<writing, ended, delivered, told>>
      BY <1>3 DEF ReadTrimmed, Drop
    <2> QED
      BY <2>1
  <1>4. CASE Discover \/ GiveUp \/ AttachFails
    BY <1>4 DEF Discover, GiveUp, AttachFails, reading
  <1>5. CASE Attach
    <2>1. /\ last' \in {0, delivered} /\ at' = "read" /\ told' = <<>>
          /\ UNCHANGED <<writing, ended, delivered>>
      BY <1>5 DEF Attach
    <2>2. ~ended /\ \A k \in 1..delivered : log[k] # "end"
      BY <1>5 DEF Attach, Over
    <2>3. Len(log) \in Nat /\ delivered \in 0..Len(log)
      BY Positions
    <2>4. \A k \in 1..delivered : log[k] # "DONE"
      <3> SUFFICES ASSUME NEW k \in 1..delivered, log[k] = "DONE" PROVE FALSE
        OBVIOUS
      <3>1. k > 1 /\ log[k - 1] = "end"
        BY <2>3 DEF Written, DoneIsLast
      <3>2. k - 1 \in 1..delivered
        BY <2>3, <3>1
      <3> QED
        BY <2>2, <3>1, <3>2
    <2>5. ~\E k \in 1..last' : log[k] = "DONE"
      BY <2>1, <2>4
    <2> QED
      BY <2>1, <2>2, <2>5
  <1> QED
    BY <1>1, <1>2, <1>3, <1>4, <1>5 DEF ClientStep

LEMMA HeardStep ==
  ASSUME Typed, Place, Written, LooksRight, Heard, Over, [Next]_vars PROVE Heard'
  <1>1. CASE UNCHANGED vars
    BY <1>1 DEF vars, Heard, Open, Within, Frozen, WellEnded
  <1> QED
    BY <1>1, HeardByWriting, HeardByDelivery, HeardByTail, HeardBySynthesis, HeardByOthers
    DEF Next, WriterStep, ReaderStep

\* [DONE] comes only to a client that heard the end, and sends it away for good.
LEMMA OverStep ==
  ASSUME Typed, Place, Written, Heard, Over, [Next]_vars PROVE Over'
  <1> USE DEF Over
  <1>1. CASE WriterStep
    BY <1>1, WriterGrows DEF viewing
  <1>2. CASE ReadPage \/ ReadNothing \/ Lookup \/ CheckTail
    BY <1>2 DEF ReadPage, ReadNothing, Lookup, CheckTail, viewing
  <1>3. CASE ReadTrimmed \/ Drop
    <2>1. UNCHANGED <<ended, stops>> /\ client = "reading" /\ \E why \in BOOLEAN : StreamOver(ended, why)
      BY <1>3 DEF ReadTrimmed, Drop, Place, Open
    <2> QED
      BY <2>1 DEF StreamOver
  <1>4. CASE Deliver
    <2>1. client = "reading" /\ stops = 0 /\ at = "deliver"
      BY <1>4 DEF Deliver, Place, Open
    <2>2. CASE log[last + 1] = "DONE"
      <3>1. /\ last + 1 \in 1..Len(log) /\ Len(log) \in Nat /\ delivered \in Nat
            /\ last \in Nat /\ last <= delivered /\ ended \in BOOLEAN
        BY <1>4, <2>1, DeliverShows, Positions DEF Open
      <3>2. last + 1 > 1 /\ log[last] = "end"
        BY <2>2, <3>1 DEF Written, DoneIsLast
      <3>3. Within("end", delivered)
        BY <3>1, <3>2 DEF Within
      <3>4. ended = TRUE
        BY <3>1, <3>3 DEF Heard
      <3>5. ended' = TRUE
        BY <1>4, <3>4, Zenon DEF Deliver, Handle
      <3>6. client' = "done" /\ stops' \in {0, 1}
        BY <1>4, <2>1, <2>2, <3>4 DEF Deliver, Handle, StreamOver
      <3> QED
        BY <3>5, <3>6
    <2>3. CASE log[last + 1] # "DONE"
      BY <1>4, <2>1, <2>3 DEF Deliver, Handle
    <2> QED
      BY <2>2, <2>3
  <1>5. CASE Synthesize
    <2>1. client = "reading" /\ stops = 0 /\ at = "synthetic"
      BY <1>5 DEF Synthesize, Place, Open
    <2>2. CASE stops' = stops /\ UNCHANGED client
      BY <2>1, <2>2
    <2>3. CASE /\ queue = <<"DONE">> /\ ended' = ended /\ stops' = stops + 1
               /\ StreamOver(ended, FALSE)
      <3>1. ended
        BY <2>1, <2>3 DEF Heard
      <3> QED
        BY <2>1, <2>3, <3>1 DEF StreamOver
    <2> QED
      BY <1>5, <2>2, <2>3, SynthesizeTells
  <1>6. CASE ClientStep \/ AttachFails
    <2>1. client = "waiting" /\ UNCHANGED <<ended, stops>>
          /\ client' \in {"waiting", "reading", "lost", "expired", "gaveUp"}
      BY <1>6 DEF ClientStep, Discover, Attach, GiveUp, AttachFails
    <2> QED
      BY <2>1
  <1>7. CASE UNCHANGED vars
    BY <1>7 DEF vars
  <1> QED
    BY <1>1, <1>2, <1>3, <1>4, <1>5, <1>6, <1>7 DEF Next, WriterStep, ReaderStep

LEMMA StreamInit == ASSUME Init PROVE StreamOK
  <1>1. Typed /\ Place
    BY TypedInit
  <1>2. /\ Len(log) = 1 /\ log[1] = "started" /\ writer = "writing" /\ record = "running"
        /\ ~grace /\ at = "read" /\ last = 0 /\ client = "reading" /\ ~ended
        /\ delivered = 0 /\ stops = 0 /\ told = <<>>
    BY DEF Init
  <1>3. \A frame : ~Within(frame, 0)
    BY DEF Within
  <1>4. \A k \in 1..Len(log) : log[k] = "started"
    BY <1>2
  <1>5. Written
    BY <1>2, <1>4 DEF Written, EndOnRecord, EndIsLast, DoneIsLast, Within
  <1> QED
    BY <1>1, <1>2, <1>3, <1>5
    DEF StreamOK, Silent, Overdue, LooksRight, Heard, Open, WellEnded, Over

\* The inductive invariant of the stream's end.
LEMMA StreamInvariant == ASSUME ~Stalls PROVE Spec => []StreamOK
  <1>1. StreamOK /\ [Next]_vars => StreamOK'
    BY TypedStep, PlaceStep, WrittenStep, SilentStep, LooksRightStep, HeardStep, OverStep
    DEF StreamOK
  <1> QED
    BY <1>1, StreamInit, PTL DEF Spec

\* One HTTP stream tells the end once and then [DONE], whether the log has them, has
\* half of them or was never closed.
THEOREM StreamsWellEnded == ASSUME ~Stalls PROVE Spec => []WellEnded
  <1>1. StreamOK => WellEnded
    BY DEF StreamOK, Heard
  <1> QED
    BY <1>1, StreamInvariant, PTL

\* A client that takes the run for ended was handed every frame there will ever be.
THEOREM DoneViewersHaveAll == ASSUME ~Stalls PROVE Spec => []DoneIsWhole
  <1>1. ASSUME StreamOK PROVE DoneIsWhole
    <2> SUFFICES ASSUME client = "done", NEW j \in DOMAIN log, log[j] \in {"started", "token"}
                 PROVE  j <= delivered
      BY DEF DoneIsWhole
    <2>1. ended /\ j \in 1..Len(log) /\ Len(log) \in Nat /\ delivered \in 0..Len(log)
      BY <1>1, LogTyped DEF StreamOK, Over, Typed, TypeOK
    <2>2. CASE Within("end", delivered)
      <3>1. PICK k \in 1..delivered : log[k] = "end"
        BY <2>2 DEF Within
      <3>2. ~(j > k)
        BY <1>1, <2>1, <3>1 DEF StreamOK, Written, EndIsLast
      <3> QED
        BY <2>1, <3>1, <3>2
    <2>3. CASE delivered = Len(log)
      BY <2>1, <2>3
    <2> QED
      BY <1>1, <2>1, <2>2, <2>3 DEF StreamOK, Heard
  <1> QED
    BY <1>1, StreamInvariant, PTL

\* The viewer's answer is stopped once, over all of its streams.
THEOREM AnswersStopOnce == ASSUME ~Stalls PROVE Spec => []StoppedOnce
  <1>1. StreamOK => StoppedOnce
    BY DEF StreamOK, Over, StoppedOnce
  <1> QED
    BY <1>1, StreamInvariant, PTL
=============================================================================
