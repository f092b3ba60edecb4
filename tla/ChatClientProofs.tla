-------------------------- MODULE ChatClientProofs --------------------------
(***************************************************************************)
(* What ChatClient guarantees for any number of submissions, attempts and  *)
(* packets, proved with TLAPS.                                             *)
(***************************************************************************)
EXTENDS ChatClient, FiniteSetTheorems, TLAPS

-----------------------------------------------------------------------------
(***************************************************************************)
(* The inductive invariant.                                                *)
(***************************************************************************)

\* What the types leave open: the bounds are respected because a wait is followed by one
\* attempt only, and nothing is queued that was not pushed.
Bounded ==
  \A s \in Submission : /\ producer[s] \in {"looking", "waiting"} => attempt[s] < MaxAttempts
                        /\ queue[s] <= pushed[s]

\* A producer works for a loop, and fails only by completing.
Producing ==
  \A s \in Submission : /\ producer[s] # "none" => consumer[s] = "loop"
                        /\ error[s] # "none" => producer[s] = "complete"

\* A submission that has not begun has left no trace, and while none has, no key is known;
\* one that streams has a run.
Unknown(s) == /\ s # active /\ s # controller /\ s # streamedKey
              /\ s \notin found /\ s \notin stopped /\ s \notin aborted
Beginning ==
  /\ \A s \in Submission : consumer[s] = "none" => Unknown(s)
  /\ streamedKey = None => chatState = "input" /\ Looping = {}
  /\ \A s \in Looping : run[s] # None

\* The one stream that is shown is the one whose controller the store holds, and the
\* input is not shown beside it.
OneShown == ~crossed => Live \subseteq {controller} /\ (Live # {} => chatState # "input")

\* The tracker knows what was stopped, and nothing stopped is shown.
Silent == /\ stopped \subseteq settled
          /\ ~crossed => ~late /\ \A s \in Live : run[s] \notin stopped

\* The store's controller and the tracker's key belong to the same loop, so that an
\* aborted one was stopped.
Stopped ==
  \A s \in Looping : /\ controller = s => run[s] = streamedKey
                     /\ s \in aborted => run[s] \in stopped

\* What the input bar holds, the user typed while every send still under way was.
BarKnown == ~crossed /\ typed => Sending \subseteq overtyped

\* The server had the message once its stream is open, or ended without an error.
Accepted(s) == s \in ended \union {active}
Delivered ==
  \A s \in Submission : IsSend(s) =>
    /\ producer[s] = "open" \/ error[s] = "gone" => Accepted(s)
    /\ producer[s] = "complete" /\ error[s] = "none" /\ s \notin aborted => Accepted(s)
    /\ consumer[s] = "refused" => s \in kept \/ Dropped(s)

IInv == /\ TypeOK /\ Bounded /\ Producing /\ Beginning
        /\ OneShown /\ Silent /\ Stopped /\ BarKnown /\ Delivered /\ MessageKept

LEMMA InitIInv == Init => IInv
  <1> SUFFICES ASSUME Init PROVE IInv
    OBVIOUS
  <1>1. TypeOK
    <2>1. 0 \in 0..MaxAttempts /\ 0 \in 0..MaxPackets
      BY BoundsAreNatural
    <2> QED
      BY <2>1 DEF Init, TypeOK, Each, Run
  <1>2. Bounded /\ Producing
    BY BoundsAreNatural DEF Init, Bounded, Producing, Each
  <1>3. Beginning /\ OneShown /\ Silent /\ Stopped /\ BarKnown /\ Delivered /\ MessageKept
    BY ForeignIsForeign
       DEF Init, Beginning, Unknown, OneShown, Silent, Stopped, BarKnown, Delivered, MessageKept,
           Looping, Live, IsSend, Each, Submission
  <1> QED
    BY <1>1, <1>2, <1>3 DEF IInv

-----------------------------------------------------------------------------
(***************************************************************************)
(* Steps by kind, and what they leave alone.                               *)
(***************************************************************************)

\* The first step of a submission, whichever it is.
Begins(s, r) == \/ r = s /\ Submit(s)
                \/ r \in Run /\ AttachToActiveRun(s, r)

LEMMA StepKinds ==
  ASSUME [Next]_vars
  PROVE  \/ ForeignRuns \/ RunEnds \/ Discover \/ Stop \/ Type \/ Erase \/ UNCHANGED vars
         \/ \E s \in Submission : Produce(s) \/ Consume(s) \/ \E r \in Run : Begins(s, r)
  BY DEF Next, Begins, Run

\* A step of one submission leaves the others where they are.
LEMMA OthersStay ==
  ASSUME TypeOK, NEW s \in Submission, NEW r \in Run, Produce(s) \/ Consume(s) \/ Begins(s, r),
         NEW t \in Submission, t # s
  PROVE  /\ run'[t] = run[t] /\ producer'[t] = producer[t] /\ error'[t] = error[t]
         /\ attempt'[t] = attempt[t] /\ pushed'[t] = pushed[t] /\ queue'[t] = queue[t]
         /\ consumer'[t] = consumer[t]
         /\ t \in aborted' <=> t \in aborted
         /\ t \in kept' <=> t \in kept
         /\ refused'[t] = refused[t]
         /\ t \in overtyped' <=> t \in overtyped
  <1> USE DEF TypeOK, history, stream, tracker, server
  <1>1. CASE Produce(s)
    BY <1>1 DEF Produce, SendAccepted, SendRefused, LookedUp, BackedOff, Again, Push, StreamEnds,
                StreamExpires, StreamBreaks, CompletesWith
  <1>2. CASE Render(s) \/ Freeze(s) \/ Relooked(s) \/ Return(s)
    BY <1>2 DEF Render, Freeze, Relooked, Return
  <1>3. CASE LoopEnds(s) \/ LoopFails(s) \/ LoopRefused(s) \/ LoopExpired(s)
    BY <1>3 DEF LoopEnds, LoopFails, LoopRefused, Refused, LoopExpired, LeaveLoop
  <1>4. CASE Begins(s, r)
    BY <1>4 DEF Begins, Submit, AttachToActiveRun, Begin
  <1> QED
    BY <1>1, <1>2, <1>3, <1>4 DEF Consume

-----------------------------------------------------------------------------
(***************************************************************************)
(* Types.                                                                  *)
(***************************************************************************)

\* The flags that are computed are flags.
LEMMA FlagsTyped ==
  ASSUME TypeOK, NEW s \in Submission, Consume(s)
  PROVE  /\ attaching' \in BOOLEAN /\ typed' \in BOOLEAN /\ crossed' \in BOOLEAN
         /\ late' \in BOOLEAN /\ frozen' \in BOOLEAN
  <1> USE DEF TypeOK, history, tracker
  <1>1. CASE Render(s) \/ Freeze(s) \/ Relooked(s) \/ Return(s)
    BY <1>1, Zenon DEF Render, Freeze, Relooked, Return
  <1>2. CASE LoopEnds(s) \/ LoopFails(s) \/ LoopRefused(s) \/ LoopExpired(s)
    BY <1>2, Zenon DEF LoopEnds, LoopFails, LoopRefused, Refused, LoopExpired, LeaveLoop
  <1> QED
    BY <1>1, <1>2 DEF Consume

LEMMA TypesStep == TypeOK /\ Bounded /\ Producing /\ Beginning /\ [Next]_vars => TypeOK'
  <1> SUFFICES ASSUME TypeOK, Bounded, Producing, Beginning, [Next]_vars PROVE TypeOK'
    OBVIOUS
  <1> USE BoundsAreNatural DEF TypeOK, Run, history, stream, tracker, server
  <1>1. CASE ForeignRuns \/ RunEnds \/ Discover
    BY <1>1 DEF ForeignRuns, RunEnds, Discover
  <1>2. CASE Stop
    BY <1>2 DEF Stop, AbortSession, Beginning
  <1>3. ASSUME NEW s \in Submission, Produce(s) PROVE TypeOK'
    <2>1. CASE SendAccepted(s) \/ SendRefused(s)
      BY <1>3, <2>1 DEF Produce, SendAccepted, SendRefused, CompletesWith
    <2>2. CASE LookedUp(s) \/ BackedOff(s)
      <3>1. attempt[s] < MaxAttempts
        BY <2>2 DEF Bounded, LookedUp, BackedOff
      <3> QED
        BY <1>3, <2>2, <3>1 DEF Produce, LookedUp, BackedOff, Again, CompletesWith
    <2>3. CASE Push(s)
      <3>1. queue[s] + 1 \in 0..MaxPackets /\ pushed[s] + 1 \in 0..MaxPackets
        BY <2>3 DEF Push, Bounded
      <3> QED
        BY <1>3, <2>3, <3>1 DEF Produce, Push
    <2>4. CASE StreamEnds(s) \/ StreamExpires(s) \/ StreamBreaks(s)
      BY <1>3, <2>4 DEF Produce, StreamEnds, StreamExpires, StreamBreaks, CompletesWith
    <2> QED
      BY <1>3, <2>1, <2>2, <2>3, <2>4 DEF Produce
  <1>4. ASSUME NEW s \in Submission, Consume(s) PROVE TypeOK'
    <2>1. CASE Render(s) \/ Freeze(s) \/ Relooked(s) \/ Return(s)
      BY <1>4, <2>1, FlagsTyped DEF Render, Freeze, Relooked, Return
    <2>2. CASE LoopEnds(s) \/ LoopFails(s)
      <3>1. run[s] # None
        BY <2>2 DEF LoopEnds, LoopFails, Beginning, Looping
      <3> QED
        BY <1>4, <2>2, <3>1, FlagsTyped DEF LoopEnds, LoopFails, LeaveLoop
    <2>3. CASE LoopRefused(s) \/ LoopExpired(s)
      BY <1>4, <2>3, FlagsTyped DEF LoopRefused, Refused, LoopExpired, LeaveLoop
    <2> QED
      BY <1>4, <2>1, <2>2, <2>3 DEF Consume
  <1>5. ASSUME NEW s \in Submission, NEW r \in Run, Begins(s, r) PROVE TypeOK'
    <2>1. CASE Submit(s)
      <3>1. typed' \in BOOLEAN
        BY <2>1, Zenon DEF Submit
      <3> QED
        BY <2>1, <3>1 DEF Submit, Begin
    <2>2. CASE AttachToActiveRun(s, r)
      BY <2>2 DEF AttachToActiveRun, Begin
    <2> QED
      BY <1>5, <2>1, <2>2 DEF Begins
  <1>6. CASE UNCHANGED vars
    BY <1>6 DEF vars
  <1>7. CASE Type \/ Erase
    <2>1. typed' \in BOOLEAN
      BY <1>7, Zenon DEF Type, Erase
    <2> QED
      BY <1>7, <2>1 DEF Type, Erase, Sending, Live, Looping
  <1> QED
    BY <1>1, <1>2, <1>3, <1>4, <1>5, <1>6, <1>7, StepKinds

-----------------------------------------------------------------------------
(***************************************************************************)
(* Bounds and producers.                                                   *)
(***************************************************************************)

LEMMA ProducerStep ==
  TypeOK /\ Bounded /\ Producing /\ Beginning /\ [Next]_vars => Bounded' /\ Producing'
  <1> SUFFICES ASSUME TypeOK, Bounded, Producing, Beginning, [Next]_vars
               PROVE  Bounded' /\ Producing'
    OBVIOUS
  <1> DEFINE Good(t) ==
        /\ producer[t] \in {"looking", "waiting"} => attempt[t] < MaxAttempts
        /\ queue[t] <= pushed[t]
        /\ producer[t] # "none" => consumer[t] = "loop"
        /\ error[t] # "none" => producer[t] = "complete"
  <1> USE BoundsAreNatural
  <1>1. \A t \in Submission : Good(t)
    BY DEF Bounded, Producing
  <1>2. CASE ForeignRuns \/ RunEnds \/ Discover \/ Stop \/ Type \/ Erase \/ UNCHANGED vars
    BY <1>2 DEF ForeignRuns, RunEnds, Discover, Stop, Type, Erase, AbortSession, vars, stream,
                Bounded, Producing
  <1>3. ASSUME NEW s \in Submission, NEW r \in Run, Produce(s) \/ Consume(s) \/ Begins(s, r)
        PROVE  Bounded' /\ Producing'
    <2>1. ASSUME NEW t \in Submission, t # s PROVE Good(t)'
      BY <1>1, <1>3, <2>1, OthersStay
    <2>2. Good(s)'
      <3> USE <1>1 DEF TypeOK, stream
      <3>1. CASE Produce(s)
        <4>1. CASE SendAccepted(s) \/ SendRefused(s)
          BY <3>1, <4>1 DEF Produce, SendAccepted, SendRefused, CompletesWith
        <4>2. CASE LookedUp(s) \/ BackedOff(s)
          BY <3>1, <4>2 DEF Produce, LookedUp, BackedOff, Again, CompletesWith
        <4>3. CASE Push(s)
          BY <3>1, <4>3 DEF Produce, Push
        <4>4. CASE StreamEnds(s) \/ StreamExpires(s) \/ StreamBreaks(s)
          BY <3>1, <4>4 DEF Produce, StreamEnds, StreamExpires, StreamBreaks, CompletesWith
        <4> QED
          BY <3>1, <4>1, <4>2, <4>3, <4>4 DEF Produce
      <3>2. CASE Consume(s)
        <4>1. CASE Render(s) \/ Freeze(s) \/ Relooked(s) \/ Return(s)
          BY <4>1 DEF Render, Freeze, Relooked, Return
        <4>2. CASE LoopEnds(s) \/ LoopFails(s) \/ LoopRefused(s) \/ LoopExpired(s)
          BY <4>2 DEF LoopEnds, LoopFails, LoopRefused, Refused, LoopExpired, LeaveLoop
        <4> QED
          BY <3>2, <4>1, <4>2 DEF Consume
      <3>3. CASE Begins(s, r)
        <4>1. CASE Submit(s)
          BY <4>1 DEF Submit, Begin
        <4>2. CASE AttachToActiveRun(s, r)
          BY <4>2 DEF AttachToActiveRun, Begin
        <4> QED
          BY <3>3, <4>1, <4>2 DEF Begins
      <3> QED
        BY <1>3, <3>1, <3>2, <3>3
    <2> QED
      BY <2>1, <2>2 DEF Bounded, Producing
  <1> QED
    BY <1>2, <1>3, StepKinds, ForeignIsForeign DEF Run

-----------------------------------------------------------------------------
(***************************************************************************)
(* What has not begun is unknown.                                          *)
(***************************************************************************)

LEMMA BeginningStep ==
  TypeOK /\ Producing /\ Beginning /\ [Next]_vars => Beginning'
  <1> SUFFICES ASSUME TypeOK, Producing, Beginning, [Next]_vars PROVE Beginning'
    OBVIOUS
  <1> USE ForeignIsForeign DEF TypeOK, Beginning, Unknown, Looping, stream, tracker, history, server
  <1>1. CASE ForeignRuns \/ RunEnds \/ Discover \/ Type \/ Erase \/ UNCHANGED vars
    BY <1>1 DEF ForeignRuns, RunEnds, Discover, Type, Erase, vars
  <1>2. CASE Stop
    BY <1>2 DEF Stop, AbortSession
  <1>3. ASSUME NEW s \in Submission, Produce(s) PROVE Beginning'
    <2>1. UNCHANGED <<chatState, controller, tracker, found, run, consumer, aborted, typed, frozen,
                     history>>
      BY <1>3 DEF Produce
    <2>2. active' = active \/ (active' = s /\ consumer[s] = "loop")
      BY <1>3 DEF Produce, SendAccepted, SendRefused, LookedUp, BackedOff, Push, StreamEnds,
                  StreamExpires, StreamBreaks, Producing
    <2> QED
      BY <2>1, <2>2
  <1>4. ASSUME NEW s \in Submission, Consume(s) PROVE Beginning'
    <2>1. CASE Render(s) \/ Freeze(s) \/ Relooked(s) \/ Return(s)
      BY <2>1 DEF Render, Freeze, Relooked, Return
    <2>2. CASE LoopEnds(s) \/ LoopFails(s) \/ LoopRefused(s) \/ LoopExpired(s)
      BY <2>2 DEF LoopEnds, LoopFails, LoopRefused, Refused, LoopExpired, LeaveLoop
    <2> QED
      BY <1>4, <2>1, <2>2 DEF Consume
  <1>5. ASSUME NEW s \in Submission, NEW r \in Run, Begins(s, r) PROVE Beginning'
    <2>1. CASE Submit(s)
      BY <2>1 DEF Submit, Begin
    <2>2. CASE AttachToActiveRun(s, r)
      BY <2>2 DEF AttachToActiveRun, Begin, Run
    <2> QED
      BY <1>5, <2>1, <2>2 DEF Begins
  <1> QED
    BY <1>1, <1>2, <1>3, <1>4, <1>5, StepKinds

-----------------------------------------------------------------------------
(***************************************************************************)
(* One stream, and a silent one once stopped.                              *)
(***************************************************************************)

LEMMA ShownStep ==
  ASSUME TypeOK, Beginning, OneShown, Silent, [Next]_vars
  PROVE  OneShown' /\ Silent'
  <1> USE DEF TypeOK, OneShown, Silent, Live, Looping, stream, tracker, history, server
  <1>1. CASE ForeignRuns \/ RunEnds \/ Discover \/ Type \/ Erase \/ UNCHANGED vars
    BY <1>1 DEF ForeignRuns, RunEnds, Discover, Type, Erase, vars
  <1>2. CASE Stop
    <2>1. ~crossed => Live' = {}
      BY <1>2, ForeignIsForeign DEF Stop, AbortSession
    <2>2. UNCHANGED <<crossed, late>> /\ stopped' \subseteq settled'
      BY <1>2 DEF Stop
    <2> QED
      BY <2>1, <2>2
  <1>3. ASSUME NEW s \in Submission, Produce(s) PROVE OneShown' /\ Silent'
    BY <1>3 DEF Produce
  <1>4. ASSUME NEW s \in Submission, Consume(s) PROVE OneShown' /\ Silent'
    <2>1. CASE Render(s)
      BY <2>1 DEF Render
    <2>2. CASE Freeze(s) \/ Relooked(s)
      BY <2>2 DEF Freeze, Relooked
    <2>3. CASE Return(s)
      BY <2>3 DEF Return
    <2>4. ASSUME NEW next \in {"ending", "refused"}, LeaveLoop(s, next),
                 settled \subseteq settled'
          PROVE  OneShown' /\ Silent'
      <3>1. Live' = Live \ {s}
        BY <2>4 DEF LeaveLoop
      <3> QED
        BY <2>4, <3>1 DEF LeaveLoop
    <2>5. CASE LoopEnds(s) \/ LoopFails(s) \/ LoopRefused(s) \/ LoopExpired(s)
      BY <2>4, <2>5 DEF LoopEnds, LoopFails, LoopRefused, LoopExpired
    <2> QED
      BY <1>4, <2>1, <2>2, <2>3, <2>5 DEF Consume
  <1>5. ASSUME NEW s \in Submission, NEW r \in Run, Begins(s, r) PROVE OneShown' /\ Silent'
    <2>1. r \notin stopped
      BY <1>5 DEF Begins, Submit, AttachToActiveRun, Begin, Beginning, Unknown
    <2>2. chatState = "input" /\ Live' \subseteq Live \union {s}
      BY <1>5 DEF Begins, Submit, AttachToActiveRun, Begin, NothingShown
    <2>3. /\ chatState' = "loading" /\ controller' = s
          /\ run' = [run EXCEPT ![s] = r]
          /\ UNCHANGED <<settled, history>>
      BY <1>5 DEF Begins, Submit, AttachToActiveRun, Begin
    <2> QED
      BY <2>1, <2>2, <2>3
  <1> QED
    BY <1>1, <1>2, <1>3, <1>4, <1>5, StepKinds

-----------------------------------------------------------------------------
(***************************************************************************)
(* What the user wrote.                                                    *)
(***************************************************************************)

LEMMA StoppedStep ==
  ASSUME TypeOK, Beginning, Stopped, [Next]_vars
  PROVE  Stopped'
  <1> USE DEF TypeOK, Stopped, Looping, stream, tracker, history, server
  <1>1. CASE ForeignRuns \/ RunEnds \/ Discover \/ Type \/ Erase \/ UNCHANGED vars
    BY <1>1 DEF ForeignRuns, RunEnds, Discover, Type, Erase, vars
  <1>2. CASE Stop
    BY <1>2, ForeignIsForeign DEF Stop, AbortSession
  <1>3. ASSUME NEW s \in Submission, Produce(s) PROVE Stopped'
    BY <1>3 DEF Produce
  <1>4. ASSUME NEW s \in Submission, Consume(s) PROVE Stopped'
    <2>1. CASE Render(s) \/ Freeze(s) \/ Relooked(s) \/ Return(s)
      BY <2>1 DEF Render, Freeze, Relooked, Return
    <2>2. CASE LoopEnds(s) \/ LoopFails(s) \/ LoopRefused(s) \/ LoopExpired(s)
      BY <2>2 DEF LoopEnds, LoopFails, LoopRefused, Refused, LoopExpired, LeaveLoop
    <2> QED
      BY <1>4, <2>1, <2>2 DEF Consume
  <1>5. ASSUME NEW s \in Submission, NEW r \in Run, Begins(s, r) PROVE Stopped'
    <2>1. /\ controller' = s /\ streamedKey' = r /\ run' = [run EXCEPT ![s] = r]
          /\ consumer[s] = "none" /\ consumer' = [consumer EXCEPT ![s] = "loop"]
          /\ UNCHANGED <<aborted, stopped>>
      BY <1>5 DEF Begins, Submit, AttachToActiveRun, Begin
    <2>2. s \notin aborted
      BY <2>1 DEF Beginning, Unknown
    <2> QED
      BY <2>1, <2>2
  <1> QED
    BY <1>1, <1>2, <1>3, <1>4, <1>5, StepKinds

\* A send that begins empties the input bar; the text a refused one puts back meets another
\* send under way only if the two crossed.
LEMMA BarStep ==
  ASSUME TypeOK, Beginning, BarKnown, [Next]_vars
  PROVE  BarKnown'
  <1> USE DEF TypeOK, BarKnown, Sending, Live, Looping, IsSend, stream, tracker, history, server
  <1>1. CASE ForeignRuns \/ RunEnds \/ Discover \/ UNCHANGED vars
    BY <1>1 DEF ForeignRuns, RunEnds, Discover, vars
  <1>2. CASE Stop
    BY <1>2 DEF Stop, AbortSession
  <1>3. ASSUME NEW s \in Submission, Produce(s) PROVE BarKnown'
    BY <1>3 DEF Produce
  <1>4. ASSUME NEW s \in Submission, Consume(s) PROVE BarKnown'
    <2>1. CASE Render(s) \/ Freeze(s) \/ Relooked(s)
      BY <2>1 DEF Render, Freeze, Relooked
    <2>2. CASE Return(s)
      BY <2>2 DEF Return
    <2>3. ASSUME NEW next \in {"ending", "refused"}, LeaveLoop(s, next),
                 typed' => typed \/ next = "refused"
          PROVE  BarKnown'
      <3>1. Live' = Live \ {s} /\ run' = run /\ overtyped' = overtyped
        BY <2>3 DEF LeaveLoop
      <3>2. crossed' = (crossed \/ Live \ {s} # {})
        BY <2>3 DEF LeaveLoop
      <3> QED
        BY <3>1, <3>2
    <2>4. CASE LoopEnds(s) \/ LoopFails(s) \/ LoopExpired(s)
      BY <2>3, <2>4 DEF LoopEnds, LoopFails, LoopExpired
    <2>5. CASE LoopRefused(s)
      BY <2>3, <2>5 DEF LoopRefused
    <2> QED
      BY <1>4, <2>1, <2>2, <2>4, <2>5 DEF Consume
  <1>5. ASSUME NEW s \in Submission, NEW r \in Run, Begins(s, r) PROVE BarKnown'
    <2>1. CASE Submit(s)
      BY <2>1 DEF Submit
    <2>2. CASE AttachToActiveRun(s, r)
      <3>1. r # s
        BY <2>2 DEF AttachToActiveRun, Begin, Beginning, Unknown
      <3> QED
        BY <2>2, <3>1 DEF AttachToActiveRun, Begin
    <2> QED
      BY <1>5, <2>1, <2>2 DEF Begins
  <1>6. CASE Type
    BY <1>6 DEF Type
  <1>7. CASE Erase
    <2>1. ~typed'
      BY <1>7 DEF Erase
    <2> QED
      BY <2>1
  <1> QED
    BY <1>1, <1>2, <1>3, <1>4, <1>5, <1>6, <1>7, StepKinds

\* What the server has accepted it keeps, and the history only grows.
LEMMA NothingForgotten ==
  ASSUME TypeOK, [Next]_vars, NEW s \in Submission
  PROVE  Accepted(s) => Accepted(s)'
  <1> USE DEF Accepted
  <1>1. CASE ForeignRuns \/ RunEnds \/ Discover \/ Stop \/ Type \/ Erase \/ UNCHANGED vars
    BY <1>1, ForeignIsForeign DEF ForeignRuns, RunEnds, Discover, Stop, Type, Erase, vars, server
  <1>2. ASSUME NEW t \in Submission, Produce(t) PROVE Accepted(s) => Accepted(s)'
    BY <1>2, ForeignIsForeign DEF Produce, SendAccepted, SendRefused, LookedUp, BackedOff, Push, StreamEnds,
                StreamExpires, StreamBreaks, server
  <1>3. ASSUME NEW t \in Submission, Consume(t) PROVE UNCHANGED server
    BY <1>3 DEF Consume, Render, Freeze, LoopEnds, LoopFails, LoopRefused, Relooked, LoopExpired,
                Return, LeaveLoop
  <1>4. ASSUME NEW t \in Submission, NEW r \in Run, Begins(t, r) PROVE UNCHANGED server
    BY <1>4 DEF Begins, Submit, AttachToActiveRun, Begin, server
  <1> QED
    BY <1>1, <1>2, <1>3, <1>4, StepKinds, ForeignIsForeign DEF server, Run

LEMMA DeliveredStep ==
  ASSUME TypeOK, Producing, Beginning, Stopped, BarKnown, Delivered, MessageKept, [Next]_vars
  PROVE  Delivered' /\ MessageKept'
  <1> DEFINE Good(t) ==
        IsSend(t) =>
          /\ producer[t] = "open" \/ error[t] = "gone" => Accepted(t)
          /\ producer[t] = "complete" /\ error[t] = "none" /\ t \notin aborted => Accepted(t)
          /\ consumer[t] = "refused" => t \in kept \/ Dropped(t)
          /\ consumer[t] = "ending" => Accepted(t) \/ t \in kept \union stopped \/ Dropped(t)
  <1>1. \A t \in Submission : Good(t)
    BY DEF Delivered, MessageKept, Accepted
  <1>2. SUFFICES \A t \in Submission : Good(t)'
    BY <1>2 DEF Delivered, MessageKept, Accepted
  <1>3. ASSUME NEW t \in Submission PROVE Accepted(t) => Accepted(t)'
    BY NothingForgotten
  <1>4. CASE ForeignRuns \/ RunEnds \/ Discover \/ Stop \/ Type \/ Erase \/ UNCHANGED vars
    <2>1. /\ UNCHANGED <<run, producer, error, consumer, kept, refused, crossed>>
          /\ overtyped \subseteq overtyped' /\ aborted \subseteq aborted'
          /\ stopped \subseteq stopped'
      BY <1>4 DEF ForeignRuns, RunEnds, Discover, Stop, Type, Erase, AbortSession, vars, stream,
                  history
    <2> QED
      BY <1>1, <1>3, <2>1 DEF IsSend, Dropped
  <1>5. ASSUME NEW s \in Submission, NEW r \in Run, Produce(s) \/ Consume(s) \/ Begins(s, r)
        PROVE  \A t \in Submission : Good(t)'
    <2>1. UNCHANGED stopped
      BY <1>5 DEF Produce, Consume, Begins, Submit, AttachToActiveRun, Begin, Render, Freeze,
                  LoopEnds, LoopFails, LoopRefused, Relooked, LoopExpired, Return, LeaveLoop,
                  history
    <2>2. crossed => crossed'
      BY <1>5, Zenon DEF Produce, Consume, Begins, Submit, AttachToActiveRun, Begin, Render,
                  Freeze, LoopEnds, LoopFails, LoopRefused, Relooked, LoopExpired, Return,
                  LeaveLoop, history
    <2>3. ASSUME NEW t \in Submission, t # s PROVE Good(t)'
      BY <1>1, <1>3, <1>5, <2>1, <2>2, <2>3, OthersStay DEF IsSend, Dropped
    <2>4. Good(s)'
      <3> USE <1>1, <1>3 DEF IsSend, TypeOK, Dropped
      <3>1. CASE Produce(s)
        <4>1. /\ UNCHANGED <<run, consumer, aborted, kept, refused, overtyped, crossed>>
              /\ consumer[s] = "loop"
          BY <3>1 DEF Produce, SendAccepted, SendRefused, LookedUp, BackedOff, Push, StreamEnds,
                      StreamExpires, StreamBreaks, Producing, history
        <4>2. CASE SendAccepted(s) \/ SendRefused(s) \/ Push(s)
          BY <4>1, <4>2 DEF SendAccepted, SendRefused, Push, CompletesWith, Accepted, Producing
        <4>3. CASE LookedUp(s) \/ BackedOff(s)
          BY <4>1, <4>3 DEF LookedUp, BackedOff, Again, CompletesWith, Producing
        <4>4. CASE StreamEnds(s) \/ StreamExpires(s) \/ StreamBreaks(s)
          BY <4>1, <4>4 DEF StreamEnds, StreamExpires, StreamBreaks, CompletesWith, Accepted, server
        <4> QED
          BY <3>1, <4>2, <4>3, <4>4 DEF Produce
      <3>2. CASE Consume(s)
        <4>1. CASE Render(s) \/ Freeze(s)
          BY <4>1 DEF Render, Freeze, stream, history
        <4>2. CASE Relooked(s) \/ Return(s)
          BY <4>2, ForeignIsForeign DEF Relooked, Return, stream, history
        <4>3. CASE LoopEnds(s)
          <5>1. IsSend(s) => Accepted(s) \/ s \in stopped
            BY <4>3 DEF LoopEnds, Stopped, Looping
          <5> QED
            BY <4>3, <5>1, <2>1 DEF LoopEnds, LeaveLoop
        <4>4. CASE LoopRefused(s)
          <5>1. PICK k \in {"new", "edit", "retry"} : Refused(s, k)
            BY <4>4 DEF LoopRefused
          <5>2. s \in Live /\ consumer' = [consumer EXCEPT ![s] = "refused"]
            BY <4>4 DEF LoopRefused, LeaveLoop, Live, Looping
          <5>3. run' = run /\ overtyped' = overtyped /\ (crossed => crossed')
            BY <4>4, <2>2 DEF LoopRefused, LeaveLoop
          <5>4. IsSend(s) => s \in kept' \/ Dropped(s)'
            <6>1. CASE k = "new" /\ typed
              BY <5>1, <5>2, <5>3, <6>1 DEF Refused, Dropped, BarKnown, Sending
            <6>2. CASE k = "edit"
              BY <5>1, <6>2 DEF Refused, Dropped
            <6>3. CASE k = "retry" \/ ~typed
              BY <5>1, <6>2, <6>3 DEF Refused, Dropped
            <6> QED
              BY <6>1, <6>2, <6>3
          <5> QED
            BY <4>4, <5>2, <5>3, <5>4 DEF LoopRefused, LeaveLoop
        <4>5. CASE LoopFails(s) \/ LoopExpired(s)
          BY <4>5 DEF LoopFails, LoopExpired, LeaveLoop
        <4> QED
          BY <3>2, <4>1, <4>2, <4>3, <4>4, <4>5 DEF Consume
      <3>3. CASE Begins(s, r)
        <4>1. consumer[s] = "none" /\ producer[s] = "none" /\ error[s] = "none" /\ s \notin found
          BY <3>3 DEF Begins, Submit, AttachToActiveRun, Begin, Producing, Beginning, Unknown
        <4>2. CASE Submit(s)
          BY <4>1, <4>2 DEF Submit, Begin
        <4>3. CASE AttachToActiveRun(s, r)
          BY <4>1, <4>3 DEF AttachToActiveRun, Begin
        <4> QED
          BY <3>3, <4>2, <4>3 DEF Begins
      <3> QED
        BY <1>5, <3>1, <3>2, <3>3
    <2> QED
      BY <2>3, <2>4
  <1> QED
    BY <1>4, <1>5, StepKinds, ForeignIsForeign DEF Run

-----------------------------------------------------------------------------
(***************************************************************************)
(* The theorems.                                                           *)
(***************************************************************************)

LEMMA IInvHolds == Spec => []IInv
  <1>1. IInv /\ [Next]_vars => IInv'
    BY TypesStep, ProducerStep, BeginningStep, ShownStep, StoppedStep, BarStep, DeliveredStep
       DEF IInv
  <1> QED
    BY InitIInv, <1>1, PTL DEF Spec

\* The variables have their types, with as many submissions, attempts and packets as one
\* likes (onSubmit, chatRunTracker.ts).
THEOREM TypeCorrect == Spec => []TypeOK
  <1>1. IInv => TypeOK
    BY DEF IInv
  <1> QED BY <1>1, IInvHolds, PTL

\* The session shows one stream at a time, as long as no stopped submission ends in the
\* middle of a later one (attachToActiveRun is single-flight, onSubmit looks at chatState).
THEOREM ShowsOneStream == Spec => []OneStream
  <1>1. IInv => OneStream
    <2> SUFFICES ASSUME IInv, ~crossed PROVE Cardinality(Live) <= 1
      BY DEF OneStream
    <2>1. Live \subseteq {controller}
      BY DEF IInv, OneShown
    <2>2. IsFiniteSet({controller}) /\ Cardinality({controller}) = 1
      BY FS_Singleton
    <2>3. Cardinality(Live) <= Cardinality({controller})
      BY <2>1, <2>2, FS_Subset
    <2> QED
      BY <2>2, <2>3
  <1> QED BY <1>1, IInvHolds, PTL

\* An answer the user stopped is not rendered again, under the same proviso: the tracker
\* refuses the attaches that lookups asked for before (chatRunTracker.settleSession).
THEOREM StaysSilent == Spec => []StoppedStaysSilent
  <1>1. IInv => StoppedStaysSilent
    BY DEF IInv, Silent, StoppedStaysSilent
  <1> QED BY <1>1, IInvHolds, PTL

\* What the user sent is not dropped, however often the send is refused, looked up, sent
\* again, cut, or stopped, but for the edits and the new messages under which the user typed
\* something else (sendAfterOwnRunEnds, the catch of onSubmit, restore of AppInputBar).
THEOREM KeepsMessages == Spec => []MessageKept
  <1>1. IInv => MessageKept
    BY DEF IInv
  <1> QED BY <1>1, IInvHolds, PTL
=============================================================================
