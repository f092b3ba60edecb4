------------------------------ MODULE RunStream ------------------------------
(***************************************************************************)
(* What one viewer sees of one run: the log its writer fills, trims and    *)
(* may leave unclosed, the RunEventReader that polls it for an HTTP stream *)
(* (replay, live tail, synthetic end), and the web client that follows the *)
(* run across dropped connections.  Viewers only read, so one is enough.   *)
(*                                                                         *)
(* The writer keeps the promises ChatRuns is checked for: contiguous seqs, *)
(* one run_end behind every frame, [DONE] behind it, an end on record that *)
(* comes first, and no more than that: it may die between any two of them. *)
(***************************************************************************)
EXTENDS Naturals, Sequences

CONSTANTS
  MaxFrames,    \* bound: frames of the run, run_started included
  MaxKept,      \* max_events: XADD may trim the log down to this many
  Batch,        \* batch_size: events of one read
  MaxFailures,  \* maxConsecutiveFailures of the client
  MaxDrops,     \* bound: broken connections and refused attaches
  Stalls        \* a closer, or a reader between two of its awaits, may take longer
                \* than the grace the reader gives a run_end to land

ASSUME BoundsType == /\ MaxFrames \in Nat \ {0} /\ MaxKept \in Nat \ {0}
                     /\ Batch \in Nat \ {0}
                     /\ MaxFailures \in Nat /\ MaxDrops \in Nat
ASSUME StallsType == Stalls \in BOOLEAN

VARIABLES
  \* the writer: what it ever appended, how much of that is trimmed, the status
  \* on record, whether the grace after finished_at is over
  log, trimmed, writer, record, grace,
  \* the reader of the open stream: where it is, the last seq it sent, the last
  \* seq it fetched, the payloads of a synthetic end still to send
  at, last, upto, queue,
  \* the client: its phase, whether it knows the run id and has seen run_end, the
  \* last seq it handled, the seq up to which it suppresses a replay, failures
  client, known, ended, delivered, floor, failures, drops,
  \* what the viewer got: seqs handed on, stop packets, ends told by this stream
  shown, stops, told

writing == <<log, trimmed, writer, record, grace>>
reading == <<at, last, upto, queue>>
viewing == <<client, known, ended, delivered, floor, failures, drops, shown, stops, told>>
vars == <<log, trimmed, writer, record, grace, at, last, upto, queue,
          client, known, ended, delivered, floor, failures, drops, shown, stops, told>>

Settled == {"done", "resync", "expired", "gaveUp", "lost"}

TypeOK ==
  /\ log \in Seq({"started", "token", "end", "DONE"})
  /\ trimmed \in 0..Len(log)
  /\ writer \in {"writing", "closing", "signing", "finished", "dead"}
  /\ record \in {"running", "ended", "gone"}
  /\ grace \in BOOLEAN
  /\ at \in {"closed", "read", "deliver", "lookup", "tail", "synthetic"}
  /\ last \in 0..Len(log) /\ upto \in 0..Len(log)
  /\ queue \in {<<>>, <<"DONE">>, <<"end", "DONE">>}
  /\ client \in {"reading", "waiting"} \union Settled
  /\ known \in BOOLEAN /\ ended \in BOOLEAN
  /\ delivered \in 0..Len(log) /\ floor \in 0..Len(log)
  /\ failures \in 0..MaxFailures + 1 /\ drops \in 0..MaxDrops
  /\ shown \in Seq(1..Len(log)) /\ stops \in Nat
  /\ told \in Seq({"end", "DONE"})

\* The stream of the send itself, opened right after run_started was written.
Init ==
  /\ log = <<"started">> /\ trimmed = 0
  /\ writer = "writing" /\ record = "running" /\ grace = FALSE
  /\ at = "read" /\ last = 0 /\ upto = 0 /\ queue = <<>>
  /\ client = "reading" /\ known = FALSE /\ ended = FALSE
  /\ delivered = 0 /\ floor = 0 /\ failures = 0 /\ drops = 0
  /\ shown = <<>> /\ stops = 0 /\ told = <<>>

-----------------------------------------------------------------------------
\* The writer.

\* XADD MAXLEN ~ max_events: it may trim, but never below max_events.
XAdd(frame) ==
  /\ log' = Append(log, frame)
  /\ \E n \in trimmed..Len(log) :
       /\ n = trimmed \/ Len(log) + 1 - n >= MaxKept
       /\ trimmed' = n

\* Frames land until the run_end does, also those of a zombie behind the mark.
Emit ==
  /\ writer \in {"writing", "closing"}
  /\ Len(log) < MaxFrames
  /\ XAdd("token")
  /\ UNCHANGED <<writer, record, grace, reading, viewing>>

\* mark_terminal by the owner, or by the reaper once the owner is dead.
Finish ==
  /\ record = "running"
  /\ writer \in {"writing", "dead"}
  /\ record' = "ended"
  /\ writer' = "closing"
  /\ UNCHANGED <<log, trimmed, grace, reading, viewing>>

AppendEnd ==
  /\ writer = "closing"
  /\ writer' = "signing"
  /\ XAdd("end")
  /\ UNCHANGED <<record, grace, reading, viewing>>

AppendDone ==
  /\ writer = "signing"
  /\ writer' = "finished"
  /\ XAdd("DONE")
  /\ UNCHANGED <<record, grace, reading, viewing>>

\* A crash, or a close that Redis refused.
WriterDies ==
  /\ writer \in {"writing", "closing", "signing"}
  /\ writer' = "dead"
  /\ UNCHANGED <<log, trimmed, record, grace, reading, viewing>>

\* Two heartbeats after finished_at.  Unless something stalls, whoever closes the
\* log is done by then, and so is the lookup of a reader that found it empty.
GraceElapses ==
  /\ record = "ended" /\ ~grace
  /\ Stalls \/ (writer \in {"finished", "dead"} /\ at # "lookup")
  /\ grace' = TRUE
  /\ UNCHANGED <<log, trimmed, writer, record, reading, viewing>>

\* The record's TTL runs out: long after its streams are closed, or on a run
\* that nobody could finalize for more than an hour (no lookup takes as long).
RecordExpires ==
  /\ \/ record = "ended" /\ grace /\ at = "closed"
     \/ record = "running" /\ at # "lookup"
  /\ writer \in {"finished", "dead"}
  /\ record' = "gone"
  /\ UNCHANGED <<log, trimmed, writer, grace, reading, viewing>>

CloseStep == Finish \/ AppendEnd \/ AppendDone

-----------------------------------------------------------------------------
\* The client's half of what the reader does.

\* handleSSEStream returned or failed: resumableChatStream decides how to go on.
StreamOverRetrying(over, resynced) ==   \* mutant: run_end does not keep it from attaching again
  client' = IF resynced THEN "resync" ELSE "waiting"
StreamOver(over, resynced) ==
  client' = IF over THEN "done" ELSE IF resynced THEN "resync" ELSE "waiting"

\* An event at or below the floor is parsed but not handed on.
Suppressed(n) == n <= floor

\* A sequenced event reaches the client.
Handle(n) ==
  /\ shown' = IF Suppressed(n) THEN shown ELSE Append(shown, n)
  /\ delivered' = IF n > delivered THEN n ELSE delivered
  /\ failures' = IF n > delivered THEN 0 ELSE failures
  /\ known' = (known \/ log[n] = "started")
  /\ ended' = (ended \/ log[n] = "end")
  /\ stops' = IF log[n] = "DONE" /\ ~Suppressed(n) THEN stops + 1 ELSE stops
  /\ told' = IF log[n] \in {"end", "DONE"} THEN Append(told, log[n]) ELSE told

-----------------------------------------------------------------------------
\* RunEventReader._stream.

\* XRANGE answers with what is kept behind the last seq sent; the seqs being
\* contiguous, an answer that does not start with the next one tells of a trim.
Behind == Len(log) > last
Before == IF trimmed > last THEN trimmed ELSE last
GapIgnored == FALSE   \* mutant: the first seq of a read is not checked
Gap == Before # last

\* read_after returns a page ...
ReadPage ==
  /\ at = "read" /\ Behind /\ ~Gap
  /\ at' = "deliver"
  /\ last' = Before
  /\ upto' = IF Len(log) > Before + Batch THEN Before + Batch ELSE Len(log)
  /\ UNCHANGED <<writing, queue, viewing>>

\* ... or finds that what comes next is trimmed away: resync, and out ...
ReadTrimmed ==
  /\ at = "read" /\ Behind /\ Gap
  /\ at' = "closed"
  /\ StreamOver(ended, TRUE)
  /\ UNCHANGED <<writing, last, upto, queue, known, ended, delivered, floor,
                 failures, drops, shown, stops, told>>

\* ... or nothing: once a second, and on its first empty read, the reader asks
\* whether the run ended without a run_end.
ReadNothing ==
  /\ at = "read" /\ ~Behind
  /\ at' = "lookup"
  /\ UNCHANGED <<writing, last, upto, queue, viewing>>

\* One event of the page is sent; [DONE] ends the stream.
Deliver ==
  /\ at = "deliver"
  /\ last' = last + 1
  /\ Handle(last + 1)
  /\ IF log[last + 1] = "DONE"
       THEN at' = "closed" /\ StreamOver(ended, FALSE)
       ELSE at' = (IF last + 1 = upto THEN "read" ELSE "deliver") /\ UNCHANGED client
  /\ UNCHANGED <<writing, upto, queue, floor, drops>>

\* _synthetic_end: the record says whether the writer is overdue ...
OverdueAtOnce == record # "running"   \* mutant: no grace for a run_end to land
OverdueIfGone == record = "gone"      \* mutant: a terminal record does not end the stream
Overdue == record = "gone" \/ (record = "ended" /\ grace)
Lookup ==
  /\ at = "lookup"
  /\ at' = IF Overdue THEN "tail" ELSE "read"
  /\ UNCHANGED <<writing, last, upto, queue, viewing>>

\* ... and the log whether it already told the end.  (What last_seq saw can not
\* change before the entry is read.)
LogEndIgnored == FALSE   \* mutant: the tail is not looked at
LogEndsWithRunEnd == log[Len(log)] = "end"
CheckTail ==
  /\ at = "tail"
  /\ at' = "synthetic"
  /\ queue' = IF LogEndsWithRunEnd THEN <<"DONE">> ELSE <<"end", "DONE">>
  /\ UNCHANGED <<writing, last, upto, viewing>>

\* The synthetic payloads carry no seq, so nothing suppresses them.
Synthesize ==
  /\ at = "synthetic"
  /\ LET payload == queue[1] IN
       /\ queue' = SubSeq(queue, 2, Len(queue))
       /\ told' = Append(told, payload)
       /\ ended' = (ended \/ payload = "end")
       /\ stops' = IF payload = "DONE" THEN stops + 1 ELSE stops
       /\ IF payload = "DONE"
            THEN at' = "closed" /\ StreamOver(ended, FALSE)
            ELSE UNCHANGED <<at, client>>
  /\ UNCHANGED <<writing, last, upto, known, delivered, floor, failures, drops, shown>>

ReaderStep ==
  \/ ReadPage \/ ReadTrimmed \/ ReadNothing \/ Deliver \/ Lookup \/ CheckTail \/ Synthesize

-----------------------------------------------------------------------------
\* The network, and resumableChatStream between two streams.

\* The connection breaks; the reader's generator is closed with it.
Drop ==
  /\ at # "closed"
  /\ drops < MaxDrops
  /\ drops' = drops + 1
  /\ at' = "closed"
  /\ queue' = <<>>
  /\ StreamOver(ended, FALSE)
  /\ UNCHANGED <<writing, last, upto, known, ended, delivered, floor, failures,
                 shown, stops, told>>

\* A client that never learned its run id looks for its thread's active run,
\* which an ended run, or one whose lease just lapsed, is not any more.
Discover ==
  /\ client = "waiting" /\ ~known
  /\ \/ record = "running" /\ known' = TRUE /\ UNCHANGED client
     \/ client' = "lost" /\ UNCHANGED known
  /\ UNCHANGED <<writing, reading, ended, delivered, floor, failures, drops,
                 shown, stops, told>>

\* Attach again: from the start with what was shown suppressed (the web client),
\* or from Last-Event-ID (any other client of the endpoint).
Attach ==
  /\ client = "waiting" /\ known
  /\ failures < MaxFailures /\ record # "gone"
  /\ failures' = failures + 1
  /\ \E after \in {0, delivered} : last' = after /\ upto' = after
  /\ at' = "read"
  /\ client' = "reading"
  /\ floor' = delivered
  /\ told' = <<>>
  /\ UNCHANGED <<writing, queue, known, ended, delivered, drops, shown, stops>>

AttachFails ==
  /\ client = "waiting" /\ known
  /\ failures < MaxFailures
  /\ drops < MaxDrops
  /\ drops' = drops + 1
  /\ failures' = failures + 1
  /\ UNCHANGED <<writing, reading, client, known, ended, delivered, floor,
                 shown, stops, told>>

\* 404, or too many attempts without a new event.
GiveUp ==
  /\ client = "waiting" /\ known
  /\ \/ failures < MaxFailures /\ record = "gone" /\ client' = "expired"
     \/ failures >= MaxFailures /\ client' = "gaveUp"
  /\ UNCHANGED <<writing, reading, known, ended, delivered, floor, failures, drops,
                 shown, stops, told>>

ClientStep == Discover \/ Attach \/ GiveUp

Next == \/ Emit \/ CloseStep \/ WriterDies \/ GraceElapses \/ RecordExpires
        \/ ReaderStep \/ Drop \/ ClientStep \/ AttachFails

Spec == Init /\ [][Next]_vars

\* A reader polls, a client retries, an ended run is put on record (ChatRuns,
\* EventuallyFinished) and its closer goes on unless it dies.  Time passes, also
\* for a reader that is busy with lookups again and again.
Fairness == /\ WF_vars(ReaderStep) /\ WF_vars(ClientStep)
            /\ WF_vars(CloseStep) /\ SF_vars(GraceElapses)

FairSpec == Spec /\ Fairness

-----------------------------------------------------------------------------
\* Whatever is trimmed, dropped and replayed, the viewer is handed the run's
\* events in order, none missing and none twice, or is told to resync.
NoGapNoRepeat == shown = [k \in 1..Len(shown) |-> k]

\* One HTTP stream tells the end of the run once and then [DONE], be it read from
\* the log or made up for a writer that died in between (reader.py:111-116).
WellEnded == told \in {<<>>, <<"end">>, <<"end", "DONE">>}

\* A client that takes the run for ended has all of the answer there ever will be.
DoneIsWhole ==
  client = "done" => \A k \in DOMAIN log : log[k] \in {"started", "token"} => k <= delivered

\* The viewer's answer is stopped once, over all of its streams.
StoppedOnce == stops <= 1

\* A client never hangs on a run, wherever its writer died.
EventuallySettled == <>(client \in Settled)
=============================================================================
