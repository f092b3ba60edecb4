------------------------------ MODULE ChatRuns ------------------------------
(***************************************************************************)
(* The durable chat-run subsystem of agent-service: the Redis registry and *)
(* the fenced event log, the ChatRunSupervisor of every process (start,    *)
(* drive, finalize, heartbeat, shutdown), the orphan closers (the reaper   *)
(* and a send that reclaims a stale thread lock), process crashes, lapsed  *)
(* leases and failed or half-failed Redis calls.                           *)
(*                                                                         *)
(* Every Lua script and every single Redis command is one atomic step; the *)
(* code between two awaits runs in one step with the reply it reacts to.   *)
(* A run id is used once, so a run is modelled by its id.  Key lifetimes   *)
(* (EXPIRE) are not modelled: a key outlives everybody who still uses it.  *)
(***************************************************************************)
EXTENDS Integers, Sequences, FiniteSets

CONSTANTS
  Run,          \* run ids, each drawn by one send
  Thread,       \* chat threads
  Instance,     \* agent-service processes
  ThreadOf,     \* the thread each run's send addresses
  MaxFrames,    \* bound: frames a run's agent emits
  MaxUpsets,    \* bound: what disturbs a behaviour, that is failed Redis calls, crashes,
                \* shutdowns, user stops and leases that lapse under a live task
  MaxAttempts,  \* tries of one close_event_log append (3 in the code)
  None          \* no run, nobody

ASSUME ThreadOfType == ThreadOf \in [Run -> Thread]
ASSUME BoundsType == /\ MaxFrames \in Nat
                     /\ MaxUpsets \in Nat
                     /\ MaxAttempts \in Nat \ {0}
ASSUME NoneFresh == None \notin Run \union Instance
ASSUME ActorsDistinct == Run \cap Instance = {}

Terminal == {"completed", "failed", "cancelled", "interrupted"}
Status == {"absent", "running"} \union Terminal

\* What an append stores.  A run_end frame is written as the status it carries.
EndFrame == Terminal
Frame == {"run_started", "token", "meta", "DONE"} \union EndFrame

\* _StopReason; the terminal status each one imposes on the run.
Reason == {"none", "cancel", "shutdown", "lease_lost"}
ReasonStatus(why) == IF why = "cancel" THEN "cancelled" ELSE "interrupted"

\* How a Redis call ends: it takes effect and answers, it takes effect and the
\* caller gets an exception, or it has no effect and the caller gets one.
Reply == {"ok", "lost", "failed"}

StartPc == {"reclaimMark", "reclaimWait", "starting", "checking",
            "registering", "abortMark", "abortRelease"}
LivePc == {"driving", "finalMark", "finalClose", "finalRelease"}
RestPc == {"idle", "done", "refused", "unavailable", "dead"}
Pc == StartPc \union LivePc \union RestPc

CloserPc == {"none", "readEnd", "appendEnd", "readDone", "appendDone",
             "release", "finished", "dead"}

VARIABLES
  \* Redis
  lock,      \* thread -> the run its lock key names
  lease,     \* run -> its lease key exists
  status,    \* run -> the status field of its hash
  running,   \* the set of running run ids
  log,       \* run -> its stream, entries [seq, frame]
  flagged,   \* runs with a cancel flag
  \* the task that starts, drives and finalizes each run
  pc, owner, prev, stopSeen, reason, outcome, lastSeq, sent,
  \* the task that closes each run's log, at most one per run
  closer, closedBy, closeSeq, attempt,
  \* processes
  mode, snapshot, reaping,
  upsets

redis == <<lock, lease, status, running, log, flagged>>
driver == <<pc, owner, prev, stopSeen, reason, outcome, lastSeq, sent>>
closing == <<closer, closedBy, closeSeq, attempt>>
process == <<mode, snapshot, reaping>>
vars == <<lock, lease, status, running, log, flagged,
          pc, owner, prev, stopSeen, reason, outcome, lastSeq, sent,
          closer, closedBy, closeSeq, attempt,
          mode, snapshot, reaping, upsets>>

RedisOK ==
  /\ lock \in [Thread -> Run \union {None}]
  /\ lease \in [Run -> BOOLEAN]
  /\ status \in [Run -> Status]
  /\ running \in SUBSET Run
  /\ log \in [Run -> Seq([seq : Nat, frame : Frame])]
  /\ flagged \in SUBSET Run

DriverOK ==
  /\ pc \in [Run -> Pc]
  /\ owner \in [Run -> Instance \union {None}]
  /\ prev \in [Run -> Run \union {None}]
  /\ stopSeen \in [Run -> BOOLEAN]
  /\ reason \in [Run -> Reason]
  /\ outcome \in [Run -> Terminal \union {"none"}]
  /\ lastSeq \in [Run -> Nat]
  /\ sent \in [Run -> {"none", "token", "meta"}]

ClosingOK ==
  /\ closer \in [Run -> CloserPc]
  /\ closedBy \in [Run -> Run \union Instance \union {None}]
  /\ closeSeq \in [Run -> Nat]
  /\ attempt \in [Run -> Nat]

ProcessOK ==
  /\ mode \in [Instance -> {"up", "draining", "drained", "down"}]
  /\ snapshot \in [Instance -> SUBSET Run]
  /\ reaping \in [Instance -> Run \union {None}]

TypeOK == RedisOK /\ DriverOK /\ ClosingOK /\ ProcessOK /\ upsets \in 0..MaxUpsets

Init ==
  /\ lock = [t \in Thread |-> None]
  /\ lease = [r \in Run |-> FALSE]
  /\ status = [r \in Run |-> "absent"]
  /\ running = {}
  /\ log = [r \in Run |-> <<>>]
  /\ flagged = {}
  /\ pc = [r \in Run |-> "idle"]
  /\ owner = [r \in Run |-> None]
  /\ prev = [r \in Run |-> None]
  /\ stopSeen = [r \in Run |-> FALSE]
  /\ reason = [r \in Run |-> "none"]
  /\ outcome = [r \in Run |-> "none"]
  /\ lastSeq = [r \in Run |-> 0]
  /\ sent = [r \in Run |-> "none"]
  /\ closer = [r \in Run |-> "none"]
  /\ closedBy = [r \in Run |-> None]
  /\ closeSeq = [r \in Run |-> 0]
  /\ attempt = [r \in Run |-> 0]
  /\ mode = [i \in Instance |-> "up"]
  /\ snapshot = [i \in Instance |-> {}]
  /\ reaping = [i \in Instance |-> None]
  /\ upsets = 0

-----------------------------------------------------------------------------
(***************************************************************************)
(* Redis calls.  Each takes the reply the caller gets; "failed" leaves the *)
(* keys alone, "ok" and "lost" apply the command.                          *)
(***************************************************************************)

\* Whatever disturbs a behaviour is paid for from one budget.
Upset == upsets < MaxUpsets /\ upsets' = upsets + 1
Spend(o) == IF o = "ok" THEN UNCHANGED upsets ELSE Upset

\* _ACQUIRE refuses while the lock's holder has a lease.
Holder(t) == lock[t]
BusyNever(t) == FALSE   \* mutant: the holder's lease is not looked at
Busy(t) == Holder(t) # None /\ lease[Holder(t)]

\* _ACQUIRE, the branch that takes the lock.
Take(r) ==
  /\ lock' = [lock EXCEPT ![ThreadOf[r]] = r]
  /\ lease' = [lease EXCEPT ![r] = TRUE]
  /\ status' = [status EXCEPT ![r] = "running"]
  /\ running' = running \union {r}

\* _MARK_TERMINAL: the first writer wins.
MarkAlwaysWins(r, o) == o # "failed"   \* mutant: no test of the status
MarkWinsLeased(r, o) ==                \* mutant: a mark fenced by the lease
  o # "failed" /\ status[r] = "running" /\ lease[r]
MarkWins(r, o) == o # "failed" /\ status[r] = "running"
MarkTerminalNoSrem(r, end, o) ==       \* mutant: no SREM
  /\ status' = IF MarkWins(r, o) THEN [status EXCEPT ![r] = end] ELSE status
  /\ UNCHANGED running
MarkTerminal(r, end, o) ==
  IF MarkWins(r, o)
    THEN /\ status' = [status EXCEPT ![r] = end]
         /\ running' = running \ {r}
    ELSE UNCHANGED <<status, running>>

\* _RELEASE_RUN_LEASE: compare-and-delete of the lock, delete of the lease.
Release(r, o) ==
  IF o # "failed"
    THEN /\ lock' = [lock EXCEPT ![ThreadOf[r]] = IF @ = r THEN None ELSE @]
         /\ lease' = [lease EXCEPT ![r] = FALSE]
    ELSE UNCHANGED <<lock, lease>>

\* XREVRANGE COUNT 1.
LastSeq(r) == IF log[r] = <<>> THEN 0 ELSE log[r][Len(log[r])].seq

\* XADD with an explicit id: refused at or below the last id.
AcceptsAny(r, seq) == TRUE   \* mutant: ids drawn by Redis, no fencing
Accepts(r, seq) == seq > LastSeq(r)
XAddUnfenced(r, seq, frame, o) ==   \* mutant: stored, whatever its id
  IF o # "failed"
    THEN log' = [log EXCEPT ![r] = Append(@, [seq |-> seq, frame |-> frame])]
    ELSE UNCHANGED log
XAdd(r, seq, frame, o) ==
  IF o # "failed" /\ Accepts(r, seq)
    THEN log' = [log EXCEPT ![r] = Append(@, [seq |-> seq, frame |-> frame])]
    ELSE UNCHANGED log

\* What the caller of append sees: success only for an applied, answered XADD.
AppendedSwallowed(r, seq, o) == TRUE   \* mutant: errors of an append are swallowed
Appended(r, seq, o) == o = "ok" /\ Accepts(r, seq)

-----------------------------------------------------------------------------
(***************************************************************************)
(* Closing a run's log: close_event_log, called by the task that won       *)
(* mark_terminal, which is the run's own _finalize or a finalize_orphan.   *)
(***************************************************************************)

\* The winner of mark_terminal goes on to close the log.
BeginClose(r, who) ==
  /\ closer' = [closer EXCEPT ![r] = "readEnd"]
  /\ closedBy' = [closedBy EXCEPT ![r] = who]
  /\ UNCHANGED <<closeSeq, attempt>>

\* The status close_event_log was told to write.
CloseStatusLost(r) == "interrupted"   \* mutant: the owner's close, too, is an orphan's
CloseStatus(r) == IF closedBy[r] = r THEN outcome[r] ELSE "interrupted"

\* The task that waited for the close goes on: a send that reclaimed the
\* thread starts its own run, a reaper takes the next orphan.
Resume(r) ==
  /\ pc' = IF closedBy[r] \in Run /\ pc[closedBy[r]] = "reclaimWait"
             THEN [pc EXCEPT ![closedBy[r]] = "starting"] ELSE pc
  /\ reaping' = IF closedBy[r] \in Instance
                  THEN [reaping EXCEPT ![closedBy[r]] = None] ELSE reaping

\* close_event_log returned or raised.  _finalize releases next; an orphan
\* closer frees the thread with its own _release.
EndClose(r) ==
  /\ closer' = [closer EXCEPT ![r] = IF closedBy[r] = r THEN "finished" ELSE "release"]
  /\ closeSeq' = [closeSeq EXCEPT ![r] = 0]
  /\ attempt' = [attempt EXCEPT ![r] = 0]
  /\ pc' = IF closedBy[r] = r THEN [pc EXCEPT ![r] = "finalRelease"] ELSE pc

\* _append_after_last reads the last seq ...
CloseRead(r) ==
  /\ closer[r] \in {"readEnd", "readDone"}
  /\ \E o \in {"ok", "failed"} :
       /\ Spend(o)
       /\ \/ /\ o = "ok"
             /\ closeSeq' = [closeSeq EXCEPT ![r] = LastSeq(r) + 1]
             /\ closer' = [closer EXCEPT ![r] = IF @ = "readEnd" THEN "appendEnd" ELSE "appendDone"]
             /\ UNCHANGED <<pc, attempt>>
          \/ /\ o = "failed"
             /\ EndClose(r)
  /\ UNCHANGED <<redis, owner, prev, stopSeen, reason, outcome, lastSeq, sent,
                 closedBy, process>>

\* ... and appends behind it; a refusal means a fenced writer took the seq, so
\* it reads again, MaxAttempts times at most.  Any other error ends the close.
CloseAppend(r) ==
  /\ closer[r] \in {"appendEnd", "appendDone"}
  /\ LET isEnd == closer[r] = "appendEnd"
         frame == IF isEnd THEN CloseStatus(r) ELSE "DONE"
     IN  \E o \in Reply :
           /\ Spend(o)
           /\ XAdd(r, closeSeq[r], frame, o)
           /\ \/ /\ Appended(r, closeSeq[r], o) /\ isEnd
                 /\ closer' = [closer EXCEPT ![r] = "readDone"]
                 /\ attempt' = [attempt EXCEPT ![r] = 0]
                 /\ closeSeq' = [closeSeq EXCEPT ![r] = 0]
                 /\ UNCHANGED pc
              \/ /\ o = "ok" /\ ~Accepts(r, closeSeq[r])
                 /\ attempt[r] + 1 < MaxAttempts
                 /\ closer' = [closer EXCEPT ![r] = IF isEnd THEN "readEnd" ELSE "readDone"]
                 /\ attempt' = [attempt EXCEPT ![r] = @ + 1]
                 /\ closeSeq' = [closeSeq EXCEPT ![r] = 0]
                 /\ UNCHANGED pc
              \/ /\ \/ o # "ok"
                    \/ Accepts(r, closeSeq[r]) /\ ~isEnd
                    \/ ~Accepts(r, closeSeq[r]) /\ attempt[r] + 1 >= MaxAttempts
                 /\ EndClose(r)
  /\ UNCHANGED <<lock, lease, status, running, flagged, owner, prev, stopSeen,
                 reason, outcome, lastSeq, sent, closedBy, process>>

\* The last step of finalize_orphan: _release, whatever failed before it.
OrphanRelease(r) ==
  /\ closer[r] = "release"
  /\ \E o \in Reply :
       /\ Spend(o)
       /\ Release(r, o)
  /\ closer' = [closer EXCEPT ![r] = "finished"]
  /\ Resume(r)
  /\ UNCHANGED <<status, running, log, flagged, owner, prev, stopSeen, reason,
                 outcome, lastSeq, sent, closedBy, closeSeq, attempt, mode, snapshot>>

CloserStep(r) == CloseRead(r) \/ CloseAppend(r) \/ OrphanRelease(r)

-----------------------------------------------------------------------------
(***************************************************************************)
(* ChatRunSupervisor.start.                                                *)
(***************************************************************************)
Goto(r, label) == pc' = [pc EXCEPT ![r] = label]

AcceptingWhileAlive(i) == mode[i] # "down"   \* mutant: shutdown() leaves _accepting set
Accepting(i) == mode[i] = "up"

\* A send reaches an accepting instance, which draws a run id and calls
\* try_acquire: 409 on a live holder, 503 on an error, else the thread is ours,
\* possibly reclaimed from a holder whose lease is gone.  (A shutdown between the
\* check of _accepting and the acquire is like one right after the acquire.)
Acquire(r, i) ==
  /\ pc[r] = "idle"
  /\ Accepting(i)
  /\ owner' = [owner EXCEPT ![r] = i]
  /\ \E o \in Reply :
       /\ Spend(o)
       /\ IF o = "failed" \/ Busy(ThreadOf[r])
            THEN UNCHANGED <<lock, lease, status, running>>
            ELSE Take(r)
       /\ LET was == Holder(ThreadOf[r])
          IN  \/ /\ o # "ok"
                 /\ Goto(r, "unavailable")
                 /\ UNCHANGED prev
              \/ /\ o = "ok" /\ Busy(ThreadOf[r])
                 /\ Goto(r, "refused")
                 /\ UNCHANGED prev
              \/ /\ o = "ok" /\ ~Busy(ThreadOf[r])
                 /\ Goto(r, IF was = None THEN "starting" ELSE "reclaimMark")
                 /\ prev' = [prev EXCEPT ![r] = was]
  /\ UNCHANGED <<log, flagged, stopSeen, reason, outcome, lastSeq, sent,
                 closing, process>>

\* _finalize_reclaimed: a failure of any of it is logged and swallowed.
ReclaimMark(r) ==
  /\ pc[r] = "reclaimMark"
  /\ \E o \in Reply :
       /\ Spend(o)
       /\ MarkTerminal(prev[r], "interrupted", o)
       /\ IF o = "ok" /\ MarkWins(prev[r], o)
            THEN BeginClose(prev[r], r) /\ Goto(r, "reclaimWait")
            ELSE Goto(r, "starting") /\ UNCHANGED closing
  /\ UNCHANGED <<lock, lease, log, flagged, owner, prev, stopSeen, reason,
                 outcome, lastSeq, sent, process>>

\* run_started is frame 1; then the stream is given its lifetime, which may
\* fail after the frame landed.  Either failure rolls the start back.
AppendStarted(r) ==
  /\ pc[r] = "starting"
  /\ \E o \in Reply :
       /\ Spend(o)
       /\ XAdd(r, 1, "run_started", o)
       /\ Goto(r, IF Appended(r, 1, o) THEN "checking" ELSE "abortMark")
  /\ UNCHANGED <<lock, lease, status, running, flagged, owner, prev, stopSeen,
                 reason, outcome, lastSeq, sent, closing, process>>

\* _stop_requested_before_start; an error counts as "no stop".
CheckStop(r) ==
  /\ pc[r] = "checking"
  /\ \E o \in {"ok", "failed"} :
       /\ Spend(o)
       /\ stopSeen' = [stopSeen EXCEPT ![r] = o = "ok" /\ r \in flagged]
  /\ Goto(r, "registering")
  /\ UNCHANGED <<redis, owner, prev, reason, outcome, lastSeq, sent, closing, process>>

\* The await-free tail of start: roll back when shutdown() has begun, else
\* register the run and start its task, which skips the agent if a stop is due.
Register(r) ==
  /\ pc[r] = "registering"
  /\ \/ /\ ~Accepting(owner[r])
        /\ Goto(r, "abortMark")
        /\ UNCHANGED <<outcome, lastSeq>>
     \/ /\ Accepting(owner[r])
        /\ lastSeq' = [lastSeq EXCEPT ![r] = 1]
        /\ IF stopSeen[r]
             THEN /\ Goto(r, "finalMark")
                  /\ outcome' = [outcome EXCEPT ![r] = ReasonStatus("cancel")]
             ELSE /\ Goto(r, "driving")
                  /\ UNCHANGED outcome
  /\ stopSeen' = [stopSeen EXCEPT ![r] = FALSE]
  /\ UNCHANGED <<redis, owner, prev, reason, sent, closing, process, upsets>>

\* _abort_start: the first failing step ends the rollback.
AbortMark(r) ==
  /\ pc[r] = "abortMark"
  /\ \E o \in Reply :
       /\ Spend(o)
       /\ MarkTerminal(r, "failed", o)
       /\ Goto(r, IF o = "ok" THEN "abortRelease" ELSE "unavailable")
  /\ UNCHANGED <<lock, lease, log, flagged, owner, prev, stopSeen, reason,
                 outcome, lastSeq, sent, closing, process>>

AbortRelease(r) ==
  /\ pc[r] = "abortRelease"
  /\ \E o \in Reply : Spend(o) /\ Release(r, o)
  /\ Goto(r, "unavailable")
  /\ UNCHANGED <<status, running, log, flagged, owner, prev, stopSeen, reason,
                 outcome, lastSeq, sent, closing, process>>

StartStep(r) ==
  \/ ReclaimMark(r) \/ AppendStarted(r) \/ CheckStop(r)
  \/ Register(r) \/ AbortMark(r) \/ AbortRelease(r)

-----------------------------------------------------------------------------
(***************************************************************************)
(* _drive and _finalize.  A frame is numbered and handed to the Redis      *)
(* pipeline (Emit), and lands later (Land): the task may be cancelled in   *)
(* between, and the command then still reaches Redis or is dropped.        *)
(***************************************************************************)

\* Once a stop is recorded a content delta is skipped; other frames are kept.
NextFrame(r) == IF reason[r] = "none" THEN "token" ELSE "meta"

Emit(r) ==
  /\ pc[r] = "driving"
  /\ sent[r] = "none"
  /\ lastSeq[r] <= MaxFrames
  /\ lastSeq' = [lastSeq EXCEPT ![r] = @ + 1]
  /\ sent' = [sent EXCEPT ![r] = NextFrame(r)]
  /\ UNCHANGED <<redis, pc, owner, prev, stopSeen, reason, outcome, closing, process, upsets>>

\* What _drive hands to _finalize: a stop reason overrides the agent's outcome.
Outcome(r, end) == IF reason[r] = "none" THEN end ELSE ReasonStatus(reason[r])

EndDrive(r, end) ==
  /\ Goto(r, "finalMark")
  /\ outcome' = [outcome EXCEPT ![r] = Outcome(r, end)]
  /\ reason' = [reason EXCEPT ![r] = "none"]

\* A failed or refused append raises out of _drive_frames.
Land(r) ==
  /\ sent[r] # "none"
  /\ \E o \in Reply :
       /\ IF pc[r] = "driving" THEN Spend(o) ELSE UNCHANGED upsets
       /\ XAdd(r, lastSeq[r], sent[r], o)
       /\ IF pc[r] = "driving" /\ ~Appended(r, lastSeq[r], o)
            THEN EndDrive(r, "failed")
            ELSE UNCHANGED <<pc, outcome, reason>>
  /\ sent' = [sent EXCEPT ![r] = "none"]
  /\ UNCHANGED <<lock, lease, status, running, flagged, owner, prev, stopSeen,
                 lastSeq, closing, process>>

\* The agent's generator returns, fails or reported an error frame.
AgentEnds(r) ==
  /\ pc[r] = "driving"
  /\ sent[r] = "none"
  /\ \E end \in {"completed", "failed"} : EndDrive(r, end)
  /\ UNCHANGED <<redis, owner, prev, stopSeen, lastSeq, sent, closing, process, upsets>>

\* The run times out, or the hard cancel of a stop fires; both hit the task
\* even while it waits for an append.
DriveCut(r) ==
  /\ pc[r] = "driving"
  /\ EndDrive(r, "failed")
  /\ UNCHANGED <<redis, owner, prev, stopSeen, lastSeq, sent, closing, process, upsets>>

\* _finalize: only the winner of mark_terminal closes the log ...
FinalMark(r) ==
  /\ pc[r] = "finalMark"
  /\ \E o \in Reply :
       /\ Spend(o)
       /\ MarkTerminal(r, outcome[r], o)
       /\ IF o = "ok" /\ MarkWins(r, o)
            THEN BeginClose(r, r) /\ Goto(r, "finalClose")
            ELSE Goto(r, "finalRelease") /\ UNCHANGED closing
  /\ UNCHANGED <<lock, lease, log, flagged, owner, prev, stopSeen, reason,
                 outcome, lastSeq, sent, process>>

\* ... and everyone releases, whatever failed before.
FinalRelease(r) ==
  /\ pc[r] = "finalRelease"
  /\ \E o \in Reply : Spend(o) /\ Release(r, o)
  /\ Goto(r, "done")
  /\ outcome' = [outcome EXCEPT ![r] = "none"]
  /\ UNCHANGED <<status, running, log, flagged, owner, prev, stopSeen, reason,
                 lastSeq, sent, closing, process>>

DriveStep(r) ==
  Emit(r) \/ AgentEnds(r) \/ DriveCut(r) \/ FinalMark(r) \/ FinalRelease(r)

-----------------------------------------------------------------------------
(***************************************************************************)
(* Leases and stops.                                                       *)
(***************************************************************************)

\* A task of the run is alive: a driving run renews its lease, and no other
\* step takes as long as the lease unless something stalls it.
Attended(r) == pc[r] \in StartPc \union LivePc

\* Nobody renews the lease of an abandoned run.
LeaseWithoutTtl(r) == FALSE /\ UNCHANGED vars   \* mutant: a lease without PX
LeaseLapses(r) ==
  /\ lease[r] /\ ~Attended(r)
  /\ lease' = [lease EXCEPT ![r] = FALSE]
  /\ UNCHANGED <<lock, status, running, log, flagged, driver, closing, process, upsets>>

\* A stalled event loop, a slow start or a Redis out of reach outlasts it.
LeaseLapsesUnderOwner(r) ==
  /\ lease[r] /\ Attended(r)
  /\ Upset
  /\ lease' = [lease EXCEPT ![r] = FALSE]
  /\ UNCHANGED <<lock, status, running, log, flagged, driver, closing, process>>

\* _stop: the first reason wins.
Stop(S, why) ==
  reason' = [r \in Run |-> IF r \in S /\ reason[r] = "none" THEN why ELSE reason[r]]

\* One heartbeat that finds something: the lease is gone (it can not be
\* renewed back to life), or another instance set the cancel flag.
Heartbeat(r) ==
  /\ pc[r] = "driving"
  /\ reason[r] = "none"
  /\ \/ ~lease[r] /\ Stop({r}, "lease_lost")
     \/ lease[r] /\ r \in flagged /\ Stop({r}, "cancel")
  /\ UNCHANGED <<redis, pc, owner, prev, stopSeen, outcome, lastSeq, sent,
                 closing, process, upsets>>

\* cancel_local_for_thread on instance i.
StopLocal(t, i) ==
  /\ mode[i] # "down"
  /\ LET here == {r \in Run : pc[r] = "driving" /\ owner[r] = i /\ ThreadOf[r] = t}
     IN  here # {} /\ Stop(here, "cancel")
  /\ Upset
  /\ UNCHANGED <<redis, pc, owner, prev, stopSeen, outcome, lastSeq, sent,
                 closing, process>>

\* The registry half of supervisor.cancel, from any instance: an unfinished
\* run gets a cancel flag.
RequestCancel(r) ==
  /\ status[r] = "running"
  /\ r \notin flagged
  /\ flagged' = flagged \union {r}
  /\ Upset
  /\ UNCHANGED <<lock, lease, status, running, log, driver, closing, process>>

-----------------------------------------------------------------------------
(***************************************************************************)
(* The reaper of instance i: one orphan at a time.                         *)
(***************************************************************************)
Looks(i) == mode[i] # "down" /\ reaping[i] = None

\* A run of the running set without a lease ...
ReaperFindsAny(i, r) ==   \* mutant: has_live_lease is not asked
  /\ Looks(i)
  /\ r \in running
  /\ reaping' = [reaping EXCEPT ![i] = r]
  /\ UNCHANGED <<redis, driver, closing, mode, snapshot, upsets>>
ReaperFinds(i, r) ==
  /\ Looks(i)
  /\ r \in running /\ ~lease[r]
  /\ reaping' = [reaping EXCEPT ![i] = r]
  /\ UNCHANGED <<redis, driver, closing, mode, snapshot, upsets>>

\* ... is finalized as an orphan, unless somebody was faster.
ReaperMarks(i) ==
  LET r == reaping[i] IN
  /\ r # None
  /\ closedBy[r] # i
  /\ \E o \in Reply :
       /\ Spend(o)
       /\ MarkTerminal(r, "interrupted", o)
       /\ IF o = "ok" /\ MarkWins(r, o)
            THEN BeginClose(r, i) /\ UNCHANGED reaping
            ELSE UNCHANGED closing /\ reaping' = [reaping EXCEPT ![i] = None]
  /\ UNCHANGED <<lock, lease, log, flagged, driver, mode, snapshot>>

ReaperStep(i) == ReaperMarks(i) \/ \E r \in Run : ReaperFinds(i, r)

-----------------------------------------------------------------------------
(***************************************************************************)
(* Processes.                                                              *)
(***************************************************************************)
LiveOn(i) == {r \in Run : owner[r] = i /\ pc[r] \in LivePc}

\* shutdown() closes the door and snapshots the live runs in one step ...
Shutdown(i) ==
  /\ mode[i] = "up"
  /\ Upset
  /\ mode' = [mode EXCEPT ![i] = "draining"]
  /\ snapshot' = [snapshot EXCEPT ![i] = LiveOn(i)]
  /\ UNCHANGED <<redis, driver, closing, reaping>>

\* ... stops what outlives the grace period ...
ShutdownStops(i) ==
  /\ mode[i] = "draining"
  /\ \E r \in snapshot[i] : pc[r] = "driving" /\ reason[r] = "none"
  /\ Stop({r \in snapshot[i] : pc[r] = "driving"}, "shutdown")
  /\ UNCHANGED <<redis, pc, owner, prev, stopSeen, outcome, lastSeq, sent,
                 closing, process, upsets>>

\* ... and returns once every run of the snapshot is finalized.
ShutdownReturns(i) ==
  /\ mode[i] = "draining"
  /\ \A r \in snapshot[i] : pc[r] = "done"
  /\ mode' = [mode EXCEPT ![i] = "drained"]
  /\ UNCHANGED <<redis, driver, closing, snapshot, reaping, upsets>>

\* The process ends: after a drained shutdown, or by a crash or a shutdown
\* that ran out of time.  Its tasks vanish between two of their awaits; a
\* command already sent to Redis stays on its way.
Gone(i) ==
  /\ mode' = [mode EXCEPT ![i] = "down"]
  /\ snapshot' = [snapshot EXCEPT ![i] = {}]
  /\ reaping' = [reaping EXCEPT ![i] = None]
  /\ pc' = [r \in Run |-> IF owner[r] = i /\ pc[r] \in StartPc \union LivePc
                            THEN "dead" ELSE pc[r]]
  /\ closer' = [r \in Run |->
                  IF /\ closer[r] \notin {"none", "finished"}
                     /\ \/ closedBy[r] = i
                        \/ closedBy[r] \in Run /\ owner[closedBy[r]] = i
                    THEN "dead" ELSE closer[r]]
  /\ UNCHANGED <<redis, owner, prev, stopSeen, reason, outcome, lastSeq, sent,
                 closedBy, closeSeq, attempt>>

Exit(i) == mode[i] = "drained" /\ Gone(i) /\ UNCHANGED upsets

Crash(i) ==
  /\ mode[i] # "down"
  /\ Upset
  /\ Gone(i)

\* The orchestrator starts the process again, under a new instance id.
Restart(i) ==
  /\ mode[i] = "down"
  /\ mode' = [mode EXCEPT ![i] = "up"]
  /\ UNCHANGED <<redis, driver, closing, snapshot, reaping, upsets>>

-----------------------------------------------------------------------------
RunStep(r) ==
  \/ \E i \in Instance : Acquire(r, i)
  \/ StartStep(r) \/ DriveStep(r) \/ Land(r) \/ CloserStep(r)
  \/ LeaseLapses(r) \/ LeaseLapsesUnderOwner(r) \/ Heartbeat(r) \/ RequestCancel(r)

InstanceStep(i) ==
  \/ ReaperStep(i) \/ \E t \in Thread : StopLocal(t, i)
  \/ Shutdown(i) \/ ShutdownStops(i) \/ ShutdownReturns(i)
  \/ Exit(i) \/ Crash(i) \/ Restart(i)

\* Nothing is left to do: the bounded supply of run ids is used up and every
\* run is settled.  A state without successors that is not settled is stuck.
Settled ==
  /\ \A r \in Run : /\ pc[r] \in RestPc \ {"idle"}
                    /\ status[r] # "running" /\ ~lease[r] /\ sent[r] = "none"
                    /\ closer[r] \in {"none", "finished", "dead"}
  /\ \A i \in Instance : reaping[i] = None
  /\ UNCHANGED vars

Next == \/ \E r \in Run : RunStep(r)
        \/ \E i \in Instance : InstanceStep(i)
        \/ Settled

Spec == Init /\ [][Next]_vars

\* Running tasks get to run, leases nobody renews lapse, the agent's time limit
\* ends it, a stopped process is started again and its reaper keeps polling.
Fairness ==
  /\ \A r \in Run : /\ WF_vars(StartStep(r)) /\ WF_vars(DriveStep(r))
                    /\ WF_vars(Land(r)) /\ WF_vars(CloserStep(r))
                    /\ WF_vars(LeaseLapses(r))
  /\ \A i \in Instance : WF_vars(ReaperStep(i)) /\ WF_vars(Restart(i))

FairSpec == Spec /\ Fairness
-----------------------------------------------------------------------------
(***************************************************************************)
(* Properties.                                                             *)
(***************************************************************************)

\* Of the runs of one thread at most one has a live lease, however acquires,
\* reclaims, lapses and late releases interleave: _ACQUIRE hands over only a
\* thread whose holder's lease is gone, and _RELEASE_RUN_LEASE compares before
\* it deletes, so nobody frees a lock that a newer run holds.
OneLiveRunPerThread ==
  \A r, s \in Run : lease[r] /\ lease[s] /\ ThreadOf[r] = ThreadOf[s] => r = s

\* The stronger fact behind it: a live lease always comes with the lock.
LeaseHoldsLock == \A r \in Run : lease[r] => lock[ThreadOf[r]] = r

\* The running set is exactly the set of unfinished runs, so the reaper finds
\* every run that nobody finalized and never one that somebody did.
RunningSetExact == running = {r \in Run : status[r] = "running"}

\* Somebody other than its owner only ever closes, or is about to close, a run
\* whose lease is gone for good: the reaper and the reclaiming send act on a
\* check made earlier, which no later heartbeat can invalidate.
OrphanHasNoLease ==
  /\ \A i \in Instance : reaping[i] # None => ~lease[reaping[i]]
  /\ \A r \in Run : /\ pc[r] = "reclaimMark" => ~lease[prev[r]]
                    /\ closedBy[r] \notin {None, r} => ~lease[r]

\* The seqs of a stream are 1, 2, 3, ... although the driver, a fenced zombie
\* and a closer on another instance number their frames independently.  The
\* reader takes any gap for a trimmed stream and tells the client to resync.
LogContiguous == \A r \in Run : \A k \in DOMAIN log[r] : log[r][k].seq = k

\* A stream ends once: behind a run_end only [DONE] may stand, and nothing
\* stands behind [DONE], whoever raced to close the run.
LogEndsOnce ==
  \A r \in Run : \A k \in DOMAIN log[r] :
    /\ log[r][k].frame \in EndFrame => \A m \in DOMAIN log[r] :
                                          m > k => log[r][m].frame = "DONE"
    /\ log[r][k].frame = "DONE" => /\ k = Len(log[r])
                                   /\ k > 1 /\ log[r][k - 1].frame \in EndFrame

\* The status a run_end frame tells the viewers is the status on record.
EndTellsStatus ==
  \A r \in Run : \A k \in DOMAIN log[r] :
    log[r][k].frame \in EndFrame => log[r][k].frame = status[r]

\* A run on record as completed has its whole answer in the stream: every frame
\* its agent emitted is there, ahead of any terminal frame.
CompletedIsWhole ==
  \A r \in Run : status[r] = "completed" =>
    /\ lastSeq[r] <= Len(log[r])
    /\ \A k \in 1..lastSeq[r] : log[r][k].frame \notin EndFrame \union {"DONE"}

\* When shutdown() has returned no run is live in the process any more, not
\* even one whose start was under way when shutdown() began.
DrainedIsIdle == \A i \in Instance : mode[i] = "drained" => LiveOn(i) = {}

\* The stream of a run as its viewers see it.
Frames(s) == [k \in DOMAIN s |-> s[k].frame]

Lifecycle == INSTANCE RunLifecycle
  WITH st <- status, ev <- [r \in Run |-> Frames(log[r])],
       Plain <- Frame \ (EndFrame \union {"DONE"})

\* All of the machinery, with its reclaims, zombies, retries and half-failed
\* calls, implements the abstract life of a run: admitted once, finished once,
\* one stream with one end that tells the status on record.
ImplementsLifecycle == Lifecycle!Spec

\* Every run that was admitted is finally on record as finished, although its
\* owner may crash, stall or fail to reach Redis at any step.
EventuallyFinished ==
  \A r \in Run : status[r] = "running" ~> status[r] \in Terminal

\* A thread never stays locked: every lease is given up or lapses.
EventuallyUnlocked == \A r \in Run : lease[r] ~> ~lease[r]

=============================================================================
