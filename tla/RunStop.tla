------------------------------ MODULE RunStop ------------------------------
(***************************************************************************)
(* How a user's Stop finds its run: ChatRunService.cancel_active on one    *)
(* instance against ChatRunSupervisor.start, the heartbeat and the reaper  *)
(* of another, at the grain of single Redis commands.  A Stop may arrive   *)
(* before its send has registered a run (it then names the send's          *)
(* client_request_id and leaves a mark), while the run is starting, while  *)
(* it runs anywhere, or when it has just ended.                            *)
(*                                                                         *)
(* One thread.  A run stands for its send: its id is also the request id.  *)
(* Only what the two sides tell each other is kept of a run's life; the    *)
(* rest of it is in ChatRuns.                                              *)
(***************************************************************************)
EXTENDS FiniteSets

CONSTANTS
  Run,           \* sends, each with its run id and its client_request_id
  Instance,      \* agent-service processes
  StopCall,      \* calls of the cancel endpoint
  CheckMayFail,  \* the registry may fail while start looks for pending stops
  None

ASSUME NoneIsNobody == None \notin Run \union Instance
ASSUME CheckMayFailType == CheckMayFail \in BOOLEAN

VARIABLES
  \* Redis: the thread's lock, live leases, unfinished runs, request marks and
  \* cancel flags
  lock, leased, unfinished, marked, flagged,
  \* the run's own task and its stop_reason; where it runs
  pc, reason, host, stopSeen,
  \* the Stop call: where it is, what it names, where it was received, the run
  \* it looked up, and the sends that came after its answer
  call, names, at, target, later

redis == <<lock, leased, unfinished, marked, flagged>>
task == <<pc, reason, host, stopSeen>>
stops == <<call, names, at, target, later>>
vars == <<lock, leased, unfinished, marked, flagged, pc, reason, host, stopSeen,
          call, names, at, target, later>>

TypeOK ==
  /\ lock \in Run \union {None}
  /\ leased \subseteq Run /\ unfinished \subseteq Run
  /\ marked \subseteq Run /\ flagged \subseteq Run
  /\ pc \in [Run -> {"idle", "refused", "checkMark", "checkFlag", "registering",
                     "driving", "ending", "ended"}]
  /\ reason \in [Run -> {"none", "cancel", "lease_lost"}]
  /\ host \in [Run -> Instance \union {None}]
  /\ stopSeen \subseteq Run
  /\ call \in [StopCall -> {"idle", "mark", "lock", "hash", "lease", "record",
                            "flag", "answered", "failed"}]
  /\ names \in [StopCall -> Run \union {None}]
  /\ at \in [StopCall -> Instance \union {None}]
  /\ target \in [StopCall -> Run \union {None}]
  /\ later \in [StopCall -> SUBSET Run]

Init ==
  /\ lock = None
  /\ leased = {} /\ unfinished = {} /\ marked = {} /\ flagged = {}
  /\ pc = [r \in Run |-> "idle"]
  /\ reason = [r \in Run |-> "none"]
  /\ host = [r \in Run |-> None]
  /\ stopSeen = {}
  /\ call = [s \in StopCall |-> "idle"]
  /\ names = [s \in StopCall |-> None]
  /\ at = [s \in StopCall |-> None]
  /\ target = [s \in StopCall |-> None]
  /\ later = [s \in StopCall |-> {}]

Goto(r, label) == pc' = [pc EXCEPT ![r] = label]

-----------------------------------------------------------------------------
\* The run's side.

\* try_acquire: refused while the holder has a lease.
Send(r, i) ==
  /\ pc[r] = "idle"
  /\ host' = [host EXCEPT ![r] = i]
  /\ IF lock \in leased
       THEN Goto(r, "refused") /\ UNCHANGED redis
       ELSE /\ Goto(r, "checkMark")
            /\ lock' = r
            /\ leased' = leased \union {r}
            /\ unfinished' = unfinished \union {r}
            /\ UNCHANGED <<marked, flagged>>
  /\ UNCHANGED <<reason, stopSeen, stops>>

\* Whether a lookup of start gets its answer; without one it counts as "no stop".
Answered == IF CheckMayFail THEN BOOLEAN ELSE {TRUE}

\* _stop_requested_before_start: the request's mark first ...
CheckMarkSkipped(r) ==   \* mutant: the request's mark is not looked up
  /\ pc[r] = "checkMark"
  /\ Goto(r, "checkFlag")
  /\ UNCHANGED <<redis, reason, host, stopSeen, stops>>
CheckMark(r) ==
  /\ pc[r] = "checkMark"
  /\ \E ok \in Answered :
       /\ Goto(r, IF ok /\ r \notin marked THEN "checkFlag" ELSE "registering")
       /\ stopSeen' = IF ok THEN stopSeen \union (marked \cap {r}) ELSE stopSeen
  /\ UNCHANGED <<redis, reason, host, stops>>

\* ... then the run's own flag.
CheckFlag(r) ==
  /\ pc[r] = "checkFlag"
  /\ Goto(r, "registering")
  /\ \E ok \in Answered :
       stopSeen' = IF ok THEN stopSeen \union (flagged \cap {r}) ELSE stopSeen
  /\ UNCHANGED <<redis, reason, host, stops>>

\* The run is live from here; a stop already seen keeps the agent from starting.
Register(r) ==
  /\ pc[r] = "registering"
  /\ IF r \in stopSeen
       THEN Goto(r, "ending") /\ reason' = [reason EXCEPT ![r] = "cancel"]
       ELSE Goto(r, "driving") /\ UNCHANGED reason
  /\ stopSeen' = stopSeen \ {r}
  /\ UNCHANGED <<redis, host, stops>>

\* _stop: the first reason wins; a task that is past its agent ignores it.
StopRun(S, why) ==
  reason' = [r \in Run |-> IF r \in S /\ pc[r] = "driving" /\ reason[r] = "none"
                             THEN why ELSE reason[r]]

\* One heartbeat: a lease that is gone is not renewed; else the flag is read.
\* It never looks at the request's mark.
HeartbeatDeaf(r) ==   \* mutant: renews, and never reads the flag
  /\ pc[r] = "driving" /\ reason[r] = "none"
  /\ r \notin leased /\ StopRun({r}, "lease_lost")
  /\ UNCHANGED <<redis, pc, host, stopSeen, stops>>
Heartbeat(r) ==
  /\ pc[r] = "driving" /\ reason[r] = "none"
  /\ \/ r \notin leased /\ StopRun({r}, "lease_lost")
     \/ r \in leased /\ r \in flagged /\ StopRun({r}, "cancel")
  /\ UNCHANGED <<redis, pc, host, stopSeen, stops>>

\* The agent finishes by itself ...
AgentEnds(r) ==
  /\ pc[r] = "driving" /\ reason[r] = "none"
  /\ Goto(r, "ending")
  /\ UNCHANGED <<redis, reason, host, stopSeen, stops>>

\* ... or within the grace of a recorded stop.
Stopped(r) ==
  /\ pc[r] = "driving" /\ reason[r] # "none"
  /\ Goto(r, "ending")
  /\ UNCHANGED <<redis, reason, host, stopSeen, stops>>

\* mark_terminal, and then release.
Record(r) ==
  /\ pc[r] = "ending" /\ r \in unfinished
  /\ unfinished' = unfinished \ {r}
  /\ UNCHANGED <<lock, leased, marked, flagged, task, stops>>

Release(r) ==
  /\ pc[r] = "ending" /\ r \notin unfinished
  /\ Goto(r, "ended")
  /\ lock' = IF lock = r THEN None ELSE lock
  /\ leased' = leased \ {r}
  /\ UNCHANGED <<unfinished, marked, flagged, reason, host, stopSeen, stops>>

LeaseLapses(r) ==
  /\ r \in leased
  /\ leased' = leased \ {r}
  /\ UNCHANGED <<lock, unfinished, marked, flagged, task, stops>>

\* The reaper records and releases a run without a lease, dead or not.
Reap(r) ==
  /\ r \in unfinished \ leased
  /\ unfinished' = unfinished \ {r}
  /\ lock' = IF lock = r THEN None ELSE lock
  /\ UNCHANGED <<leased, marked, flagged, task, stops>>

-----------------------------------------------------------------------------
\* The Stop's side: cancel_active and, below it, _cancel_registered.

\* A call goes on, or it is over and its locals are gone.
Continue(s, label) ==
  /\ call' = [call EXCEPT ![s] = label]
  /\ IF label \in {"answered", "failed"}
       THEN /\ at' = [at EXCEPT ![s] = None]
            /\ target' = [target EXCEPT ![s] = None]
            /\ later' = [later EXCEPT ![s] = {r \in Run : pc[r] = "idle"}]
       ELSE UNCHANGED <<at, target, later>>

\* cancel_local_for_thread, before anything is asked of Redis.
StopArrives(s, i, r) ==
  /\ call[s] = "idle"
  /\ call' = [call EXCEPT ![s] = IF r = None THEN "lock" ELSE "mark"]
  /\ at' = [at EXCEPT ![s] = i]
  /\ names' = [names EXCEPT ![s] = r]
  /\ StopRun({x \in Run : host[x] = i}, "cancel")
  /\ UNCHANGED <<redis, pc, host, stopSeen, target, later>>

\* request_cancel_for_request precedes the lookup.
StopMarksThread(s) ==   \* mutant: a mark for the thread, not for the request
  /\ call[s] = "mark"
  /\ marked' = Run
  /\ Continue(s, "lock")
  /\ UNCHANGED <<lock, leased, unfinished, flagged, task, names>>
StopMarks(s) ==
  /\ call[s] = "mark"
  /\ marked' = marked \union {names[s]}
  /\ Continue(s, "lock")
  /\ UNCHANGED <<lock, leased, unfinished, flagged, task, names>>

\* get_active_for_thread: the lock ...
StopReadsLock(s) ==
  /\ call[s] = "lock"
  /\ IF lock = None
       THEN Continue(s, "answered")
       ELSE /\ call' = [call EXCEPT ![s] = "hash"]
            /\ target' = [target EXCEPT ![s] = lock]
            /\ UNCHANGED <<at, later>>
  /\ UNCHANGED <<redis, task, names>>

\* ... the record of the run it names ...
StopReadsRun(s) ==
  /\ call[s] = "hash"
  /\ Continue(s, IF target[s] \in unfinished THEN "lease" ELSE "answered")
  /\ UNCHANGED <<redis, task, names>>

\* ... and its lease.  With the answer supervisor.cancel stops a local run.
StopReadsLease(s) ==
  /\ call[s] = "lease"
  /\ IF target[s] \in leased
       THEN /\ Continue(s, "record")
            /\ StopRun({x \in {target[s]} : host[x] = at[s]}, "cancel")
       ELSE Continue(s, "answered") /\ UNCHANGED reason
  /\ UNCHANGED <<redis, pc, host, stopSeen, names>>

\* supervisor.cancel reads the record again ...
StopReadsAgain(s) ==
  /\ call[s] = "record"
  /\ Continue(s, IF target[s] \in unfinished THEN "flag" ELSE "answered")
  /\ UNCHANGED <<redis, task, names>>

\* ... and leaves the cancel flag.
StopFlags(s) ==
  /\ call[s] = "flag"
  /\ flagged' = flagged \union {target[s]}
  /\ Continue(s, "answered")
  /\ UNCHANGED <<lock, leased, unfinished, marked, task, names>>

\* Any of these calls may raise; the caller is told that the Stop is not
\* recorded, unless a local run was stopped.
StopFails(s) ==
  /\ call[s] \notin {"idle", "answered", "failed"}
  /\ Continue(s, "failed")
  /\ UNCHANGED <<redis, task, names>>

-----------------------------------------------------------------------------
CheckStep(r) == CheckMark(r) \/ CheckFlag(r) \/ Register(r)
EndStep(r) == Stopped(r) \/ Record(r) \/ Release(r)

RunStep(r) ==
  \/ \E i \in Instance : Send(r, i)
  \/ CheckStep(r) \/ Heartbeat(r) \/ AgentEnds(r) \/ EndStep(r)
  \/ LeaseLapses(r) \/ Reap(r)

StopStep(s) ==
  \/ StopMarks(s) \/ StopReadsLock(s) \/ StopReadsRun(s) \/ StopReadsLease(s)
  \/ StopReadsAgain(s) \/ StopFlags(s)

Next ==
  \/ \E r \in Run : RunStep(r)
  \/ \E s \in StopCall :
       \/ \E i \in Instance, r \in Run \union {None} : StopArrives(s, i, r)
       \/ StopStep(s) \/ StopFails(s)

Spec == Init /\ [][Next]_vars

\* Heartbeats tick, a stopped task ends within its grace.  Nothing makes an
\* agent end by itself.
Fairness == \A r \in Run : WF_vars(CheckStep(r)) /\ WF_vars(Heartbeat(r)) /\ WF_vars(EndStep(r))

FairSpec == Spec /\ Fairness

-----------------------------------------------------------------------------
\* A Stop that was answered and names a send is not lost: whatever order the
\* send's registration and the Stop's commands land in, the run does not go on
\* driving unless it will find its flag or the loss of its lease.  This is the
\* claim of _cancel_registered (service.py:99-103).
StopNotLost ==
  \A s \in StopCall, r \in Run :
    call[s] = "answered" /\ names[s] = r /\ pc[r] = "driving" /\ reason[r] = "none"
      => r \in flagged \/ r \notin leased

\* And so the run it names ends, although its agent would run on for ever.
StopTakesEffect ==
  \A s \in StopCall, r \in Run :
    (call[s] = "answered" /\ names[s] = r /\ pc[r] = "driving") ~> pc[r] # "driving"

\* A Stop does not reach past itself: a send made after its answer runs on,
\* unless the Stop named this very send or another Stop is meant for it.
NoStrayStop ==
  \A r \in Run : reason[r] = "cancel" =>
    \E s \in StopCall : call[s] # "idle" /\ (names[s] = r \/ r \notin later[s])
=============================================================================
