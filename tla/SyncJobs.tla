------------------------------ MODULE SyncJobs ------------------------------
(***************************************************************************)
(* The sync jobs of one datasource: every replica of agent-service starts, *)
(* runs and recovers them on one table of jobs and one saved checkpoint.   *)
(* A job takes the datasource, moves the source's records to the           *)
(* collection batch by batch, and ends on record; a heartbeat tells the    *)
(* other replicas that its worker lives.  A worker may be silent without   *)
(* being dead: its job is then failed, and started anew, under its feet.   *)
(*                                                                         *)
(* A step is a statement of the database or a call of rag-service with the *)
(* code up to the next await.  A call may fail, or take effect although    *)
(* its caller sees an error.  Jobs are numbered in the order they begin.   *)
(***************************************************************************)
EXTENDS Integers

CONSTANTS
  Worker,       \* runners: one per process of agent-service
  MaxJobs,      \* bound: jobs begun
  MaxRecords,   \* the source has the records 1 .. MaxRecords, one batch each
  MaxAttempts,  \* SyncOptions.retry, for the final status
  MaxUpsets,    \* bound: silences, failures, cancels and processes that stop
  Modes,        \* the modes to consider
  None

ASSUME BoundsType == /\ MaxJobs \in Nat
                     /\ MaxRecords \in Nat
                     /\ MaxAttempts \in Nat \ {0}
                     /\ MaxUpsets \in Nat
ASSUME ModesOfType == Modes \subseteq {"overwrite", "append", "incremental"}
ASSUME NoneIsNoWorker == None \notin Worker

Job == 1 .. MaxJobs
NoJob == 0
Record == 1 .. MaxRecords
Position == 0 .. MaxRecords
Attempt == 0 .. MaxAttempts - 1
Budget == 0 .. MaxUpsets

\* Whose version of a record the collection holds; 0: the syncs before these.
Version == 0 .. MaxJobs

Live == {"pending", "running"}
Ended == {"succeeded", "failed", "cancelled"}
Status == {"none"} \union Live \union Ended

\* Where a job is: start() up to the row, _execute, its end.
Starting == {"listing", "failing", "creating"}
Executing == {"queued", "loading", "writing", "persisting", "saving",
              "finalizing", "savingLast", "closing"}
Working == Starting \union {"ready"} \union Executing \union {"ending", "storing"}
Pc == {"new", "refused", "done", "gone"} \union Working

VARIABLES
  mode,       \* full_refresh into overwrite or append, or incremental
  \* the database: status and heartbeat of the jobs, the saved state
  row, fresh, checkpoint,
  chunks,     \* the collection of rag-service: pairs of a record and a version
  \* processes: whether one is up, its _active, its scheduler and the job that is failing
  up, active, sched, orphan,
  \* jobs: stage, process, _claim_connection's dead job, records acknowledged,
  \* job.status at the end, attempts to store it
  pc, host, victim, at, verdict, attempt,
  \* history: whose worker was silent, batches written after the end
  silent, overrun,
  upsets

database == <<row, fresh, checkpoint>>
processes == <<up, active, sched, orphan>>
jobs == <<pc, host, victim, at, verdict, attempt>>
history == <<silent, overrun>>
vars == <<mode, database, chunks, processes, jobs, history, upsets>>

TypeOK ==
  /\ mode \in Modes
  /\ row \in [Job -> Status]
  /\ fresh \in [Job -> BOOLEAN]
  /\ checkpoint \in Position
  /\ chunks \subseteq Record \X Version
  /\ up \in [Worker -> BOOLEAN]
  /\ active \in [Worker -> Job \union {NoJob}]
  /\ sched \in [Worker -> {"idle", "failing", "resuming"}]
  /\ orphan \in [Worker -> Job \union {NoJob}]
  /\ pc \in [Job -> Pc]
  /\ host \in [Job -> Worker \union {None}]
  /\ victim \in [Job -> Job \union {NoJob}]
  /\ at \in [Job -> Position]
  /\ verdict \in [Job -> Ended]
  /\ attempt \in [Job -> Attempt]
  /\ silent \in [Job -> BOOLEAN]
  /\ overrun \in [Job -> Nat]
  /\ upsets \in Budget

Init ==
  /\ mode \in Modes
  /\ row = [j \in Job |-> "none"]
  /\ fresh = [j \in Job |-> FALSE]
  /\ checkpoint = 0
  /\ chunks \in {{}, Record \X {0}}
  /\ up = [w \in Worker |-> TRUE]
  /\ active = [w \in Worker |-> NoJob]
  /\ sched = [w \in Worker |-> "idle"]
  /\ orphan = [w \in Worker |-> NoJob]
  /\ pc = [j \in Job |-> "new"]
  /\ host = [j \in Job |-> None]
  /\ victim = [j \in Job |-> NoJob]
  /\ at = [j \in Job |-> 0]
  /\ verdict = [j \in Job |-> "failed"]
  /\ attempt = [j \in Job |-> 0]
  /\ silent = [j \in Job |-> FALSE]
  /\ overrun = [j \in Job |-> 0]
  /\ upsets = 0

-----------------------------------------------------------------------------
Upset == upsets < MaxUpsets /\ upsets' = upsets + 1

Set(f, j, value) == [f EXCEPT ![j] = value]

IsLive(j) == row[j] \in Live

Goto(j, stage) == pc' = Set(pc, j, stage)

\* The process is no longer busy with the datasource, if it was with this job.
FreeActive(j) == active' = [w \in Worker |-> IF w = host[j] /\ active[w] = j THEN NoJob
                                             ELSE active[w]]

\* start() raises: SyncAlreadyRunningError, or what a store raised.
Refuse(j) == Goto(j, "refused") /\ FreeActive(j)

\* The run is over with this outcome; what is left is to put it on record.
Conclude(j, outcome) == Goto(j, "ending") /\ verdict' = Set(verdict, j, outcome)

\* _fail: a terminal status is written whatever the row says by now.
Fail(o) == row' = Set(row, o, "failed")

\* A live status is written over a live one only.
UpdateLive(j, status) == /\ IsLive(j)
                         /\ row' = Set(row, j, status)
                         /\ fresh' = Set(fresh, j, TRUE)

\* JobTakenOverError: the run ends as a failure of this worker.
TakenOver(j) == ~IsLive(j) /\ Conclude(j, "failed") /\ UNCHANGED <<row, fresh>>

-----------------------------------------------------------------------------
\* start(), by hand, on schedule or by the recovery.

\* _active is reserved before the first await.
BeginJob(w) ==
  \E j \in Job :
    /\ pc[j] = "new"
    /\ \A i \in Job : i < j => pc[i] # "new"
    /\ active' = Set(active, w, j)
    /\ host' = Set(host, j, w)
    /\ Goto(j, "listing")

Begin(w) ==
  /\ up[w]
  /\ active[w] = NoJob
  /\ BeginJob(w)
  /\ UNCHANGED <<mode, database, chunks, up, sched, orphan, victim, at, verdict, attempt,
                 history, upsets>>

\* A job whose heartbeat is fresh keeps the datasource; one left behind is failed first.
ListActive(j) ==
  /\ pc[j] = "listing"
  /\ \/ /\ \E o \in Job : IsLive(o) /\ fresh[o]
        /\ Refuse(j)
        /\ UNCHANGED victim
     \/ \E o \in Job :
          /\ IsLive(o) /\ ~fresh[o]
          /\ victim' = Set(victim, j, o)
          /\ Goto(j, "failing")
          /\ UNCHANGED active
     \/ /\ \A o \in Job : ~IsLive(o)
        /\ Goto(j, "creating")
        /\ UNCHANGED <<active, victim>>
  /\ UNCHANGED <<mode, database, chunks, up, sched, orphan, host, at, verdict, attempt,
                 history, upsets>>

FailVictim(j) ==
  /\ pc[j] = "failing"
  /\ Fail(victim[j])
  /\ victim' = Set(victim, j, NoJob)
  /\ Goto(j, "creating")
  /\ UNCHANGED <<mode, fresh, checkpoint, chunks, processes, host, at, verdict,
                 attempt, history, upsets>>

\* create_exclusive: the unique index lets one live row of a datasource in.
Create(j) ==
  /\ pc[j] = "creating"
  /\ \/ /\ \E o \in Job : IsLive(o)
        /\ Refuse(j)
        /\ UNCHANGED <<row, fresh, upsets>>
     \/ /\ \A o \in Job : ~IsLive(o)
        /\ row' = Set(row, j, "pending")
        /\ fresh' = Set(fresh, j, TRUE)
        /\ \/ Goto(j, "ready") /\ UNCHANGED <<active, upsets>>
           \/ Refuse(j) /\ Upset      \* the row is there, its caller saw an error
  /\ UNCHANGED <<mode, checkpoint, chunks, up, sched, orphan, host, victim, at, verdict,
                 attempt, history>>

\* A store that fails ends the start; one that answers late is a start that failed a
\* step later.
StartFails(j) ==
  /\ pc[j] \in Starting
  /\ Upset
  /\ Refuse(j)
  /\ UNCHANGED <<mode, database, chunks, up, sched, orphan, host, victim, at, verdict,
                 attempt, history>>

-----------------------------------------------------------------------------
\* _execute: the task and its heartbeat.

\* The task's first step; it may wait for a slot, with its heartbeat going.
Execute(j) ==
  /\ pc[j] = "ready"
  /\ Goto(j, "queued")
  /\ UNCHANGED <<mode, database, chunks, processes, host, victim, at, verdict, attempt,
                 history, upsets>>

RunStarts(j) ==
  /\ pc[j] = "queued"
  /\ \/ UpdateLive(j, "running") /\ Goto(j, "loading") /\ UNCHANGED verdict
     \/ TakenOver(j)
  /\ UNCHANGED <<mode, checkpoint, chunks, processes, host, victim, at, attempt,
                 history, upsets>>

NextBatch(read) == IF read < MaxRecords THEN "writing" ELSE "finalizing"

\* "Start over", full_refresh of whoever began the job, forgets the saved state; an
\* incremental run continues from it.
Load(j) ==
  /\ pc[j] = "loading"
  /\ checkpoint' \in {0, checkpoint}
  /\ at' = Set(at, j, IF mode = "incremental" THEN checkpoint' ELSE 0)
  /\ Goto(j, NextBatch(at'[j]))
  /\ UNCHANGED <<mode, row, fresh, chunks, processes, host, victim, verdict, attempt,
                 history, upsets>>

\* destination.write: rag-service keeps one version per record.
Write(j) ==
  /\ pc[j] = "writing"
  /\ LET r == at[j] + 1
     IN  chunks' = {c \in chunks : c[1] # r} \union {<<r, j>>}
  /\ overrun' = IF IsLive(j) THEN overrun ELSE Set(overrun, j, overrun[j] + 1)
  /\ Goto(j, "persisting")
  /\ UNCHANGED <<mode, database, processes, host, victim, at, verdict, attempt,
                 silent, upsets>>

\* mutant: a refused update is logged like any other, and the run goes on.
PersistQuietly(j) ==
  /\ pc[j] = "persisting"
  /\ UpdateLive(j, "running") \/ (~IsLive(j) /\ UNCHANGED <<row, fresh>>)
  /\ at' = Set(at, j, at[j] + 1)
  /\ Goto(j, IF mode = "incremental" THEN "saving" ELSE NextBatch(at'[j]))
  /\ UNCHANGED <<mode, checkpoint, chunks, processes, host, victim, verdict, attempt,
                 history, upsets>>

\* The progress is put on record, or the run learns here that it was taken over.
Persist(j) ==
  /\ pc[j] = "persisting"
  /\ \/ /\ UpdateLive(j, "running")
        /\ at' = Set(at, j, at[j] + 1)
        /\ Goto(j, IF mode = "incremental" THEN "saving" ELSE NextBatch(at'[j]))
        /\ UNCHANGED verdict
     \/ TakenOver(j) /\ UNCHANGED at
  /\ UNCHANGED <<mode, checkpoint, chunks, processes, host, victim, attempt,
                 history, upsets>>

\* mutant: the state is the one of the record read next.
SaveAhead(j) ==
  /\ pc[j] = "saving"
  /\ checkpoint' = IF at[j] < MaxRecords THEN at[j] + 1 ELSE at[j]
  /\ Goto(j, NextBatch(at[j]))
  /\ UNCHANGED <<mode, row, fresh, chunks, processes, host, victim, at, verdict, attempt,
                 history, upsets>>

\* The checkpoint behind a batch; nothing ties it to the job that saves it.
Save(j) ==
  /\ pc[j] = "saving"
  /\ checkpoint' = at[j]
  /\ Goto(j, NextBatch(at[j]))
  /\ UNCHANGED <<mode, row, fresh, chunks, processes, host, victim, at, verdict, attempt,
                 history, upsets>>

\* finalize: an overwriting run retires what it did not write.
Finalize(j) ==
  /\ pc[j] = "finalizing"
  /\ chunks' = IF mode = "overwrite" THEN {c \in chunks : c[2] = j} ELSE chunks
  /\ Goto(j, IF mode = "incremental" THEN "savingLast" ELSE "closing")
  /\ UNCHANGED <<mode, database, processes, host, victim, at, verdict, attempt,
                 history, upsets>>

SaveLast(j) ==
  /\ pc[j] = "savingLast"
  /\ checkpoint' = at[j]
  /\ Goto(j, "closing")
  /\ UNCHANGED <<mode, row, fresh, chunks, processes, host, victim, at, verdict, attempt,
                 history, upsets>>

\* The connectors are closed: the run has succeeded.
Close(j) ==
  /\ pc[j] = "closing"
  /\ Conclude(j, "succeeded")
  /\ UNCHANGED <<mode, database, chunks, processes, host, victim, at, attempt,
                 history, upsets>>

\* Source, destination, stores or the time limit: any exception of the run.
RunFails(j) ==
  /\ pc[j] \in Executing
  /\ Upset
  /\ Conclude(j, "failed")
  /\ UNCHANGED <<mode, database, chunks, processes, host, victim, at, attempt, history>>

\* The heartbeat: it shows the worker is there, or cancels a run that was taken over.
Heartbeat(j) ==
  /\ pc[j] \in Executing
  /\ \/ UpdateLive(j, row[j]) /\ UNCHANGED <<pc, verdict>>
     \/ TakenOver(j)
  /\ UNCHANGED <<mode, checkpoint, chunks, processes, host, victim, at, attempt,
                 history, upsets>>

\* _stop(beat): the process may begin another job from here on.
End(j) ==
  /\ pc[j] = "ending"
  /\ Goto(j, "storing")
  /\ FreeActive(j)
  /\ UNCHANGED <<mode, database, chunks, up, sched, orphan, host, victim, at, verdict,
                 attempt, history, upsets>>

\* _persist_final: a failed write is tried again, a few times.
StoreFinal(j) ==
  /\ pc[j] = "storing"
  /\ \/ /\ row' = Set(row, j, verdict[j])
        /\ fresh' = Set(fresh, j, TRUE)
        /\ Goto(j, "done")
        /\ UNCHANGED <<attempt, upsets>>
     \/ /\ Upset
        /\ \/ row' = Set(row, j, verdict[j]) /\ fresh' = Set(fresh, j, TRUE)
           \/ UNCHANGED <<row, fresh>>
        /\ IF attempt[j] + 1 < MaxAttempts
           THEN attempt' = Set(attempt, j, attempt[j] + 1) /\ UNCHANGED pc
           ELSE Goto(j, "done") /\ UNCHANGED attempt
  /\ UNCHANGED <<mode, checkpoint, chunks, processes, host, victim, at, verdict, history>>

\* cancel(), when the datasource is deleted on the job's process: a run is cut at its
\* await, a task that has not begun is closed here, with one attempt to say so.
Cancel(j) ==
  /\ \E w \in Worker : active[w] = j
  /\ Upset
  /\ \/ pc[j] \in Executing /\ Conclude(j, "cancelled") /\ UNCHANGED <<active, attempt>>
     \/ /\ pc[j] = "ready" /\ IsLive(j)
        /\ Goto(j, "storing")
        /\ verdict' = Set(verdict, j, "cancelled")
        /\ attempt' = Set(attempt, j, MaxAttempts - 1)
        /\ FreeActive(j)
     \/ /\ pc[j] = "ready" /\ ~IsLive(j)
        /\ Goto(j, "done")
        /\ FreeActive(j)
        /\ UNCHANGED <<verdict, attempt>>
  /\ UNCHANGED <<mode, database, chunks, up, sched, orphan, host, victim, at, history>>

-----------------------------------------------------------------------------
\* The recovery of the scheduler's loop, time, and the processes.

\* In _running or in _active of this process.
Own(w, j) == active[w] = j \/ (host[j] = w /\ pc[j] \in Working \ Starting)

\* mutant: every job that is not of this process is taken for dead.
RecoverFindsAny(w) ==
  /\ up[w] /\ sched[w] = "idle"
  /\ \E o \in Job : IsLive(o) /\ ~Own(w, o) /\ orphan' = Set(orphan, w, o)
  /\ sched' = Set(sched, w, "failing")
  /\ UNCHANGED <<mode, database, chunks, up, active, jobs, history, upsets>>

\* mutant: jobs that have not begun to run are forgotten.
RecoverFindsRunning(w) ==
  /\ up[w] /\ sched[w] = "idle"
  /\ \E o \in Job : /\ row[o] = "running" /\ ~fresh[o] /\ ~Own(w, o)
                    /\ orphan' = Set(orphan, w, o)
  /\ sched' = Set(sched, w, "failing")
  /\ UNCHANGED <<mode, database, chunks, up, active, jobs, history, upsets>>

\* A job that is not of this process and whose heartbeat is stale.
RecoverFinds(w) ==
  /\ up[w] /\ sched[w] = "idle"
  /\ \E o \in Job : /\ IsLive(o) /\ ~fresh[o] /\ ~Own(w, o)
                    /\ orphan' = Set(orphan, w, o)
  /\ sched' = Set(sched, w, "failing")
  /\ UNCHANGED <<mode, database, chunks, up, active, jobs, history, upsets>>

\* A write that fails, or whose answer is lost, ends this round: nothing is resumed.
RecoverFails(w) ==
  /\ up[w] /\ sched[w] = "failing"
  /\ \/ Fail(orphan[w]) /\ sched' = Set(sched, w, "resuming") /\ UNCHANGED upsets
     \/ /\ Upset
        /\ Fail(orphan[w]) \/ UNCHANGED row
        /\ sched' = Set(sched, w, "idle")
  /\ orphan' = Set(orphan, w, NoJob)
  /\ UNCHANGED <<mode, fresh, checkpoint, chunks, up, active, jobs, history>>

\* The datasource of the failed job is run again, unless this process is busy with it.
Resume(w) ==
  /\ up[w] /\ sched[w] = "resuming"
  /\ sched' = Set(sched, w, "idle")
  /\ \/ active[w] = NoJob /\ BeginJob(w)
     \/ /\ active[w] # NoJob \/ \A j \in Job : pc[j] # "new"
        /\ UNCHANGED <<active, host, pc>>
  /\ UNCHANGED <<mode, database, chunks, up, orphan, victim, at, verdict, attempt,
                 history, upsets>>

\* The stale time passes over a job that nobody beats for; a worker whose loop or
\* database stalls for that long is silent, not dead.
Lapse(j) ==
  /\ IsLive(j) /\ fresh[j]
  /\ fresh' = Set(fresh, j, FALSE)
  /\ IF pc[j] \in Working
     THEN Upset /\ silent' = Set(silent, j, TRUE)
     ELSE UNCHANGED <<upsets, silent>>
  /\ UNCHANGED <<mode, row, checkpoint, chunks, processes, jobs, overrun>>

\* A shutdown leaves the jobs of its process as they are on record; so does a crash.
Stop(w) ==
  /\ up[w]
  /\ Upset
  /\ up' = Set(up, w, FALSE)
  /\ pc' = [j \in Job |-> IF host[j] = w /\ pc[j] \in Working THEN "gone" ELSE pc[j]]
  /\ active' = Set(active, w, NoJob)
  /\ sched' = Set(sched, w, "idle")
  /\ orphan' = Set(orphan, w, NoJob)
  /\ UNCHANGED <<mode, database, chunks, host, victim, at, verdict, attempt, history>>

Restart(w) ==
  /\ ~up[w]
  /\ up' = Set(up, w, TRUE)
  /\ UNCHANGED <<mode, database, chunks, active, sched, orphan, jobs, history, upsets>>

StartStep(j) == ListActive(j) \/ FailVictim(j) \/ Create(j)
RunStep(j) == \/ Execute(j) \/ RunStarts(j) \/ Load(j) \/ Write(j) \/ Persist(j) \/ Save(j)
              \/ Finalize(j) \/ SaveLast(j) \/ Close(j) \/ End(j) \/ StoreFinal(j)
TaskStep(j) == StartStep(j) \/ RunStep(j)
RecoveryStep(w) == RecoverFinds(w) \/ RecoverFails(w) \/ Resume(w)

Next ==
  \/ \E j \in Job : \/ TaskStep(j) \/ StartFails(j) \/ RunFails(j)
                    \/ Heartbeat(j) \/ Cancel(j) \/ Lapse(j)
  \/ \E w \in Worker : Begin(w) \/ RecoveryStep(w) \/ Stop(w) \/ Restart(w)

Spec == Init /\ [][Next]_vars

\* Tasks run on and their calls are answered, the stale time passes over what nobody
\* beats for, schedulers poll, and the orchestrator starts processes again.
FairSpec ==
  /\ Spec
  /\ \A j \in Job : WF_vars(TaskStep(j)) /\ WF_vars(pc[j] \notin Working /\ Lapse(j))
  /\ \A w \in Worker : WF_vars(RecoveryStep(w) \/ Restart(w))

-----------------------------------------------------------------------------
Whole == \A r \in Record : \E c \in chunks : c[1] = r

\* Two runs never work on the datasource at once, in whatever order triggers, recovery
\* and stops come, but for a worker that was silent for the stale time.
OneWriter ==
  \A i, j \in Job : i # j /\ pc[i] \in Executing /\ pc[j] \in Executing => silent[i] \/ silent[j]

\* A worker that was silent, and comes back after its job was declared dead, writes at
\* most the one batch it was at.
ZombieStops == \A j \in Job : overrun[j] <= 1

\* A job that is on record as succeeded has its datasource whole: whatever was
\* interrupted, taken over or resumed from a checkpoint before, no record is skipped.
\* An overwriting run that was silent may still retire the records of its successor.
SucceededIsWhole ==
  \A j \in Job : row[j] = "succeeded" => Whole \/ (mode = "overwrite" /\ \E i \in Job : silent[i])

\* No job stays pending or running on record for ever: its worker ends it, or the
\* recovery of some process does.
EventuallyEnded == \A j \in Job : IsLive(j) ~> ~IsLive(j)

\* What is searchable stays so while the datasource is synced anew.
StaysSearchable ==
  [][\A r \in Record : (\E c \in chunks : c[1] = r) => \E c \in chunks' : c[1] = r]_vars

=============================================================================
