--------------------------- MODULE ChatRunsProofs ---------------------------
(***************************************************************************)
(* What ChatRuns guarantees for any number of runs, threads and processes  *)
(* and any number of upsets, proved with TLAPS.                            *)
(*                                                                         *)
(* TypeOK is not inductive alone: from a type-correct state in which a     *)
(* task closes a run without having an outcome the next append would be no *)
(* frame.  Nor is OrphanHasNoLease: a lease is lost for good only because  *)
(* a run that somebody already knows of is never acquired again.  Base     *)
(* adds what is missing, and every theorem below rests on it.              *)
(*                                                                         *)
(* The streams need an invariant of their own, StreamOK, run by run: each  *)
(* writer of a stream numbers its frames from what it read or wrote        *)
(* before, and Numbered, Fenced and Staged say how far behind the stream   *)
(* it may be.  The refinement of RunLifecycle follows from it.             *)
(***************************************************************************)
EXTENDS ChatRuns, SequenceTheorems, TLAPS

\* A run that was not sent yet is unknown everywhere: it has no record, no lease and no
\* closer, and no lock, no reclaiming send and no reaper names it.
Known(r) == pc[r] # "idle"
Unsent == \A r \in Run : ~Known(r) =>
            status[r] = "absent" /\ ~lease[r] /\ closer[r] = "none" /\ closedBy[r] = None
LocksKnown == \A t \in Thread : lock[t] \in Run => Known(lock[t])
ReapingKnown == \A i \in Instance : reaping[i] \in Run => Known(reaping[i])
PrevKnown == \A r \in Run : prev[r] \in Run => prev[r] # r /\ Known(prev[r])
Fresh == Unsent /\ LocksKnown /\ ReapingKnown /\ PrevKnown

\* A task that finalizes its run knows the status to record.
OutcomeKnown ==
  \A r \in Run : pc[r] \in {"finalMark", "finalClose", "finalRelease"} => outcome[r] # "none"

\* While a run is closed by its own task, that task is in _finalize and waits.
OpenCloser == {"readEnd", "appendEnd", "readDone", "appendDone"}
OwnClose ==
  \A r \in Run : closer[r] \in OpenCloser /\ closedBy[r] = r => pc[r] = "finalClose"

\* A send that is about to finalize the run it took the thread from has one.
Reclaims == \A r \in Run : pc[r] = "reclaimMark" => prev[r] \in Run

\* The live runs of a process that is shutting down are those of the snapshot.
SnapshotCovers == \A i \in Instance : mode[i] = "draining" => LiveOn(i) \subseteq snapshot[i]

Base == TypeOK /\ Fresh /\ OutcomeKnown /\ OwnClose /\ Reclaims /\ RunningSetExact

-----------------------------------------------------------------------------
(***************************************************************************)
(* Helpers: what the Redis calls preserve.                                 *)
(***************************************************************************)

\* A Redis call that fails or loses its reply stays within the budget.
LEMMA UpsetTyped == ASSUME TypeOK, Upset PROVE upsets' \in 0..MaxUpsets
  BY BoundsType DEF TypeOK, RedisOK, Upset

LEMMA SpendTyped == ASSUME TypeOK, NEW o \in Reply, Spend(o) PROVE upsets' \in 0..MaxUpsets
  BY UpsetTyped DEF TypeOK, RedisOK, Spend

\* XADD keeps every log a sequence of entries.
LEMMA XAddTyped ==
  ASSUME TypeOK, NEW r \in Run, NEW seq \in Nat, NEW frame \in Frame, NEW o \in Reply,
         XAdd(r, seq, frame, o)
  PROVE  log' \in [Run -> Seq([seq : Nat, frame : Frame])]
  <1> DEFINE Entry == [seq : Nat, frame : Frame]
             entry == [seq |-> seq, frame |-> frame]
  <1>1. log \in [Run -> Seq(Entry)]
    BY DEF TypeOK, RedisOK
  <1>2. entry \in Entry
    OBVIOUS
  <1> HIDE DEF Entry, entry
  <1>3. Append(log[r], entry) \in Seq(Entry)
    BY <1>1, <1>2
  <1>4. log' = [log EXCEPT ![r] = Append(@, entry)] \/ log' = log
    BY DEF XAdd, entry
  <1>5. log' \in [Run -> Seq(Entry)]
    BY <1>1, <1>3, <1>4
  <1> QED
    BY <1>5 DEF Entry

\* The last element of a sequence over S is in S.
LEMMA LastOfSeq == ASSUME NEW S, NEW s \in Seq(S), s # <<>> PROVE s[Len(s)] \in S
  OBVIOUS

\* The last id of a log is a number.
LEMMA LastSeqTyped == ASSUME TypeOK, NEW r \in Run PROVE LastSeq(r) \in Nat
  <1>1. CASE log[r] = <<>>
    BY <1>1 DEF LastSeq
  <1>2. CASE log[r] # <<>>
    <2>1. log[r] \in Seq([seq : Nat, frame : Frame])
      BY DEF TypeOK, RedisOK
    <2>2. log[r][Len(log[r])] \in [seq : Nat, frame : Frame]
      BY <1>2, <2>1, LastOfSeq
    <2> QED
      BY <1>2, <2>2 DEF LastSeq
  <1> QED
    BY <1>1, <1>2

\* MARK_TERMINAL writes a status and removes a member.
LEMMA MarkTyped ==
  ASSUME TypeOK, NEW r, NEW end \in Terminal, NEW o \in Reply, MarkTerminal(r, end, o)
  PROVE  status' \in [Run -> Status] /\ running' \in SUBSET Run
  BY DEF TypeOK, RedisOK, MarkTerminal, Status

\* RELEASE_RUN_LEASE frees at most the run's own lock.
LEMMA ReleaseTyped ==
  ASSUME TypeOK, NEW r \in Run, NEW o \in Reply, Release(r, o)
  PROVE  lock' \in [Thread -> Run \union {None}] /\ lease' \in [Run -> BOOLEAN]
  <1>1. CASE o = "failed"
    BY <1>1 DEF TypeOK, RedisOK, Release
  <1>2. CASE o # "failed"
    <2>1. lock \in [Thread -> Run \union {None}] /\ lease \in [Run -> BOOLEAN]
      BY DEF TypeOK, RedisOK
    <2>2. lock' = [lock EXCEPT ![ThreadOf[r]] = IF @ = r THEN None ELSE @]
      BY <1>2 DEF Release
    <2>3. lease' = [lease EXCEPT ![r] = FALSE]
      BY <1>2 DEF Release
    <2>4. lease' \in [Run -> BOOLEAN]
      BY <2>1, <2>3
    <2>5. lock' \in [Thread -> Run \union {None}]
      BY <2>1, <2>2
    <2> QED
      BY <2>4, <2>5
  <1> QED
    BY <1>1, <1>2

-----------------------------------------------------------------------------
(***************************************************************************)
(* Every action keeps every group of variables within its types.           *)
(***************************************************************************)

\* An acquire names the holder it found, a run or nobody.
LEMMA AcquireTypes ==
  ASSUME Base, NEW r \in Run, NEW i \in Instance, Acquire(r, i) PROVE TypeOK'
  <1>1. RedisOK'
    BY ThreadOfType DEF Base, TypeOK, RedisOK, Acquire, Take, Status
  <1>2. DriverOK'
    BY ThreadOfType DEF Base, TypeOK, DriverOK, Acquire, RedisOK, Holder, Busy, Goto,
       Pc, StartPc, LivePc, RestPc
  <1>3. ClosingOK' /\ ProcessOK'
    BY DEF Base, TypeOK, ClosingOK, ProcessOK, Acquire, closing, process
  <1>4. upsets' \in 0..MaxUpsets
    BY SpendTyped DEF Base, TypeOK, Acquire
  <1> QED
    BY <1>1, <1>2, <1>3, <1>4 DEF TypeOK

\* A reclaiming send records the end of the run it took the thread from.
LEMMA ReclaimMarkTypes ==
  ASSUME Base, NEW r \in Run, ReclaimMark(r) PROVE TypeOK'
  <1>1. RedisOK'
    BY MarkTyped DEF Base, TypeOK, RedisOK, ReclaimMark, Terminal
  <1>2. DriverOK'
    BY DEF Base, TypeOK, DriverOK, ReclaimMark, BeginClose, Goto, Pc, StartPc, LivePc,
       RestPc
  <1>3. ClosingOK'
    BY DEF Base, TypeOK, ClosingOK, ReclaimMark, closing, BeginClose, CloserPc
  <1>4. ProcessOK'
    BY DEF Base, TypeOK, ProcessOK, ReclaimMark, process
  <1>5. upsets' \in 0..MaxUpsets
    BY SpendTyped DEF Base, TypeOK, ReclaimMark
  <1> QED
    BY <1>1, <1>2, <1>3, <1>4, <1>5 DEF TypeOK

\* run_started joins the stream.
LEMMA AppendStartedTypes ==
  ASSUME Base, NEW r \in Run, AppendStarted(r) PROVE TypeOK'
  <1>1. RedisOK'
    BY XAddTyped DEF Base, TypeOK, RedisOK, AppendStarted, Frame
  <1>2. DriverOK'
    BY DEF Base, TypeOK, DriverOK, AppendStarted, Goto, Pc, StartPc, LivePc, RestPc
  <1>3. ClosingOK' /\ ProcessOK'
    BY DEF Base, TypeOK, ClosingOK, ProcessOK, AppendStarted, closing, process
  <1>4. upsets' \in 0..MaxUpsets
    BY SpendTyped DEF Base, TypeOK, AppendStarted
  <1> QED
    BY <1>1, <1>2, <1>3, <1>4 DEF TypeOK

\* The early stop check only reads.
LEMMA CheckStopTypes ==
  ASSUME Base, NEW r \in Run, CheckStop(r) PROVE TypeOK'
  <1>1. DriverOK'
    BY DEF Base, TypeOK, DriverOK, CheckStop, Goto, Pc, StartPc, LivePc, RestPc
  <1>2. RedisOK' /\ ClosingOK' /\ ProcessOK'
    BY DEF Base, TypeOK, RedisOK, ClosingOK, ProcessOK, CheckStop, redis, closing,
       process
  <1>3. upsets' \in 0..MaxUpsets
    BY SpendTyped DEF Base, TypeOK, CheckStop, Reply
  <1> QED
    BY <1>1, <1>2, <1>3 DEF TypeOK

\* A registered run starts numbering behind run_started.
LEMMA RegisterTypes ==
  ASSUME Base, NEW r \in Run, Register(r) PROVE TypeOK'
  <1>1. DriverOK'
    BY DEF Base, TypeOK, DriverOK, Register, Goto, ReasonStatus, Terminal, Pc, StartPc,
       LivePc, RestPc
  <1>2. RedisOK' /\ ClosingOK' /\ ProcessOK'
    BY DEF Base, TypeOK, RedisOK, ClosingOK, ProcessOK, Register, redis, closing,
       process
  <1>3. upsets' \in 0..MaxUpsets
    BY DEF Base, TypeOK, Register
  <1> QED
    BY <1>1, <1>2, <1>3 DEF TypeOK

\* A rolled back start fails its run.
LEMMA AbortMarkTypes ==
  ASSUME Base, NEW r \in Run, AbortMark(r) PROVE TypeOK'
  <1>1. RedisOK'
    BY MarkTyped DEF Base, TypeOK, RedisOK, AbortMark, Terminal
  <1>2. DriverOK'
    BY DEF Base, TypeOK, DriverOK, AbortMark, Goto, Pc, StartPc, LivePc, RestPc
  <1>3. ClosingOK' /\ ProcessOK'
    BY DEF Base, TypeOK, ClosingOK, ProcessOK, AbortMark, closing, process
  <1>4. upsets' \in 0..MaxUpsets
    BY SpendTyped DEF Base, TypeOK, AbortMark
  <1> QED
    BY <1>1, <1>2, <1>3, <1>4 DEF TypeOK

\* The rollback gives up the thread.
LEMMA AbortReleaseTypes ==
  ASSUME Base, NEW r \in Run, AbortRelease(r) PROVE TypeOK'
  <1>1. RedisOK'
    BY ReleaseTyped DEF Base, TypeOK, RedisOK, AbortRelease
  <1>2. DriverOK'
    BY DEF Base, TypeOK, DriverOK, AbortRelease, Goto, Pc, StartPc, LivePc, RestPc
  <1>3. ClosingOK' /\ ProcessOK'
    BY DEF Base, TypeOK, ClosingOK, ProcessOK, AbortRelease, closing, process
  <1>4. upsets' \in 0..MaxUpsets
    BY SpendTyped DEF Base, TypeOK, AbortRelease
  <1> QED
    BY <1>1, <1>2, <1>3, <1>4 DEF TypeOK

\* A frame gets the next number.
LEMMA EmitTypes ==
  ASSUME Base, NEW r \in Run, Emit(r) PROVE TypeOK'
  <1>1. DriverOK'
    BY DEF Base, TypeOK, DriverOK, Emit, NextFrame
  <1>2. RedisOK' /\ ClosingOK' /\ ProcessOK'
    BY DEF Base, TypeOK, RedisOK, ClosingOK, ProcessOK, Emit, redis, closing, process
  <1>3. upsets' \in 0..MaxUpsets
    BY DEF Base, TypeOK, Emit
  <1> QED
    BY <1>1, <1>2, <1>3 DEF TypeOK

\* The end of the agent becomes an outcome.
LEMMA AgentEndsTypes ==
  ASSUME Base, NEW r \in Run, AgentEnds(r) PROVE TypeOK'
  <1>1. DriverOK'
    BY DEF Base, TypeOK, DriverOK, AgentEnds, EndDrive, Outcome, ReasonStatus, Reason,
       Terminal, Goto, Pc, StartPc, LivePc, RestPc
  <1>2. RedisOK' /\ ClosingOK' /\ ProcessOK'
    BY DEF Base, TypeOK, RedisOK, ClosingOK, ProcessOK, AgentEnds, redis, closing,
       process
  <1>3. upsets' \in 0..MaxUpsets
    BY DEF Base, TypeOK, AgentEnds
  <1> QED
    BY <1>1, <1>2, <1>3 DEF TypeOK

\* So does a cut.
LEMMA DriveCutTypes ==
  ASSUME Base, NEW r \in Run, DriveCut(r) PROVE TypeOK'
  <1>1. DriverOK'
    BY DEF Base, TypeOK, DriverOK, DriveCut, EndDrive, Outcome, ReasonStatus, Reason,
       Terminal, Goto, Pc, StartPc, LivePc, RestPc
  <1>2. RedisOK' /\ ClosingOK' /\ ProcessOK'
    BY DEF Base, TypeOK, RedisOK, ClosingOK, ProcessOK, DriveCut, redis, closing,
       process
  <1>3. upsets' \in 0..MaxUpsets
    BY DEF Base, TypeOK, DriveCut
  <1> QED
    BY <1>1, <1>2, <1>3 DEF TypeOK

\* An append that fails ends the drive.
LEMMA LandTypes ==
  ASSUME Base, NEW r \in Run, Land(r) PROVE TypeOK'
  <1>1. RedisOK'
    BY XAddTyped DEF Base, TypeOK, RedisOK, Land, DriverOK, Frame
  <1>2. DriverOK'
    BY DEF Base, TypeOK, DriverOK, Land, EndDrive, Outcome, ReasonStatus, Reason,
       Terminal, Goto, Pc, StartPc, LivePc, RestPc
  <1>3. ClosingOK' /\ ProcessOK'
    BY DEF Base, TypeOK, ClosingOK, ProcessOK, Land, closing, process
  <1>4. upsets' \in 0..MaxUpsets
    BY SpendTyped DEF Base, TypeOK, Land
  <1> QED
    BY <1>1, <1>2, <1>3, <1>4 DEF TypeOK

\* _finalize has an outcome to record.
LEMMA FinalMarkTypes ==
  ASSUME Base, NEW r \in Run, FinalMark(r) PROVE TypeOK'
  <1>1. RedisOK'
    BY MarkTyped DEF Base, TypeOK, RedisOK, FinalMark, DriverOK, OutcomeKnown
  <1>2. DriverOK'
    BY DEF Base, TypeOK, DriverOK, FinalMark, BeginClose, Goto, Pc, StartPc, LivePc,
       RestPc
  <1>3. ClosingOK'
    BY DEF Base, TypeOK, ClosingOK, FinalMark, closing, BeginClose, CloserPc
  <1>4. ProcessOK'
    BY DEF Base, TypeOK, ProcessOK, FinalMark, process
  <1>5. upsets' \in 0..MaxUpsets
    BY SpendTyped DEF Base, TypeOK, FinalMark
  <1> QED
    BY <1>1, <1>2, <1>3, <1>4, <1>5 DEF TypeOK

\* The last step of _finalize gives up the thread.
LEMMA FinalReleaseTypes ==
  ASSUME Base, NEW r \in Run, FinalRelease(r) PROVE TypeOK'
  <1>1. RedisOK'
    BY ReleaseTyped DEF Base, TypeOK, RedisOK, FinalRelease
  <1>2. DriverOK'
    BY DEF Base, TypeOK, DriverOK, FinalRelease, Goto, Pc, StartPc, LivePc, RestPc
  <1>3. ClosingOK' /\ ProcessOK'
    BY DEF Base, TypeOK, ClosingOK, ProcessOK, FinalRelease, closing, process
  <1>4. upsets' \in 0..MaxUpsets
    BY SpendTyped DEF Base, TypeOK, FinalRelease
  <1> QED
    BY <1>1, <1>2, <1>3, <1>4 DEF TypeOK

\* A closer numbers its frame behind the last one.
LEMMA CloseReadTypes ==
  ASSUME Base, NEW r \in Run, CloseRead(r) PROVE TypeOK'
  <1>1. DriverOK'
    BY DEF Base, TypeOK, DriverOK, CloseRead, EndClose, Pc, StartPc, LivePc, RestPc
  <1>2. ClosingOK'
    BY LastSeqTyped DEF Base, TypeOK, ClosingOK, CloseRead, EndClose, CloserPc
  <1>3. RedisOK' /\ ProcessOK'
    BY DEF Base, TypeOK, RedisOK, ProcessOK, CloseRead, redis, process
  <1>4. upsets' \in 0..MaxUpsets
    BY SpendTyped DEF Base, TypeOK, CloseRead, Reply
  <1> QED
    BY <1>1, <1>2, <1>3, <1>4 DEF TypeOK

\* A closer announces a terminal status, its own task's or "interrupted".
LEMMA CloseAppendTypes ==
  ASSUME Base, NEW r \in Run, CloseAppend(r) PROVE TypeOK'
  <1>1. RedisOK'
    BY XAddTyped DEF Base, TypeOK, RedisOK, CloseAppend, DriverOK, ClosingOK,
       OutcomeKnown, OwnClose, OpenCloser, CloseStatus, Frame, EndFrame, Terminal
  <1>2. DriverOK'
    BY DEF Base, TypeOK, DriverOK, CloseAppend, EndClose, Pc, StartPc, LivePc, RestPc
  <1>3. ClosingOK'
    BY DEF Base, TypeOK, ClosingOK, CloseAppend, EndClose, CloserPc
  <1>4. ProcessOK'
    BY DEF Base, TypeOK, ProcessOK, CloseAppend, process
  <1>5. upsets' \in 0..MaxUpsets
    BY SpendTyped DEF Base, TypeOK, CloseAppend
  <1> QED
    BY <1>1, <1>2, <1>3, <1>4, <1>5 DEF TypeOK

\* An orphan closer frees the thread and hands on.
LEMMA OrphanReleaseTypes ==
  ASSUME Base, NEW r \in Run, OrphanRelease(r) PROVE TypeOK'
  <1>1. RedisOK'
    BY ReleaseTyped DEF Base, TypeOK, RedisOK, OrphanRelease
  <1>2. DriverOK'
    BY DEF Base, TypeOK, DriverOK, OrphanRelease, Resume, Pc, StartPc, LivePc, RestPc
  <1>3. ClosingOK'
    BY DEF Base, TypeOK, ClosingOK, OrphanRelease, CloserPc
  <1>4. ProcessOK'
    BY DEF Base, TypeOK, ProcessOK, OrphanRelease, Resume
  <1>5. upsets' \in 0..MaxUpsets
    BY SpendTyped DEF Base, TypeOK, OrphanRelease
  <1> QED
    BY <1>1, <1>2, <1>3, <1>4, <1>5 DEF TypeOK

\* A lapse drops one lease.
LEMMA LeaseLapsesTypes ==
  ASSUME Base, NEW r \in Run, LeaseLapses(r) PROVE TypeOK'
  <1>1. RedisOK'
    BY DEF Base, TypeOK, RedisOK, LeaseLapses
  <1>2. DriverOK' /\ ClosingOK' /\ ProcessOK'
    BY DEF Base, TypeOK, DriverOK, ClosingOK, ProcessOK, LeaseLapses, driver, closing,
       process
  <1>3. upsets' \in 0..MaxUpsets
    BY DEF Base, TypeOK, LeaseLapses
  <1> QED
    BY <1>1, <1>2, <1>3 DEF TypeOK

\* So does one under a live owner.
LEMMA LeaseLapsesUnderOwnerTypes ==
  ASSUME Base, NEW r \in Run, LeaseLapsesUnderOwner(r) PROVE TypeOK'
  <1>1. RedisOK'
    BY DEF Base, TypeOK, RedisOK, LeaseLapsesUnderOwner
  <1>2. DriverOK' /\ ClosingOK' /\ ProcessOK'
    BY DEF Base, TypeOK, DriverOK, ClosingOK, ProcessOK, LeaseLapsesUnderOwner, driver,
       closing, process
  <1>3. upsets' \in 0..MaxUpsets
    BY UpsetTyped DEF Base, TypeOK, LeaseLapsesUnderOwner
  <1> QED
    BY <1>1, <1>2, <1>3 DEF TypeOK

\* A heartbeat records a reason.
LEMMA HeartbeatTypes ==
  ASSUME Base, NEW r \in Run, Heartbeat(r) PROVE TypeOK'
  <1>1. DriverOK'
    BY DEF Base, TypeOK, DriverOK, Heartbeat, Stop, Reason
  <1>2. RedisOK' /\ ClosingOK' /\ ProcessOK'
    BY DEF Base, TypeOK, RedisOK, ClosingOK, ProcessOK, Heartbeat, redis, closing,
       process
  <1>3. upsets' \in 0..MaxUpsets
    BY DEF Base, TypeOK, Heartbeat
  <1> QED
    BY <1>1, <1>2, <1>3 DEF TypeOK

\* So does a local stop.
LEMMA StopLocalTypes ==
  ASSUME Base, NEW t \in Thread, NEW i \in Instance, StopLocal(t, i) PROVE TypeOK'
  <1>1. DriverOK'
    BY DEF Base, TypeOK, DriverOK, StopLocal, Stop, Reason
  <1>2. RedisOK' /\ ClosingOK' /\ ProcessOK'
    BY DEF Base, TypeOK, RedisOK, ClosingOK, ProcessOK, StopLocal, redis, closing,
       process
  <1>3. upsets' \in 0..MaxUpsets
    BY UpsetTyped DEF Base, TypeOK, StopLocal
  <1> QED
    BY <1>1, <1>2, <1>3 DEF TypeOK

\* A cancel request flags a run.
LEMMA RequestCancelTypes ==
  ASSUME Base, NEW r \in Run, RequestCancel(r) PROVE TypeOK'
  <1>1. RedisOK'
    BY DEF Base, TypeOK, RedisOK, RequestCancel
  <1>2. DriverOK' /\ ClosingOK' /\ ProcessOK'
    BY DEF Base, TypeOK, DriverOK, ClosingOK, ProcessOK, RequestCancel, driver, closing,
       process
  <1>3. upsets' \in 0..MaxUpsets
    BY UpsetTyped DEF Base, TypeOK, RequestCancel
  <1> QED
    BY <1>1, <1>2, <1>3 DEF TypeOK

\* A reaper takes up a run.
LEMMA ReaperFindsTypes ==
  ASSUME Base, NEW i \in Instance, NEW r \in Run, ReaperFinds(i, r) PROVE TypeOK'
  <1>1. ProcessOK'
    BY DEF Base, TypeOK, ProcessOK, ReaperFinds
  <1>2. RedisOK' /\ DriverOK' /\ ClosingOK'
    BY DEF Base, TypeOK, RedisOK, DriverOK, ClosingOK, ReaperFinds, redis, driver,
       closing
  <1>3. upsets' \in 0..MaxUpsets
    BY DEF Base, TypeOK, ReaperFinds
  <1> QED
    BY <1>1, <1>2, <1>3 DEF TypeOK

\* A reaper records "interrupted".
LEMMA ReaperMarksTypes ==
  ASSUME Base, NEW i \in Instance, ReaperMarks(i) PROVE TypeOK'
  <1>1. RedisOK'
    BY MarkTyped DEF Base, TypeOK, RedisOK, ReaperMarks, Terminal
  <1>2. ClosingOK'
    BY DEF Base, TypeOK, ClosingOK, ReaperMarks, closing, BeginClose, CloserPc
  <1>3. ProcessOK'
    BY DEF Base, TypeOK, ProcessOK, ReaperMarks
  <1>4. DriverOK'
    BY DEF Base, TypeOK, DriverOK, ReaperMarks, driver
  <1>5. upsets' \in 0..MaxUpsets
    BY SpendTyped DEF Base, TypeOK, ReaperMarks
  <1> QED
    BY <1>1, <1>2, <1>3, <1>4, <1>5 DEF TypeOK

\* shutdown() takes a snapshot.
LEMMA ShutdownTypes ==
  ASSUME Base, NEW i \in Instance, Shutdown(i) PROVE TypeOK'
  <1>1. ProcessOK'
    BY DEF Base, TypeOK, ProcessOK, Shutdown, LiveOn
  <1>2. RedisOK' /\ DriverOK' /\ ClosingOK'
    BY DEF Base, TypeOK, RedisOK, DriverOK, ClosingOK, Shutdown, redis, driver, closing
  <1>3. upsets' \in 0..MaxUpsets
    BY UpsetTyped DEF Base, TypeOK, Shutdown
  <1> QED
    BY <1>1, <1>2, <1>3 DEF TypeOK

\* It stops runs with a reason.
LEMMA ShutdownStopsTypes ==
  ASSUME Base, NEW i \in Instance, ShutdownStops(i) PROVE TypeOK'
  <1>1. DriverOK'
    BY DEF Base, TypeOK, DriverOK, ShutdownStops, Stop, Reason
  <1>2. RedisOK' /\ ClosingOK' /\ ProcessOK'
    BY DEF Base, TypeOK, RedisOK, ClosingOK, ProcessOK, ShutdownStops, redis, closing,
       process
  <1>3. upsets' \in 0..MaxUpsets
    BY DEF Base, TypeOK, ShutdownStops
  <1> QED
    BY <1>1, <1>2, <1>3 DEF TypeOK

\* It returns.
LEMMA ShutdownReturnsTypes ==
  ASSUME Base, NEW i \in Instance, ShutdownReturns(i) PROVE TypeOK'
  <1>1. ProcessOK'
    BY DEF Base, TypeOK, ProcessOK, ShutdownReturns
  <1>2. RedisOK' /\ DriverOK' /\ ClosingOK'
    BY DEF Base, TypeOK, RedisOK, DriverOK, ClosingOK, ShutdownReturns, redis, driver,
       closing
  <1>3. upsets' \in 0..MaxUpsets
    BY DEF Base, TypeOK, ShutdownReturns
  <1> QED
    BY <1>1, <1>2, <1>3 DEF TypeOK

\* A process goes with all of its tasks.
LEMMA GoneTypes ==
  ASSUME Base, NEW i \in Instance, Gone(i) PROVE RedisOK' /\ DriverOK' /\ ClosingOK' /\ ProcessOK'
  <1>1. DriverOK'
    BY DEF Base, TypeOK, DriverOK, Gone, Pc, StartPc, LivePc, RestPc
  <1>2. ClosingOK'
    BY DEF Base, TypeOK, ClosingOK, Gone, CloserPc
  <1>3. ProcessOK'
    BY DEF Base, TypeOK, ProcessOK, Gone
  <1>4. RedisOK'
    BY DEF Base, TypeOK, RedisOK, Gone, redis
  <1> QED
    BY <1>1, <1>2, <1>3, <1>4

\* A process comes back.
LEMMA RestartTypes ==
  ASSUME Base, NEW i \in Instance, Restart(i) PROVE TypeOK'
  <1>1. ProcessOK'
    BY DEF Base, TypeOK, ProcessOK, Restart
  <1>2. RedisOK' /\ DriverOK' /\ ClosingOK'
    BY DEF Base, TypeOK, RedisOK, DriverOK, ClosingOK, Restart, redis, driver, closing
  <1>3. upsets' \in 0..MaxUpsets
    BY DEF Base, TypeOK, Restart
  <1> QED
    BY <1>1, <1>2, <1>3 DEF TypeOK

\* So does every step.
LEMMA TypeOKStep == ASSUME Base, [Next]_vars PROVE TypeOK'
  <1>1. ASSUME NEW i \in Instance, Exit(i) \/ Crash(i) PROVE TypeOK'
    <2>1. Gone(i) /\ upsets' \in 0..MaxUpsets
      BY <1>1, UpsetTyped DEF Base, TypeOK, Exit, Crash
    <2> QED
      BY <2>1, GoneTypes DEF TypeOK
  <1>2. CASE UNCHANGED vars
    BY <1>2 DEF Base, TypeOK, RedisOK, DriverOK, ClosingOK, ProcessOK, vars
  <1> QED
    BY <1>1, <1>2, AcquireTypes, ReclaimMarkTypes, AppendStartedTypes, CheckStopTypes,
       RegisterTypes, AbortMarkTypes, AbortReleaseTypes, EmitTypes, AgentEndsTypes,
       DriveCutTypes, LandTypes, FinalMarkTypes, FinalReleaseTypes, CloseReadTypes,
       CloseAppendTypes, OrphanReleaseTypes, LeaseLapsesTypes, LeaseLapsesUnderOwnerTypes,
       HeartbeatTypes, StopLocalTypes, RequestCancelTypes, ReaperFindsTypes,
       ReaperMarksTypes, ShutdownTypes, ShutdownStopsTypes, ShutdownReturnsTypes,
       RestartTypes
    DEF Next, RunStep, StartStep, DriveStep, CloserStep, InstanceStep, ReaperStep, Settled

\* A task learns its outcome before it finalizes, and forgets it when it is done.
LEMMA OutcomeKnownStep == ASSUME Base, [Next]_vars PROVE OutcomeKnown'
  <1> USE DEF Base, TypeOK, DriverOK, OutcomeKnown, driver
  <1>1. ASSUME NEW r \in Run, NEW i \in Instance, Acquire(r, i) PROVE OutcomeKnown'
    BY <1>1 DEF Acquire, Goto
  <1>2. ASSUME NEW r \in Run, ReclaimMark(r) \/ AppendStarted(r) \/ CheckStop(r)
                              \/ AbortMark(r) \/ AbortRelease(r)
        PROVE  OutcomeKnown'
    BY <1>2 DEF ReclaimMark, AppendStarted, CheckStop, AbortMark, AbortRelease, Goto
  <1>3. ASSUME NEW r \in Run, Register(r) PROVE OutcomeKnown'
    BY <1>3 DEF Register, Goto, ReasonStatus
  <1>4. ASSUME NEW r \in Run, Land(r) \/ AgentEnds(r) \/ DriveCut(r) PROVE OutcomeKnown'
    <2>1. UNCHANGED <<pc, outcome>> \/ \E end \in {"completed", "failed"} : EndDrive(r, end)
      BY <1>4 DEF Land, AgentEnds, DriveCut
    <2> QED
      BY <2>1 DEF EndDrive, Outcome, ReasonStatus, Goto
  <1>5. ASSUME NEW r \in Run, FinalMark(r) \/ FinalRelease(r) PROVE OutcomeKnown'
    BY <1>5 DEF FinalMark, FinalRelease, BeginClose, Goto
  <1>6. ASSUME NEW r \in Run, CloseRead(r) \/ CloseAppend(r) PROVE OutcomeKnown'
    BY <1>6 DEF CloseRead, CloseAppend, EndClose, OwnClose, OpenCloser
  <1>7. ASSUME NEW r \in Run, OrphanRelease(r) PROVE OutcomeKnown'
    BY <1>7 DEF OrphanRelease, Resume
  <1>8. ASSUME NEW i \in Instance, Exit(i) \/ Crash(i) PROVE OutcomeKnown'
    BY <1>8 DEF Exit, Crash, Gone
  <1>9. ASSUME NEW r \in Run, Emit(r) \/ LeaseLapses(r) \/ LeaseLapsesUnderOwner(r)
                              \/ Heartbeat(r) \/ RequestCancel(r)
        PROVE  OutcomeKnown'
    BY <1>9 DEF Emit, LeaseLapses, LeaseLapsesUnderOwner, Heartbeat, RequestCancel
  <1>10. ASSUME NEW i \in Instance,
                ReaperStep(i) \/ (\E t \in Thread : StopLocal(t, i)) \/ Shutdown(i)
                \/ ShutdownStops(i) \/ ShutdownReturns(i) \/ Restart(i)
         PROVE  OutcomeKnown'
    BY <1>10 DEF ReaperStep, ReaperFinds, ReaperMarks, StopLocal, Shutdown, ShutdownStops,
                 ShutdownReturns, Restart
  <1>11. CASE UNCHANGED vars
    BY <1>11 DEF vars
  <1> QED
    BY <1>1, <1>2, <1>3, <1>4, <1>5, <1>6, <1>7, <1>8, <1>9, <1>10, <1>11
    DEF Next, RunStep, StartStep, DriveStep, CloserStep, InstanceStep, Settled

\* Only FinalMark opens a close of the task's own run, and only that close ends
\* the wait; a reclaiming send or a reaper that closes the run is somebody else.
LEMMA OwnCloseStep == ASSUME Base, [Next]_vars PROVE OwnClose'
  <1> USE DEF Base, TypeOK, DriverOK, ClosingOK, OwnClose, OpenCloser, driver, closing
  <1>1. ASSUME NEW r \in Run, NEW i \in Instance, Acquire(r, i) PROVE OwnClose'
    BY <1>1 DEF Acquire, Goto
  <1>2. ASSUME NEW r \in Run, AppendStarted(r) \/ CheckStop(r) \/ Register(r)
                              \/ AbortMark(r) \/ AbortRelease(r)
        PROVE  OwnClose'
    BY <1>2 DEF AppendStarted, CheckStop, Register, AbortMark, AbortRelease, Goto
  <1>3. ASSUME NEW r \in Run, ReclaimMark(r) PROVE OwnClose'
    BY <1>3 DEF ReclaimMark, BeginClose, Goto, MarkWins, Fresh, PrevKnown, Reclaims
  <1>4. ASSUME NEW r \in Run, Land(r) \/ AgentEnds(r) \/ DriveCut(r) PROVE OwnClose'
    BY <1>4 DEF Land, AgentEnds, DriveCut, EndDrive, Goto
  <1>5. ASSUME NEW r \in Run, FinalMark(r) \/ FinalRelease(r) PROVE OwnClose'
    BY <1>5 DEF FinalMark, FinalRelease, BeginClose, Goto
  <1>6. ASSUME NEW r \in Run, CloseRead(r) \/ CloseAppend(r) PROVE OwnClose'
    BY <1>6 DEF CloseRead, CloseAppend, EndClose
  <1>7. ASSUME NEW r \in Run, OrphanRelease(r) PROVE OwnClose'
    BY <1>7 DEF OrphanRelease, Resume
  <1>8. ASSUME NEW i \in Instance, Exit(i) \/ Crash(i) PROVE OwnClose'
    BY <1>8 DEF Exit, Crash, Gone, StartPc, LivePc
  <1>9. ASSUME NEW r \in Run, Emit(r) \/ LeaseLapses(r) \/ LeaseLapsesUnderOwner(r)
                              \/ Heartbeat(r) \/ RequestCancel(r)
        PROVE  OwnClose'
    BY <1>9 DEF Emit, LeaseLapses, LeaseLapsesUnderOwner, Heartbeat, RequestCancel
  <1>10. ASSUME NEW i \in Instance,
                (\E r \in Run : ReaperFinds(i, r)) \/ (\E t \in Thread : StopLocal(t, i))
                \/ Shutdown(i) \/ ShutdownStops(i) \/ ShutdownReturns(i) \/ Restart(i)
         PROVE  OwnClose'
    BY <1>10 DEF ReaperFinds, StopLocal, Shutdown, ShutdownStops, ShutdownReturns, Restart
  <1>11. ASSUME NEW i \in Instance, ReaperMarks(i) PROVE OwnClose'
    BY <1>11, ActorsDistinct, NoneFresh DEF ReaperMarks, BeginClose, ProcessOK
  <1>12. CASE UNCHANGED vars
    BY <1>12 DEF vars
  <1> QED
    BY <1>1, <1>2, <1>3, <1>4, <1>5, <1>6, <1>7, <1>8, <1>9, <1>10, <1>11, <1>12
    DEF Next, RunStep, StartStep, DriveStep, CloserStep, InstanceStep, ReaperStep, Settled

-----------------------------------------------------------------------------
(***************************************************************************)
(* What a step may do to the keys of the registry.                         *)
(***************************************************************************)

\* Nobody gives a run id back.
LEMMA KnownStays == ASSUME Base, [Next]_vars, NEW r \in Run, Known(r) PROVE Known(r)'
  <1> USE DEF Base, TypeOK, DriverOK, Known, driver
  <1>1. ASSUME NEW s \in Run, NEW i \in Instance, Acquire(s, i) PROVE Known(r)'
    BY <1>1 DEF Acquire, Goto
  <1>2. ASSUME NEW s \in Run, StartStep(s) PROVE Known(r)'
    BY <1>2 DEF StartStep, ReclaimMark, AppendStarted, CheckStop, Register, AbortMark,
                AbortRelease, Goto
  <1>3. ASSUME NEW s \in Run, DriveStep(s) \/ Land(s) PROVE Known(r)'
    BY <1>3 DEF DriveStep, Emit, AgentEnds, DriveCut, FinalMark, FinalRelease, Land,
                EndDrive, Goto
  <1>4. ASSUME NEW s \in Run, CloserStep(s) PROVE Known(r)'
    BY <1>4 DEF CloserStep, CloseRead, CloseAppend, OrphanRelease, EndClose, Resume
  <1>5. ASSUME NEW s \in Run, LeaseLapses(s) \/ LeaseLapsesUnderOwner(s)
                              \/ Heartbeat(s) \/ RequestCancel(s)
        PROVE  Known(r)'
    BY <1>5 DEF LeaseLapses, LeaseLapsesUnderOwner, Heartbeat, RequestCancel
  <1>6. ASSUME NEW i \in Instance, InstanceStep(i) PROVE Known(r)'
    BY <1>6 DEF InstanceStep, ReaperStep, ReaperFinds, ReaperMarks, StopLocal, Shutdown,
                ShutdownStops, ShutdownReturns, Exit, Crash, Gone, Restart
  <1>7. CASE UNCHANGED vars
    BY <1>7 DEF vars
  <1> QED
    BY <1>1, <1>2, <1>3, <1>4, <1>5, <1>6, <1>7 DEF Next, RunStep, Settled

\* A lock is taken for a new run, with its lease, from a holder without a lease;
\* it is released by the run it names; and a lease lapses.
TakesThread(r) ==
  /\ pc[r] = "idle" /\ pc'[r] # "idle"
  /\ ~Busy(ThreadOf[r])
  /\ lock' = [lock EXCEPT ![ThreadOf[r]] = r]
  /\ lease' = [lease EXCEPT ![r] = TRUE]
FreesThread(r) ==
  /\ lock' = [lock EXCEPT ![ThreadOf[r]] = IF @ = r THEN None ELSE @]
  /\ lease' = [lease EXCEPT ![r] = FALSE]
Lapses(r) == lock' = lock /\ lease' = [lease EXCEPT ![r] = FALSE]

\* Nothing else happens to locks and leases.
LEMMA LockSteps ==
  ASSUME Base, [Next]_vars
  PROVE  UNCHANGED <<lock, lease>>
         \/ \E r \in Run : TakesThread(r) \/ FreesThread(r) \/ Lapses(r)
  <1> USE DEF redis
  <1>1. ASSUME NEW r \in Run, NEW i \in Instance, Acquire(r, i)
        PROVE  UNCHANGED <<lock, lease>> \/ TakesThread(r)
    <2>1. UNCHANGED <<lock, lease>> \/ (Take(r) /\ ~Busy(ThreadOf[r]))
      BY <1>1 DEF Acquire
    <2>2. pc[r] = "idle" /\ pc'[r] # "idle"
      BY <1>1 DEF Acquire, Goto, Base, TypeOK, DriverOK
    <2> QED
      BY <2>1, <2>2 DEF Take, TakesThread
  <1>2. ASSUME NEW r \in Run, AbortRelease(r) \/ FinalRelease(r) \/ OrphanRelease(r)
        PROVE  UNCHANGED <<lock, lease>> \/ FreesThread(r)
    <2>1. \E o \in Reply : Release(r, o)
      BY <1>2 DEF AbortRelease, FinalRelease, OrphanRelease
    <2> QED
      BY <2>1 DEF Release, FreesThread
  <1>3. ASSUME NEW r \in Run, LeaseLapses(r) \/ LeaseLapsesUnderOwner(r) PROVE Lapses(r)
    BY <1>3 DEF LeaseLapses, LeaseLapsesUnderOwner, Lapses
  <1>4. ASSUME NEW r \in Run, ReclaimMark(r) \/ AppendStarted(r) \/ CheckStop(r)
                              \/ Register(r) \/ AbortMark(r)
        PROVE  UNCHANGED <<lock, lease>>
    BY <1>4 DEF ReclaimMark, AppendStarted, CheckStop, Register, AbortMark
  <1>5. ASSUME NEW r \in Run, Emit(r) \/ Land(r) \/ AgentEnds(r) \/ DriveCut(r)
                              \/ FinalMark(r) \/ CloseRead(r) \/ CloseAppend(r)
                              \/ Heartbeat(r) \/ RequestCancel(r)
        PROVE  UNCHANGED <<lock, lease>>
    BY <1>5 DEF Emit, Land, AgentEnds, DriveCut, FinalMark, CloseRead, CloseAppend,
                Heartbeat, RequestCancel
  <1>6. ASSUME NEW i \in Instance, InstanceStep(i) PROVE UNCHANGED <<lock, lease>>
    BY <1>6 DEF InstanceStep, ReaperStep, ReaperFinds, ReaperMarks, StopLocal, Shutdown,
                ShutdownStops, ShutdownReturns, Exit, Crash, Gone, Restart
  <1>7. CASE UNCHANGED vars
    BY <1>7 DEF vars
  <1> QED
    BY <1>1, <1>2, <1>3, <1>4, <1>5, <1>6, <1>7
    DEF Next, RunStep, StartStep, DriveStep, CloserStep, Settled

\* A run joins the running set when it is acquired, and leaves it when the first
\* mark_terminal records its end.
Admits(r) ==
  /\ pc[r] = "idle" /\ pc'[r] # "idle"
  /\ status' = [status EXCEPT ![r] = "running"]
  /\ running' = running \union {r}
Ends(r) ==
  /\ status[r] = "running"
  /\ \E end \in Terminal : status' = [status EXCEPT ![r] = end]
  /\ running' = running \ {r}

\* A mark_terminal that wins ends the run, any other leaves the registry alone.
LEMMA MarkEnds ==
  ASSUME NEW r \in Run, NEW end \in Terminal, NEW o \in Reply, MarkTerminal(r, end, o)
  PROVE  UNCHANGED <<status, running>> \/ Ends(r)
  BY DEF MarkTerminal, MarkWins, Ends

\* Nothing else happens to statuses and the running set.
LEMMA StatusSteps ==
  ASSUME Base, [Next]_vars
  PROVE  UNCHANGED <<status, running>> \/ \E r \in Run : Admits(r) \/ Ends(r)
  <1> USE DEF redis
  <1>1. ASSUME NEW r \in Run, NEW i \in Instance, Acquire(r, i)
        PROVE  UNCHANGED <<status, running>> \/ Admits(r)
    <2>1. UNCHANGED <<status, running>> \/ Take(r)
      BY <1>1 DEF Acquire
    <2>2. pc[r] = "idle" /\ pc'[r] # "idle"
      BY <1>1 DEF Acquire, Goto, Base, TypeOK, DriverOK
    <2> QED
      BY <2>1, <2>2 DEF Take, Admits
  <1>2. ASSUME NEW r \in Run, ReclaimMark(r)
        PROVE  UNCHANGED <<status, running>> \/ \E s \in Run : Ends(s)
    <2>1. prev[r] \in Run
      BY <1>2 DEF ReclaimMark, Base, Reclaims
    <2>2. \E o \in Reply : MarkTerminal(prev[r], "interrupted", o)
      BY <1>2 DEF ReclaimMark
    <2> QED
      BY <2>1, <2>2, MarkEnds DEF Terminal
  <1>3. ASSUME NEW r \in Run, AbortMark(r) \/ FinalMark(r)
        PROVE  UNCHANGED <<status, running>> \/ Ends(r)
    <2>1. \E end \in Terminal, o \in Reply : MarkTerminal(r, end, o)
      BY <1>3 DEF AbortMark, FinalMark, Terminal, Base, TypeOK, DriverOK, OutcomeKnown
    <2> QED
      BY <2>1, MarkEnds
  <1>4. ASSUME NEW i \in Instance, ReaperMarks(i)
        PROVE  UNCHANGED <<status, running>> \/ \E s \in Run : Ends(s)
    <2>1. reaping[i] \in Run
      BY <1>4 DEF ReaperMarks, Base, TypeOK, ProcessOK
    <2>2. \E o \in Reply : MarkTerminal(reaping[i], "interrupted", o)
      BY <1>4 DEF ReaperMarks
    <2> QED
      BY <2>1, <2>2, MarkEnds DEF Terminal
  <1>5. ASSUME NEW r \in Run, AppendStarted(r) \/ CheckStop(r) \/ Register(r)
                              \/ AbortRelease(r) \/ CloserStep(r) \/ LeaseLapses(r)
                              \/ LeaseLapsesUnderOwner(r) \/ RequestCancel(r)
        PROVE  UNCHANGED <<status, running>>
    BY <1>5 DEF AppendStarted, CheckStop, Register, AbortRelease, CloserStep, CloseRead,
                CloseAppend, OrphanRelease, LeaseLapses, LeaseLapsesUnderOwner,
                RequestCancel
  <1>6. ASSUME NEW r \in Run, Emit(r) \/ Land(r) \/ AgentEnds(r) \/ DriveCut(r)
                              \/ FinalRelease(r) \/ Heartbeat(r)
        PROVE  UNCHANGED <<status, running>>
    BY <1>6 DEF Emit, Land, AgentEnds, DriveCut, FinalRelease, Heartbeat
  <1>7. ASSUME NEW i \in Instance,
               (\E r \in Run : ReaperFinds(i, r)) \/ (\E t \in Thread : StopLocal(t, i))
               \/ Shutdown(i) \/ ShutdownStops(i) \/ ShutdownReturns(i) \/ Exit(i)
               \/ Crash(i) \/ Restart(i)
        PROVE  UNCHANGED <<status, running>>
    BY <1>7 DEF ReaperFinds, StopLocal, Shutdown, ShutdownStops, ShutdownReturns, Exit,
                Crash, Gone, Restart
  <1>8. CASE UNCHANGED vars
    BY <1>8 DEF vars
  <1> QED
    BY <1>1, <1>2, <1>3, <1>4, <1>5, <1>6, <1>7, <1>8
    DEF Next, RunStep, StartStep, DriveStep, InstanceStep, ReaperStep, Settled

\* A close begins only for a run whose end was just recorded, by the run's own
\* task, the send that took its thread, or a reaper that found it.
Claims(who, r) == \/ who = r
                  \/ who \in Run /\ pc[who] = "reclaimMark" /\ prev[who] = r
                  \/ who \in Instance /\ reaping[who] = r
OpensClose(who, r) ==
  /\ status[r] = "running"
  /\ Claims(who, r)
  /\ closer' = [closer EXCEPT ![r] = "readEnd"]
  /\ closedBy' = [closedBy EXCEPT ![r] = who]

\* Nobody else becomes a closer.
LEMMA ClosingSteps ==
  ASSUME Base, [Next]_vars
  PROVE  \/ closedBy' = closedBy /\ \A r \in Run : closer[r] = "none" => closer'[r] = "none"
         \/ \E r \in Run, who \in Run \union Instance : OpensClose(who, r)
  <1> DEFINE Stay == closedBy' = closedBy /\ closer' = closer
  <1> USE DEF closing
  <1>1. ASSUME NEW r \in Run, ReclaimMark(r) PROVE Stay \/ (OpensClose(r, prev[r]) /\ prev[r] \in Run)
    BY <1>1 DEF ReclaimMark, BeginClose, MarkWins, OpensClose, Claims, Base, Reclaims
  <1>2. ASSUME NEW r \in Run, FinalMark(r) PROVE Stay \/ OpensClose(r, r)
    BY <1>2 DEF FinalMark, BeginClose, MarkWins, OpensClose, Claims
  <1>3. ASSUME NEW i \in Instance, ReaperMarks(i)
        PROVE  Stay \/ (OpensClose(i, reaping[i]) /\ reaping[i] \in Run)
    BY <1>3 DEF ReaperMarks, BeginClose, MarkWins, OpensClose, Claims, Base, TypeOK,
       ProcessOK
  <1>4. ASSUME NEW r \in Run, CloserStep(r)
        PROVE  closedBy' = closedBy /\ \A s \in Run : closer[s] = "none" => closer'[s] = "none"
    BY <1>4 DEF CloserStep, CloseRead, CloseAppend, OrphanRelease, EndClose, Base,
       TypeOK, ClosingOK
  <1>5. ASSUME NEW i \in Instance, Exit(i) \/ Crash(i)
        PROVE  closedBy' = closedBy /\ \A s \in Run : closer[s] = "none" => closer'[s] = "none"
    BY <1>5 DEF Exit, Crash, Gone
  <1>6. ASSUME NEW r \in Run, (\E i \in Instance : Acquire(r, i)) \/ AppendStarted(r)
                              \/ CheckStop(r) \/ Register(r) \/ AbortMark(r) \/ AbortRelease(r)
        PROVE  Stay
    BY <1>6 DEF Acquire, AppendStarted, CheckStop, Register, AbortMark, AbortRelease
  <1>7. ASSUME NEW r \in Run, Emit(r) \/ Land(r) \/ AgentEnds(r) \/ DriveCut(r)
                              \/ FinalRelease(r) \/ LeaseLapses(r)
                              \/ LeaseLapsesUnderOwner(r) \/ Heartbeat(r) \/ RequestCancel(r)
        PROVE  Stay
    BY <1>7 DEF Emit, Land, AgentEnds, DriveCut, FinalRelease, LeaseLapses,
                LeaseLapsesUnderOwner, Heartbeat, RequestCancel
  <1>8. ASSUME NEW i \in Instance,
               (\E r \in Run : ReaperFinds(i, r)) \/ (\E t \in Thread : StopLocal(t, i))
               \/ Shutdown(i) \/ ShutdownStops(i) \/ ShutdownReturns(i) \/ Restart(i)
        PROVE  Stay
    BY <1>8 DEF ReaperFinds, StopLocal, Shutdown, ShutdownStops, ShutdownReturns, Restart
  <1>9. CASE UNCHANGED vars
    BY <1>9 DEF vars
  <1> QED
    BY <1>1, <1>2, <1>3, <1>4, <1>5, <1>6, <1>7, <1>8, <1>9
    DEF Next, RunStep, StartStep, DriveStep, InstanceStep, ReaperStep, Settled

\* Only an acquire sends a task to reclaim, and it names the holder it found.
LEMMA PrevSteps ==
  ASSUME Base, [Next]_vars
  PROVE  \/ prev' = prev /\ \A r \in Run : pc'[r] = "reclaimMark" => pc[r] = "reclaimMark"
         \/ \E r \in Run, i \in Instance : Acquire(r, i)
  <1> DEFINE Stay == prev' = prev
                     /\ \A r \in Run : pc'[r] = "reclaimMark" => pc[r] = "reclaimMark"
  <1> USE DEF Base, TypeOK, DriverOK, driver
  <1>1. ASSUME NEW r \in Run, StartStep(r) PROVE Stay
    BY <1>1 DEF StartStep, ReclaimMark, AppendStarted, CheckStop, Register, AbortMark,
                AbortRelease, Goto
  <1>2. ASSUME NEW r \in Run, DriveStep(r) \/ Land(r) PROVE Stay
    BY <1>2 DEF DriveStep, Emit, AgentEnds, DriveCut, FinalMark, FinalRelease, Land,
                EndDrive, Goto
  <1>3. ASSUME NEW r \in Run, CloserStep(r) PROVE Stay
    BY <1>3 DEF CloserStep, CloseRead, CloseAppend, OrphanRelease, EndClose, Resume
  <1>4. ASSUME NEW r \in Run, LeaseLapses(r) \/ LeaseLapsesUnderOwner(r)
                              \/ Heartbeat(r) \/ RequestCancel(r)
        PROVE  Stay
    BY <1>4 DEF LeaseLapses, LeaseLapsesUnderOwner, Heartbeat, RequestCancel
  <1>5. ASSUME NEW i \in Instance, InstanceStep(i) PROVE Stay
    BY <1>5 DEF InstanceStep, ReaperStep, ReaperFinds, ReaperMarks, StopLocal, Shutdown,
                ShutdownStops, ShutdownReturns, Exit, Crash, Gone, Restart
  <1>6. CASE UNCHANGED vars
    BY <1>6 DEF vars
  <1> QED
    BY <1>1, <1>2, <1>3, <1>4, <1>5, <1>6 DEF Next, RunStep, Settled

\* A reaper takes up a run only from the running set, without a lease.
LEMMA ReapingSteps ==
  ASSUME Base, [Next]_vars, NEW i \in Instance, reaping'[i] \in Run, reaping'[i] # reaping[i]
  PROVE  \E r \in Run : ReaperFinds(i, r)
  <1> USE NoneFresh DEF Base, TypeOK, ProcessOK, process
  <1>1. ASSUME NEW j \in Instance, NEW r \in Run, ReaperFinds(j, r) PROVE i = j
    BY <1>1 DEF ReaperFinds
  <1>2. ASSUME NEW j \in Instance, ReaperMarks(j) PROVE FALSE
    BY <1>2 DEF ReaperMarks
  <1>3. ASSUME NEW j \in Instance, Exit(j) \/ Crash(j) PROVE FALSE
    BY <1>3 DEF Exit, Crash, Gone
  <1>4. ASSUME NEW r \in Run, OrphanRelease(r) PROVE FALSE
    BY <1>4 DEF OrphanRelease, Resume
  <1>5. ASSUME NEW r \in Run, (\E j \in Instance : Acquire(r, j)) \/ StartStep(r)
                              \/ DriveStep(r) \/ Land(r)
        PROVE  FALSE
    BY <1>5 DEF Acquire, StartStep, ReclaimMark, AppendStarted, CheckStop, Register,
       AbortMark,
                AbortRelease, DriveStep, Emit, AgentEnds, DriveCut, FinalMark,
                FinalRelease, Land
  <1>6. ASSUME NEW r \in Run, CloseRead(r) \/ CloseAppend(r) \/ LeaseLapses(r)
                              \/ LeaseLapsesUnderOwner(r) \/ Heartbeat(r) \/ RequestCancel(r)
        PROVE  FALSE
    BY <1>6 DEF CloseRead, CloseAppend, LeaseLapses, LeaseLapsesUnderOwner, Heartbeat,
                RequestCancel
  <1>7. ASSUME NEW j \in Instance,
               (\E t \in Thread : StopLocal(t, j)) \/ Shutdown(j) \/ ShutdownStops(j)
               \/ ShutdownReturns(j) \/ Restart(j)
        PROVE  FALSE
    BY <1>7 DEF StopLocal, Shutdown, ShutdownStops, ShutdownReturns, Restart
  <1>8. CASE UNCHANGED vars
    BY <1>8 DEF vars
  <1> QED
    BY <1>1, <1>2, <1>3, <1>4, <1>5, <1>6, <1>7, <1>8
    DEF Next, RunStep, CloserStep, InstanceStep, ReaperStep, Settled

-----------------------------------------------------------------------------
(***************************************************************************)
(* The rest of Base.                                                       *)
(***************************************************************************)

\* A run becomes known with its own acquire; everybody else learns of it later,
\* from its lock or from the running set.
LEMMA UnsentStep == ASSUME Base, [Next]_vars PROVE Unsent'
  <1> SUFFICES ASSUME NEW r \in Run, ~Known(r)'
               PROVE  (status[r] = "absent" /\ ~lease[r] /\ closer[r] = "none"
                       /\ closedBy[r] = None)'
    BY DEF Unsent
  <1>1. ~Known(r)
    BY KnownStays
  <1>2. status[r] = "absent" /\ ~lease[r] /\ closer[r] = "none" /\ closedBy[r] = None
    BY <1>1 DEF Base, Fresh, Unsent
  <1>3. status'[r] = "absent"
    BY <1>2, StatusSteps DEF Admits, Ends, Known, Base, TypeOK, RedisOK
  <1>4. ~lease'[r]
    BY <1>2, LockSteps DEF TakesThread, FreesThread, Lapses, Known, Base, TypeOK, RedisOK
  <1>5. closer'[r] = "none" /\ closedBy'[r] = None
    BY <1>2, ClosingSteps DEF OpensClose, Base, TypeOK, ClosingOK
  <1> QED
    BY <1>3, <1>4, <1>5

\* A lock is only ever handed to the run that acquires it.
LEMMA LocksKnownStep == ASSUME Base, [Next]_vars PROVE LocksKnown'
  <1> SUFFICES ASSUME NEW t \in Thread, lock'[t] \in Run PROVE Known(lock[t])'
    BY DEF LocksKnown
  <1>1. CASE lock'[t] = lock[t]
    BY <1>1, KnownStays DEF Base, Fresh, LocksKnown, Known
  <1>2. CASE lock'[t] # lock[t]
    <2>1. PICK r \in Run : TakesThread(r) \/ FreesThread(r)
      BY <1>2, LockSteps DEF Lapses
    <2>2. TakesThread(r) /\ lock'[t] = r
      BY <1>2, <2>1, NoneFresh, ThreadOfType DEF TakesThread, FreesThread, Base, TypeOK,
         RedisOK
    <2> QED
      BY <2>2 DEF TakesThread, Known
  <1> QED
    BY <1>1, <1>2

\* The driver of a run and the reapers only learn runs from those keys.
LEMMA PrevKnownStep == ASSUME Base, [Next]_vars PROVE PrevKnown'
  <1>1. ASSUME NEW r \in Run, NEW i \in Instance, Acquire(r, i) PROVE PrevKnown'
    <2> SUFFICES ASSUME NEW s \in Run, prev'[s] \in Run PROVE prev'[s] # s /\ Known(prev[s])'
      BY DEF PrevKnown
    <2>1. CASE prev'[s] = prev[s]
      BY <2>1, KnownStays DEF Base, Fresh, PrevKnown, Known
    <2>2. CASE prev'[s] # prev[s]
      <3>1. s = r /\ prev'[s] = lock[ThreadOf[r]]
        BY <1>1, <2>2 DEF Acquire, Holder, Base, TypeOK, DriverOK
      <3>2. Known(lock[ThreadOf[r]]) /\ ~Known(r)
        BY <1>1, <3>1, ThreadOfType DEF Acquire, Known, Base, Fresh, LocksKnown
      <3> QED
        BY <3>1, <3>2, KnownStays DEF Known
    <2> QED
      BY <2>1, <2>2
  <1>2. CASE prev' = prev
    BY <1>2, KnownStays DEF Base, Fresh, PrevKnown, Known
  <1> QED
    BY <1>1, <1>2, PrevSteps

\* A reaper takes its run from the running set, which names known runs only.
LEMMA ReapingKnownStep == ASSUME Base, [Next]_vars PROVE ReapingKnown'
  <1> SUFFICES ASSUME NEW i \in Instance, reaping'[i] \in Run PROVE Known(reaping[i])'
    BY DEF ReapingKnown
  <1>1. CASE reaping'[i] = reaping[i]
    BY <1>1, KnownStays DEF Base, Fresh, ReapingKnown, Known
  <1>2. CASE reaping'[i] # reaping[i]
    <2>1. \E r \in Run : ReaperFinds(i, r)
      BY <1>2, ReapingSteps
    <2>2. PICK r \in Run : ReaperFinds(i, r)
      BY <2>1
    <2>3. reaping'[i] = r /\ r \in running
      BY <2>2 DEF ReaperFinds, Base, TypeOK, ProcessOK
    <2>4. Known(r)
      BY <2>3 DEF Base, RunningSetExact, Fresh, Unsent
    <2> QED
      BY <2>3, <2>4, KnownStays DEF Known
  <1> QED
    BY <1>1, <1>2

\* The running set is kept exact by every writer of a status.
LEMMA RunningSetStep == ASSUME Base, [Next]_vars PROVE RunningSetExact'
  BY StatusSteps DEF Admits, Ends, RunningSetExact, Base, TypeOK, RedisOK, Terminal

\* A send goes to reclaim only with the holder it found.
LEMMA ReclaimsStep == ASSUME Base, [Next]_vars PROVE Reclaims'
  <1> SUFFICES ASSUME NEW s \in Run, pc'[s] = "reclaimMark" PROVE prev'[s] \in Run
    BY DEF Reclaims
  <1>1. CASE prev' = prev /\ pc[s] = "reclaimMark"
    BY <1>1 DEF Base, Reclaims
  <1>2. ASSUME NEW r \in Run, NEW i \in Instance, Acquire(r, i) PROVE prev'[s] \in Run
    <2> USE DEF Base, TypeOK, RedisOK, DriverOK
    <2>1. CASE s = r
      <3>1. prev' = [prev EXCEPT ![r] = lock[ThreadOf[r]]] /\ lock[ThreadOf[r]] # None
        BY <1>2, <2>1 DEF Acquire, Holder, Goto
      <3> QED
        BY <2>1, <3>1, ThreadOfType
    <2>2. CASE s # r
      BY <1>2, <2>2 DEF Acquire, Goto, Reclaims
    <2> QED
      BY <2>1, <2>2
  <1> QED
    BY <1>1, <1>2, PrevSteps

\* Base is an inductive invariant.
LEMMA BaseInit == ASSUME Init PROVE Base
  BY NoneFresh, BoundsType DEF Init, Base, TypeOK, RedisOK, DriverOK, ClosingOK,
     ProcessOK, Fresh, Known,
     Unsent, LocksKnown, PrevKnown, ReapingKnown, RunningSetExact, OutcomeKnown,
     OwnClose, OpenCloser, Reclaims, Status, Pc, RestPc, Reason, CloserPc

\* Every step keeps it.
LEMMA BaseStep == ASSUME Base, [Next]_vars PROVE Base'
  BY TypeOKStep, OutcomeKnownStep, OwnCloseStep, UnsentStep, LocksKnownStep, PrevKnownStep,
     ReapingKnownStep, RunningSetStep, ReclaimsStep DEF Base, Fresh

\* So it always holds.
LEMMA BaseInvariant == Spec => []Base
  BY BaseInit, BaseStep, PTL DEF Spec

\* Every value stays within its type, whatever the numbers of runs, threads,
\* processes and upsets: no task ever records or announces an end it lacks.
THEOREM TypeCorrect == Spec => []TypeOK
  <1>1. Base => TypeOK
    BY DEF Base
  <1> QED
    BY <1>1, BaseInvariant, PTL

\* The running set names exactly the unfinished runs: no reclaim, abort, reaper
\* or finalizer writes one without the other.
THEOREM RunningSetCorrect == Spec => []RunningSetExact
  <1>1. Base => RunningSetExact
    BY DEF Base
  <1> QED
    BY <1>1, BaseInvariant, PTL

-----------------------------------------------------------------------------
(***************************************************************************)
(* Leases and locks.                                                       *)
(***************************************************************************)

\* A lease that is gone never comes back.
LEMMA LeaseNeverRevives ==
  ASSUME Base, [Next]_vars, NEW r \in Run, Known(r), ~lease[r] PROVE ~lease'[r]
  BY LockSteps DEF TakesThread, FreesThread, Lapses, Known, Base, TypeOK, RedisOK

\* A live lease keeps its lock: nobody takes over a thread whose holder has a
\* lease, and a release frees no lock but its own run's.
LEMMA LeaseHoldsLockStep == ASSUME Base, LeaseHoldsLock, [Next]_vars PROVE LeaseHoldsLock'
  <1> SUFFICES ASSUME NEW s \in Run, lease'[s] PROVE lock'[ThreadOf[s]] = s
    BY DEF LeaseHoldsLock
  <1> USE ThreadOfType DEF Base, TypeOK, RedisOK
  <1>1. CASE UNCHANGED <<lock, lease>>
    BY <1>1 DEF LeaseHoldsLock
  <1>2. ASSUME NEW r \in Run, TakesThread(r) PROVE lock'[ThreadOf[s]] = s
    <2>1. CASE s = r
      BY <1>2, <2>1 DEF TakesThread
    <2>2. CASE s # r
      <3>1. lease[s] /\ lock[ThreadOf[s]] = s
        BY <1>2, <2>2 DEF TakesThread, LeaseHoldsLock
      <3>2. ThreadOf[s] # ThreadOf[r]
        BY <1>2, <3>1, NoneFresh DEF TakesThread, Busy, Holder
      <3> QED
        BY <1>2, <3>1, <3>2 DEF TakesThread
    <2> QED
      BY <2>1, <2>2
  <1>3. ASSUME NEW r \in Run, FreesThread(r) PROVE lock'[ThreadOf[s]] = s
    <2>1. s # r /\ lock[ThreadOf[s]] = s
      BY <1>3 DEF FreesThread, LeaseHoldsLock
    <2> QED
      BY <1>3, <2>1 DEF FreesThread
  <1>4. ASSUME NEW r \in Run, Lapses(r) PROVE lock'[ThreadOf[s]] = s
    BY <1>4 DEF Lapses, LeaseHoldsLock
  <1> QED
    BY <1>1, <1>2, <1>3, <1>4, LockSteps

\* At most one run of a thread has a live lease, however acquires, reclaims,
\* lapses, aborts, crashes and late releases interleave.
THEOREM OneLiveRun == Spec => []OneLiveRunPerThread
  <1>1. Init => LeaseHoldsLock
    BY DEF Init, LeaseHoldsLock
  <1>2. LeaseHoldsLock => OneLiveRunPerThread
    BY DEF LeaseHoldsLock, OneLiveRunPerThread
  <1> QED
    BY <1>1, <1>2, LeaseHoldsLockStep, BaseInvariant, PTL DEF Spec

\* What a reaper, a reclaiming send or an orphan closer acts on stays without lease.
LEMMA OrphanStep == ASSUME Base, OrphanHasNoLease, [Next]_vars PROVE OrphanHasNoLease'
  <1>1. ASSUME NEW i \in Instance, reaping'[i] # None PROVE ~lease'[reaping'[i]]
    <2>0. reaping'[i] \in Run /\ reaping[i] \in Run \union {None}
      BY <1>1, BaseStep DEF Base, TypeOK, ProcessOK
    <2>1. CASE reaping'[i] = reaping[i]
      BY <1>1, <2>0, <2>1, LeaseNeverRevives DEF OrphanHasNoLease, Base, Fresh, ReapingKnown
    <2>2. CASE reaping'[i] # reaping[i]
      <3>1. PICK r \in Run : ReaperFinds(i, r)
        BY <2>0, <2>2, ReapingSteps
      <3> QED
        BY <3>1 DEF ReaperFinds, redis, Base, TypeOK, ProcessOK
    <2> QED
      BY <2>1, <2>2
  <1>2. ASSUME NEW r \in Run, pc'[r] = "reclaimMark" PROVE ~lease'[prev'[r]]
    <2>1. CASE prev' = prev /\ pc[r] = "reclaimMark"
      BY <2>1, LeaseNeverRevives DEF OrphanHasNoLease, Base, Reclaims, Fresh, PrevKnown
    <2>2. ASSUME NEW s \in Run, NEW i \in Instance, Acquire(s, i) PROVE ~lease'[prev'[r]]
      <3>1. CASE r = s
        <4>1. prev'[r] = lock[ThreadOf[r]] /\ lock[ThreadOf[r]] # None /\ ~Busy(ThreadOf[r])
          BY <1>2, <2>2, <3>1 DEF Acquire, Holder, Goto, Base, TypeOK, DriverOK
        <4>2. lock[ThreadOf[r]] \in Run /\ Known(lock[ThreadOf[r]])
          BY <4>1, ThreadOfType DEF Base, TypeOK, RedisOK, Fresh, LocksKnown
        <4>3. ~lease[lock[ThreadOf[r]]]
          BY <4>1 DEF Busy, Holder
        <4> QED
          BY <4>1, <4>2, <4>3, LeaseNeverRevives
      <3>2. CASE r # s
        <4>1. pc[r] = "reclaimMark" /\ prev'[r] = prev[r]
          BY <1>2, <2>2, <3>2 DEF Acquire, Goto, Base, TypeOK, DriverOK
        <4> QED
          BY <4>1, LeaseNeverRevives DEF OrphanHasNoLease, Base, Reclaims, Fresh, PrevKnown
      <3> QED
        BY <3>1, <3>2
    <2> QED
      BY <1>2, <2>1, <2>2, PrevSteps
  <1>3. ASSUME NEW r \in Run, closedBy'[r] \notin {None, r} PROVE ~lease'[r]
    <2>1. CASE closedBy'[r] = closedBy[r]
      BY <1>3, <2>1, LeaseNeverRevives DEF OrphanHasNoLease, Base, Fresh, Unsent
    <2>2. CASE closedBy'[r] # closedBy[r]
      <3>1. PICK who \in Run \union Instance : OpensClose(who, r) /\ closedBy'[r] = who
        BY <2>2, ClosingSteps DEF OpensClose, Base, TypeOK, ClosingOK
      <3>2. ~lease[r]
        BY <1>3, <3>1, NoneFresh DEF OpensClose, Claims, OrphanHasNoLease
      <3>3. Known(r)
        BY <3>1 DEF OpensClose, Base, Fresh, Unsent
      <3> QED
        BY <3>2, <3>3, LeaseNeverRevives
    <2> QED
      BY <2>1, <2>2
  <1> QED
    BY <1>1, <1>2, <1>3 DEF OrphanHasNoLease

\* A run is only ever closed by somebody else once its lease is gone for good,
\* although the check and the act are different steps: nothing revives a lease.
THEOREM OrphansOnly == Spec => []OrphanHasNoLease
  <1>1. Init => OrphanHasNoLease
    BY DEF Init, OrphanHasNoLease
  <1> QED
    BY <1>1, OrphanStep, BaseInvariant, PTL DEF Spec

-----------------------------------------------------------------------------
(***************************************************************************)
(* Shutdown.                                                               *)
(***************************************************************************)

\* A run becomes live only in a process that is up.
LEMMA LiveShrinks ==
  ASSUME Base, [Next]_vars, NEW i \in Instance, mode[i] # "up"
  PROVE  LiveOn(i)' \subseteq LiveOn(i)
  <1> SUFFICES ASSUME NEW s \in Run, owner'[s] = i, pc'[s] \in LivePc
               PROVE  owner[s] = i /\ pc[s] \in LivePc
    BY DEF LiveOn
  <1> DEFINE WasLive == owner[s] = i /\ pc[s] \in LivePc
  <1> USE DEF Base, TypeOK, DriverOK, driver
  <1>1. ASSUME NEW r \in Run, NEW j \in Instance, Acquire(r, j) PROVE WasLive
    BY <1>1 DEF Acquire, Goto, LivePc
  <1>2. ASSUME NEW r \in Run, ReclaimMark(r) \/ AppendStarted(r) \/ CheckStop(r)
                              \/ AbortMark(r) \/ AbortRelease(r)
        PROVE  WasLive
    BY <1>2 DEF ReclaimMark, AppendStarted, CheckStop, AbortMark, AbortRelease, Goto, LivePc
  <1>3. ASSUME NEW r \in Run, Register(r) PROVE WasLive
    BY <1>3 DEF Register, Goto, Accepting, LivePc
  <1>4. ASSUME NEW r \in Run, DriveStep(r) \/ Land(r) PROVE WasLive
    BY <1>4 DEF DriveStep, Emit, AgentEnds, DriveCut, FinalMark, FinalRelease, Land,
                EndDrive, Goto, LivePc
  <1>5. ASSUME NEW r \in Run, CloserStep(r) PROVE WasLive
    BY <1>5 DEF CloserStep, CloseRead, CloseAppend, OrphanRelease, EndClose, Resume,
                OwnClose, OpenCloser, LivePc
  <1>6. ASSUME NEW r \in Run, LeaseLapses(r) \/ LeaseLapsesUnderOwner(r)
                              \/ Heartbeat(r) \/ RequestCancel(r)
        PROVE  WasLive
    BY <1>6 DEF LeaseLapses, LeaseLapsesUnderOwner, Heartbeat, RequestCancel
  <1>7. ASSUME NEW j \in Instance, InstanceStep(j) PROVE WasLive
    BY <1>7 DEF InstanceStep, ReaperStep, ReaperFinds, ReaperMarks, StopLocal, Shutdown,
                ShutdownStops, ShutdownReturns, Exit, Crash, Gone, Restart, LivePc
  <1>8. CASE UNCHANGED vars
    BY <1>8 DEF vars
  <1> QED
    BY <1>1, <1>2, <1>3, <1>4, <1>5, <1>6, <1>7, <1>8 DEF Next, RunStep, StartStep, Settled

\* How the mode of a process changes.
LEMMA ModeSteps ==
  ASSUME Base, [Next]_vars
  PROVE  \/ mode' = mode /\ snapshot' = snapshot
         \/ \E i \in Instance : Shutdown(i) \/ ShutdownReturns(i) \/ Gone(i) \/ Restart(i)
  <1> USE DEF process
  <1>1. ASSUME NEW r \in Run, (\E i \in Instance : Acquire(r, i)) \/ StartStep(r)
                              \/ DriveStep(r) \/ Land(r)
        PROVE  mode' = mode /\ snapshot' = snapshot
    BY <1>1 DEF Acquire, StartStep, ReclaimMark, AppendStarted, CheckStop, Register,
       AbortMark,
                AbortRelease, DriveStep, Emit, AgentEnds, DriveCut, FinalMark,
                FinalRelease, Land
  <1>2. ASSUME NEW r \in Run, CloserStep(r) \/ LeaseLapses(r) \/ LeaseLapsesUnderOwner(r)
                              \/ Heartbeat(r) \/ RequestCancel(r)
        PROVE  mode' = mode /\ snapshot' = snapshot
    BY <1>2 DEF CloserStep, CloseRead, CloseAppend, OrphanRelease, LeaseLapses,
                LeaseLapsesUnderOwner, Heartbeat, RequestCancel
  <1>3. ASSUME NEW i \in Instance,
               ReaperStep(i) \/ (\E t \in Thread : StopLocal(t, i)) \/ ShutdownStops(i)
        PROVE  mode' = mode /\ snapshot' = snapshot
    BY <1>3 DEF ReaperStep, ReaperFinds, ReaperMarks, StopLocal, ShutdownStops
  <1>4. CASE UNCHANGED vars
    BY <1>4 DEF vars
  <1> QED
    BY <1>1, <1>2, <1>3, <1>4 DEF Next, RunStep, InstanceStep, Exit, Crash, Settled

\* Between the snapshot and the return nothing new goes live.
LEMMA DrainStep ==
  ASSUME Base, SnapshotCovers, DrainedIsIdle, [Next]_vars
  PROVE  SnapshotCovers' /\ DrainedIsIdle'
  <1> SUFFICES ASSUME NEW i \in Instance
               PROVE  /\ mode'[i] = "draining" => LiveOn(i)' \subseteq snapshot'[i]
                      /\ mode'[i] = "drained" => LiveOn(i)' = {}
    BY DEF SnapshotCovers, DrainedIsIdle
  <1> USE DEF Base, TypeOK, ProcessOK
  <1>1. CASE mode'[i] = mode[i] /\ snapshot'[i] = snapshot[i]
    BY <1>1, LiveShrinks DEF SnapshotCovers, DrainedIsIdle
  <1>2. CASE Shutdown(i)
    BY <1>2 DEF Shutdown, LiveOn, driver
  <1>3. CASE ShutdownReturns(i)
    BY <1>3 DEF ShutdownReturns, SnapshotCovers, LiveOn, LivePc, driver
  <1>4. CASE Gone(i) \/ Restart(i)
    BY <1>4 DEF Gone, Restart
  <1>5. ASSUME NEW j \in Instance, j # i,
               Shutdown(j) \/ ShutdownReturns(j) \/ Gone(j) \/ Restart(j)
        PROVE  mode'[i] = mode[i] /\ snapshot'[i] = snapshot[i]
    BY <1>5 DEF Shutdown, ShutdownReturns, Gone, Restart
  <1> QED
    BY <1>1, <1>2, <1>3, <1>4, <1>5, ModeSteps

\* When shutdown() has returned nothing is live in the process, not even a run
\* whose start was under way when it began.
THEOREM ShutdownDrains == Spec => []DrainedIsIdle
  <1>1. Init => SnapshotCovers /\ DrainedIsIdle
    BY DEF Init, SnapshotCovers, DrainedIsIdle
  <1> QED
    BY <1>1, DrainStep, BaseInvariant, PTL DEF Spec

-----------------------------------------------------------------------------
(***************************************************************************)
(* What one step may do to one run.  The stream of a run is written by     *)
(* three tasks (its start, its driver, its closer), and everything the     *)
(* theorems about streams need is in a few variables of that run.          *)
(***************************************************************************)

\* The three groups of those variables.
SameStream(r) == log'[r] = log[r] /\ lastSeq'[r] = lastSeq[r] /\ sent'[r] = sent[r]
SameCloser(r) ==
  closer'[r] = closer[r] /\ closedBy'[r] = closedBy[r] /\ closeSeq'[r] = closeSeq[r]
SameTask(r) == pc'[r] = pc[r] /\ outcome'[r] = outcome[r]

\* An entry joins the stream behind everything that is there.
Grows(r, seq, frame) ==
  /\ log'[r] = Append(log[r], [seq |-> seq, frame |-> frame])
  /\ seq > LastSeq(r)

\* The task goes on, in a way the stream does not notice.
Walks(r) ==
  /\ SameStream(r) /\ SameCloser(r) /\ status'[r] = status[r]
  /\ \/ SameTask(r)
     \/ /\ outcome'[r] = outcome[r]
        /\ \/ pc[r] \in StartPc /\ pc'[r] \in StartPc \ {"checking", "registering"}
           \/ pc[r] = "checking" /\ pc'[r] = "registering"
           \/ pc[r] = "finalMark" /\ pc'[r] = "finalRelease"
           \/ pc'[r] \in {"unavailable", "dead"}
     \/ pc'[r] = "done"

\* A send is let in, or turned away.
Admitted(r) ==
  /\ SameStream(r) /\ SameCloser(r) /\ outcome'[r] = outcome[r]
  /\ pc[r] = "idle"
  /\ \/ pc'[r] \in {"refused", "unavailable"} /\ status'[r] \in {status[r], "running"}
     \/ pc'[r] \in {"starting", "reclaimMark"} /\ status'[r] = "running"

\* The end is put on record, "completed" by the run's own task alone; who did so
\* may go on to close the stream.
Finishes(r) ==
  /\ SameStream(r) /\ outcome'[r] = outcome[r]
  /\ status[r] = "running" /\ status'[r] \in Terminal
  /\ status'[r] = "completed" => pc[r] = "finalMark" /\ outcome[r] = "completed"
  /\ \/ pc'[r] = pc[r] /\ status'[r] # "completed"
     \/ pc[r] = "abortMark" /\ pc'[r] \in {"abortRelease", "unavailable"}
     \/ pc[r] = "finalMark" /\ pc'[r] \in {"finalClose", "finalRelease"}
  /\ \/ SameCloser(r)
     \/ closer'[r] = "readEnd" /\ CloseStatus(r)' = status'[r]

\* start writes the first frame, or fails to.
Opens(r) ==
  /\ SameCloser(r) /\ status'[r] = status[r] /\ outcome'[r] = outcome[r]
  /\ lastSeq'[r] = lastSeq[r] /\ sent'[r] = sent[r]
  /\ pc[r] = "starting"
  /\ \/ log'[r] = log[r] /\ pc'[r] = "abortMark"
     \/ Grows(r, 1, "run_started") /\ pc'[r] \in {"checking", "abortMark"}

\* The run is registered and numbers on from there.
Registers(r) ==
  /\ SameCloser(r) /\ status'[r] = status[r]
  /\ log'[r] = log[r] /\ lastSeq'[r] = 1 /\ sent'[r] = sent[r]
  /\ pc[r] = "registering"
  /\ \/ pc'[r] = "driving" /\ outcome'[r] = outcome[r]
     \/ pc'[r] = "finalMark" /\ outcome'[r] = "cancelled"

\* The driver numbers a frame and hands it to Redis.
Emits(r) ==
  /\ SameCloser(r) /\ SameTask(r) /\ status'[r] = status[r] /\ log'[r] = log[r]
  /\ pc[r] = "driving" /\ sent[r] = "none"
  /\ lastSeq'[r] = lastSeq[r] + 1 /\ sent'[r] \in {"token", "meta"}

\* The frame lands, is refused or lost; a driver that is told so fails.
Lands(r) ==
  /\ SameCloser(r) /\ status'[r] = status[r] /\ lastSeq'[r] = lastSeq[r]
  /\ sent[r] # "none" /\ sent'[r] = "none"
  /\ log'[r] = log[r] \/ Grows(r, lastSeq[r], sent[r])
  /\ \/ SameTask(r) /\ (pc[r] = "driving" => Grows(r, lastSeq[r], sent[r]))
     \/ pc[r] = "driving" /\ pc'[r] = "finalMark" /\ outcome'[r] # "completed"

\* The driver ends, as "completed" only with nothing on its way.
Quits(r) ==
  /\ SameStream(r) /\ SameCloser(r) /\ status'[r] = status[r]
  /\ pc[r] = "driving" /\ pc'[r] = "finalMark"
  /\ outcome'[r] = "completed" => sent[r] = "none"

\* The closer reads the last seq ...
Numbers(r) ==
  /\ SameStream(r) /\ SameTask(r) /\ status'[r] = status[r] /\ closedBy'[r] = closedBy[r]
  /\ closeSeq'[r] = LastSeq(r) + 1
  /\ \/ closer[r] = "readEnd" /\ closer'[r] = "appendEnd"
     \/ closer[r] = "readDone" /\ closer'[r] = "appendDone"

\* ... and appends behind it, which ends the close unless it was told to go on
\* or to try again.
Announces(r) ==
  /\ lastSeq'[r] = lastSeq[r] /\ sent'[r] = sent[r] /\ outcome'[r] = outcome[r]
  /\ status'[r] = status[r] /\ closedBy'[r] = closedBy[r]
  /\ \/ /\ closer[r] = "appendEnd"
        /\ \/ Grows(r, closeSeq[r], CloseStatus(r)) /\ closer'[r] = "readDone"
           \/ log'[r] = log[r] /\ closer'[r] = "readEnd"
           \/ /\ Grows(r, closeSeq[r], CloseStatus(r))
              /\ closer'[r] \in {"finished", "release"}
     \/ /\ closer[r] = "appendDone"
        /\ \/ log'[r] = log[r] /\ closer'[r] = "readDone"
           \/ Grows(r, closeSeq[r], "DONE") /\ closer'[r] \in {"finished", "release"}
  /\ pc'[r] \in {pc[r], "finalRelease"}

\* The close is over, whatever it achieved.
GivesUp(r) ==
  /\ SameStream(r) /\ status'[r] = status[r]
  /\ closedBy'[r] = closedBy[r] /\ outcome'[r] = outcome[r]
  /\ closer[r] # "none" /\ closer'[r] \in {"finished", "release", "dead"}
  /\ \/ pc'[r] \in {pc[r], "finalRelease", "dead"}
     \/ pc[r] = "reclaimWait" /\ pc'[r] = "starting"

Moves(r) ==
  \/ Walks(r) \/ Admitted(r) \/ Finishes(r) \/ Opens(r) \/ Registers(r) \/ Emits(r)
  \/ Lands(r) \/ Quits(r) \/ Numbers(r) \/ Announces(r) \/ GivesUp(r)

\* An XADD lets the stream of its run grow or changes nothing.
LEMMA XAddGrows ==
  ASSUME TypeOK, NEW r \in Run, NEW seq, NEW frame, NEW o, XAdd(r, seq, frame, o)
  PROVE  /\ \A s \in Run : s # r => log'[s] = log[s]
         /\ IF o # "failed" /\ Accepts(r, seq) THEN Grows(r, seq, frame) ELSE log' = log
  BY DEF XAdd, Accepts, Grows, TypeOK, RedisOK

\* A mark_terminal changes at most the status of its run, if that is running.
LEMMA MarkLocal ==
  ASSUME TypeOK, NEW r \in Run, NEW end, NEW o, MarkTerminal(r, end, o)
  PROVE  /\ \A s \in Run : s # r => status'[s] = status[s]
         /\ IF MarkWins(r, o) THEN status[r] = "running" /\ status'[r] = end ELSE status' = status
  BY DEF MarkTerminal, MarkWins, TypeOK, RedisOK

\* The start of a run, up to its registration.
LEMMA StartMoves ==
  ASSUME Base, NEW s \in Run, (\E i \in Instance : Acquire(s, i)) \/ StartStep(s), NEW r \in Run
  PROVE  Walks(r) \/ Admitted(r) \/ Finishes(r) \/ Opens(r) \/ Registers(r)
  <1> USE DEF Base, TypeOK, DriverOK, ClosingOK, driver, closing, redis, SameStream,
              SameCloser, SameTask, Goto, StartPc
  <1>1. ASSUME NEW i \in Instance, Acquire(s, i) PROVE Walks(r) \/ Admitted(r)
    BY <1>1 DEF Acquire, Take, Walks, Admitted, RedisOK
  <1>2. CASE ReclaimMark(s)
    <2>1. prev[s] \in Run /\ prev[s] # s /\ pc[s] = "reclaimMark"
      BY <1>2 DEF ReclaimMark, Reclaims, Fresh, PrevKnown
    <2>2. PICK o \in Reply :
            /\ MarkTerminal(prev[s], "interrupted", o)
            /\ IF o = "ok" /\ MarkWins(prev[s], o)
                 THEN BeginClose(prev[s], s) /\ Goto(s, "reclaimWait")
                 ELSE Goto(s, "starting") /\ UNCHANGED closing
      BY <1>2 DEF ReclaimMark
    <2>3. UNCHANGED <<log, lastSeq, sent, outcome>>
      BY <1>2 DEF ReclaimMark
    <2>4. CASE r = prev[s]
      <3>1. pc'[r] = pc[r] /\ SameStream(r) /\ outcome'[r] = outcome[r]
        BY <2>1, <2>2, <2>3, <2>4
      <3>2. CASE MarkWins(r, o)
        <4>1. status[r] = "running" /\ status'[r] = "interrupted"
          BY <2>2, <2>4, <3>2, MarkLocal
        <4>2. SameCloser(r) \/ (closer'[r] = "readEnd" /\ closedBy'[r] = s)
          BY <2>1, <2>2, <2>4 DEF BeginClose
        <4>3. closedBy'[r] = s => CloseStatus(r)' = "interrupted"
          BY <2>1, <2>4 DEF CloseStatus
        <4> QED
          BY <3>1, <4>1, <4>2, <4>3 DEF Finishes, Terminal
      <3>3. CASE ~MarkWins(r, o)
        <4>1. status'[r] = status[r] /\ SameCloser(r)
          BY <2>2, <2>4, <3>3, MarkLocal
        <4> QED
          BY <3>1, <4>1 DEF Walks
      <3> QED
        BY <3>2, <3>3
    <2>5. CASE r # prev[s]
      <3>1. status'[r] = status[r]
        BY <2>1, <2>2, <2>5, MarkLocal
      <3>2. SameCloser(r)
        BY <2>1, <2>2, <2>5 DEF BeginClose
      <3> QED
        BY <2>1, <2>2, <2>3, <3>1, <3>2 DEF Walks
    <2> QED
      BY <2>4, <2>5
  <1>3. CASE AppendStarted(s)
    <2>1. PICK o \in Reply : /\ XAdd(s, 1, "run_started", o)
                             /\ Goto(s, IF Appended(s, 1, o) THEN "checking" ELSE "abortMark")
      BY <1>3 DEF AppendStarted
    <2>2. pc[s] = "starting"
          /\ UNCHANGED <<status, lastSeq, sent, outcome, closer, closedBy, closeSeq>>
      BY <1>3 DEF AppendStarted
    <2>3. CASE r = s
      BY <2>1, <2>2, <2>3, XAddGrows DEF Appended, Opens
    <2>4. CASE r # s
      BY <2>1, <2>2, <2>4, XAddGrows DEF Walks
    <2> QED
      BY <2>3, <2>4
  <1>4. CASE CheckStop(s) \/ AbortRelease(s)
    BY <1>4 DEF CheckStop, AbortRelease, Walks
  <1>5. CASE Register(s)
    BY <1>5 DEF Register, ReasonStatus, Walks, Registers
  <1>6. CASE AbortMark(s)
    <2>1. PICK o \in Reply : /\ MarkTerminal(s, "failed", o)
                             /\ Goto(s, IF o = "ok" THEN "abortRelease" ELSE "unavailable")
      BY <1>6 DEF AbortMark
    <2>2. pc[s] = "abortMark"
          /\ UNCHANGED <<log, lastSeq, sent, outcome, closer, closedBy, closeSeq>>
      BY <1>6 DEF AbortMark
    <2>3. CASE r = s
      BY <2>1, <2>2, <2>3, MarkLocal DEF Walks, Finishes, Terminal
    <2>4. CASE r # s
      BY <2>1, <2>2, <2>4, MarkLocal DEF Walks
    <2> QED
      BY <2>3, <2>4
  <1> QED
    BY <1>1, <1>2, <1>3, <1>4, <1>5, <1>6 DEF StartStep

\* The drive and the last two steps of _finalize.
LEMMA DriveMoves ==
  ASSUME Base, NEW s \in Run, DriveStep(s) \/ Land(s), NEW r \in Run
  PROVE  Walks(r) \/ Finishes(r) \/ Emits(r) \/ Lands(r) \/ Quits(r)
  <1> USE DEF Base, TypeOK, DriverOK, ClosingOK, driver, closing, redis, SameStream,
              SameCloser, SameTask, Goto
  <1>1. CASE Emit(s)
    BY <1>1 DEF Emit, NextFrame, Walks, Emits
  <1>2. CASE AgentEnds(s) \/ DriveCut(s)
    BY <1>2 DEF AgentEnds, DriveCut, EndDrive, Outcome, ReasonStatus, Walks, Quits
  <1>3. CASE Land(s)
    <2>1. PICK o \in Reply :
            /\ XAdd(s, lastSeq[s], sent[s], o)
            /\ IF pc[s] = "driving" /\ ~Appended(s, lastSeq[s], o)
                 THEN EndDrive(s, "failed") ELSE UNCHANGED <<pc, outcome, reason>>
      BY <1>3 DEF Land
    <2>2. /\ sent[s] # "none" /\ sent' = [sent EXCEPT ![s] = "none"]
          /\ UNCHANGED <<status, lastSeq, closer, closedBy, closeSeq>>
      BY <1>3 DEF Land
    <2>3. EndDrive(s, "failed") => pc'[s] = "finalMark" /\ outcome'[s] # "completed"
      BY DEF EndDrive, Outcome, ReasonStatus
    <2>4. CASE r = s
      <3>1. log'[r] = log[r] \/ Grows(r, lastSeq[r], sent[r])
        BY <2>1, <2>4, XAddGrows
      <3>2. Appended(s, lastSeq[s], o) => Grows(s, lastSeq[s], sent[s])
        BY <2>1, XAddGrows DEF Appended
      <3> QED
        BY <2>1, <2>2, <2>3, <2>4, <3>1, <3>2 DEF Lands
    <2>5. CASE r # s
      <3>1. log'[r] = log[r]
        BY <2>1, <2>5, XAddGrows
      <3> QED
        BY <2>1, <2>2, <2>5, <3>1 DEF Walks, EndDrive
    <2> QED
      BY <2>4, <2>5
  <1>4. CASE FinalMark(s)
    <2>1. PICK o \in Reply :
            /\ MarkTerminal(s, outcome[s], o)
            /\ IF o = "ok" /\ MarkWins(s, o)
                 THEN BeginClose(s, s) /\ Goto(s, "finalClose")
                 ELSE Goto(s, "finalRelease") /\ UNCHANGED closing
      BY <1>4 DEF FinalMark
    <2>2. pc[s] = "finalMark" /\ UNCHANGED <<log, lastSeq, sent, outcome>>
      BY <1>4 DEF FinalMark
    <2>3. outcome[s] \in Terminal
      BY <2>2 DEF OutcomeKnown
    <2>4. CASE r = s
      <3>1. SameCloser(r) \/ (closer'[r] = "readEnd" /\ CloseStatus(r)' = outcome[r])
        BY <2>1, <2>2, <2>4 DEF BeginClose, CloseStatus
      <3>2. CASE MarkWins(r, o)
        <4>1. status[r] = "running" /\ status'[r] = outcome[r]
          BY <2>1, <2>4, <3>2, MarkLocal
        <4>2. pc'[r] \in {"finalClose", "finalRelease"}
          BY <2>1, <2>4
        <4> QED
          BY <2>2, <2>3, <2>4, <3>1, <4>1, <4>2 DEF Finishes
      <3>3. CASE ~MarkWins(r, o)
        <4>1. status'[r] = status[r] /\ SameCloser(r) /\ pc'[r] = "finalRelease"
          BY <2>1, <2>4, <3>3, MarkLocal
        <4> QED
          BY <2>2, <2>4, <4>1 DEF Walks
      <3> QED
        BY <3>2, <3>3
    <2>5. CASE r # s
      <3>1. status'[r] = status[r]
        BY <2>1, <2>5, MarkLocal
      <3>2. SameCloser(r) /\ pc'[r] = pc[r]
        BY <2>1, <2>5 DEF BeginClose
      <3> QED
        BY <2>2, <3>1, <3>2 DEF Walks
    <2> QED
      BY <2>4, <2>5
  <1>5. CASE FinalRelease(s)
    BY <1>5 DEF FinalRelease, Walks
  <1> QED
    BY <1>1, <1>2, <1>3, <1>4, <1>5 DEF DriveStep

\* The close of a stream.
LEMMA CloserMoves ==
  ASSUME Base, NEW s \in Run, CloserStep(s), NEW r \in Run
  PROVE  Walks(r) \/ Numbers(r) \/ Announces(r) \/ GivesUp(r)
  <1> USE DEF Base, TypeOK, DriverOK, ClosingOK, driver, closing, redis, SameStream,
              SameCloser, SameTask
  <1>1. CASE CloseRead(s)
    BY <1>1 DEF CloseRead, EndClose, Walks, Numbers, GivesUp
  <1>2. CASE CloseAppend(s)
    <2> DEFINE frame == IF closer[s] = "appendEnd" THEN CloseStatus(s) ELSE "DONE"
    <2>1. PICK o \in Reply :
            /\ XAdd(s, closeSeq[s], frame, o)
            /\ \/ /\ Appended(s, closeSeq[s], o) /\ closer[s] = "appendEnd"
                  /\ closer' = [closer EXCEPT ![s] = "readDone"]
                  /\ closeSeq' = [closeSeq EXCEPT ![s] = 0]
                  /\ UNCHANGED pc
               \/ /\ o = "ok" /\ ~Accepts(s, closeSeq[s])
                  /\ closer' = [closer EXCEPT ![s] = IF closer[s] = "appendEnd"
                                                       THEN "readEnd" ELSE "readDone"]
                  /\ closeSeq' = [closeSeq EXCEPT ![s] = 0]
                  /\ UNCHANGED pc
               \/ EndClose(s)
      BY <1>2 DEF CloseAppend
    <2>2. closer[s] \in {"appendEnd", "appendDone"}
          /\ UNCHANGED <<status, lastSeq, sent, outcome, closedBy>>
      BY <1>2 DEF CloseAppend
    <2> HIDE DEF frame
    <2>3. CASE r = s
      <3>1. log'[r] = log[r] \/ Grows(r, closeSeq[r], frame)
        BY <2>1, <2>3, XAddGrows
      <3>2. Appended(s, closeSeq[s], o) => Grows(r, closeSeq[r], frame)
        BY <2>1, <2>3, XAddGrows DEF Appended
      <3>3. ~Accepts(s, closeSeq[s]) => log'[r] = log[r]
        BY <2>1, <2>3, XAddGrows
      <3>4. EndClose(s) => closer'[r] \in {"finished", "release"}
                           /\ pc'[r] \in {pc[r], "finalRelease"}
        BY <2>3 DEF EndClose
      <3>5. CASE closer[s] = "appendEnd"
        BY <2>1, <2>2, <2>3, <3>1, <3>2, <3>3, <3>4, <3>5 DEF frame, Announces, GivesUp
      <3>6. CASE closer[s] = "appendDone"
        BY <2>1, <2>2, <2>3, <3>1, <3>2, <3>3, <3>4, <3>6 DEF frame, Announces, GivesUp
      <3> QED
        BY <2>2, <3>5, <3>6
    <2>4. CASE r # s
      <3>1. log'[r] = log[r]
        BY <2>1, <2>4, XAddGrows
      <3> QED
        BY <2>1, <2>2, <2>4, <3>1 DEF EndClose, Walks
    <2> QED
      BY <2>3, <2>4
  <1>3. CASE OrphanRelease(s)
    <2>1. /\ closer[s] = "release" /\ closer' = [closer EXCEPT ![s] = "finished"]
          /\ UNCHANGED <<log, lastSeq, sent, status, outcome, closedBy, closeSeq>>
      BY <1>3 DEF OrphanRelease
    <2>2. pc'[r] = pc[r] \/ (pc[r] = "reclaimWait" /\ pc'[r] = "starting")
      BY <1>3 DEF OrphanRelease, Resume
    <2>3. CASE r = s
      BY <2>1, <2>2, <2>3 DEF GivesUp, Walks
    <2>4. CASE r # s
      BY <2>1, <2>2, <2>4 DEF Walks, StartPc
    <2> QED
      BY <2>3, <2>4
  <1> QED
    BY <1>1, <1>2, <1>3 DEF CloserStep

\* Leases, stops, the reaper and the life of the processes.
LEMMA OtherMoves ==
  ASSUME Base, NEW r \in Run,
         \/ \E s \in Run : LeaseLapses(s) \/ LeaseLapsesUnderOwner(s) \/ Heartbeat(s)
                           \/ RequestCancel(s)
         \/ \E i \in Instance : InstanceStep(i)
         \/ UNCHANGED vars
  PROVE  Walks(r) \/ Finishes(r) \/ GivesUp(r)
  <1> USE DEF Base, TypeOK, DriverOK, ClosingOK, driver, closing, redis, SameStream,
              SameCloser, SameTask
  <1>1. ASSUME NEW s \in Run, LeaseLapses(s) \/ LeaseLapsesUnderOwner(s) \/ Heartbeat(s)
                              \/ RequestCancel(s)
        PROVE  Walks(r)
    BY <1>1 DEF LeaseLapses, LeaseLapsesUnderOwner, Heartbeat, RequestCancel, Walks
  <1>2. ASSUME NEW i \in Instance,
               (\E s \in Run : ReaperFinds(i, s)) \/ (\E t \in Thread : StopLocal(t, i))
               \/ Shutdown(i) \/ ShutdownStops(i) \/ ShutdownReturns(i) \/ Restart(i)
        PROVE  Walks(r)
    BY <1>2 DEF ReaperFinds, StopLocal, Shutdown, ShutdownStops, ShutdownReturns,
                Restart, Walks
  <1>3. ASSUME NEW i \in Instance, Exit(i) \/ Crash(i) PROVE Walks(r) \/ GivesUp(r)
    <2>1. pc'[r] \in {pc[r], "dead"} /\ closer'[r] \in {closer[r], "dead"}
          /\ (closer'[r] # closer[r] => closer[r] # "none")
          /\ UNCHANGED <<log, lastSeq, sent, status, outcome, closedBy, closeSeq>>
      BY <1>3 DEF Exit, Crash, Gone
    <2> QED
      BY <2>1 DEF Walks, GivesUp
  <1>4. ASSUME NEW i \in Instance, ReaperMarks(i) PROVE Walks(r) \/ Finishes(r)
    <2>1. PICK o \in Reply :
            /\ MarkTerminal(reaping[i], "interrupted", o)
            /\ IF o = "ok" /\ MarkWins(reaping[i], o)
                 THEN BeginClose(reaping[i], i) ELSE UNCHANGED closing
      BY <1>4 DEF ReaperMarks
    <2>2. reaping[i] \in Run /\ i # r
          /\ UNCHANGED <<log, lastSeq, sent, outcome, pc>>
      BY <1>4, ActorsDistinct DEF ReaperMarks, ProcessOK
    <2>3. CASE r = reaping[i] /\ MarkWins(r, o)
      <3>1. status[r] = "running" /\ status'[r] = "interrupted"
        BY <2>1, <2>2, <2>3, MarkLocal
      <3>2. SameCloser(r) \/ (closer'[r] = "readEnd" /\ CloseStatus(r)' = "interrupted")
        BY <2>1, <2>2, <2>3 DEF BeginClose, CloseStatus
      <3> QED
        BY <2>2, <3>1, <3>2 DEF Finishes, Terminal
    <2>4. CASE r # reaping[i] \/ ~MarkWins(r, o)
      <3>1. status'[r] = status[r]
        BY <2>1, <2>2, <2>4, MarkLocal
      <3>2. SameCloser(r)
        BY <2>1, <2>2, <2>4 DEF BeginClose
      <3> QED
        BY <2>2, <3>1, <3>2 DEF Walks
    <2> QED
      BY <2>3, <2>4
  <1>5. CASE UNCHANGED vars
    BY <1>5 DEF vars, Walks
  <1> QED
    BY <1>1, <1>2, <1>3, <1>4, <1>5 DEF InstanceStep, ReaperStep

\* Nothing else happens to a run.
LEMMA RunMoves == ASSUME Base, [Next]_vars, NEW r \in Run PROVE Moves(r)
  BY StartMoves, DriveMoves, CloserMoves, OtherMoves
  DEF Next, RunStep, Settled, Moves

-----------------------------------------------------------------------------
(***************************************************************************)
(* Streams.  None of the four properties is inductive: what keeps three    *)
(* writers apart is how their counters relate to the length of the stream, *)
(* and how far the closer has come.                                        *)
(***************************************************************************)

\* The properties, for one run.
HasEnd(r) == \E k \in DOMAIN log[r] : log[r][k].frame \in EndFrame \union {"DONE"}
Contiguous(r) == \A k \in DOMAIN log[r] : log[r][k].seq = k
EndsOnce(r) ==
  \A k \in DOMAIN log[r] :
    /\ log[r][k].frame \in EndFrame => \A m \in DOMAIN log[r] :
                                          m > k => log[r][m].frame = "DONE"
    /\ log[r][k].frame = "DONE" => /\ k = Len(log[r])
                                   /\ k > 1 /\ log[r][k - 1].frame \in EndFrame
TellsStatus(r) ==
  \A k \in DOMAIN log[r] : log[r][k].frame \in EndFrame => log[r][k].frame = status[r]
IsWhole(r) ==
  status[r] = "completed" =>
    /\ lastSeq[r] <= Len(log[r])
    /\ \A k \in 1..lastSeq[r] : log[r][k].frame \notin EndFrame \union {"DONE"}

\* Whoever writes for a run, it is on record.
OnRecord(r) == pc[r] \in StartPc \union LivePc \/ sent[r] # "none" => status[r] # "absent"

\* A stream is closed for a run that is over, with the status on record.
CloserAgrees(r) ==
  /\ closer[r] # "none" => status[r] \in Terminal
  /\ closer[r] \in OpenCloser => CloseStatus(r) = status[r]

\* No writer is ahead of the stream by more than the one frame it is writing.
Numbered(r) ==
  /\ pc[r] \in {"checking", "registering"} =>
       log[r] # <<>> /\ log[r][1].frame = "run_started"
  /\ sent[r] # "none" => lastSeq[r] <= Len(log[r]) + 1
  /\ pc[r] = "driving" /\ sent[r] = "none" => lastSeq[r] <= Len(log[r])
  /\ closer[r] \in {"appendEnd", "appendDone"} => closeSeq[r] <= Len(log[r]) + 1

\* Behind an end every other writer has fallen behind, so its next frame is refused.
Fenced(r) ==
  HasEnd(r) => /\ sent[r] # "none" => lastSeq[r] <= Len(log[r])
               /\ pc[r] = "driving" /\ sent[r] = "none" => lastSeq[r] < Len(log[r])

\* How far the closer is tells whether the stream has ended.
Staged(r) ==
  /\ closer[r] \in {"none", "readEnd", "appendEnd"} => ~HasEnd(r)
  /\ closer[r] \in {"readDone", "appendDone"} =>
       log[r] # <<>> /\ log[r][Len(log[r])].frame \in EndFrame

\* A run goes for "completed" with nothing on its way, and then drives no more.
Complete(r) ==
  /\ pc[r] = "finalMark" /\ outcome[r] = "completed" =>
       sent[r] = "none" /\ lastSeq[r] <= Len(log[r])
  /\ status[r] = "completed" =>
       sent[r] = "none" /\ pc[r] \notin StartPc \union {"idle", "driving"}

StreamOK(r) ==
  /\ OnRecord(r) /\ CloserAgrees(r) /\ Numbered(r) /\ Fenced(r) /\ Staged(r) /\ Complete(r)
  /\ Contiguous(r) /\ EndsOnce(r) /\ TellsStatus(r) /\ IsWhole(r)

\* The last id of a contiguous stream is its length.
LEMMA LastSeqIsLen ==
  ASSUME TypeOK, NEW r \in Run, Contiguous(r) PROVE LastSeq(r) = Len(log[r])
  <1>1. log[r] \in Seq([seq : Nat, frame : Frame])
    BY DEF TypeOK, RedisOK
  <1> QED
    BY <1>1 DEF LastSeq, Contiguous

\* What an append to a contiguous stream leaves.
LEMMA GrowFacts ==
  ASSUME TypeOK, NEW r \in Run, Contiguous(r), NEW seq \in Nat, NEW frame \in Frame,
         Grows(r, seq, frame)
  PROVE  /\ seq > Len(log[r])
         /\ Len(log'[r]) = Len(log[r]) + 1
         /\ DOMAIN log'[r] = 1..(Len(log[r]) + 1)
         /\ \A k \in 1..Len(log[r]) : log'[r][k] = log[r][k]
         /\ log'[r][Len(log[r]) + 1].seq = seq
         /\ log'[r][Len(log[r]) + 1].frame = frame
  <1> DEFINE Entry == [seq : Nat, frame : Frame]
             entry == [seq |-> seq, frame |-> frame]
  <1>1. log[r] \in Seq(Entry) /\ entry \in Entry
    BY DEF TypeOK, RedisOK
  <1>2. entry.seq = seq /\ entry.frame = frame
    OBVIOUS
  <1>3. seq > Len(log[r])
    BY LastSeqIsLen DEF Grows
  <1>4. log'[r] = Append(log[r], entry)
    BY DEF Grows
  <1> HIDE DEF Entry, entry
  <1> QED
    BY <1>1, <1>2, <1>3, <1>4

\* The streams have their indices.
LEMMA StreamTyped ==
  ASSUME TypeOK, NEW r \in Run
  PROVE  /\ Len(log[r]) \in Nat /\ DOMAIN log[r] = 1..Len(log[r])
         /\ lastSeq[r] \in Nat /\ closeSeq[r] \in Nat
         /\ (log[r] # <<>> <=> Len(log[r]) > 0)
         /\ \A k \in DOMAIN log[r] : log[r][k].frame \in Frame
  <1> DEFINE Entry == [seq : Nat, frame : Frame]
  <1>1. log[r] \in Seq(Entry)
    BY DEF TypeOK, RedisOK
  <1>2. \A e \in Entry : e.frame \in Frame
    OBVIOUS
  <1>3. lastSeq[r] \in Nat /\ closeSeq[r] \in Nat
    BY DEF TypeOK, DriverOK, ClosingOK
  <1> HIDE DEF Entry
  <1>4. /\ Len(log[r]) \in Nat /\ DOMAIN log[r] = 1..Len(log[r])
        /\ (log[r] # <<>> <=> Len(log[r]) > 0)
    BY <1>1
  <1>5. \A k \in DOMAIN log[r] : log[r][k] \in Entry
    BY <1>1
  <1> QED
    BY <1>2, <1>3, <1>4, <1>5

\* Whoever writes is on record.
LEMMA OnRecordStep ==
  ASSUME Base, NEW r \in Run, OnRecord(r), CloserAgrees(r), Moves(r) PROVE OnRecord(r)'
  BY DEF CloserAgrees, Moves, OnRecord, Walks, Admitted, Finishes, Opens, Registers, Emits, Lands, Quits,
         Numbers, Announces, GivesUp, SameStream, SameTask, StartPc, LivePc, Terminal

\* A close starts with the record of the end, and the own task that waits for it
\* keeps its outcome.
LEMMA CloserAgreesStep ==
  ASSUME Base, Base', NEW r \in Run, CloserAgrees(r), Moves(r) PROVE CloserAgrees(r)'
  <1>1. closer'[r] # "none" => status'[r] \in Terminal
    BY DEF Moves, CloserAgrees, Walks, Admitted, Finishes, Opens, Registers, Emits, Lands,
           Quits, Numbers, Announces, GivesUp, SameCloser, Base, Fresh, Unsent, Known
  <1>2. ASSUME closer'[r] \in OpenCloser PROVE CloseStatus(r)' = status'[r]
    <2>1. closedBy'[r] = r => pc'[r] = "finalClose"
      BY <1>2 DEF Base, OwnClose
    <2>2. CASE Finishes(r)
      BY <1>2, <2>2 DEF Finishes, SameCloser, CloserAgrees, Terminal, OpenCloser
    <2>3. CASE ~Finishes(r)
      <3>1. closer[r] \in OpenCloser /\ closedBy'[r] = closedBy[r] /\ status'[r] = status[r]
        BY <1>2, <2>3 DEF Moves, Walks, Admitted, Opens, Registers, Emits, Lands, Quits,
           Numbers, Announces, GivesUp, SameCloser, Base, Fresh, Unsent, Known, OpenCloser
      <3>2. pc'[r] = "finalClose" => outcome'[r] = outcome[r]
        BY <2>3 DEF Moves, Walks, Admitted, Opens, Registers, Emits, Lands, Quits,
           Numbers, Announces, GivesUp, SameTask
      <3> QED
        BY <2>1, <3>1, <3>2 DEF CloserAgrees, CloseStatus
    <2> QED
      BY <2>2, <2>3
  <1> QED
    BY <1>1, <1>2 DEF CloserAgrees, CloseStatus

\* A stream that an append let grow is another one.
LEMMA GrowthShows ==
  ASSUME TypeOK, NEW r \in Run, Contiguous(r), NEW seq \in Nat, NEW frame \in Frame,
         log'[r] = log[r]
  PROVE  ~Grows(r, seq, frame)
  <1> SUFFICES ASSUME Grows(r, seq, frame) PROVE FALSE
    OBVIOUS
  <1>1. Len(log'[r]) = Len(log[r]) + 1 /\ Len(log'[r]) = Len(log[r])
    BY GrowFacts
  <1> QED
    BY <1>1, StreamTyped

\* A step that leaves the stream alone keeps the counters behind it.
LEMMA QuietStep ==
  ASSUME Base, NEW r \in Run, StreamOK(r), Moves(r), log'[r] = log[r]
  PROVE  Numbered(r)' /\ Fenced(r)' /\ Staged(r)' /\ Complete(r)'
  <1>1. HasEnd(r)' <=> HasEnd(r)
    BY DEF HasEnd
  <1>2. TypeOK /\ Contiguous(r) /\ lastSeq[r] \in Nat /\ closeSeq[r] \in Nat
        /\ Len(log[r]) \in Nat /\ (log[r] # <<>> <=> Len(log[r]) > 0)
    BY StreamTyped DEF Base, StreamOK
  <1>3. sent[r] # "none" => ~Grows(r, lastSeq[r], sent[r])
    BY <1>2, GrowthShows DEF TypeOK, DriverOK, Frame
  <1>4. ~Grows(r, 1, "run_started") /\ ~Grows(r, closeSeq[r], "DONE")
    BY <1>2, GrowthShows DEF Frame
  <1>5. closer[r] = "appendEnd" => ~Grows(r, closeSeq[r], CloseStatus(r))
    BY <1>2, GrowthShows DEF Frame, EndFrame, StreamOK, CloserAgrees, OpenCloser
  <1>6. Numbered(r)'
    <2> USE <1>2 DEF StreamOK, Numbered, Moves, Walks, Admitted, Finishes, Opens, Registers,
              Emits, Lands, Quits, Numbers, Announces, GivesUp, SameStream, SameTask, StartPc,
              SameCloser
    <2>1. pc'[r] \in {"checking", "registering"} =>
            log'[r] # <<>> /\ log'[r][1].frame = "run_started"
      BY <1>4
    <2>2. sent'[r] # "none" => lastSeq'[r] <= Len(log'[r]) + 1
      OBVIOUS
    <2>3. pc'[r] = "driving" /\ sent'[r] = "none" => lastSeq'[r] <= Len(log'[r])
      BY <1>3
    <2>4. closer'[r] \in {"appendEnd", "appendDone"} => closeSeq'[r] <= Len(log'[r]) + 1
      BY LastSeqIsLen
    <2> QED
      BY <2>1, <2>2, <2>3, <2>4
  <1>7. HasEnd(r) /\ pc[r] = "registering" => 1 < Len(log[r])
    <2> SUFFICES ASSUME HasEnd(r), pc[r] = "registering" PROVE 1 < Len(log[r])
      OBVIOUS
    <2>1. PICK k \in DOMAIN log[r] : log[r][k].frame \in EndFrame \union {"DONE"}
      BY DEF HasEnd
    <2>2. k # 1
      BY <2>1 DEF StreamOK, Numbered, EndFrame, Terminal
    <2> QED
      BY <2>1, <2>2, <1>2, StreamTyped
  <1>8. Fenced(r)'
    BY <1>1, <1>2, <1>3, <1>7
    DEF StreamOK, Fenced, Moves, Walks, Admitted, Finishes, Opens, Registers, Emits,
        Lands, Quits, Numbers, Announces, GivesUp, SameStream, SameTask, SameCloser, StartPc
  <1>9. Staged(r)'
    BY <1>1, <1>4, <1>5
    DEF StreamOK, Staged, CloserAgrees, Moves, Walks, Admitted, Finishes, Opens, Registers, Emits,
        Lands, Quits, Numbers, Announces, GivesUp, SameStream, SameTask, SameCloser, Terminal
  <1>10. Complete(r)'
    BY <1>2
    DEF StreamOK, Complete, Numbered, Moves, Walks, Admitted, Finishes, Opens, Registers, Emits,
        Lands, Quits, Numbers, Announces, GivesUp, SameStream, SameTask, SameCloser, StartPc
  <1> QED
    BY <1>6, <1>8, <1>9, <1>10

\* And its entries are what they were.
LEMMA QuietEntries ==
  ASSUME Base, NEW r \in Run, StreamOK(r), Moves(r), log'[r] = log[r]
  PROVE  Contiguous(r)' /\ EndsOnce(r)' /\ TellsStatus(r)' /\ IsWhole(r)'
  <1>1. Contiguous(r)' /\ EndsOnce(r)'
    BY DEF StreamOK, Contiguous, EndsOnce
  <1>2. HasEnd(r) => closer[r] # "none" /\ status[r] \in Terminal
    BY DEF StreamOK, Staged, CloserAgrees
  <1>3. HasEnd(r) => status'[r] = status[r]
    BY <1>2 DEF Moves, Walks, Admitted, Finishes, Opens, Registers, Emits, Lands, Quits,
       Numbers, Announces, GivesUp, Terminal, Base, Fresh, Unsent, Known
  <1>4. TellsStatus(r)'
    BY <1>3 DEF StreamOK, TellsStatus, HasEnd
  <1>5. ASSUME status'[r] = "completed" PROVE IsWhole(r)'
    <2>1. CASE status[r] = "completed"
      <3>1. lastSeq'[r] = lastSeq[r]
        BY <2>1 DEF Moves, Walks, Admitted, Finishes, Opens, Registers, Emits, Lands, Quits,
           Numbers, Announces, GivesUp, SameStream, StreamOK, Complete, StartPc
      <3> QED
        BY <2>1, <3>1 DEF StreamOK, IsWhole
    <2>2. CASE status[r] # "completed"
      <3>1. Finishes(r)
        BY <1>5, <2>2 DEF Moves, Walks, Admitted, Opens, Registers, Emits, Lands, Quits,
           Numbers, Announces, GivesUp
      <3>2. lastSeq'[r] = lastSeq[r] /\ lastSeq[r] <= Len(log[r])
        BY <1>5, <3>1 DEF Finishes, SameStream, StreamOK, Complete
      <3>3. ~HasEnd(r)
        BY <1>2, <3>1 DEF Finishes, Terminal
      <3>4. \A k \in 1..lastSeq[r] : k \in DOMAIN log[r]
        BY <3>2, StreamTyped DEF Base
      <3> QED
        BY <3>2, <3>3, <3>4 DEF IsWhole, HasEnd
    <2> QED
      BY <2>1, <2>2
  <1> QED
    BY <1>1, <1>4, <1>5 DEF IsWhole

\* A growing stream keeps its seqs and its first entries.
LEMMA GrowthEntries ==
  ASSUME TypeOK, NEW r \in Run, Contiguous(r), NEW seq \in Nat, NEW frame \in Frame,
         Grows(r, seq, frame), seq <= Len(log[r]) + 1
  PROVE  /\ Contiguous(r)' /\ (HasEnd(r) => HasEnd(r)')
         /\ (HasEnd(r)' => HasEnd(r) \/ frame \in EndFrame \union {"DONE"})
         /\ (IsWhole(r) /\ lastSeq'[r] = lastSeq[r] /\ status'[r] = status[r] => IsWhole(r)')
         /\ (log[r] # <<>> => log'[r][1] = log[r][1]) /\ log'[r] # <<>>
  <1> DEFINE n == Len(log[r])
  <1>1. /\ n \in Nat /\ DOMAIN log[r] = 1..n /\ (log[r] # <<>> <=> n > 0)
        /\ lastSeq[r] \in Nat
    BY StreamTyped
  <1>2. /\ seq = n + 1 /\ Len(log'[r]) = n + 1 /\ DOMAIN log'[r] = 1..(n + 1)
        /\ \A k \in 1..n : log'[r][k] = log[r][k]
        /\ log'[r][n + 1].seq = seq /\ log'[r][n + 1].frame = frame
    BY <1>1, GrowFacts
  <1> HIDE DEF n
  <1>3. Contiguous(r)'
    BY <1>1, <1>2 DEF Contiguous
  <1>4. HasEnd(r) => HasEnd(r)'
    BY <1>1, <1>2 DEF HasEnd
  <1>5. HasEnd(r)' => HasEnd(r) \/ frame \in EndFrame \union {"DONE"}
    BY <1>1, <1>2 DEF HasEnd
  <1>6. IsWhole(r) /\ lastSeq'[r] = lastSeq[r] /\ status'[r] = status[r] => IsWhole(r)'
    <2> SUFFICES ASSUME IsWhole(r), lastSeq'[r] = lastSeq[r], status'[r] = status[r],
                        status'[r] = "completed"
                 PROVE  /\ lastSeq[r] <= Len(log'[r])
                        /\ \A k \in 1..lastSeq[r] :
                              log'[r][k].frame \notin EndFrame \union {"DONE"}
      BY DEF IsWhole
    <2>1. /\ lastSeq[r] <= n
          /\ \A k \in 1..lastSeq[r] : log[r][k].frame \notin EndFrame \union {"DONE"}
      BY DEF IsWhole, n
    <2>2. ASSUME NEW k \in 1..lastSeq[r]
          PROVE  log'[r][k].frame \notin EndFrame \union {"DONE"}
      <3>1. k \in 1..n
        BY <1>1, <2>1
      <3>2. log'[r][k] = log[r][k]
        BY <1>2, <3>1
      <3> QED
        BY <2>1, <3>2
    <2>3. lastSeq[r] <= Len(log'[r])
      BY <1>1, <1>2, <2>1
    <2> QED
      BY <2>2, <2>3
  <1>7. (log[r] # <<>> => log'[r][1] = log[r][1]) /\ log'[r] # <<>>
    BY <1>1, <1>2
  <1> QED
    BY <1>3, <1>4, <1>5, <1>6, <1>7

\* The start and the driver add plain frames, and only to a stream without an end.
PlainFrame == Frame \ (EndFrame \union {"DONE"})
LEMMA PlainGrowth ==
  ASSUME Base, NEW r \in Run, StreamOK(r), Opens(r) \/ Lands(r), log'[r] # log[r]
  PROVE  /\ ~HasEnd(r) /\ status[r] # "absent"
         /\ \E seq \in Nat, frame \in PlainFrame :
              /\ Grows(r, seq, frame) /\ seq <= Len(log[r]) + 1
              /\ Opens(r) => seq = 1 /\ frame = "run_started"
              /\ Lands(r) => seq = lastSeq[r]
  <1>1. PICK seq \in Nat, frame \in PlainFrame :
          /\ Grows(r, seq, frame)
          /\ \/ Opens(r) /\ seq = 1 /\ frame = "run_started"
             \/ Lands(r) /\ seq = lastSeq[r]
    <2>1. "run_started" \in PlainFrame /\ "token" \in PlainFrame /\ "meta" \in PlainFrame
      BY DEF PlainFrame, Frame, EndFrame, Terminal
    <2>2. lastSeq[r] \in Nat /\ sent[r] \in {"none", "token", "meta"}
      BY DEF Base, TypeOK, DriverOK
    <2> QED
      BY <2>1, <2>2 DEF Opens, Lands
  <1>2. frame \in Frame
    BY <1>1 DEF PlainFrame
  <1>3. TypeOK /\ Contiguous(r) /\ Len(log[r]) \in Nat /\ DOMAIN log[r] = 1..Len(log[r])
    BY StreamTyped DEF Base, StreamOK
  <1>4. seq > Len(log[r])
    BY <1>1, <1>2, <1>3, GrowFacts
  <1>5. seq <= Len(log[r]) + 1
    BY <1>1, <1>3 DEF Lands, StreamOK, Numbered
  <1>6. ~HasEnd(r)
    <2>1. CASE Opens(r) /\ seq = 1
      <3>1. DOMAIN log[r] = 1..Len(log[r]) /\ Len(log[r]) = 0
        BY <1>3, <1>4, <2>1
      <3> QED
        BY <3>1 DEF HasEnd
    <2>2. CASE Lands(r) /\ seq = lastSeq[r]
      BY <1>3, <1>4, <2>2 DEF Lands, StreamOK, Fenced
    <2> QED
      BY <1>1, <2>1, <2>2
  <1>7. status[r] # "absent"
    BY DEF StreamOK, OnRecord, Opens, Lands, StartPc
  <1>8. ~(Opens(r) /\ Lands(r))
    BY DEF Opens, Lands
  <1> QED
    BY <1>1, <1>5, <1>6, <1>7, <1>8

\* So such a frame comes with the next number.
LEMMA PlainStep ==
  ASSUME Base, NEW r \in Run, StreamOK(r), Opens(r) \/ Lands(r), log'[r] # log[r]
  PROVE  /\ Numbered(r)' /\ Fenced(r)' /\ Staged(r)' /\ Complete(r)'
         /\ Contiguous(r)' /\ EndsOnce(r)' /\ TellsStatus(r)' /\ IsWhole(r)'
  <1>1. PICK seq \in Nat, frame \in PlainFrame :
          /\ Grows(r, seq, frame) /\ seq <= Len(log[r]) + 1
          /\ Opens(r) => seq = 1 /\ frame = "run_started"
          /\ Lands(r) => seq = lastSeq[r]
    BY PlainGrowth
  <1>2. frame \in Frame /\ frame \notin EndFrame \union {"DONE"}
    BY <1>1 DEF PlainFrame
  <1>3. TypeOK /\ Contiguous(r) /\ Len(log[r]) \in Nat /\ lastSeq[r] \in Nat
        /\ closeSeq[r] \in Nat /\ (log[r] # <<>> <=> Len(log[r]) > 0)
    BY StreamTyped DEF Base, StreamOK
  <1>4. seq > Len(log[r]) /\ Len(log'[r]) = Len(log[r]) + 1
    BY <1>1, <1>2, <1>3, GrowFacts
  <1>5. seq <= Len(log[r]) + 1
    BY <1>1
  <1>6. ~HasEnd(r)
    BY PlainGrowth
  <1>7. ~HasEnd(r)'
    BY <1>1, <1>2, <1>3, <1>5, <1>6, GrowthEntries
  <1>8. closer[r] \notin {"readDone", "appendDone"}
    <2> SUFFICES ASSUME log[r] # <<>>, log[r][Len(log[r])].frame \in EndFrame PROVE FALSE
      BY DEF StreamOK, Staged
    <2>1. Len(log[r]) \in DOMAIN log[r]
      BY <1>3, StreamTyped
    <2> QED
      BY <1>6, <2>1 DEF HasEnd
  <1>9. Fenced(r)' /\ EndsOnce(r)' /\ TellsStatus(r)'
    BY <1>7 DEF Fenced, EndsOnce, TellsStatus, HasEnd
  <1>10. Staged(r)'
    BY <1>7, <1>8 DEF Staged, Opens, Lands, SameCloser
  <1>11. status'[r] = status[r] /\ lastSeq'[r] = lastSeq[r]
    BY DEF Opens, Lands
  <1>12. Contiguous(r)' /\ IsWhole(r)' /\ log'[r] # <<>>
         /\ (log[r] # <<>> => log'[r][1] = log[r][1])
    BY <1>1, <1>2, <1>3, <1>5, <1>11, GrowthEntries DEF StreamOK
  <1>13. Numbered(r)'
    <2>1. ASSUME Opens(r) PROVE  log'[r][1].frame = "run_started"
      <3>1. frame = "run_started" /\ seq = 1 /\ Len(log[r]) = 0
        BY <1>1, <1>3, <1>4, <2>1
      <3>2. log'[r][Len(log[r]) + 1].frame = frame
        BY <1>1, <1>2, <1>3, GrowFacts
      <3>3. Len(log[r]) + 1 = 1
        BY <3>1
      <3> QED
        BY <3>1, <3>2, <3>3
    <2>2. pc'[r] \in {"checking", "registering"} =>
            log'[r] # <<>> /\ log'[r][1].frame = "run_started"
      BY <1>12, <2>1 DEF Opens, Lands, SameTask, StreamOK, Numbered
    <2>3. sent'[r] # "none" => lastSeq'[r] <= Len(log'[r]) + 1
      BY <1>3, <1>4, <1>11 DEF Opens, Lands, StreamOK, Numbered
    <2>4. pc'[r] = "driving" /\ sent'[r] = "none" => lastSeq'[r] <= Len(log'[r])
      BY <1>3, <1>4, <1>5, <1>11 DEF Opens, Lands, SameTask, StreamOK, Numbered
    <2>5. closer'[r] \in {"appendEnd", "appendDone"} => closeSeq'[r] <= Len(log'[r]) + 1
      BY <1>3, <1>4 DEF Opens, Lands, SameCloser, StreamOK, Numbered
    <2> QED
      BY <2>2, <2>3, <2>4, <2>5 DEF Numbered
  <1>14. Complete(r)'
    BY <1>3, <1>4 DEF Opens, Lands, SameTask, StreamOK, Complete, StartPc
  <1> QED
    BY <1>9, <1>10, <1>12, <1>13, <1>14

\* The closer adds the end on record to a stream without an end, and [DONE] to one
\* that just got it.
CloseFrame(r) == IF closer[r] = "appendEnd" THEN status[r] ELSE "DONE"
LEMMA CloseGrowth ==
  ASSUME Base, NEW r \in Run, StreamOK(r), Announces(r), log'[r] # log[r]
  PROVE  /\ closer[r] \in {"appendEnd", "appendDone"}
         /\ Grows(r, closeSeq[r], CloseFrame(r)) /\ closeSeq[r] <= Len(log[r]) + 1
         /\ status[r] \in Terminal
         /\ CloseFrame(r) \in Frame /\ CloseFrame(r) \in EndFrame \union {"DONE"}
         /\ closer'[r] \in {"finished", "release", "readDone"}
         /\ closer'[r] = "readDone" => closer[r] = "appendEnd"
  <1>1. /\ closer[r] \in {"appendEnd", "appendDone"}
        /\ Grows(r, closeSeq[r], CloseFrame(r))
        /\ closer'[r] \in {"finished", "release", "readDone"}
        /\ closer'[r] = "readDone" => closer[r] = "appendEnd"
    BY DEF Announces, StreamOK, CloserAgrees, OpenCloser, CloseFrame
  <1>2. /\ status[r] \in Terminal
        /\ CloseFrame(r) \in Frame /\ CloseFrame(r) \in EndFrame \union {"DONE"}
    BY <1>1 DEF StreamOK, CloserAgrees, CloseFrame, Frame, EndFrame
  <1>3. closeSeq[r] <= Len(log[r]) + 1
    BY <1>1 DEF StreamOK, Numbered
  <1> QED
    BY <1>1, <1>2, <1>3

\* So the stream ends once, with that status.
LEMMA CloseStep ==
  ASSUME Base, NEW r \in Run, StreamOK(r), Announces(r), log'[r] # log[r]
  PROVE  /\ Numbered(r)' /\ Fenced(r)' /\ Staged(r)' /\ Complete(r)'
         /\ Contiguous(r)' /\ EndsOnce(r)' /\ TellsStatus(r)' /\ IsWhole(r)'
  <1> DEFINE n == Len(log[r])
             frame == CloseFrame(r)
  <1>1. /\ closer[r] \in {"appendEnd", "appendDone"}
        /\ Grows(r, closeSeq[r], frame)
        /\ closer'[r] \in {"finished", "release", "readDone"}
        /\ closer'[r] = "readDone" => closer[r] = "appendEnd"
    BY CloseGrowth
  <1>2. status[r] \in Terminal /\ frame \in Frame /\ frame \in EndFrame \union {"DONE"}
    BY CloseGrowth
  <1>3. /\ TypeOK /\ Contiguous(r) /\ n \in Nat /\ lastSeq[r] \in Nat /\ closeSeq[r] \in Nat
        /\ DOMAIN log[r] = 1..n /\ (log[r] # <<>> <=> n > 0)
    BY StreamTyped DEF Base, StreamOK
  <1>4. closeSeq[r] <= n + 1
    BY CloseGrowth
  <1>5. /\ Len(log'[r]) = n + 1 /\ DOMAIN log'[r] = 1..(n + 1)
        /\ \A k \in 1..n : log'[r][k] = log[r][k]
        /\ log'[r][n + 1].frame = frame
    BY <1>1, <1>2, <1>3, GrowFacts
  <1>6. lastSeq'[r] = lastSeq[r] /\ sent'[r] = sent[r] /\ status'[r] = status[r]
        /\ outcome'[r] = outcome[r] /\ pc'[r] \in {pc[r], "finalRelease"}
    BY DEF Announces
  <1>7. Contiguous(r)' /\ IsWhole(r)' /\ log'[r] # <<>>
        /\ (log[r] # <<>> => log'[r][1] = log[r][1])
    BY <1>1, <1>2, <1>3, <1>4, <1>6, GrowthEntries DEF StreamOK
  <1> HIDE DEF n, frame
  <1>8. Numbered(r)'
    BY <1>1, <1>3, <1>5, <1>6, <1>7 DEF StreamOK, Numbered, n
  <1>9. Fenced(r)'
    BY <1>3, <1>5, <1>6 DEF StreamOK, Numbered, Fenced, n
  <1>10. Complete(r)'
    BY <1>3, <1>5, <1>6 DEF StreamOK, Complete, n, StartPc
  <1>11. CASE closer[r] = "appendEnd"
    <2>1. frame = status[r] /\ frame \in EndFrame /\ frame # "DONE"
      BY <1>2, <1>11 DEF frame, CloseFrame, EndFrame, Terminal
    <2>2. \A k \in 1..n : log[r][k].frame \notin EndFrame \union {"DONE"}
      BY <1>3, <1>11 DEF StreamOK, Staged, HasEnd
    <2>3. \A k \in 1..(n + 1) : log'[r][k].frame \in EndFrame \union {"DONE"} => k = n + 1
      BY <1>3, <1>5, <2>2
    <2>4. EndsOnce(r)' /\ TellsStatus(r)'
      BY <1>3, <1>5, <1>6, <2>1, <2>3 DEF EndsOnce, TellsStatus
    <2>5. Staged(r)'
      BY <1>1, <1>5, <1>7, <2>1 DEF Staged
    <2> QED
      BY <1>7, <1>8, <1>9, <1>10, <2>4, <2>5
  <1>12. CASE closer[r] = "appendDone"
    <2>1. frame = "DONE" /\ "DONE" \notin EndFrame
      BY <1>12 DEF frame, CloseFrame, EndFrame, Terminal
    <2>2. n > 0 /\ log[r][n].frame \in EndFrame
      BY <1>3, <1>12 DEF StreamOK, Staged, n
    <2>3. \A k \in 1..n : log[r][k].frame # "DONE"
      BY <1>3, <2>1, <2>2 DEF StreamOK, EndsOnce, n
    <2>4. \A k \in 1..n : log[r][k].frame \in EndFrame => k = n
      BY <1>3, <2>1, <2>2, <2>3 DEF StreamOK, EndsOnce
    <2>5. EndsOnce(r)'
      <3> SUFFICES ASSUME NEW k \in 1..(n + 1)
                   PROVE  /\ log'[r][k].frame \in EndFrame =>
                               \A m \in 1..(n + 1) : m > k => log'[r][m].frame = "DONE"
                          /\ log'[r][k].frame = "DONE" =>
                               k = n + 1 /\ k > 1 /\ log'[r][k - 1].frame \in EndFrame
        BY <1>5 DEF EndsOnce
      <3>1. CASE k = n + 1
        BY <1>3, <1>5, <2>1, <2>2, <3>1
      <3>2. CASE k \in 1..n
        BY <1>3, <1>5, <2>1, <2>3, <2>4, <3>2
      <3> QED
        BY <1>3, <3>1, <3>2
    <2>6. TellsStatus(r)'
      BY <1>3, <1>5, <1>6, <2>1 DEF StreamOK, TellsStatus
    <2>7. Staged(r)'
      BY <1>1, <1>12 DEF Staged
    <2> QED
      BY <1>7, <1>8, <1>9, <1>10, <2>5, <2>6, <2>7
  <1> QED
    BY <1>1, <1>11, <1>12

\* A run's stream stays in order whatever happens to the run.
LEMMA StreamStep ==
  ASSUME Base, [Next]_vars, NEW r \in Run, StreamOK(r) PROVE StreamOK(r)'
  <1>1. Moves(r) /\ Base'
    BY RunMoves, BaseStep
  <1>2. OnRecord(r)' /\ CloserAgrees(r)'
    BY <1>1, OnRecordStep, CloserAgreesStep DEF StreamOK
  <1>3. CASE log'[r] = log[r]
    BY <1>1, <1>2, <1>3, QuietStep, QuietEntries DEF StreamOK
  <1>4. CASE log'[r] # log[r]
    <2>1. Opens(r) \/ Lands(r) \/ Announces(r)
      BY <1>1, <1>4 DEF Moves, Walks, Admitted, Finishes, Registers, Emits, Quits, Numbers,
         GivesUp, SameStream
    <2> QED
      BY <1>2, <1>4, <2>1, PlainStep, CloseStep DEF StreamOK
  <1> QED
    BY <1>3, <1>4

StreamsOK == \A r \in Run : StreamOK(r)

\* The inductive invariant of the streams.
LEMMA StreamsInvariant == Spec => []StreamsOK
  <1>1. Init => StreamsOK
    <2> SUFFICES ASSUME Init, NEW r \in Run PROVE StreamOK(r)
      BY DEF StreamsOK
    <2>1. /\ log[r] = <<>> /\ pc[r] = "idle" /\ sent[r] = "none" /\ closer[r] = "none"
          /\ status[r] = "absent" /\ lastSeq[r] = 0
      BY DEF Init
    <2>2. DOMAIN log[r] = {}
      BY <2>1
    <2> QED
      BY <2>1, <2>2 DEF StreamOK, OnRecord, CloserAgrees, Numbered, Fenced, Staged,
         Complete, Contiguous, EndsOnce, TellsStatus, IsWhole, HasEnd, StartPc, LivePc,
         OpenCloser
  <1>2. Base /\ StreamsOK /\ [Next]_vars => StreamsOK'
    BY StreamStep DEF StreamsOK
  <1> QED
    BY <1>1, <1>2, BaseInvariant, PTL DEF Spec

\* The seqs of every stream are 1, 2, 3, ..., however many tasks number frames for
\* it at once: XADD takes a frame only from a writer that knows the whole stream.
THEOREM StreamsContiguous == Spec => []LogContiguous
  <1>1. StreamsOK => LogContiguous
    BY DEF StreamsOK, StreamOK, Contiguous, LogContiguous
  <1> QED
    BY <1>1, StreamsInvariant, PTL

\* A stream ends once: whoever wins mark_terminal closes it, and the fence keeps
\* zombies out from then on.
THEOREM StreamsEndOnce == Spec => []LogEndsOnce
  <1>1. StreamsOK => LogEndsOnce
    BY DEF StreamsOK, StreamOK, EndsOnce, LogEndsOnce
  <1> QED
    BY <1>1, StreamsInvariant, PTL

\* The end a stream tells is the status on record, also when an orphan closer and
\* the run's own task race to finish it.
THEOREM StreamsTellStatus == Spec => []EndTellsStatus
  <1>1. StreamsOK => EndTellsStatus
    BY DEF StreamsOK, StreamOK, TellsStatus, EndTellsStatus
  <1> QED
    BY <1>1, StreamsInvariant, PTL

\* A run on record as completed has every frame of its agent in the stream.
THEOREM CompletedRunsWhole == Spec => []CompletedIsWhole
  <1>1. StreamsOK => CompletedIsWhole
    BY DEF StreamsOK, StreamOK, IsWhole, CompletedIsWhole
  <1> QED
    BY <1>1, StreamsInvariant, PTL

-----------------------------------------------------------------------------
(***************************************************************************)
(* The life of a run, as its viewers see it.                               *)
(***************************************************************************)

\* The abstract stream of every run.
Streams == [r \in Run |-> Frames(log[r])]

\* The frames of a sequence of entries are a sequence.
LEMMA FramesTyped ==
  ASSUME NEW s \in Seq([seq : Nat, frame : Frame])
  PROVE  /\ Frames(s) \in Seq(Frame) /\ Len(Frames(s)) = Len(s)
         /\ DOMAIN Frames(s) = DOMAIN s /\ DOMAIN s = 1..Len(s) /\ Len(s) \in Nat
         /\ \A k \in DOMAIN s : Frames(s)[k] = s[k].frame
  <1> DEFINE n == Len(s)
             Entry == [seq : Nat, frame : Frame]
  <1>1. \A e \in Entry : e.frame \in Frame
    OBVIOUS
  <1>0. s \in Seq(Entry)
    OBVIOUS
  <1> HIDE DEF Entry
  <1>2. n \in Nat /\ DOMAIN s = 1..n /\ \A k \in 1..n : s[k] \in Entry
    BY <1>0
  <1> HIDE DEF n
  <1>3. Frames(s) \in [1..n -> Frame]
    BY <1>1, <1>2 DEF Frames
  <1>4. Frames(s) \in Seq(Frame)
    BY <1>2, <1>3, SeqDef
  <1>5. Len(Frames(s)) = n
    BY <1>2, <1>3, <1>4, LenProperties
  <1> QED
    BY <1>2, <1>4, <1>5 DEF Frames, n

\* An entry that joins adds its frame.
LEMMA FramesAppend ==
  ASSUME NEW s \in Seq([seq : Nat, frame : Frame]), NEW seq \in Nat, NEW frame \in Frame
  PROVE  Frames(Append(s, [seq |-> seq, frame |-> frame])) = Append(Frames(s), frame)
  <1> DEFINE Entry == [seq : Nat, frame : Frame]
             entry == [seq |-> seq, frame |-> frame]
             longer == Append(s, entry)
             t == Frames(longer)
             u == Append(Frames(s), frame)
             n == Len(s)
  <1>1. entry \in Entry /\ entry.frame = frame /\ s \in Seq(Entry)
    OBVIOUS
  <1> HIDE DEF entry
  <1>2. longer \in Seq(Entry)
    BY <1>1, AppendProperties
  <1>3. /\ Frames(s) \in Seq(Frame) /\ Len(Frames(s)) = n
        /\ n \in Nat /\ \A k \in 1..n : Frames(s)[k] = s[k].frame
    BY FramesTyped
  <1>4. /\ t \in Seq(Frame) /\ Len(t) = Len(longer)
        /\ \A k \in 1..Len(longer) : t[k] = longer[k].frame
    BY <1>2, FramesTyped
  <1> HIDE DEF Entry
  <1>5. /\ Len(longer) = n + 1 /\ longer[n + 1] = entry
        /\ \A k \in 1..n : longer[k] = s[k]
    BY <1>1, AppendProperties
  <1>6. /\ u \in Seq(Frame) /\ Len(u) = n + 1 /\ u[n + 1] = frame
        /\ \A k \in 1..n : u[k] = Frames(s)[k]
    BY <1>3, AppendProperties
  <1> HIDE DEF longer, t, u, n
  <1>7. \A k \in 1..Len(t) : t[k] = u[k]
    BY <1>1, <1>3, <1>4, <1>5, <1>6
  <1>8. Len(t) = Len(u)
    BY <1>4, <1>5, <1>6
  <1>9. t = u
    BY <1>4, <1>6, <1>7, <1>8, SeqEqual
  <1> QED
    BY <1>9 DEF t, u, longer, entry

\* The abstract stream has ended when the stream has.
LEMMA EndsAgree ==
  ASSUME TypeOK, NEW r \in Run PROVE Lifecycle!Ends(Streams[r]) <=> HasEnd(r)
  <1>1. Streams[r] = Frames(log[r])
    BY DEF Streams
  <1>2. log[r] \in Seq([seq : Nat, frame : Frame])
    BY DEF TypeOK, RedisOK
  <1> QED
    BY <1>1, <1>2, FramesTyped DEF Lifecycle!Ends, HasEnd, EndFrame

\* A step that writes a stream writes one, and no status.
LEMMA LogSteps ==
  ASSUME Base, [Next]_vars
  PROVE  \/ log' = log
         \/ \E r \in Run : status' = status /\ \A s \in Run : s # r => log'[s] = log[s]
  <1> USE DEF Base, redis
  <1>1. ASSUME NEW r \in Run, AppendStarted(r) \/ Land(r) \/ CloseAppend(r)
        PROVE  status' = status /\ \A s \in Run : s # r => log'[s] = log[s]
    <2>1. status' = status
      BY <1>1 DEF AppendStarted, Land, CloseAppend
    <2>2. \E seq, frame, o : XAdd(r, seq, frame, o)
      BY <1>1 DEF AppendStarted, Land, CloseAppend
    <2> QED
      BY <2>1, <2>2, XAddGrows
  <1>2. ASSUME NEW r \in Run,
               (\E i \in Instance : Acquire(r, i)) \/ ReclaimMark(r) \/ CheckStop(r)
               \/ Register(r) \/ AbortMark(r) \/ AbortRelease(r)
        PROVE  log' = log
    BY <1>2 DEF Acquire, ReclaimMark, CheckStop, Register, AbortMark, AbortRelease
  <1>3. ASSUME NEW r \in Run, DriveStep(r) \/ CloseRead(r) \/ OrphanRelease(r)
        PROVE  log' = log
    BY <1>3 DEF DriveStep, Emit, AgentEnds, DriveCut, FinalMark, FinalRelease, CloseRead,
       OrphanRelease
  <1>4. ASSUME NEW r \in Run, LeaseLapses(r) \/ LeaseLapsesUnderOwner(r) \/ Heartbeat(r)
                              \/ RequestCancel(r)
        PROVE  log' = log
    BY <1>4 DEF LeaseLapses, LeaseLapsesUnderOwner, Heartbeat, RequestCancel
  <1>5. ASSUME NEW i \in Instance, InstanceStep(i) PROVE log' = log
    BY <1>5 DEF InstanceStep, ReaperStep, ReaperFinds, ReaperMarks, StopLocal, Shutdown,
                ShutdownStops, ShutdownReturns, Exit, Crash, Gone, Restart
  <1>6. CASE UNCHANGED vars
    BY <1>6 DEF vars
  <1> QED
    BY <1>1, <1>2, <1>3, <1>4, <1>5, <1>6 DEF Next, RunStep, StartStep, CloserStep, Settled

\* A stream that grows adds its frame to the abstract one.
LEMMA StreamsGrow ==
  ASSUME TypeOK, NEW r \in Run, NEW seq \in Nat, NEW frame \in Frame, Grows(r, seq, frame),
         \A s \in Run : s # r => log'[s] = log[s]
  PROVE  Streams' = [Streams EXCEPT ![r] = Append(@, frame)]
  <1>1. log[r] \in Seq([seq : Nat, frame : Frame])
    BY DEF TypeOK, RedisOK
  <1>2. Frames(log'[r]) = Append(Frames(log[r]), frame)
    BY <1>1, FramesAppend DEF Grows
  <1>3. \A s \in Run : Frames(log'[s]) = IF s = r THEN Append(Frames(log[s]), frame)
                                                   ELSE Frames(log[s])
    BY <1>2
  <1>4. Streams' = [s \in Run |-> Frames(log'[s])]
    BY DEF Streams
  <1> QED
    BY <1>3, <1>4 DEF Streams

\* Whatever a step writes to a stream is a step of the run's abstract life.
LEMMA StreamLives ==
  ASSUME Base, StreamsOK, [Next]_vars, NEW r \in Run, status' = status,
         \A s \in Run : s # r => log'[s] = log[s], log'[r] # log[r]
  PROVE  Lifecycle!Next
  <1> USE DEF Streams
  <1>1. Moves(r) /\ StreamOK(r) /\ TypeOK
    BY RunMoves DEF StreamsOK, Base
  <1>2. Opens(r) \/ Lands(r) \/ Announces(r)
    BY <1>1 DEF Moves, Walks, Admitted, Finishes, Registers, Emits, Quits, Numbers,
       GivesUp, SameStream
  <1>3. Lifecycle!Ends(Streams[r]) <=> HasEnd(r)
    BY <1>1, EndsAgree
  <1>4. CASE Opens(r) \/ Lands(r)
    <2>1. PICK seq \in Nat, frame \in PlainFrame : Grows(r, seq, frame)
      BY <1>1, <1>4, PlainGrowth
    <2>2. frame \in Frame
      BY <2>1 DEF PlainFrame
    <2>3. ~HasEnd(r) /\ status[r] # "absent"
      BY <1>1, <1>4, PlainGrowth
    <2>4. Streams' = [Streams EXCEPT ![r] = Append(@, frame)]
      BY <1>1, <2>1, <2>2, StreamsGrow
    <2>5. Lifecycle!Publish(r)
      BY <1>3, <2>1, <2>3, <2>4 DEF Lifecycle!Publish, PlainFrame
    <2> QED
      BY <2>5 DEF Lifecycle!Next
  <1>5. CASE Announces(r)
    <2>1. /\ closer[r] \in {"appendEnd", "appendDone"} /\ status[r] \in Terminal
          /\ Grows(r, closeSeq[r], CloseFrame(r)) /\ CloseFrame(r) \in Frame
      BY <1>1, <1>5, CloseGrowth
    <2>2. closeSeq[r] \in Nat
      BY <1>1 DEF TypeOK, ClosingOK
    <2>3. Streams' = [Streams EXCEPT ![r] = Append(@, CloseFrame(r))]
      BY <1>1, <2>1, <2>2, StreamsGrow
    <2>4. CASE closer[r] = "appendEnd"
      <3>1. ~HasEnd(r) /\ CloseFrame(r) = status[r]
        BY <1>1, <2>4 DEF StreamOK, Staged, CloseFrame
      <3>2. Lifecycle!Announce(r)
        BY <1>3, <2>1, <2>3, <3>1 DEF Lifecycle!Announce
      <3> QED
        BY <3>2 DEF Lifecycle!Next
    <2>5. CASE closer[r] = "appendDone"
      <3>1. log[r] # <<>> /\ log[r][Len(log[r])].frame \in Terminal
            /\ CloseFrame(r) = "DONE"
        BY <1>1, <2>5 DEF StreamOK, Staged, CloseFrame, EndFrame
      <3>2. /\ Len(log[r]) \in Nat /\ DOMAIN log[r] = 1..Len(log[r])
            /\ (log[r] # <<>> <=> Len(log[r]) > 0)
        BY <1>1, StreamTyped
      <3>3. /\ Len(Streams[r]) = Len(log[r]) /\ DOMAIN Streams[r] = DOMAIN log[r]
            /\ \A k \in DOMAIN log[r] : Streams[r][k] = log[r][k].frame
        BY <1>1, FramesTyped DEF TypeOK, RedisOK
      <3>4. Len(log[r]) \in DOMAIN log[r]
        BY <3>1, <3>2
      <3>5. Streams[r] # <<>> /\ Streams[r][Len(Streams[r])] \in Terminal
        BY <3>1, <3>3, <3>4
      <3>6. Lifecycle!SignOff(r)
        BY <2>3, <3>1, <3>5 DEF Lifecycle!SignOff
      <3> QED
        BY <3>6 DEF Lifecycle!Next
    <2> QED
      BY <2>1, <2>4, <2>5
  <1> QED
    BY <1>2, <1>4, <1>5

\* Every step is one of the abstract life, or none.
LEMMA LifecycleStep ==
  ASSUME Base, StreamsOK, [Next]_vars PROVE [Lifecycle!Next]_(Lifecycle!lifecycle)
  <1> USE DEF Streams
  <1>1. CASE log' = log
    <2>1. Streams' = Streams
      BY <1>1
    <2>2. CASE UNCHANGED status
      BY <2>1, <2>2 DEF Lifecycle!lifecycle
    <2>3. ASSUME NEW r \in Run, Admits(r) PROVE Lifecycle!Next
      <3>1. status[r] = "absent"
        BY <2>3 DEF Admits, Base, Fresh, Unsent, Known
      <3>2. Lifecycle!Admit(r)
        BY <2>1, <2>3, <3>1 DEF Admits, Lifecycle!Admit
      <3> QED
        BY <3>2 DEF Lifecycle!Next
    <2>4. ASSUME NEW r \in Run, Ends(r) PROVE Lifecycle!Next
      <3>1. Lifecycle!Finish(r)
        BY <2>1, <2>4 DEF Ends, Lifecycle!Finish
      <3> QED
        BY <3>1 DEF Lifecycle!Next
    <2> QED
      BY <2>2, <2>3, <2>4, StatusSteps
  <1>2. ASSUME NEW r \in Run, status' = status, \A s \in Run : s # r => log'[s] = log[s]
        PROVE  [Lifecycle!Next]_(Lifecycle!lifecycle)
    <2>1. CASE log'[r] # log[r]
      BY <1>2, <2>1, StreamLives
    <2>2. CASE log'[r] = log[r]
      <3>1. \A s \in Run : Frames(log[s])' = Frames(log[s])
        BY <1>2, <2>2 DEF Frames
      <3>2. Streams' = Streams
        BY <3>1
      <3> QED
        BY <1>2, <3>2 DEF Lifecycle!lifecycle
    <2> QED
      BY <2>1, <2>2
  <1> QED
    BY <1>1, <1>2, LogSteps

\* The supervisors, closers and reapers of all processes together implement the
\* abstract life of a run: admitted once, finished once, one stream that is open
\* until its one end, which tells the status on record.
THEOREM LifecycleImplemented == Spec => ImplementsLifecycle
  <1>1. Init => Lifecycle!Init
    <2> SUFFICES ASSUME Init PROVE Lifecycle!Init
      OBVIOUS
    <2>1. \A r \in Run : Frames(log[r]) = <<>>
      BY DEF Init, Frames
    <2> QED
      BY <2>1 DEF Init, Lifecycle!Init
  <1>2. Base /\ StreamsOK /\ [Next]_vars => [Lifecycle!Next]_(Lifecycle!lifecycle)
    BY LifecycleStep
  <1> QED
    BY <1>1, <1>2, BaseInvariant, StreamsInvariant, PTL
    DEF Spec, ImplementsLifecycle, Lifecycle!Spec
=============================================================================
