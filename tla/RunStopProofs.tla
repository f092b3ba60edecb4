--------------------------- MODULE RunStopProofs ---------------------------
(***************************************************************************)
(* What RunStop guarantees for any number of sends, processes and Stops,   *)
(* proved with TLAPS.                                                      *)
(*                                                                         *)
(* StopNotLost speaks of answered Stops only, so it is not inductive:      *)
(* Pursued follows a Stop that has left its mark from lookup to flag, for  *)
(* every run that looked for the mark too early.  It rests on the thread's *)
(* lock naming every run with a lease (Leases), and it needs the answers   *)
(* of start's two lookups: a start that is not told counts it as "no       *)
(* stop", so the theorem assumes ~CheckMayFail.  The others do not.        *)
(***************************************************************************)
EXTENDS RunStop, TLAPS

Over == {"answered", "failed"}
Pursuing == {"hash", "lease", "record", "flag"}

\* A call that needs a name or a run has one.
CallKnows ==
  \A s \in StopCall : /\ call[s] = "mark" => names[s] \in Run
                      /\ call[s] \in Pursuing => target[s] \in Run

Typed == TypeOK /\ CallKnows

\* A live lease comes with the lock, and with an unfinished run until it ends.
Leases == \A r \in leased : lock = r /\ (pc[r] \notin {"ending", "ended"} => r \in unfinished)

\* The mark of a send stays; a Stop that failed may not have left one.
MarksKept ==
  \A s \in StopCall :
    call[s] \notin {"idle", "mark", "failed"} /\ names[s] \in Run => names[s] \in marked

\* The run has looked for its mark and will not look again.
TooEarly(r) == \/ pc[r] \in {"checkFlag", "registering"} /\ r \notin stopSeen
               \/ pc[r] = "driving" /\ reason[r] = "none"

\* A Stop that left the mark of such a run is on its way to the run's flag, unless it
\* failed, which its caller is told, or the run has lost its lease, which it will see.
Pursues(s, r) == \/ r \in flagged \/ r \notin leased
                 \/ call[s] \in {"idle", "mark", "lock", "failed"}
                 \/ call[s] \in Pursuing /\ target[s] = r
Pursued == \A s \in StopCall, r \in Run : names[s] = r /\ TooEarly(r) => Pursues(s, r)

NothingLost == Typed /\ Leases /\ MarksKept /\ Pursued

\* A Stop that is meant for the run: it names it, or the run was there before its answer.
Cause(r) == \E s \in StopCall : call[s] # "idle" /\ (names[s] = r \/ r \notin later[s])

\* Nothing that stops a run comes from a Stop that is not meant for it.
Unaware == \A s \in StopCall : call[s] \notin Over => later[s] = {}
LookedUp == /\ lock \in Run => pc[lock] # "idle"
            /\ \A s \in StopCall : call[s] \in Pursuing => pc[target[s]] # "idle"
MarksMeant == \A r \in marked : \E s \in StopCall : call[s] # "idle" /\ names[s] = r
StopsMeant ==
  \A r \in Run : r \in stopSeen \union flagged \/ reason[r] = "cancel" => pc[r] # "idle" /\ Cause(r)

NothingStray == Typed /\ Unaware /\ LookedUp /\ MarksMeant /\ StopsMeant

-----------------------------------------------------------------------------
(***************************************************************************)
(* What StopRun and Continue do.                                           *)
(***************************************************************************)

\* Only a driving run without a reason gets one.
LEMMA StopRunStops ==
  ASSUME TypeOK, NEW S, NEW why \in {"cancel", "lease_lost"}, StopRun(S, why)
  PROVE  /\ reason' \in [Run -> {"none", "cancel", "lease_lost"}]
         /\ \A r \in Run : reason'[r] # reason[r] =>
              r \in S /\ pc[r] = "driving" /\ reason[r] = "none" /\ reason'[r] = why
  BY DEF TypeOK, StopRun

\* A call moves alone; what it looked up is forgotten when it is over, and only then
\* it notes the sends to come.
LEMMA ContinueMoves ==
  ASSUME TypeOK, NEW s \in StopCall,
         NEW label \in {"lock", "hash", "lease", "record", "flag", "answered", "failed"},
         Continue(s, label)
  PROVE  /\ call' = [call EXCEPT ![s] = label]
         /\ at' \in [StopCall -> Instance \union {None}]
         /\ target' \in [StopCall -> Run \union {None}]
         /\ later' \in [StopCall -> SUBSET Run]
         /\ \A x \in StopCall : x # s => target'[x] = target[x] /\ later'[x] = later[x]
         /\ label \notin Over => target' = target /\ later' = later
         /\ label \in Over => later'[s] = {r \in Run : pc[r] = "idle"}
  BY DEF TypeOK, Continue, Over

\* Types are kept, and a call that needs a name or a run has one.
LEMMA TypedStep == ASSUME Typed, [Next]_vars PROVE Typed'
  <1> USE DEF Typed, TypeOK, CallKnows, Pursuing, redis, task, stops
  <1>1. ASSUME NEW r \in Run, NEW i \in Instance, Send(r, i) PROVE Typed'
    BY <1>1 DEF Send, Goto
  <1>2. ASSUME NEW r \in Run, CheckMark(r) \/ CheckFlag(r) PROVE Typed'
    BY <1>2 DEF CheckMark, CheckFlag, Goto
  <1>3. ASSUME NEW r \in Run, Register(r) PROVE Typed'
    BY <1>3 DEF Register, Goto
  <1>4. ASSUME NEW r \in Run, Heartbeat(r) PROVE Typed'
    BY <1>4, StopRunStops DEF Heartbeat
  <1>5. ASSUME NEW r \in Run, AgentEnds(r) \/ Stopped(r) \/ Record(r) \/ Release(r) PROVE Typed'
    BY <1>5 DEF AgentEnds, Stopped, Record, Release, Goto
  <1>6. ASSUME NEW r \in Run, LeaseLapses(r) \/ Reap(r) PROVE Typed'
    BY <1>6 DEF LeaseLapses, Reap
  <1>7. ASSUME NEW s \in StopCall, NEW i \in Instance, NEW r \in Run \union {None},
               StopArrives(s, i, r)
        PROVE  Typed'
    BY <1>7, StopRunStops DEF StopArrives
  <1>8. ASSUME NEW s \in StopCall, StopMarks(s) PROVE Typed'
    BY <1>8, ContinueMoves DEF StopMarks, Over
  <1>9. ASSUME NEW s \in StopCall, StopReadsLock(s) PROVE Typed'
    <2>1. CASE lock = None
      BY <1>9, <2>1, ContinueMoves DEF StopReadsLock, Over
    <2>2. CASE lock # None
      BY <1>9, <2>2 DEF StopReadsLock
    <2> QED
      BY <2>1, <2>2
  <1>10. ASSUME NEW s \in StopCall, StopReadsRun(s) \/ StopReadsAgain(s) PROVE Typed'
    BY <1>10, ContinueMoves DEF StopReadsRun, StopReadsAgain, Over
  <1>11. ASSUME NEW s \in StopCall, StopReadsLease(s) PROVE Typed'
    <2>1. reason' \in [Run -> {"none", "cancel", "lease_lost"}]
      BY <1>11, StopRunStops DEF StopReadsLease
    <2> QED
      BY <1>11, <2>1, ContinueMoves DEF StopReadsLease, Over
  <1>12. ASSUME NEW s \in StopCall, StopFlags(s) \/ StopFails(s) PROVE Typed'
    BY <1>12, ContinueMoves DEF StopFlags, StopFails, Over
  <1>13. CASE UNCHANGED vars
    BY <1>13 DEF vars
  <1> QED
    BY <1>1, <1>2, <1>3, <1>4, <1>5, <1>6, <1>7, <1>8, <1>9, <1>10, <1>11, <1>12, <1>13
    DEF Next, RunStep, CheckStep, EndStep, StopStep

LEMMA TypedInit == ASSUME Init PROVE Typed
  BY DEF Init, Typed, TypeOK, CallKnows, Pursuing

LEMMA TypedInvariant == Spec => []Typed
  BY TypedInit, TypedStep, PTL DEF Spec

\* Every variable keeps its type, and no call acts on a run or a name it does not have.
THEOREM StopTypeCorrect == Spec => []TypeOK
  BY TypedInvariant, PTL DEF Typed

-----------------------------------------------------------------------------
(***************************************************************************)
(* A Stop that was answered is not lost.                                   *)
(***************************************************************************)

\* A step of a Stop leaves the lock, the leases and the tasks alone.
LEMMA StopsReadOnly ==
  ASSUME NEW s \in StopCall, StopStep(s) \/ StopFails(s)
  PROVE  UNCHANGED <<lock, leased, unfinished, pc, stopSeen>>
  BY DEF StopStep, StopFails, StopMarks, StopReadsLock, StopReadsRun, StopReadsLease,
     StopReadsAgain, StopFlags, redis, task

LEMMA LeasesStep == ASSUME Typed, Leases, [Next]_vars PROVE Leases'
  <1> USE DEF Typed, TypeOK, Leases, redis, task, stops, Goto
  <1>1. ASSUME NEW r \in Run, NEW i \in Instance, Send(r, i) PROVE Leases'
    BY <1>1 DEF Send
  <1>2. ASSUME NEW r \in Run, CheckMark(r) \/ CheckFlag(r) \/ Register(r) PROVE Leases'
    BY <1>2 DEF CheckMark, CheckFlag, Register
  <1>3. ASSUME NEW r \in Run, Heartbeat(r) \/ AgentEnds(r) \/ Stopped(r) PROVE Leases'
    BY <1>3 DEF Heartbeat, AgentEnds, Stopped
  <1>4. ASSUME NEW r \in Run, Record(r) \/ Release(r) PROVE Leases'
    BY <1>4 DEF Record, Release
  <1>5. ASSUME NEW r \in Run, LeaseLapses(r) \/ Reap(r) PROVE Leases'
    BY <1>5 DEF LeaseLapses, Reap
  <1>6. ASSUME NEW s \in StopCall, NEW i \in Instance, NEW r \in Run \union {None},
               StopArrives(s, i, r)
        PROVE  Leases'
    BY <1>6 DEF StopArrives
  <1>7. ASSUME NEW s \in StopCall, StopStep(s) \/ StopFails(s) PROVE Leases'
    BY <1>7, StopsReadOnly
  <1>8. CASE UNCHANGED vars
    BY <1>8 DEF vars
  <1> QED
    BY <1>1, <1>2, <1>3, <1>4, <1>5, <1>6, <1>7, <1>8
    DEF Next, RunStep, CheckStep, EndStep

LEMMA MarksKeptStep == ASSUME Typed, MarksKept, [Next]_vars PROVE MarksKept'
  <1> USE DEF Typed, TypeOK, MarksKept, redis, task, stops
  <1>1. ASSUME NEW r \in Run, RunStep(r) PROVE UNCHANGED <<marked, call, names>>
    BY <1>1 DEF RunStep, CheckStep, EndStep, Send, CheckMark, CheckFlag, Register, Heartbeat,
       AgentEnds, Stopped, Record, Release, LeaseLapses, Reap
  <1>2. ASSUME NEW s \in StopCall, NEW i \in Instance, NEW r \in Run \union {None},
               StopArrives(s, i, r)
        PROVE  MarksKept'
    BY <1>2, NoneIsNobody DEF StopArrives
  <1>3. ASSUME NEW s \in StopCall, StopMarks(s) PROVE MarksKept'
    BY <1>3 DEF StopMarks, Continue
  <1>4. ASSUME NEW s \in StopCall, StopReadsLock(s) \/ StopReadsRun(s) \/ StopReadsLease(s)
        PROVE  MarksKept'
    BY <1>4 DEF StopReadsLock, StopReadsRun, StopReadsLease, Continue
  <1>5. ASSUME NEW s \in StopCall, StopReadsAgain(s) \/ StopFlags(s) \/ StopFails(s)
        PROVE  MarksKept'
    BY <1>5 DEF StopReadsAgain, StopFlags, StopFails, Continue
  <1>6. CASE UNCHANGED vars
    BY <1>6 DEF vars
  <1> QED
    BY <1>1, <1>2, <1>3, <1>4, <1>5, <1>6 DEF Next, StopStep

\* The one way to be too early is to look for the mark before it is there.
LEMMA TooEarlyBegins ==
  ASSUME ~CheckMayFail, Typed, NEW x \in Run, RunStep(x), NEW r \in Run, TooEarly(r)'
  PROVE  TooEarly(r) \/ r \notin marked
  <1> USE DEF Typed, TypeOK, TooEarly, redis, task, stops, Goto
  <1>1. ASSUME NEW i \in Instance, Send(x, i) PROVE TooEarly(r)
    BY <1>1 DEF Send
  <1>2. CASE CheckMark(x)
    BY <1>2 DEF CheckMark, Answered
  <1>3. CASE CheckFlag(x) \/ Register(x)
    BY <1>3 DEF CheckFlag, Register
  <1>4. CASE Heartbeat(x)
    BY <1>4, StopRunStops DEF Heartbeat
  <1>5. CASE AgentEnds(x) \/ Stopped(x) \/ Record(x) \/ Release(x)
    BY <1>5 DEF AgentEnds, Stopped, Record, Release
  <1>6. CASE LeaseLapses(x) \/ Reap(x)
    BY <1>6 DEF LeaseLapses, Reap
  <1> QED
    BY <1>1, <1>2, <1>3, <1>4, <1>5, <1>6 DEF RunStep, CheckStep, EndStep

\* A run that is too early gets no lease any more.
LEMMA NoNewLease ==
  ASSUME Typed, NEW x \in Run, RunStep(x), NEW r \in Run, TooEarly(r)', r \in leased'
  PROVE  r \in leased
  <1> USE DEF Typed, TypeOK, redis, task, stops
  <1>1. ASSUME NEW i \in Instance, Send(x, i) PROVE r \in leased
    BY <1>1 DEF Send, Goto, TooEarly
  <1>2. CASE CheckMark(x) \/ CheckFlag(x) \/ Register(x) \/ Heartbeat(x) \/ AgentEnds(x)
    BY <1>2 DEF CheckMark, CheckFlag, Register, Heartbeat, AgentEnds
  <1>3. CASE Stopped(x) \/ Record(x) \/ Release(x) \/ LeaseLapses(x) \/ Reap(x)
    BY <1>3 DEF Stopped, Record, Release, LeaseLapses, Reap
  <1> QED
    BY <1>1, <1>2, <1>3 DEF RunStep, CheckStep, EndStep

\* A step of a Stop takes nobody's chance to see it.
LEMMA StopKeepsTooEarly ==
  ASSUME Typed, NEW s \in StopCall, NEW r \in Run, TooEarly(r)',
         StopStep(s) \/ StopFails(s)
         \/ \E i \in Instance, x \in Run \union {None} : StopArrives(s, i, x)
  PROVE  TooEarly(r)
  <1>1. UNCHANGED <<pc, stopSeen>>
    BY StopsReadOnly DEF StopArrives
  <1>2. reason[r] # "none" => reason'[r] # "none"
    <2>1. CASE UNCHANGED reason
      BY <2>1
    <2>2. CASE \E S : StopRun(S, "cancel")
      BY <2>2, StopRunStops DEF Typed
    <2> QED
      BY <2>1, <2>2 DEF StopStep, StopFails, StopMarks, StopReadsLock, StopReadsRun,
         StopReadsLease, StopReadsAgain, StopFlags, StopArrives, task
  <1> QED
    BY <1>1, <1>2 DEF TooEarly

LEMMA PursuedStep ==
  ASSUME ~CheckMayFail, Typed, Leases, MarksKept, Pursued, [Next]_vars PROVE Pursued'
  <1> SUFFICES ASSUME NEW s \in StopCall, NEW r \in Run, names'[s] = r, TooEarly(r)'
               PROVE  Pursues(s, r)'
    BY DEF Pursued
  <1> USE DEF Typed, TypeOK, redis, task, stops
  <1>1. ASSUME NEW x \in Run, RunStep(x) PROVE Pursues(s, r)'
    <2>1. UNCHANGED <<flagged, marked, call, names, target>>
      BY <1>1 DEF RunStep, CheckStep, EndStep, Send, CheckMark, CheckFlag, Register,
         Heartbeat, AgentEnds, Stopped, Record, Release, LeaseLapses, Reap
    <2>2. CASE TooEarly(r)
      BY <1>1, <2>1, <2>2, NoNewLease DEF Pursued, Pursues
    <2>3. CASE r \notin marked
      BY <2>1, <2>3 DEF MarksKept, Pursues
    <2> QED
      BY <1>1, <2>2, <2>3, TooEarlyBegins
  <1>2. ASSUME NEW x \in StopCall,
               StopStep(x) \/ StopFails(x)
               \/ \E i \in Instance, y \in Run \union {None} : StopArrives(x, i, y)
        PROVE  Pursues(s, r)'
    <2>1. TooEarly(r)
      BY <1>2, StopKeepsTooEarly
    <2>2. UNCHANGED <<leased, unfinished, lock>> /\ flagged \subseteq flagged'
      BY <1>2, StopsReadOnly DEF StopArrives, StopStep, StopFails, StopMarks, StopReadsLock,
         StopReadsRun, StopReadsLease, StopReadsAgain, StopFlags
    <2>3. r \in leased => r \in unfinished /\ lock = r /\ lock # None
      BY <2>1, NoneIsNobody DEF Leases, TooEarly
    <2>4. CASE s # x
      <3>1. call'[s] = call[s] /\ names'[s] = names[s] /\ target'[s] = target[s]
        BY <1>2, <2>4 DEF StopStep, StopFails, StopArrives, StopMarks, StopReadsLock,
           StopReadsRun, StopReadsLease, StopReadsAgain, StopFlags, Continue
      <3> QED
        BY <2>1, <2>2, <3>1 DEF Pursued, Pursues
    <2>5. CASE s = x
      <3>1. CASE r \notin leased
        BY <2>2, <3>1 DEF Pursues
      <3>2. ASSUME r \in leased, \E i \in Instance, y \in Run \union {None} : StopArrives(s, i, y)
            PROVE  Pursues(s, r)'
        BY <3>2 DEF StopArrives, Pursues
      <3>3. ASSUME r \in leased, StopStep(s) \/ StopFails(s) PROVE Pursues(s, r)'
        <4>1. Pursues(s, r)
          BY <2>1, <3>3 DEF Pursued, StopStep, StopFails, StopMarks, StopReadsLock,
             StopReadsRun, StopReadsLease, StopReadsAgain, StopFlags
        <4>2. CASE StopMarks(s) \/ StopFails(s)
          BY <4>2 DEF StopMarks, StopFails, Continue, Pursues
        <4>3. CASE StopReadsLock(s)
          BY <2>3, <3>3, <4>3 DEF StopReadsLock, Pursues, Pursuing
        <4>4. CASE StopReadsRun(s) \/ StopReadsLease(s) \/ StopReadsAgain(s)
          BY <2>2, <2>3, <3>3, <4>1, <4>4 DEF StopReadsRun, StopReadsLease, StopReadsAgain,
             Continue, Pursues, Pursuing
        <4>5. CASE StopFlags(s)
          BY <2>2, <3>3, <4>1, <4>5 DEF StopFlags, Pursues, Pursuing
        <4> QED
          BY <3>3, <4>2, <4>3, <4>4, <4>5 DEF StopStep
      <3> QED
        BY <1>2, <2>5, <3>1, <3>2, <3>3
    <2> QED
      BY <2>4, <2>5
  <1>3. CASE UNCHANGED vars
    BY <1>3 DEF vars, Pursued, Pursues, TooEarly
  <1> QED
    BY <1>1, <1>2, <1>3 DEF Next

\* A Stop that was answered and names a send is not lost, in whatever order its
\* commands and those of start land: the run has its flag or has lost its lease.
\* The lookups of start must be answered, as start takes silence for "no stop".
THEOREM AnsweredStopsKept == ASSUME ~CheckMayFail PROVE Spec => []StopNotLost
  <1>1. Init => NothingLost
    BY TypedInit DEF Init, NothingLost, Leases, MarksKept, Pursued, TooEarly
  <1>2. NothingLost /\ [Next]_vars => NothingLost'
    BY TypedStep, LeasesStep, MarksKeptStep, PursuedStep DEF NothingLost
  <1>3. NothingLost => StopNotLost
    BY DEF NothingLost, Pursued, Pursues, Pursuing, TooEarly, StopNotLost
  <1> QED
    BY <1>1, <1>2, <1>3, PTL DEF Spec

-----------------------------------------------------------------------------
(***************************************************************************)
(* A Stop does not reach past itself.                                      *)
(***************************************************************************)

\* A Stop that has arrived stays, and keeps the name it came with.
LEMMA CallsStay ==
  ASSUME Typed, NEW x \in StopCall,
         StopStep(x) \/ StopFails(x)
         \/ \E i \in Instance, y \in Run \union {None} : StopArrives(x, i, y)
  PROVE  \A s \in StopCall : call[s] # "idle" => call'[s] # "idle" /\ names'[s] = names[s]
  BY DEF Typed, TypeOK, StopArrives, StopStep, StopFails, StopMarks, StopReadsLock,
     StopReadsRun, StopReadsLease, StopReadsAgain, StopFlags, Continue

\* Nobody is unsent, and no cause is withdrawn.
LEMMA CauseStays ==
  ASSUME Typed, Unaware, [Next]_vars, NEW r \in Run, pc[r] # "idle"
  PROVE  pc'[r] # "idle" /\ (Cause(r) => Cause(r)')
  <1> USE DEF Typed, TypeOK, redis, task, stops
  <1>1. ASSUME NEW x \in Run, RunStep(x)
        PROVE  pc'[r] # "idle" /\ UNCHANGED <<call, names, later>>
    <2>1. UNCHANGED <<call, names, later>>
      BY <1>1 DEF RunStep, CheckStep, EndStep, Send, CheckMark, CheckFlag, Register,
         Heartbeat, AgentEnds, Stopped, Record, Release, LeaseLapses, Reap
    <2>2. pc' = pc \/ \E label \in {"refused", "checkMark", "checkFlag", "registering",
                                    "driving", "ending", "ended"} : Goto(x, label)
      BY <1>1 DEF RunStep, CheckStep, EndStep, Send, CheckMark, CheckFlag, Register,
         Heartbeat, AgentEnds, Stopped, Record, Release, LeaseLapses, Reap
    <2> QED
      BY <2>1, <2>2 DEF Goto
  <1>2. ASSUME NEW x \in StopCall,
               StopStep(x) \/ StopFails(x)
               \/ \E i \in Instance, y \in Run \union {None} : StopArrives(x, i, y)
        PROVE  pc'[r] # "idle" /\ (Cause(r) => Cause(r)')
    <2>1. pc' = pc
      BY <1>2, StopsReadOnly DEF StopArrives
    <2>2. \A s \in StopCall : call[s] # "idle" => call'[s] # "idle" /\ names'[s] = names[s]
      BY <1>2, CallsStay
    <2>3. \A s \in StopCall : r \notin later[s] => r \notin later'[s]
      <3>1. ASSUME NEW label, Continue(x, label)
            PROVE  \A s \in StopCall : r \notin later[s] => r \notin later'[s]
        BY <3>1 DEF Continue
      <3>2. CASE later' = later
        BY <3>2
      <3> QED
        BY <1>2, <3>1, <3>2 DEF StopArrives, StopStep, StopFails, StopMarks, StopReadsLock,
           StopReadsRun, StopReadsLease, StopReadsAgain, StopFlags
    <2> QED
      BY <2>1, <2>2, <2>3 DEF Cause
  <1>3. CASE UNCHANGED vars
    BY <1>3 DEF vars, Cause
  <1> QED
    BY <1>1, <1>2, <1>3 DEF Next, Cause

\* A run's step tells the Stops nothing.
LEMMA RunsLeaveStops ==
  ASSUME NEW r \in Run, RunStep(r)
  PROVE  /\ UNCHANGED <<marked, flagged, stops>>
         /\ lock' \in {lock, None} \/ (lock' = r /\ pc' = [pc EXCEPT ![r] = "checkMark"])
  BY DEF RunStep, CheckStep, EndStep, Send, CheckMark, CheckFlag, Register, Heartbeat,
     AgentEnds, Stopped, Record, Release, LeaseLapses, Reap, redis, task, Goto

LEMMA UnawareStep == ASSUME Typed, Unaware, [Next]_vars PROVE Unaware'
  <1> USE DEF Typed, TypeOK, Unaware, Over
  <1>1. ASSUME NEW r \in Run, RunStep(r) PROVE Unaware'
    BY <1>1, RunsLeaveStops DEF stops
  <1>2. ASSUME NEW s \in StopCall, NEW i \in Instance, NEW r \in Run \union {None},
               StopArrives(s, i, r)
        PROVE  Unaware'
    BY <1>2 DEF StopArrives
  <1>3. ASSUME NEW s \in StopCall, StopStep(s) \/ StopFails(s) PROVE Unaware'
    BY <1>3 DEF StopStep, StopFails, StopMarks, StopReadsLock, StopReadsRun, StopReadsLease,
       StopReadsAgain, StopFlags, Continue
  <1>4. CASE UNCHANGED vars
    BY <1>4 DEF vars
  <1> QED
    BY <1>1, <1>2, <1>3, <1>4 DEF Next

LEMMA LookedUpStep == ASSUME Typed, Unaware, LookedUp, [Next]_vars PROVE LookedUp'
  <1>1. \A r \in Run : pc[r] # "idle" => pc'[r] # "idle"
    BY CauseStays
  <1>2. ASSUME lock' \in Run PROVE pc'[lock'] # "idle"
    <2>1. ASSUME NEW r \in Run, RunStep(r) PROVE pc'[lock'] # "idle"
      BY <1>1, <1>2, <2>1, RunsLeaveStops, NoneIsNobody DEF LookedUp, Typed, TypeOK
    <2>2. CASE UNCHANGED lock
      BY <1>1, <1>2, <2>2 DEF LookedUp
    <2> QED
      BY <2>1, <2>2, StopsReadOnly DEF Next, StopArrives, redis, vars
  <1>3. ASSUME NEW s \in StopCall, call'[s] \in Pursuing PROVE pc'[target'[s]] # "idle"
    <2> USE DEF Typed, TypeOK, CallKnows, Pursuing
    <2> DEFINE Known == \/ call[s] \in Pursuing /\ target'[s] = target[s]
                        \/ target'[s] = lock /\ lock \in Run
    <2>1. ASSUME NEW r \in Run, RunStep(r) PROVE Known
      BY <1>3, <2>1, RunsLeaveStops DEF stops
    <2>2. ASSUME NEW x \in StopCall, NEW i \in Instance, NEW r \in Run \union {None},
                 StopArrives(x, i, r)
          PROVE  Known
      BY <1>3, <2>2 DEF StopArrives
    <2>3. ASSUME NEW x \in StopCall, StopStep(x) \/ StopFails(x) PROVE Known
      BY <1>3, <2>3 DEF StopStep, StopFails, StopMarks, StopReadsLock, StopReadsRun,
         StopReadsLease, StopReadsAgain, StopFlags, Continue
    <2>4. ASSUME UNCHANGED vars PROVE Known
      BY <1>3, <2>4 DEF vars
    <2>5. Known
      BY <2>1, <2>2, <2>3, <2>4 DEF Next
    <2> QED
      BY <1>1, <2>5 DEF LookedUp
  <1> QED
    BY <1>2, <1>3 DEF LookedUp

LEMMA MarksMeantStep == ASSUME Typed, MarksMeant, [Next]_vars PROVE MarksMeant'
  <1> USE DEF Typed, TypeOK, MarksMeant, redis
  <1>1. ASSUME NEW r \in Run, RunStep(r) PROVE MarksMeant'
    BY <1>1, RunsLeaveStops DEF stops
  <1>2. ASSUME NEW x \in StopCall,
               StopStep(x) \/ StopFails(x)
               \/ \E i \in Instance, y \in Run \union {None} : StopArrives(x, i, y)
        PROVE  MarksMeant'
    <2>1. \A s \in StopCall : call[s] # "idle" => call'[s] # "idle" /\ names'[s] = names[s]
      BY <1>2, CallsStay
    <2>2. marked' = marked \/ (marked' = marked \union {names[x]} /\ call[x] = "mark")
      BY <1>2 DEF StopArrives, StopStep, StopFails, StopMarks, StopReadsLock, StopReadsRun,
         StopReadsLease, StopReadsAgain, StopFlags
    <2> QED
      BY <2>1, <2>2
  <1>3. CASE UNCHANGED vars
    BY <1>3 DEF vars
  <1> QED
    BY <1>1, <1>2, <1>3 DEF Next

\* A run sees a stop only where one is recorded for it.
LEMMA RunSeesStop ==
  ASSUME Typed, NEW x \in Run, RunStep(x), NEW r \in Run,
         r \in stopSeen' \/ reason'[r] = "cancel"
  PROVE  \/ r \in stopSeen \union flagged \/ reason[r] = "cancel"
         \/ r \in marked /\ pc[r] = "checkMark"
  <1> USE DEF Typed, TypeOK, redis, task
  <1>1. CASE CheckMark(x)
    BY <1>1 DEF CheckMark
  <1>2. CASE CheckFlag(x)
    BY <1>2 DEF CheckFlag
  <1>3. CASE Register(x)
    BY <1>3 DEF Register
  <1>4. CASE Heartbeat(x)
    BY <1>4, StopRunStops DEF Heartbeat
  <1>5. ASSUME (\E i \in Instance : Send(x, i)) \/ AgentEnds(x) \/ EndStep(x)
               \/ LeaseLapses(x) \/ Reap(x)
        PROVE  UNCHANGED <<stopSeen, reason>>
    BY <1>5 DEF Send, AgentEnds, EndStep, Stopped, Record, Release, LeaseLapses, Reap
  <1> QED
    BY <1>1, <1>2, <1>3, <1>4, <1>5 DEF RunStep, CheckStep

LEMMA StopsMeantStep ==
  ASSUME NothingStray, [Next]_vars PROVE StopsMeant'
  <1> SUFFICES ASSUME NEW r \in Run, r \in (stopSeen \union flagged)' \/ reason'[r] = "cancel"
               PROVE  pc'[r] # "idle" /\ Cause(r)'
    BY DEF StopsMeant
  <1> USE DEF NothingStray
  <1>1. pc[r] # "idle" /\ Cause(r) => pc'[r] # "idle" /\ Cause(r)'
    BY CauseStays
  <1>2. r \in stopSeen \union flagged \/ reason[r] = "cancel" => pc[r] # "idle" /\ Cause(r)
    BY DEF StopsMeant
  <1>3. ASSUME NEW x \in Run, RunStep(x) PROVE pc'[r] # "idle" /\ Cause(r)'
    <2>1. r \in marked => Cause(r)
      BY DEF MarksMeant, Cause
    <2>2. flagged' = flagged
      BY <1>3, RunsLeaveStops
    <2> QED
      BY <1>1, <1>2, <1>3, <2>1, <2>2, RunSeesStop
  <1>4. ASSUME NEW x \in StopCall,
               StopStep(x) \/ StopFails(x)
               \/ \E i \in Instance, y \in Run \union {None} : StopArrives(x, i, y)
        PROVE  pc'[r] # "idle" /\ Cause(r)'
    <2>1. call[x] \notin Over
      BY <1>4 DEF StopArrives, StopStep, StopFails, StopMarks, StopReadsLock, StopReadsRun,
         StopReadsLease, StopReadsAgain, StopFlags, Over
    <2>2. later[x] = {}
      BY <2>1 DEF Unaware
    <2>3. call[x] # "idle" => Cause(r)
      BY <2>2 DEF Cause
    <2>4. stopSeen' = stopSeen
      BY <1>4, StopsReadOnly DEF StopArrives
    <2>5. CASE r \in flagged' /\ r \notin flagged
      <3>1. r = target[x] /\ call[x] = "flag"
        BY <1>4, <2>5 DEF StopArrives, StopStep, StopFails, StopMarks, StopReadsLock,
           StopReadsRun, StopReadsLease, StopReadsAgain, StopFlags, redis
      <3>2. pc[r] # "idle"
        BY <3>1 DEF LookedUp, Pursuing
      <3> QED
        BY <1>1, <2>3, <3>1, <3>2
    <2>6. CASE reason'[r] = "cancel" /\ reason[r] # "cancel"
      <3>1. pc[r] = "driving"
        <4>1. reason' = reason \/ \E S : StopRun(S, "cancel")
          BY <1>4 DEF StopArrives, StopStep, StopFails, StopMarks, StopReadsLock,
             StopReadsRun, StopReadsLease, StopReadsAgain, StopFlags, task
        <4> QED
          BY <2>6, <4>1, StopRunStops DEF Typed
      <3>2. CASE call[x] # "idle"
        BY <1>1, <2>3, <3>1, <3>2
      <3>3. CASE call[x] = "idle"
        <4>1. PICK i \in Instance, y \in Run \union {None} : StopArrives(x, i, y)
          BY <1>4, <3>3 DEF StopStep, StopFails, StopMarks, StopReadsLock, StopReadsRun,
             StopReadsLease, StopReadsAgain, StopFlags
        <4>2. call'[x] # "idle" /\ later'[x] = {} /\ pc'[r] = pc[r]
          BY <2>2, <4>1 DEF StopArrives, Typed, TypeOK
        <4> QED
          BY <3>1, <4>2 DEF Cause
      <3> QED
        BY <3>2, <3>3
    <2> QED
      BY <1>1, <1>2, <2>4, <2>5, <2>6
  <1>5. CASE UNCHANGED vars
    BY <1>1, <1>2, <1>5 DEF vars
  <1> QED
    BY <1>3, <1>4, <1>5 DEF Next

\* A run is cancelled only by a Stop meant for it: one that names its send, or one
\* that was not answered yet when the run was sent.
THEOREM NoStopStrays == Spec => []NoStrayStop
  <1>1. Init => NothingStray
    BY TypedInit, NoneIsNobody
    DEF Init, NothingStray, Unaware, LookedUp, MarksMeant, StopsMeant, Pursuing
  <1>2. NothingStray /\ [Next]_vars => NothingStray'
    BY TypedStep, UnawareStep, LookedUpStep, MarksMeantStep, StopsMeantStep DEF NothingStray
  <1>3. NothingStray => NoStrayStop
    BY DEF NothingStray, StopsMeant, Cause, NoStrayStop
  <1> QED
    BY <1>1, <1>2, <1>3, PTL DEF Spec
=============================================================================
