--------------------------- MODULE SyncJobsProofs ---------------------------
(* Theorems about SyncJobs, for all workers, modes and bounds: what a       *)
(* worker that comes back may still do, and what a succeeded job leaves.    *)
EXTENDS SyncJobs, TLAPS

Runs == {"ready"} \union Executing
Moving == {"writing", "persisting", "saving"}
Moved == {"finalizing", "savingLast", "closing"}

\* A job that may be failed by another worker.
Suspect(v) == v \in Job /\ pc[v] \notin {"new"} \union Starting /\ (silent[v] \/ pc[v] \notin Working)

Named == /\ \A j \in Job : pc[j] = "failing" => Suspect(victim[j])
         /\ \A w \in Worker : sched[w] = "failing" => Suspect(orphan[w])

Recorded == \A j \in Job :
  /\ pc[j] \in {"new"} \union Starting => row[j] = "none"
  /\ pc[j] \in Runs => row[j] # "none"

OneLive == \A i, j \in Job : IsLive(i) /\ IsLive(j) => i = j

\* Whose worker was never silent is alive on record.
Attended == \A j \in Job : pc[j] \in Working /\ ~silent[j] =>
  /\ pc[j] \in Runs => IsLive(j)
  /\ IsLive(j) => fresh[j]

Stopping == \A j \in Job : overrun[j] # 0 =>
  /\ overrun[j] = 1
  /\ row[j] \in Ended
  /\ pc[j] \in {"persisting", "ending", "storing", "done", "gone"}

Counted ==
  /\ mode # "incremental" => checkpoint = 0
  /\ \A j \in Job :
       /\ pc[j] \in {"writing", "persisting"} => at[j] < MaxRecords
       /\ pc[j] \in Moved => at[j] = MaxRecords
       /\ pc[j] \in {"saving", "savingLast"} => mode = "incremental"

\* The records 1 .. n are in a collection; in the version of job j.
Held(collection, n) == \A r \in 1 .. n : \E c \in collection : c[1] = r
HeldAs(collection, j, n) == \A r \in 1 .. n : <<r, j>> \in collection

\* An overwriting run must find its own version when it retires all others.
HeldBy(collection, j, n) == Held(collection, n) /\ (mode = "overwrite" => HeldAs(collection, j, n))

Acknowledged(j) == IF pc[j] = "persisting" THEN at[j] + 1 ELSE at[j]

Undisturbed == mode = "overwrite" => \A j \in Job : ~silent[j]

Succeeding(j) == pc[j] \in {"ending", "storing"} /\ verdict[j] = "succeeded"

KeepsWhole == Undisturbed =>
  /\ Held(chunks, checkpoint)
  /\ \A j \in Job :
       /\ pc[j] \in Moving \union Moved => HeldBy(chunks, j, Acknowledged(j))
       /\ Succeeding(j) \/ row[j] = "succeeded" => Held(chunks, MaxRecords)

\* Nothing moves: neither the records nor what a run has reached of them.
Frame ==
  /\ mode' = mode /\ checkpoint' = checkpoint /\ chunks' = chunks /\ at' = at
  /\ \A j \in Job :
       /\ silent[j] => silent'[j]
       /\ pc'[j] \in Moving \union Moved => pc'[j] = pc[j]
       /\ Succeeding(j)' \/ row'[j] = "succeeded"
            => Succeeding(j) \/ row[j] = "succeeded" \/ pc[j] = "closing"

IInv == /\ TypeOK /\ Named /\ Recorded /\ OneLive
        /\ Attended /\ Stopping /\ Counted /\ KeepsWhole

-----------------------------------------------------------------------------
LEMMA Statuses ==
  /\ "none" \notin Live /\ "none" \notin Ended
  /\ "pending" \in Live /\ "running" \in Live
  /\ "failed" \in Ended /\ "cancelled" \in Ended /\ "succeeded" \in Ended
  /\ \A s \in Ended : s \notin Live
  /\ \A s \in Live : s \in Status
  /\ \A s \in Ended : s \in Status
  /\ \A s \in Status : s = "none" \/ s \in Live \/ s \in Ended
  BY DEF Status, Live, Ended

\* Which stages belong together.
LEMMA Stages ==
  /\ \A s \in Starting : s \in Working /\ s \notin Runs
  /\ \A s \in Runs : s \in Working
  /\ \A s \in Executing : s \in Runs /\ s # "ready"
  /\ \A s \in Moving \union Moved : s \in Executing
  /\ \A s \in Working : s \in Pc /\ s \notin {"new", "refused", "done", "gone"}
  /\ "new" \in Pc /\ "refused" \in Pc /\ "done" \in Pc /\ "gone" \in Pc
  /\ "listing" \in Starting /\ "failing" \in Starting /\ "creating" \in Starting
  /\ "ready" \in Runs /\ "queued" \in Executing /\ "loading" \in Executing
  /\ "writing" \in Moving /\ "persisting" \in Moving /\ "saving" \in Moving
  /\ "finalizing" \in Moved /\ "savingLast" \in Moved /\ "closing" \in Moved
  /\ "queued" \notin Moving \union Moved /\ "loading" \notin Moving \union Moved
  /\ "ending" \in Working /\ "storing" \in Working
  /\ "ending" \notin Runs /\ "storing" \notin Runs
  /\ "ending" \notin Starting /\ "storing" \notin Starting
  BY DEF Starting, Executing, Working, Pc, Runs, Moving, Moved

\* What the counters may take next.
LEMMA Counters ==
  /\ 0 \in Position /\ 0 \in Attempt /\ MaxAttempts - 1 \in Attempt
  /\ \A n \in Position : n < MaxRecords => n + 1 \in Position /\ n + 1 \in Record
  /\ \A n \in Position : n < MaxRecords \/ n = MaxRecords
  /\ \A n \in Attempt : n + 1 < MaxAttempts => n + 1 \in Attempt
  /\ \A n \in Budget : n < MaxUpsets => n + 1 \in Budget
  /\ \A j \in Job : j \in Version /\ j # NoJob
  BY BoundsType DEF Position, Attempt, Budget, Record, Job, Version, NoJob

\* A step sets or resets a flag of one job.
LEMMA FlagsStay ==
  ASSUME TypeOK, NEW j \in Job,
         fresh' = fresh \/ fresh' = Set(fresh, j, TRUE) \/ fresh' = Set(fresh, j, FALSE),
         silent' = silent \/ silent' = Set(silent, j, TRUE)
  PROVE  fresh' \in [Job -> BOOLEAN] /\ silent' \in [Job -> BOOLEAN]
<1> USE DEF TypeOK, Set
<1>1. ASSUME fresh' = Set(fresh, j, TRUE) PROVE fresh' \in [Job -> BOOLEAN]
  BY <1>1
<1>2. ASSUME fresh' = Set(fresh, j, FALSE) PROVE fresh' \in [Job -> BOOLEAN]
  BY <1>2
<1>3. ASSUME silent' = Set(silent, j, TRUE) PROVE silent' \in [Job -> BOOLEAN]
  BY <1>3
<1>4. ASSUME fresh' = fresh PROVE fresh' \in [Job -> BOOLEAN]
  BY <1>4
<1>5. ASSUME silent' = silent PROVE silent' \in [Job -> BOOLEAN]
  BY <1>5
<1> HIDE DEF TypeOK, Set
<1> QED
  BY <1>1, <1>2, <1>3, <1>4, <1>5

\* What a collection holds once record r is written in the version of j.
LEMMA Written ==
  ASSUME NEW collection, NEW j \in Job, NEW n \in Nat, NEW k \in Nat
  PROVE  LET later == {c \in collection : c[1] # n + 1} \union {<<n + 1, j>>}
         IN  /\ Held(collection, k) => Held(later, k)
             /\ Held(collection, n) => Held(later, n + 1)
             /\ HeldAs(collection, j, n) => HeldAs(later, j, n + 1)
<1> DEFINE later == {c \in collection : c[1] # n + 1} \union {<<n + 1, j>>}
<1>1. \A c \in collection : c \in later \/ c[1] = n + 1
  OBVIOUS
<1>2. <<n + 1, j>> \in later /\ <<n + 1, j>>[1] = n + 1
  OBVIOUS
<1>3. \A r \in 1 .. n : r # n + 1 /\ <<r, j>>[1] = r
  OBVIOUS
<1>4. \A r \in 1 .. n + 1 : r \in 1 .. n \/ r = n + 1
  OBVIOUS
<1>5. \A r \in 1 .. n : <<r, j>> \in collection => <<r, j>> \in later
  BY <1>3
<1> HIDE DEF later
<1>6. \A r : (\E c \in collection : c[1] = r) => \E c \in later : c[1] = r
  BY <1>1, <1>2
<1> QED
  <2>1. Held(collection, k) => Held(later, k)
    BY <1>6 DEF Held
  <2>2. Held(collection, n) => Held(later, n + 1)
    BY <1>2, <1>4, <1>6 DEF Held
  <2>3. HeldAs(collection, j, n) => HeldAs(later, j, n + 1)
    BY <1>2, <1>4, <1>5 DEF HeldAs
  <2> QED
    BY <2>1, <2>2, <2>3 DEF later

\* What it holds once all other versions are retired.
LEMMA Retired ==
  ASSUME NEW collection, NEW j \in Job, NEW n \in Nat, HeldAs(collection, j, n)
  PROVE  LET later == {c \in collection : c[2] = j}
         IN  Held(later, n) /\ HeldAs(later, j, n)
<1> DEFINE later == {c \in collection : c[2] = j}
<1>1. \A r \in 1 .. n : <<r, j>> \in later /\ <<r, j>>[1] = r
  BY DEF HeldAs
<1> HIDE DEF later
<1>2. Held(later, n) /\ HeldAs(later, j, n)
  BY <1>1 DEF Held, HeldAs
<1> QED
  BY <1>2 DEF later

LEMMA NoneHeld ==
  \A collection, j : Held(collection, 0) /\ HeldAs(collection, j, 0)
  BY DEF Held, HeldAs

\* While no worker was silent, one run works on the datasource.
LEMMA Alone ==
  ASSUME OneLive, Attended, NEW i \in Job, NEW j \in Job, ~silent[i], ~silent[j],
         pc[i] \in Executing, pc[j] \in Executing
  PROVE  i = j
  BY Stages DEF OneLive, Attended

\* A step keeps the types.
LEMMA TypeStep ==
  ASSUME TypeOK, Named, Counted, [Next]_vars
  PROVE  TypeOK'
<1> USE Counters, Stages, Statuses
        DEF Set, Goto, Refuse, FreeActive, Conclude, Fail, UpdateLive, TakenOver,
            Upset, BeginJob,
            database, processes, jobs, history, TypeOK, Named, Suspect,
            Counted, IsLive, NextBatch
<1>1. ASSUME NEW j \in Job, ListActive(j) PROVE TypeOK'
  BY <1>1 DEF ListActive
<1>2. ASSUME NEW j \in Job, FailVictim(j) PROVE TypeOK'
  BY <1>2 DEF FailVictim
<1>3. ASSUME NEW j \in Job, Create(j) PROVE TypeOK'
  <2>1. fresh' \in [Job -> BOOLEAN] /\ silent' \in [Job -> BOOLEAN]
    <3>1. /\ fresh' = fresh \/ fresh' = Set(fresh, j, TRUE) \/ fresh' = Set(fresh, j, FALSE)
          /\ silent' = silent \/ silent' = Set(silent, j, TRUE)
      BY <1>3 DEF Create
    <3> HIDE DEF TypeOK, Set
    <3> QED
      BY <3>1, FlagsStay
  <2>2. /\ mode' \in Modes /\ row' \in [Job -> Status] /\ checkpoint' \in Position
        /\ chunks' \subseteq Record \X Version /\ up' \in [Worker -> BOOLEAN]
        /\ active' \in [Worker -> Job \union {NoJob}]
        /\ sched' \in [Worker -> {"idle", "failing", "resuming"}]
        /\ orphan' \in [Worker -> Job \union {NoJob}]
    BY <1>3 DEF Create
  <2>3. /\ pc' \in [Job -> Pc] /\ host' \in [Job -> Worker \union {None}]
        /\ victim' \in [Job -> Job \union {NoJob}] /\ at' \in [Job -> Position]
        /\ verdict' \in [Job -> Ended] /\ attempt' \in [Job -> Attempt]
        /\ overrun' \in [Job -> Nat] /\ upsets' \in Budget
    BY <1>3 DEF Create
  <2> QED
    BY <2>1, <2>2, <2>3
<1>4. ASSUME NEW j \in Job, Execute(j) PROVE TypeOK'
  BY <1>4 DEF Execute
<1>5. ASSUME NEW j \in Job, RunStarts(j) PROVE TypeOK'
  <2>1. fresh' \in [Job -> BOOLEAN] /\ silent' \in [Job -> BOOLEAN]
    <3>1. /\ fresh' = fresh \/ fresh' = Set(fresh, j, TRUE) \/ fresh' = Set(fresh, j, FALSE)
          /\ silent' = silent \/ silent' = Set(silent, j, TRUE)
      BY <1>5 DEF RunStarts
    <3> HIDE DEF TypeOK, Set
    <3> QED
      BY <3>1, FlagsStay
  <2>2. /\ mode' \in Modes /\ row' \in [Job -> Status] /\ checkpoint' \in Position
        /\ chunks' \subseteq Record \X Version /\ up' \in [Worker -> BOOLEAN]
        /\ active' \in [Worker -> Job \union {NoJob}]
        /\ sched' \in [Worker -> {"idle", "failing", "resuming"}]
        /\ orphan' \in [Worker -> Job \union {NoJob}]
    BY <1>5 DEF RunStarts
  <2>3. /\ pc' \in [Job -> Pc] /\ host' \in [Job -> Worker \union {None}]
        /\ victim' \in [Job -> Job \union {NoJob}] /\ at' \in [Job -> Position]
        /\ verdict' \in [Job -> Ended] /\ attempt' \in [Job -> Attempt]
        /\ overrun' \in [Job -> Nat] /\ upsets' \in Budget
    BY <1>5 DEF RunStarts
  <2> QED
    BY <2>1, <2>2, <2>3
<1>6. ASSUME NEW j \in Job, Load(j) PROVE TypeOK'
  BY <1>6 DEF Load
<1>7. ASSUME NEW j \in Job, Write(j) PROVE TypeOK'
  BY <1>7 DEF Write
<1>8. ASSUME NEW j \in Job, Persist(j) PROVE TypeOK'
  <2>1. fresh' \in [Job -> BOOLEAN] /\ silent' \in [Job -> BOOLEAN]
    <3>1. /\ fresh' = fresh \/ fresh' = Set(fresh, j, TRUE) \/ fresh' = Set(fresh, j, FALSE)
          /\ silent' = silent \/ silent' = Set(silent, j, TRUE)
      BY <1>8 DEF Persist
    <3> HIDE DEF TypeOK, Set
    <3> QED
      BY <3>1, FlagsStay
  <2>2. /\ mode' \in Modes /\ row' \in [Job -> Status] /\ checkpoint' \in Position
        /\ chunks' \subseteq Record \X Version /\ up' \in [Worker -> BOOLEAN]
        /\ active' \in [Worker -> Job \union {NoJob}]
        /\ sched' \in [Worker -> {"idle", "failing", "resuming"}]
        /\ orphan' \in [Worker -> Job \union {NoJob}]
    BY <1>8 DEF Persist
  <2>3. /\ pc' \in [Job -> Pc] /\ host' \in [Job -> Worker \union {None}]
        /\ victim' \in [Job -> Job \union {NoJob}] /\ at' \in [Job -> Position]
        /\ verdict' \in [Job -> Ended] /\ attempt' \in [Job -> Attempt]
        /\ overrun' \in [Job -> Nat] /\ upsets' \in Budget
    BY <1>8 DEF Persist
  <2> QED
    BY <2>1, <2>2, <2>3
<1>9. ASSUME NEW j \in Job, Save(j) PROVE TypeOK'
  BY <1>9 DEF Save
<1>10. ASSUME NEW j \in Job, Finalize(j) PROVE TypeOK'
  BY <1>10 DEF Finalize
<1>11. ASSUME NEW j \in Job, SaveLast(j) PROVE TypeOK'
  BY <1>11 DEF SaveLast
<1>12. ASSUME NEW j \in Job, Close(j) PROVE TypeOK'
  BY <1>12 DEF Close
<1>13. ASSUME NEW j \in Job, End(j) PROVE TypeOK'
  BY <1>13 DEF End
<1>14. ASSUME NEW j \in Job, StoreFinal(j) PROVE TypeOK'
  <2>1. fresh' \in [Job -> BOOLEAN] /\ silent' \in [Job -> BOOLEAN]
    <3>1. /\ fresh' = fresh \/ fresh' = Set(fresh, j, TRUE) \/ fresh' = Set(fresh, j, FALSE)
          /\ silent' = silent \/ silent' = Set(silent, j, TRUE)
      BY <1>14 DEF StoreFinal
    <3> HIDE DEF TypeOK, Set
    <3> QED
      BY <3>1, FlagsStay
  <2>2. /\ mode' \in Modes /\ row' \in [Job -> Status] /\ checkpoint' \in Position
        /\ chunks' \subseteq Record \X Version /\ up' \in [Worker -> BOOLEAN]
        /\ active' \in [Worker -> Job \union {NoJob}]
        /\ sched' \in [Worker -> {"idle", "failing", "resuming"}]
        /\ orphan' \in [Worker -> Job \union {NoJob}]
    BY <1>14 DEF StoreFinal
  <2>3. /\ pc' \in [Job -> Pc] /\ host' \in [Job -> Worker \union {None}]
        /\ victim' \in [Job -> Job \union {NoJob}] /\ at' \in [Job -> Position]
        /\ verdict' \in [Job -> Ended] /\ attempt' \in [Job -> Attempt]
        /\ overrun' \in [Job -> Nat] /\ upsets' \in Budget
    BY <1>14 DEF StoreFinal
  <2> QED
    BY <2>1, <2>2, <2>3
<1>15. ASSUME NEW j \in Job, StartFails(j) PROVE TypeOK'
  BY <1>15 DEF StartFails
<1>16. ASSUME NEW j \in Job, RunFails(j) PROVE TypeOK'
  BY <1>16 DEF RunFails
<1>17. ASSUME NEW j \in Job, Heartbeat(j) PROVE TypeOK'
  <2>1. fresh' \in [Job -> BOOLEAN] /\ silent' \in [Job -> BOOLEAN]
    <3>1. /\ fresh' = fresh \/ fresh' = Set(fresh, j, TRUE) \/ fresh' = Set(fresh, j, FALSE)
          /\ silent' = silent \/ silent' = Set(silent, j, TRUE)
      BY <1>17 DEF Heartbeat
    <3> HIDE DEF TypeOK, Set
    <3> QED
      BY <3>1, FlagsStay
  <2>2. /\ mode' \in Modes /\ row' \in [Job -> Status] /\ checkpoint' \in Position
        /\ chunks' \subseteq Record \X Version /\ up' \in [Worker -> BOOLEAN]
        /\ active' \in [Worker -> Job \union {NoJob}]
        /\ sched' \in [Worker -> {"idle", "failing", "resuming"}]
        /\ orphan' \in [Worker -> Job \union {NoJob}]
    BY <1>17 DEF Heartbeat
  <2>3. /\ pc' \in [Job -> Pc] /\ host' \in [Job -> Worker \union {None}]
        /\ victim' \in [Job -> Job \union {NoJob}] /\ at' \in [Job -> Position]
        /\ verdict' \in [Job -> Ended] /\ attempt' \in [Job -> Attempt]
        /\ overrun' \in [Job -> Nat] /\ upsets' \in Budget
    BY <1>17 DEF Heartbeat
  <2> QED
    BY <2>1, <2>2, <2>3
<1>18. ASSUME NEW j \in Job, Cancel(j) PROVE TypeOK'
  BY <1>18 DEF Cancel
<1>19. ASSUME NEW j \in Job, Lapse(j) PROVE TypeOK'
  <2>1. fresh' \in [Job -> BOOLEAN] /\ silent' \in [Job -> BOOLEAN]
    <3>1. /\ fresh' = fresh \/ fresh' = Set(fresh, j, TRUE) \/ fresh' = Set(fresh, j, FALSE)
          /\ silent' = silent \/ silent' = Set(silent, j, TRUE)
      BY <1>19 DEF Lapse
    <3> HIDE DEF TypeOK, Set
    <3> QED
      BY <3>1, FlagsStay
  <2>2. /\ mode' \in Modes /\ row' \in [Job -> Status] /\ checkpoint' \in Position
        /\ chunks' \subseteq Record \X Version /\ up' \in [Worker -> BOOLEAN]
        /\ active' \in [Worker -> Job \union {NoJob}]
        /\ sched' \in [Worker -> {"idle", "failing", "resuming"}]
        /\ orphan' \in [Worker -> Job \union {NoJob}]
    BY <1>19 DEF Lapse
  <2>3. /\ pc' \in [Job -> Pc] /\ host' \in [Job -> Worker \union {None}]
        /\ victim' \in [Job -> Job \union {NoJob}] /\ at' \in [Job -> Position]
        /\ verdict' \in [Job -> Ended] /\ attempt' \in [Job -> Attempt]
        /\ overrun' \in [Job -> Nat] /\ upsets' \in Budget
    BY <1>19 DEF Lapse
  <2> QED
    BY <2>1, <2>2, <2>3
<1>20. ASSUME NEW w \in Worker, Begin(w) PROVE TypeOK'
  BY <1>20 DEF Begin
<1>21. ASSUME NEW w \in Worker, RecoverFinds(w) PROVE TypeOK'
  BY <1>21 DEF RecoverFinds
<1>22. ASSUME NEW w \in Worker, RecoverFails(w) PROVE TypeOK'
  BY <1>22 DEF RecoverFails
<1>23. ASSUME NEW w \in Worker, Resume(w) PROVE TypeOK'
  BY <1>23 DEF Resume
<1>24. ASSUME NEW w \in Worker, Stop(w) PROVE TypeOK'
  BY <1>24 DEF Stop
<1>25. ASSUME NEW w \in Worker, Restart(w) PROVE TypeOK'
  BY <1>25 DEF Restart
<1>26. CASE UNCHANGED vars
  BY <1>26 DEF vars
<1> QED
  BY <1>1, <1>2, <1>3, <1>4, <1>5, <1>6, <1>7, <1>8, <1>9, <1>10, <1>11, <1>12, <1>13,
     <1>14, <1>15, <1>16, <1>17, <1>18, <1>19, <1>20, <1>21, <1>22, <1>23, <1>24, <1>25,
     <1>26 DEF Next, TaskStep, StartStep, RunStep, RecoveryStep

\* What is about to be failed is still abandoned, or its worker was silent.
LEMMA NamedStep ==
  ASSUME TypeOK, Named, Recorded, Attended, [Next]_vars
  PROVE  Named'
<1> USE Stages, Statuses
        DEF Set, Goto, Refuse, FreeActive, Conclude, Fail, UpdateLive, TakenOver,
            Upset, BeginJob,
            database, processes, jobs, history, TypeOK, Named, Suspect,
            Attended, IsLive, Own, Recorded, NextBatch
<1>1. ASSUME NEW j \in Job, ListActive(j) PROVE Named'
  BY <1>1 DEF ListActive
<1>2. ASSUME NEW j \in Job, FailVictim(j) PROVE Named'
  BY <1>2 DEF FailVictim
<1>3. ASSUME NEW j \in Job, Create(j) PROVE Named'
  BY <1>3 DEF Create
<1>4. ASSUME NEW j \in Job, Execute(j) PROVE Named'
  BY <1>4 DEF Execute
<1>5. ASSUME NEW j \in Job, RunStarts(j) PROVE Named'
  BY <1>5 DEF RunStarts
<1>6. ASSUME NEW j \in Job, Load(j) PROVE Named'
  BY <1>6 DEF Load
<1>7. ASSUME NEW j \in Job, Write(j) PROVE Named'
  BY <1>7 DEF Write
<1>8. ASSUME NEW j \in Job, Persist(j) PROVE Named'
  BY <1>8 DEF Persist
<1>9. ASSUME NEW j \in Job, Save(j) PROVE Named'
  BY <1>9 DEF Save
<1>10. ASSUME NEW j \in Job, Finalize(j) PROVE Named'
  BY <1>10 DEF Finalize
<1>11. ASSUME NEW j \in Job, SaveLast(j) PROVE Named'
  BY <1>11 DEF SaveLast
<1>12. ASSUME NEW j \in Job, Close(j) PROVE Named'
  BY <1>12 DEF Close
<1>13. ASSUME NEW j \in Job, End(j) PROVE Named'
  BY <1>13 DEF End
<1>14. ASSUME NEW j \in Job, StoreFinal(j) PROVE Named'
  BY <1>14 DEF StoreFinal
<1>15. ASSUME NEW j \in Job, StartFails(j) PROVE Named'
  BY <1>15 DEF StartFails
<1>16. ASSUME NEW j \in Job, RunFails(j) PROVE Named'
  BY <1>16 DEF RunFails
<1>17. ASSUME NEW j \in Job, Heartbeat(j) PROVE Named'
  BY <1>17 DEF Heartbeat
<1>18. ASSUME NEW j \in Job, Cancel(j) PROVE Named'
  BY <1>18 DEF Cancel
<1>19. ASSUME NEW j \in Job, Lapse(j) PROVE Named'
  BY <1>19 DEF Lapse
<1>20. ASSUME NEW w \in Worker, Begin(w) PROVE Named'
  BY <1>20 DEF Begin
<1>21. ASSUME NEW w \in Worker, RecoverFinds(w) PROVE Named'
  BY <1>21 DEF RecoverFinds
<1>22. ASSUME NEW w \in Worker, RecoverFails(w) PROVE Named'
  BY <1>22 DEF RecoverFails
<1>23. ASSUME NEW w \in Worker, Resume(w) PROVE Named'
  BY <1>23 DEF Resume
<1>24. ASSUME NEW w \in Worker, Stop(w) PROVE Named'
  BY <1>24 DEF Stop
<1>25. ASSUME NEW w \in Worker, Restart(w) PROVE Named'
  BY <1>25 DEF Restart
<1>26. CASE UNCHANGED vars
  BY <1>26 DEF vars
<1> QED
  BY <1>1, <1>2, <1>3, <1>4, <1>5, <1>6, <1>7, <1>8, <1>9, <1>10, <1>11, <1>12, <1>13,
     <1>14, <1>15, <1>16, <1>17, <1>18, <1>19, <1>20, <1>21, <1>22, <1>23, <1>24, <1>25,
     <1>26 DEF Next, TaskStep, StartStep, RunStep, RecoveryStep

\* The stage of a job fits its row.
LEMMA RecordedStep ==
  ASSUME TypeOK, Named, Recorded, [Next]_vars
  PROVE  Recorded'
<1> USE Stages, Statuses
        DEF Set, Goto, Refuse, FreeActive, Conclude, Fail, UpdateLive, TakenOver,
            Upset, BeginJob,
            database, processes, jobs, history, TypeOK, Named, Suspect,
            Recorded, IsLive, NextBatch
<1>1. ASSUME NEW j \in Job, ListActive(j) PROVE Recorded'
  BY <1>1 DEF ListActive
<1>2. ASSUME NEW j \in Job, FailVictim(j) PROVE Recorded'
  BY <1>2 DEF FailVictim
<1>3. ASSUME NEW j \in Job, Create(j) PROVE Recorded'
  BY <1>3 DEF Create
<1>4. ASSUME NEW j \in Job, Execute(j) PROVE Recorded'
  BY <1>4 DEF Execute
<1>5. ASSUME NEW j \in Job, RunStarts(j) PROVE Recorded'
  BY <1>5 DEF RunStarts
<1>6. ASSUME NEW j \in Job, Load(j) PROVE Recorded'
  BY <1>6 DEF Load
<1>7. ASSUME NEW j \in Job, Write(j) PROVE Recorded'
  BY <1>7 DEF Write
<1>8. ASSUME NEW j \in Job, Persist(j) PROVE Recorded'
  BY <1>8 DEF Persist
<1>9. ASSUME NEW j \in Job, Save(j) PROVE Recorded'
  BY <1>9 DEF Save
<1>10. ASSUME NEW j \in Job, Finalize(j) PROVE Recorded'
  BY <1>10 DEF Finalize
<1>11. ASSUME NEW j \in Job, SaveLast(j) PROVE Recorded'
  BY <1>11 DEF SaveLast
<1>12. ASSUME NEW j \in Job, Close(j) PROVE Recorded'
  BY <1>12 DEF Close
<1>13. ASSUME NEW j \in Job, End(j) PROVE Recorded'
  BY <1>13 DEF End
<1>14. ASSUME NEW j \in Job, StoreFinal(j) PROVE Recorded'
  BY <1>14 DEF StoreFinal
<1>15. ASSUME NEW j \in Job, StartFails(j) PROVE Recorded'
  BY <1>15 DEF StartFails
<1>16. ASSUME NEW j \in Job, RunFails(j) PROVE Recorded'
  BY <1>16 DEF RunFails
<1>17. ASSUME NEW j \in Job, Heartbeat(j) PROVE Recorded'
  BY <1>17 DEF Heartbeat
<1>18. ASSUME NEW j \in Job, Cancel(j) PROVE Recorded'
  BY <1>18 DEF Cancel
<1>19. ASSUME NEW j \in Job, Lapse(j) PROVE Recorded'
  BY <1>19 DEF Lapse
<1>20. ASSUME NEW w \in Worker, Begin(w) PROVE Recorded'
  BY <1>20 DEF Begin
<1>21. ASSUME NEW w \in Worker, RecoverFinds(w) PROVE Recorded'
  BY <1>21 DEF RecoverFinds
<1>22. ASSUME NEW w \in Worker, RecoverFails(w) PROVE Recorded'
  BY <1>22 DEF RecoverFails
<1>23. ASSUME NEW w \in Worker, Resume(w) PROVE Recorded'
  BY <1>23 DEF Resume
<1>24. ASSUME NEW w \in Worker, Stop(w) PROVE Recorded'
  BY <1>24 DEF Stop
<1>25. ASSUME NEW w \in Worker, Restart(w) PROVE Recorded'
  BY <1>25 DEF Restart
<1>26. CASE UNCHANGED vars
  BY <1>26 DEF vars
<1> QED
  BY <1>1, <1>2, <1>3, <1>4, <1>5, <1>6, <1>7, <1>8, <1>9, <1>10, <1>11, <1>12, <1>13,
     <1>14, <1>15, <1>16, <1>17, <1>18, <1>19, <1>20, <1>21, <1>22, <1>23, <1>24, <1>25,
     <1>26 DEF Next, TaskStep, StartStep, RunStep, RecoveryStep

\* The unique index lets one live row in, and only a live row stays live.
LEMMA OneLiveStep ==
  ASSUME TypeOK, OneLive, Recorded, [Next]_vars
  PROVE  OneLive'
<1> USE Stages, Statuses
        DEF Set, Goto, Refuse, FreeActive, Conclude, Fail, UpdateLive, TakenOver,
            Upset, BeginJob,
            database, processes, jobs, history, TypeOK, OneLive, Recorded, IsLive, NextBatch
<1>1. ASSUME NEW j \in Job, ListActive(j) PROVE OneLive'
  BY <1>1 DEF ListActive
<1>2. ASSUME NEW j \in Job, FailVictim(j) PROVE OneLive'
  BY <1>2 DEF FailVictim
<1>3. ASSUME NEW j \in Job, Create(j) PROVE OneLive'
  BY <1>3 DEF Create
<1>4. ASSUME NEW j \in Job, Execute(j) PROVE OneLive'
  BY <1>4 DEF Execute
<1>5. ASSUME NEW j \in Job, RunStarts(j) PROVE OneLive'
  BY <1>5 DEF RunStarts
<1>6. ASSUME NEW j \in Job, Load(j) PROVE OneLive'
  BY <1>6 DEF Load
<1>7. ASSUME NEW j \in Job, Write(j) PROVE OneLive'
  BY <1>7 DEF Write
<1>8. ASSUME NEW j \in Job, Persist(j) PROVE OneLive'
  BY <1>8 DEF Persist
<1>9. ASSUME NEW j \in Job, Save(j) PROVE OneLive'
  BY <1>9 DEF Save
<1>10. ASSUME NEW j \in Job, Finalize(j) PROVE OneLive'
  BY <1>10 DEF Finalize
<1>11. ASSUME NEW j \in Job, SaveLast(j) PROVE OneLive'
  BY <1>11 DEF SaveLast
<1>12. ASSUME NEW j \in Job, Close(j) PROVE OneLive'
  BY <1>12 DEF Close
<1>13. ASSUME NEW j \in Job, End(j) PROVE OneLive'
  BY <1>13 DEF End
<1>14. ASSUME NEW j \in Job, StoreFinal(j) PROVE OneLive'
  BY <1>14 DEF StoreFinal
<1>15. ASSUME NEW j \in Job, StartFails(j) PROVE OneLive'
  BY <1>15 DEF StartFails
<1>16. ASSUME NEW j \in Job, RunFails(j) PROVE OneLive'
  BY <1>16 DEF RunFails
<1>17. ASSUME NEW j \in Job, Heartbeat(j) PROVE OneLive'
  BY <1>17 DEF Heartbeat
<1>18. ASSUME NEW j \in Job, Cancel(j) PROVE OneLive'
  BY <1>18 DEF Cancel
<1>19. ASSUME NEW j \in Job, Lapse(j) PROVE OneLive'
  BY <1>19 DEF Lapse
<1>20. ASSUME NEW w \in Worker, Begin(w) PROVE OneLive'
  BY <1>20 DEF Begin
<1>21. ASSUME NEW w \in Worker, RecoverFinds(w) PROVE OneLive'
  BY <1>21 DEF RecoverFinds
<1>22. ASSUME NEW w \in Worker, RecoverFails(w) PROVE OneLive'
  BY <1>22 DEF RecoverFails
<1>23. ASSUME NEW w \in Worker, Resume(w) PROVE OneLive'
  BY <1>23 DEF Resume
<1>24. ASSUME NEW w \in Worker, Stop(w) PROVE OneLive'
  BY <1>24 DEF Stop
<1>25. ASSUME NEW w \in Worker, Restart(w) PROVE OneLive'
  BY <1>25 DEF Restart
<1>26. CASE UNCHANGED vars
  BY <1>26 DEF vars
<1> QED
  BY <1>1, <1>2, <1>3, <1>4, <1>5, <1>6, <1>7, <1>8, <1>9, <1>10, <1>11, <1>12, <1>13,
     <1>14, <1>15, <1>16, <1>17, <1>18, <1>19, <1>20, <1>21, <1>22, <1>23, <1>24, <1>25,
     <1>26 DEF Next, TaskStep, StartStep, RunStep, RecoveryStep

\* Only a silent worker loses its job.
LEMMA AttendedStep ==
  ASSUME TypeOK, Named, Recorded, Attended, [Next]_vars
  PROVE  Attended'
<1> USE Stages, Statuses
        DEF Set, Goto, Refuse, FreeActive, Conclude, Fail, UpdateLive, TakenOver,
            Upset, BeginJob,
            database, processes, jobs, history, TypeOK, Named, Suspect,
            Recorded, Attended, IsLive, NextBatch
<1>1. ASSUME NEW j \in Job, ListActive(j) PROVE Attended'
  BY <1>1 DEF ListActive
<1>2. ASSUME NEW j \in Job, FailVictim(j) PROVE Attended'
  BY <1>2 DEF FailVictim
<1>3. ASSUME NEW j \in Job, Create(j) PROVE Attended'
  BY <1>3 DEF Create
<1>4. ASSUME NEW j \in Job, Execute(j) PROVE Attended'
  BY <1>4 DEF Execute
<1>5. ASSUME NEW j \in Job, RunStarts(j) PROVE Attended'
  BY <1>5 DEF RunStarts
<1>6. ASSUME NEW j \in Job, Load(j) PROVE Attended'
  BY <1>6 DEF Load
<1>7. ASSUME NEW j \in Job, Write(j) PROVE Attended'
  BY <1>7 DEF Write
<1>8. ASSUME NEW j \in Job, Persist(j) PROVE Attended'
  BY <1>8 DEF Persist
<1>9. ASSUME NEW j \in Job, Save(j) PROVE Attended'
  BY <1>9 DEF Save
<1>10. ASSUME NEW j \in Job, Finalize(j) PROVE Attended'
  BY <1>10 DEF Finalize
<1>11. ASSUME NEW j \in Job, SaveLast(j) PROVE Attended'
  BY <1>11 DEF SaveLast
<1>12. ASSUME NEW j \in Job, Close(j) PROVE Attended'
  BY <1>12 DEF Close
<1>13. ASSUME NEW j \in Job, End(j) PROVE Attended'
  BY <1>13 DEF End
<1>14. ASSUME NEW j \in Job, StoreFinal(j) PROVE Attended'
  BY <1>14 DEF StoreFinal
<1>15. ASSUME NEW j \in Job, StartFails(j) PROVE Attended'
  BY <1>15 DEF StartFails
<1>16. ASSUME NEW j \in Job, RunFails(j) PROVE Attended'
  BY <1>16 DEF RunFails
<1>17. ASSUME NEW j \in Job, Heartbeat(j) PROVE Attended'
  BY <1>17 DEF Heartbeat
<1>18. ASSUME NEW j \in Job, Cancel(j) PROVE Attended'
  BY <1>18 DEF Cancel
<1>19. ASSUME NEW j \in Job, Lapse(j) PROVE Attended'
  BY <1>19 DEF Lapse
<1>20. ASSUME NEW w \in Worker, Begin(w) PROVE Attended'
  BY <1>20 DEF Begin
<1>21. ASSUME NEW w \in Worker, RecoverFinds(w) PROVE Attended'
  BY <1>21 DEF RecoverFinds
<1>22. ASSUME NEW w \in Worker, RecoverFails(w) PROVE Attended'
  BY <1>22 DEF RecoverFails
<1>23. ASSUME NEW w \in Worker, Resume(w) PROVE Attended'
  BY <1>23 DEF Resume
<1>24. ASSUME NEW w \in Worker, Stop(w) PROVE Attended'
  BY <1>24 DEF Stop
<1>25. ASSUME NEW w \in Worker, Restart(w) PROVE Attended'
  BY <1>25 DEF Restart
<1>26. CASE UNCHANGED vars
  BY <1>26 DEF vars
<1> QED
  BY <1>1, <1>2, <1>3, <1>4, <1>5, <1>6, <1>7, <1>8, <1>9, <1>10, <1>11, <1>12, <1>13,
     <1>14, <1>15, <1>16, <1>17, <1>18, <1>19, <1>20, <1>21, <1>22, <1>23, <1>24, <1>25,
     <1>26 DEF Next, TaskStep, StartStep, RunStep, RecoveryStep

\* Who wrote after the end learns of it before the next batch.
LEMMA StoppingStep ==
  ASSUME TypeOK, Named, Recorded, Stopping, [Next]_vars
  PROVE  Stopping'
<1> USE Stages, Statuses
        DEF Set, Goto, Refuse, FreeActive, Conclude, Fail, UpdateLive, TakenOver,
            Upset, BeginJob,
            database, processes, jobs, history, TypeOK, Named, Suspect,
            Recorded, Stopping, IsLive, NextBatch
<1>1. ASSUME NEW j \in Job, ListActive(j) PROVE Stopping'
  BY <1>1 DEF ListActive
<1>2. ASSUME NEW j \in Job, FailVictim(j) PROVE Stopping'
  BY <1>2 DEF FailVictim
<1>3. ASSUME NEW j \in Job, Create(j) PROVE Stopping'
  BY <1>3 DEF Create
<1>4. ASSUME NEW j \in Job, Execute(j) PROVE Stopping'
  BY <1>4 DEF Execute
<1>5. ASSUME NEW j \in Job, RunStarts(j) PROVE Stopping'
  BY <1>5 DEF RunStarts
<1>6. ASSUME NEW j \in Job, Load(j) PROVE Stopping'
  BY <1>6 DEF Load
<1>7. ASSUME NEW j \in Job, Write(j) PROVE Stopping'
  BY <1>7 DEF Write
<1>8. ASSUME NEW j \in Job, Persist(j) PROVE Stopping'
  BY <1>8 DEF Persist
<1>9. ASSUME NEW j \in Job, Save(j) PROVE Stopping'
  BY <1>9 DEF Save
<1>10. ASSUME NEW j \in Job, Finalize(j) PROVE Stopping'
  BY <1>10 DEF Finalize
<1>11. ASSUME NEW j \in Job, SaveLast(j) PROVE Stopping'
  BY <1>11 DEF SaveLast
<1>12. ASSUME NEW j \in Job, Close(j) PROVE Stopping'
  BY <1>12 DEF Close
<1>13. ASSUME NEW j \in Job, End(j) PROVE Stopping'
  BY <1>13 DEF End
<1>14. ASSUME NEW j \in Job, StoreFinal(j) PROVE Stopping'
  BY <1>14 DEF StoreFinal
<1>15. ASSUME NEW j \in Job, StartFails(j) PROVE Stopping'
  BY <1>15 DEF StartFails
<1>16. ASSUME NEW j \in Job, RunFails(j) PROVE Stopping'
  BY <1>16 DEF RunFails
<1>17. ASSUME NEW j \in Job, Heartbeat(j) PROVE Stopping'
  BY <1>17 DEF Heartbeat
<1>18. ASSUME NEW j \in Job, Cancel(j) PROVE Stopping'
  BY <1>18 DEF Cancel
<1>19. ASSUME NEW j \in Job, Lapse(j) PROVE Stopping'
  BY <1>19 DEF Lapse
<1>20. ASSUME NEW w \in Worker, Begin(w) PROVE Stopping'
  BY <1>20 DEF Begin
<1>21. ASSUME NEW w \in Worker, RecoverFinds(w) PROVE Stopping'
  BY <1>21 DEF RecoverFinds
<1>22. ASSUME NEW w \in Worker, RecoverFails(w) PROVE Stopping'
  BY <1>22 DEF RecoverFails
<1>23. ASSUME NEW w \in Worker, Resume(w) PROVE Stopping'
  BY <1>23 DEF Resume
<1>24. ASSUME NEW w \in Worker, Stop(w) PROVE Stopping'
  BY <1>24 DEF Stop
<1>25. ASSUME NEW w \in Worker, Restart(w) PROVE Stopping'
  BY <1>25 DEF Restart
<1>26. CASE UNCHANGED vars
  BY <1>26 DEF vars
<1> QED
  BY <1>1, <1>2, <1>3, <1>4, <1>5, <1>6, <1>7, <1>8, <1>9, <1>10, <1>11, <1>12, <1>13,
     <1>14, <1>15, <1>16, <1>17, <1>18, <1>19, <1>20, <1>21, <1>22, <1>23, <1>24, <1>25,
     <1>26 DEF Next, TaskStep, StartStep, RunStep, RecoveryStep

\* What no action but those of the transfer itself disturbs.
LEMMA OutsideRun ==
  ASSUME TypeOK, [Next]_vars,
         ~(\E j \in Job : Load(j) \/ Write(j) \/ Persist(j) \/ Save(j) \/ Finalize(j) \/ SaveLast(j))
  PROVE  Frame
<1> USE Stages, Statuses
        DEF Set, Goto, Refuse, FreeActive, Conclude, Fail, UpdateLive, TakenOver,
            Upset, BeginJob,
            database, processes, jobs, history, TypeOK, Frame, Succeeding, IsLive, NextBatch
<1>1. ASSUME NEW j \in Job, ListActive(j) PROVE Frame
  BY <1>1 DEF ListActive
<1>2. ASSUME NEW j \in Job, FailVictim(j) PROVE Frame
  BY <1>2 DEF FailVictim
<1>3. ASSUME NEW j \in Job, Create(j) PROVE Frame
  BY <1>3 DEF Create
<1>4. ASSUME NEW j \in Job, Execute(j) PROVE Frame
  BY <1>4 DEF Execute
<1>5. ASSUME NEW j \in Job, RunStarts(j) PROVE Frame
  BY <1>5 DEF RunStarts
<1>6. ASSUME NEW j \in Job, Close(j) PROVE Frame
  BY <1>6 DEF Close
<1>7. ASSUME NEW j \in Job, End(j) PROVE Frame
  BY <1>7 DEF End
<1>8. ASSUME NEW j \in Job, StoreFinal(j) PROVE Frame
  BY <1>8 DEF StoreFinal
<1>9. ASSUME NEW j \in Job, StartFails(j) PROVE Frame
  BY <1>9 DEF StartFails
<1>10. ASSUME NEW j \in Job, RunFails(j) PROVE Frame
  BY <1>10 DEF RunFails
<1>11. ASSUME NEW j \in Job, Heartbeat(j) PROVE Frame
  BY <1>11 DEF Heartbeat
<1>12. ASSUME NEW j \in Job, Cancel(j) PROVE Frame
  BY <1>12 DEF Cancel
<1>13. ASSUME NEW j \in Job, Lapse(j) PROVE Frame
  BY <1>13 DEF Lapse
<1>14. ASSUME NEW w \in Worker, Begin(w) PROVE Frame
  BY <1>14 DEF Begin
<1>15. ASSUME NEW w \in Worker, RecoverFinds(w) PROVE Frame
  BY <1>15 DEF RecoverFinds
<1>16. ASSUME NEW w \in Worker, RecoverFails(w) PROVE Frame
  BY <1>16 DEF RecoverFails
<1>17. ASSUME NEW w \in Worker, Resume(w) PROVE Frame
  BY <1>17 DEF Resume
<1>18. ASSUME NEW w \in Worker, Stop(w) PROVE Frame
  BY <1>18 DEF Stop
<1>19. ASSUME NEW w \in Worker, Restart(w) PROVE Frame
  BY <1>19 DEF Restart
<1>20. CASE UNCHANGED vars
  BY <1>20 DEF vars
<1> QED
  BY <1>1, <1>2, <1>3, <1>4, <1>5, <1>6, <1>7, <1>8, <1>9, <1>10, <1>11, <1>12, <1>13,
     <1>14, <1>15, <1>16, <1>17, <1>18, <1>19, <1>20 DEF Next, TaskStep, StartStep,
     RunStep, RecoveryStep

\* A run writes while records are left, and finalizes when none is.
LEMMA CountedStep ==
  ASSUME TypeOK, Counted, [Next]_vars
  PROVE  Counted'
<1>1. CASE Frame
  BY <1>1, Stages DEF Frame, Counted, Moving, Moved
<1>2. ASSUME NEW j \in Job, Load(j) PROVE Counted'
  <2> USE DEF Load, Set, Goto
  <2>1. checkpoint' \in Position /\ (mode # "incremental" => checkpoint' = 0)
    BY <1>2, Counters DEF TypeOK, Counted
  <2>2. /\ at'[j] \in Position
        /\ pc'[j] = IF at'[j] < MaxRecords THEN "writing" ELSE "finalizing"
        /\ mode' = mode
        /\ \A i \in Job : i # j => pc'[i] = pc[i] /\ at'[i] = at[i]
    BY <2>1, <1>2, Counters DEF TypeOK, NextBatch
  <2> QED
    BY <2>1, <2>2, Counters DEF Counted, Moved
<1>3. ASSUME NEW j \in Job, Write(j) PROVE Counted'
  BY <1>3, Counters, Stages DEF Write, TypeOK, Counted, Set, Goto, UpdateLive,
     TakenOver, Conclude, NextBatch, Moved, Moving, database, processes, jobs, history
<1>4. ASSUME NEW j \in Job, Persist(j) PROVE Counted'
  <2> USE DEF Persist, Set, Goto, UpdateLive, TakenOver, Conclude
  <2>1. CASE IsLive(j)
    <3>1. at[j] \in Position /\ at[j] < MaxRecords
      BY <1>4 DEF TypeOK, Counted
    <3>2. /\ at'[j] = at[j] + 1
          /\ pc'[j] = IF mode = "incremental" THEN "saving" ELSE NextBatch(at'[j])
          /\ mode' = mode /\ checkpoint' = checkpoint
          /\ \A i \in Job : i # j => pc'[i] = pc[i] /\ at'[i] = at[i]
      BY <2>1, <1>4 DEF TypeOK
    <3> QED
      BY <3>1, <3>2, Counters DEF Counted, Moved, NextBatch
  <2>2. CASE ~IsLive(j)
    BY <2>2, <1>4, Stages DEF TypeOK, Counted, Moved
  <2> QED
    BY <2>1, <2>2
<1>5. ASSUME NEW j \in Job, Save(j) PROVE Counted'
  BY <1>5, Counters, Stages DEF Save, TypeOK, Counted, Set, Goto, UpdateLive, TakenOver,
     Conclude, NextBatch, Moved, Moving, database, processes, jobs, history
<1>6. ASSUME NEW j \in Job, Finalize(j) PROVE Counted'
  BY <1>6, Counters, Stages DEF Finalize, TypeOK, Counted, Set, Goto, UpdateLive,
     TakenOver, Conclude, NextBatch, Moved, Moving, database, processes, jobs, history
<1>7. ASSUME NEW j \in Job, SaveLast(j) PROVE Counted'
  BY <1>7, Counters, Stages DEF SaveLast, TypeOK, Counted, Set, Goto, UpdateLive,
     TakenOver, Conclude, NextBatch, Moved, Moving, database, processes, jobs, history
<1> QED
  BY OutsideRun, <1>1, <1>2, <1>3, <1>4, <1>5, <1>6, <1>7

\* What is in the collection, for whoever relies on it, is still there after a step.
LEMMA KeepsWholeStep ==
  ASSUME TypeOK, Counted, OneLive, Attended, KeepsWhole, [Next]_vars
  PROVE  KeepsWhole'
<1>1. CASE Frame
  <2>1. Undisturbed' => Undisturbed
    BY <1>1 DEF Frame, Undisturbed
  <2>2. \A j \in Job : pc'[j] \in Moving \union Moved => Acknowledged(j)' = Acknowledged(j)
    BY <1>1 DEF Frame, Acknowledged
  <2>3. \A j \in Job : \A n : HeldBy(chunks, j, n)' <=> HeldBy(chunks, j, n)
    BY <1>1 DEF Frame, HeldBy
  <2>4. \A j \in Job : pc[j] = "closing" /\ Undisturbed => Held(chunks, MaxRecords)
    BY Stages DEF KeepsWhole, Counted, HeldBy, Acknowledged, Moved
  <2> SUFFICES ASSUME Undisturbed' PROVE KeepsWhole'
    BY DEF KeepsWhole
  <2>5. Undisturbed
    BY <2>1
  <2>6. chunks' = chunks /\ checkpoint' = checkpoint
    BY <1>1 DEF Frame
  <2>7. ASSUME NEW j \in Job, pc'[j] \in Moving \union Moved
        PROVE  HeldBy(chunks, j, Acknowledged(j))'
    BY <1>1, <2>2, <2>3, <2>5, <2>6, <2>7 DEF Frame, KeepsWhole, HeldBy
  <2>8. ASSUME NEW j \in Job, Succeeding(j)' \/ row'[j] = "succeeded"
        PROVE  Held(chunks, MaxRecords)
    BY <1>1, <2>4, <2>5, <2>8 DEF Frame, KeepsWhole
  <2> QED
    BY <2>5, <2>6, <2>7, <2>8 DEF KeepsWhole
<1>2. ASSUME NEW j \in Job, Load(j) PROVE KeepsWhole'
  <2> SUFFICES ASSUME Undisturbed' PROVE KeepsWhole'
    BY DEF KeepsWhole
  <2> USE DEF Load, Set, Goto, history, jobs, database
  <2>1. Undisturbed
    BY <1>2 DEF Undisturbed
  <2>7. Held(chunks', checkpoint')
    BY <1>2, <2>1, NoneHeld DEF KeepsWhole
  <2>8. pc'[j] \in Moving \union Moved => HeldBy(chunks, j, Acknowledged(j))'
    BY <1>2, <2>1, <2>7, NoneHeld DEF HeldBy, Acknowledged, TypeOK, NextBatch
  <2>9. ASSUME NEW i \in Job, i # j, pc'[i] \in Moving \union Moved
        PROVE  HeldBy(chunks, i, Acknowledged(i))'
    BY <1>2, <2>1, <2>9 DEF KeepsWhole, HeldBy, Acknowledged, TypeOK
  <2>10. ASSUME NEW i \in Job, Succeeding(i)' \/ row'[i] = "succeeded"
         PROVE  Held(chunks', MaxRecords)
    BY <1>2, <2>1, <2>10 DEF KeepsWhole, Succeeding, TypeOK, NextBatch
  <2> QED
    BY <2>7, <2>8, <2>9, <2>10 DEF KeepsWhole
<1>3. ASSUME NEW j \in Job, Write(j) PROVE KeepsWhole'
  <2> SUFFICES ASSUME Undisturbed' PROVE KeepsWhole'
    BY DEF KeepsWhole
  <2> USE DEF Write, Set, Goto, history, jobs, database
  <2>1. Undisturbed
    BY <1>3 DEF Undisturbed
  <2>2. at[j] \in Nat
    BY <1>3 DEF TypeOK, Position
  <2>3. /\ \A k \in Nat : Held(chunks, k) => Held(chunks', k)
        /\ Held(chunks, at[j]) => Held(chunks', at[j] + 1)
        /\ HeldAs(chunks, j, at[j]) => HeldAs(chunks', j, at[j] + 1)
    BY <1>3, <2>2, Written
  <2>4. HeldBy(chunks, j, at[j])
    BY <1>3, <2>1, Stages DEF KeepsWhole, Acknowledged
  <2>7. Held(chunks', checkpoint')
    BY <1>3, <2>1, <2>3 DEF KeepsWhole, TypeOK, Position
  <2>8. pc'[j] \in Moving \union Moved => HeldBy(chunks, j, Acknowledged(j))'
    BY <1>3, <2>3, <2>4 DEF HeldBy, Acknowledged, TypeOK
  <2>9. ASSUME NEW i \in Job, i # j, pc'[i] \in Moving \union Moved
        PROVE  HeldBy(chunks, i, Acknowledged(i))'
    <3>1. /\ pc'[i] = pc[i] /\ at'[i] = at[i] /\ mode' = mode
          /\ Acknowledged(i) \in Nat /\ Acknowledged(i)' = Acknowledged(i)
      BY <1>3, <2>9 DEF TypeOK, Acknowledged, Position
    <3>2. HeldBy(chunks, i, Acknowledged(i))
      BY <2>1, <2>9, <3>1 DEF KeepsWhole
    <3>3. mode # "overwrite"
      BY <1>3, <2>1, <2>9, <3>1, Alone, Stages DEF Undisturbed
    <3> QED
      BY <2>3, <3>1, <3>2, <3>3 DEF HeldBy
  <2>10. ASSUME NEW i \in Job, Succeeding(i)' \/ row'[i] = "succeeded"
         PROVE  Held(chunks', MaxRecords)
    <3>1. Held(chunks, MaxRecords)
      BY <1>3, <2>1, <2>10 DEF KeepsWhole, Succeeding, TypeOK
    <3> QED
      BY <2>3, <3>1, BoundsType
  <2> QED
    BY <2>7, <2>8, <2>9, <2>10 DEF KeepsWhole
<1>4. ASSUME NEW j \in Job, Persist(j) PROVE KeepsWhole'
  <2> SUFFICES ASSUME Undisturbed' PROVE KeepsWhole'
    BY DEF KeepsWhole
  <2> USE DEF Persist, Set, Goto, history, jobs, database
  <2>1. Undisturbed
    BY <1>4 DEF Undisturbed
  <2> USE DEF UpdateLive, TakenOver, Conclude
  <2>7. Held(chunks', checkpoint')
    BY <1>4, <2>1 DEF KeepsWhole
  <2>8. pc'[j] \in Moving \union Moved => HeldBy(chunks, j, Acknowledged(j))'
    <3>1. HeldBy(chunks, j, at[j] + 1)
      BY <1>4, <2>1, Stages DEF KeepsWhole, Acknowledged
    <3>2. CASE IsLive(j)
      BY <1>4, <3>1, <3>2 DEF TypeOK, HeldBy, Acknowledged, NextBatch
    <3>3. CASE ~IsLive(j)
      BY <1>4, <3>3, Stages DEF TypeOK
    <3> QED
      BY <3>2, <3>3
  <2>9. ASSUME NEW i \in Job, i # j, pc'[i] \in Moving \union Moved
        PROVE  HeldBy(chunks, i, Acknowledged(i))'
    BY <1>4, <2>1, <2>9 DEF KeepsWhole, HeldBy, Acknowledged, TypeOK
  <2>10. ASSUME NEW i \in Job, Succeeding(i)' \/ row'[i] = "succeeded"
         PROVE  Held(chunks', MaxRecords)
    BY <1>4, <2>1, <2>10 DEF KeepsWhole, Succeeding, TypeOK, NextBatch
  <2> QED
    BY <2>7, <2>8, <2>9, <2>10 DEF KeepsWhole
<1>5. ASSUME NEW j \in Job, Save(j) PROVE KeepsWhole'
  <2> SUFFICES ASSUME Undisturbed' PROVE KeepsWhole'
    BY DEF KeepsWhole
  <2> USE DEF Save, Set, Goto, history, jobs, database
  <2>1. Undisturbed
    BY <1>5 DEF Undisturbed
  <2>7. Held(chunks', checkpoint')
    BY <1>5, <2>1, Stages DEF KeepsWhole, HeldBy, Acknowledged
  <2>8. pc'[j] \in Moving \union Moved => HeldBy(chunks, j, Acknowledged(j))'
    BY <1>5, <2>1, Stages DEF KeepsWhole, HeldBy, Acknowledged, NextBatch, TypeOK
  <2>9. ASSUME NEW i \in Job, i # j, pc'[i] \in Moving \union Moved
        PROVE  HeldBy(chunks, i, Acknowledged(i))'
    BY <1>5, <2>1, <2>9 DEF KeepsWhole, HeldBy, Acknowledged, TypeOK
  <2>10. ASSUME NEW i \in Job, Succeeding(i)' \/ row'[i] = "succeeded"
         PROVE  Held(chunks', MaxRecords)
    BY <1>5, <2>1, <2>10 DEF KeepsWhole, Succeeding, TypeOK, NextBatch
  <2> QED
    BY <2>7, <2>8, <2>9, <2>10 DEF KeepsWhole
<1>6. ASSUME NEW j \in Job, Finalize(j) PROVE KeepsWhole'
  <2> SUFFICES ASSUME Undisturbed' PROVE KeepsWhole'
    BY DEF KeepsWhole
  <2> USE DEF Finalize, Set, Goto, history, jobs, database
  <2>1. Undisturbed
    BY <1>6 DEF Undisturbed
  <2>2. HeldBy(chunks, j, MaxRecords) /\ MaxRecords \in Nat
    BY <1>6, <2>1, Stages, BoundsType DEF KeepsWhole, Acknowledged, Counted, Moved
  <2>3. HeldBy(chunks', j, MaxRecords)
    BY <1>6, <2>2, Retired DEF HeldBy
  <2>7. Held(chunks', checkpoint')
    BY <1>6, <2>1, NoneHeld DEF KeepsWhole, Counted
  <2>8. pc'[j] \in Moving \union Moved => HeldBy(chunks, j, Acknowledged(j))'
    BY <1>6, <2>3, Stages DEF HeldBy, Acknowledged, Counted, Moved, TypeOK
  <2>9. ASSUME NEW i \in Job, i # j, pc'[i] \in Moving \union Moved
        PROVE  HeldBy(chunks, i, Acknowledged(i))'
    <3>1. pc'[i] = pc[i] /\ at'[i] = at[i] /\ mode' = mode
      BY <1>6, <2>9 DEF TypeOK
    <3>2. mode # "overwrite"
      BY <1>6, <2>1, <2>9, <3>1, Alone, Stages DEF Undisturbed
    <3>3. HeldBy(chunks, i, Acknowledged(i)) /\ Acknowledged(i)' = Acknowledged(i)
      BY <2>1, <2>9, <3>1 DEF KeepsWhole, Acknowledged
    <3> QED
      BY <1>6, <3>2, <3>3 DEF HeldBy
  <2>10. ASSUME NEW i \in Job, Succeeding(i)' \/ row'[i] = "succeeded"
         PROVE  Held(chunks', MaxRecords)
    BY <2>3 DEF HeldBy
  <2> QED
    BY <2>7, <2>8, <2>9, <2>10 DEF KeepsWhole
<1>7. ASSUME NEW j \in Job, SaveLast(j) PROVE KeepsWhole'
  <2> SUFFICES ASSUME Undisturbed' PROVE KeepsWhole'
    BY DEF KeepsWhole
  <2> USE DEF SaveLast, Set, Goto, history, jobs, database
  <2>1. Undisturbed
    BY <1>7 DEF Undisturbed
  <2>7. Held(chunks', checkpoint')
    BY <1>7, <2>1, Stages DEF KeepsWhole, HeldBy, Acknowledged
  <2>8. pc'[j] \in Moving \union Moved => HeldBy(chunks, j, Acknowledged(j))'
    BY <1>7, <2>1, Stages DEF KeepsWhole, HeldBy, Acknowledged, NextBatch, TypeOK
  <2>9. ASSUME NEW i \in Job, i # j, pc'[i] \in Moving \union Moved
        PROVE  HeldBy(chunks, i, Acknowledged(i))'
    BY <1>7, <2>1, <2>9 DEF KeepsWhole, HeldBy, Acknowledged, TypeOK
  <2>10. ASSUME NEW i \in Job, Succeeding(i)' \/ row'[i] = "succeeded"
         PROVE  Held(chunks', MaxRecords)
    BY <1>7, <2>1, <2>10 DEF KeepsWhole, Succeeding, TypeOK, NextBatch
  <2> QED
    BY <2>7, <2>8, <2>9, <2>10 DEF KeepsWhole
<1> QED
  BY OutsideRun, <1>1, <1>2, <1>3, <1>4, <1>5, <1>6, <1>7

-----------------------------------------------------------------------------
\* Every reachable state of the jobs satisfies the invariant.
THEOREM Inductive == Spec => []IInv
<1>1. Init => IInv
  <2> SUFFICES ASSUME Init PROVE IInv
    OBVIOUS
  <2> USE Statuses, Stages, Counters
  <2>1. TypeOK
    <3>1. chunks \subseteq Record \X Version
      BY BoundsType DEF Init, Version
    <3>2. fresh \in [Job -> BOOLEAN] /\ silent \in [Job -> BOOLEAN] /\ up \in [Worker -> BOOLEAN]
      BY Zenon DEF Init
    <3>3. /\ row \in [Job -> Status] /\ pc \in [Job -> Pc] /\ verdict \in [Job -> Ended]
          /\ sched \in [Worker -> {"idle", "failing", "resuming"}]
      BY DEF Init, Status
    <3>4. /\ active \in [Worker -> Job \union {NoJob}] /\ orphan \in [Worker -> Job \union {NoJob}]
          /\ host \in [Job -> Worker \union {None}] /\ victim \in [Job -> Job \union {NoJob}]
      BY DEF Init
    <3>5. /\ mode \in Modes /\ checkpoint \in Position /\ upsets \in Budget
          /\ at \in [Job -> Position] /\ attempt \in [Job -> Attempt]
          /\ overrun \in [Job -> Nat]
      BY BoundsType DEF Init, Budget
    <3> QED
      BY <3>1, <3>2, <3>3, <3>4, <3>5 DEF TypeOK
  <2>2. Named /\ Recorded /\ OneLive /\ Attended
    BY DEF Init, Named, Recorded, OneLive, Attended, IsLive, Runs, Starting
  <2>3. Stopping /\ Counted
    BY DEF Init, Stopping, Counted, Moved
  <2>4. \A j \in Job : ~(pc[j] \in Moving \union Moved) /\ ~Succeeding(j) /\ row[j] # "succeeded"
    BY DEF Init, Moving, Moved, Succeeding
  <2>5. KeepsWhole
    BY <2>4, NoneHeld DEF Init, KeepsWhole
  <2> QED
    BY <2>1, <2>2, <2>3, <2>5 DEF IInv
<1>2. IInv /\ [Next]_vars => IInv'
  BY TypeStep, NamedStep, RecordedStep, OneLiveStep, AttendedStep, StoppingStep,
     CountedStep,
     KeepsWholeStep DEF IInv
<1> QED
  BY <1>1, <1>2, PTL DEF Spec

\* The table of jobs, the checkpoint, the collection and the workers only take the values
\* their types allow.
THEOREM TypeCorrect == Spec => []TypeOK
<1>1. IInv => TypeOK
  BY DEF IInv
<1> QED
  BY <1>1, Inductive, PTL

\* Triggers, recoveries, cancels and stops never put two runs on the datasource: only a
\* worker that was silent for the stale time may find another one there.
THEOREM KeepsOneWriter == Spec => []OneWriter
<1>1. IInv => OneWriter
  BY Alone DEF IInv, OneWriter
<1> QED
  BY <1>1, Inductive, PTL

\* A worker whose job was declared dead writes the batch it was at, and no other.
THEOREM StopsZombies == Spec => []ZombieStops
<1>1. IInv => ZombieStops
  BY DEF IInv, TypeOK, Stopping, ZombieStops
<1> QED
  BY <1>1, Inductive, PTL

\* Behind a job on record as succeeded, no record of the source is missing.
THEOREM LeavesWhole == Spec => []SucceededIsWhole
<1>1. IInv => SucceededIsWhole
  <2> SUFFICES ASSUME IInv, NEW j \in Job, row[j] = "succeeded",
                      ~(mode = "overwrite" /\ \E i \in Job : silent[i])
               PROVE  Whole
    BY DEF SucceededIsWhole
  <2>1. Undisturbed
    BY DEF Undisturbed
  <2> QED
    BY <2>1 DEF IInv, KeepsWhole, Held, Whole, Record
<1> QED
  BY <1>1, Inductive, PTL

=============================================================================
