------------------------- MODULE IdempotencyProofs -------------------------
(***************************************************************************)
(* What Idempotency guarantees for any number of requests, principals,     *)
(* payloads, policies and upsets, proved with TLAPS.                       *)
(***************************************************************************)
EXTENDS Idempotency, TLAPS

\* TypeOK is inductive alone.
LEMMA TypeOKInit == Init => TypeOK
  BY PoliciesOfType, MaxUpsetsType DEF Init, TypeOK, Pc, Answer

LEMMA SpendTyped ==
  ASSUME TypeOK, NEW o \in Reply, Spend(o) PROVE upsets' \in 0..MaxUpsets
  BY MaxUpsetsType DEF TypeOK, Spend, Upset

\* Where a request goes and what it is answered: the parts of TypeOK they touch.
RequestsTyped == /\ pc' \in [Request -> Pc]
                 /\ answer' \in [Request -> Answer]
                 /\ source' \in [Request -> Request \union {None}]

LEMMA GotoTyped ==
  ASSUME TypeOK, NEW r \in Request, NEW label \in Pc, Goto(r, label) PROVE RequestsTyped
  BY DEF TypeOK, Goto, RequestsTyped

LEMMA RespondTyped ==
  ASSUME TypeOK, NEW r \in Request, NEW a \in Answer, Respond(r, a) PROVE RequestsTyped
  BY DEF TypeOK, Respond, RequestsTyped, Pc

LEMMA UnavailableTyped ==
  ASSUME TypeOK, NEW r \in Request, StoreUnavailable(r) PROVE RequestsTyped
  BY RespondTyped DEF TypeOK, StoreUnavailable, RequestsTyped, Pc, Answer

LEMMA VerdictTyped ==
  ASSUME TypeOK, NEW r \in Request, Cached(r) # None, Verdict(r)
  PROVE  /\ answer' \in [Request -> Answer]
         /\ source' \in [Request -> Request \union {None}]
  <1>1. Cached(r) \in StoredResponse
    BY RequestsOfType DEF TypeOK, Cached
  <1> QED
    BY <1>1 DEF TypeOK, Verdict, StoredResponse, Answer

LEMMA LockTyped ==
  ASSUME TypeOK, NEW r \in Request, NEW o \in Reply, SetLock(r, o) \/ DelLock(r, o)
  PROVE  lock' \in [Principal -> Request \union {None}]
  BY RequestsOfType DEF TypeOK, SetLock, DelLock, Held

LEMMA OwnerTyped ==
  ASSUME NEW r \in Request, NEW c \in BOOLEAN PROVE OwnerOf(r, c) \in OwnerRecord
  BY RequestsOfType DEF OwnerOf, OwnerRecord

LEMMA TypeOKStep == TypeOK /\ [Next]_vars => TypeOK'
  <1> SUFFICES ASSUME TypeOK, [Next]_vars PROVE TypeOK'
    OBVIOUS
  <1> USE DEF TypeOK, redis, Pc, HolderPc, Answer, Result, Reply, RequestsTyped
  <1>1. ASSUME NEW r \in Request, GetOwner(r) PROVE TypeOK'
    BY <1>1, SpendTyped, GotoTyped, RespondTyped, UnavailableTyped DEF GetOwner
  <1>2. ASSUME NEW r \in Request, Claim(r) PROVE TypeOK'
    BY <1>2, SpendTyped, GotoTyped, UnavailableTyped, OwnerTyped DEF Claim
  <1>3. ASSUME NEW r \in Request, CompareOwner(r) PROVE TypeOK'
    BY <1>3, SpendTyped, GotoTyped, RespondTyped, UnavailableTyped DEF CompareOwner
  <1>4. ASSUME NEW r \in Request, ReadCache(r) PROVE TypeOK'
    BY <1>4, SpendTyped, GotoTyped, RespondTyped, UnavailableTyped, VerdictTyped DEF ReadCache
  <1>5. ASSUME NEW r \in Request, TakeLock(r) PROVE TypeOK'
    BY <1>5, SpendTyped, GotoTyped, UnavailableTyped, LockTyped DEF TakeLock, Start
  <1>6. ASSUME NEW r \in Request, Wait(r) PROVE TypeOK'
    BY <1>6, SpendTyped, GotoTyped, UnavailableTyped, VerdictTyped DEF Wait
  <1>7. ASSUME NEW r \in Request, RecheckOwner(r) PROVE TypeOK'
    BY <1>7, SpendTyped, GotoTyped, RespondTyped, UnavailableTyped DEF RecheckOwner
  <1>8. ASSUME NEW r \in Request, Relock(r) PROVE TypeOK'
    BY <1>8, SpendTyped, GotoTyped, RespondTyped, UnavailableTyped, LockTyped DEF Relock
  <1>9. ASSUME NEW r \in Request, SettleOwner(r) PROVE TypeOK'
    BY <1>9, SpendTyped, GotoTyped, UnavailableTyped DEF SettleOwner
  <1>10. ASSUME NEW r \in Request, SettleCache(r) PROVE TypeOK'
    BY <1>10, SpendTyped, GotoTyped, UnavailableTyped, VerdictTyped DEF SettleCache, Start
  <1>11. ASSUME NEW r \in Request, GiveBack(r) PROVE TypeOK'
    BY <1>11, SpendTyped, GotoTyped, UnavailableTyped, LockTyped DEF GiveBack
  <1>12. ASSUME NEW r \in Request, HandlerEnds(r) PROVE TypeOK'
    BY <1>12 DEF HandlerEnds, Recording
  <1>13. ASSUME NEW r \in Request, FreeKey(r) PROVE TypeOK'
    BY <1>13, SpendTyped, GotoTyped DEF FreeKey, Raise, Recording
  <1>14. ASSUME NEW r \in Request, StoreResponse(r) PROVE TypeOK'
    BY <1>14, RequestsOfType, SpendTyped, GotoTyped DEF StoreResponse, Raise, StoredResponse
  <1>15. ASSUME NEW r \in Request, MarkCompleted(r) PROVE TypeOK'
    BY <1>15, SpendTyped, GotoTyped, OwnerTyped DEF MarkCompleted, Raise
  <1>16. ASSUME NEW r \in Request, Release(r) PROVE TypeOK'
    BY <1>16, SpendTyped, GotoTyped, LockTyped DEF Release
  <1>17. ASSUME NEW r \in Request, RunBare(r) PROVE TypeOK'
    BY <1>17, RespondTyped DEF RunBare
  <1>18. ASSUME NEW r \in Request, LockLapsesUnderHolder(r) PROVE TypeOK'
    BY <1>18, RequestsOfType, MaxUpsetsType DEF LockLapsesUnderHolder, Upset
  <1>19. ASSUME NEW r \in Request, Crash(r) PROVE TypeOK'
    BY <1>19, MaxUpsetsType, GotoTyped DEF Crash, Upset
  <1>20. ASSUME NEW p \in Principal, LockLapses(p) PROVE TypeOK'
    BY <1>20 DEF LockLapses
  <1>21. CASE UNCHANGED vars
    BY <1>21 DEF vars
  <1>22. QED
    BY <1>1, <1>2, <1>3, <1>4, <1>5, <1>6, <1>7, <1>8, <1>9, <1>10, <1>11, <1>12, <1>13,
       <1>14, <1>15, <1>16, <1>17, <1>18, <1>19, <1>20, <1>21 DEF Next, Step, Settled

\* The variables have their types, whatever is lost, crashes or lapses.
THEOREM TypeCorrect == Spec => []TypeOK
  BY TypeOKInit, TypeOKStep, PTL DEF Spec

-----------------------------------------------------------------------------
(***************************************************************************)
(* One request at a time.                                                  *)
(***************************************************************************)

\* The step of one request.
StepOf(r) == Step(r) \/ LockLapsesUnderHolder(r) \/ Crash(r)

\* A step of r leaves every other request where it is, with its history ...
LEMMA OthersStay ==
  ASSUME TypeOK, NEW r \in Request, StepOf(r), NEW s \in Request, s # r
  PROVE  /\ pc'[s] = pc[s] /\ answer'[s] = answer[s] /\ source'[s] = source[s]
         /\ s \in existed' <=> s \in existed
         /\ s \in ran' <=> s \in ran
         /\ s \in freed' <=> s \in freed
         /\ s \in waited' <=> s \in waited
         /\ s \in repeated' <=> s \in repeated
         /\ s \in lapsed' <=> s \in lapsed
  <1> USE DEF TypeOK, redis, Goto, Respond, StoreUnavailable, Verdict
  <1>1. CASE GetOwner(r) \/ Claim(r) \/ CompareOwner(r) \/ ReadCache(r)
    BY <1>1 DEF GetOwner, Claim, CompareOwner, ReadCache
  <1>2. CASE TakeLock(r) \/ Wait(r) \/ RecheckOwner(r) \/ Relock(r)
    BY <1>2 DEF TakeLock, Wait, RecheckOwner, Relock, Start
  <1>3. CASE SettleOwner(r) \/ SettleCache(r) \/ GiveBack(r)
    BY <1>3 DEF SettleOwner, SettleCache, GiveBack, Start
  <1>4. CASE HandlerEnds(r) \/ FreeKey(r) \/ StoreResponse(r) \/ MarkCompleted(r)
    BY <1>4 DEF HandlerEnds, FreeKey, StoreResponse, MarkCompleted, Raise
  <1>5. CASE Release(r) \/ RunBare(r) \/ LockLapsesUnderHolder(r) \/ Crash(r)
    BY <1>5 DEF Release, RunBare, LockLapsesUnderHolder, Crash
  <1> QED
    BY <1>1, <1>2, <1>3, <1>4, <1>5 DEF StepOf, Step

\* ... and with its lock.
LEMMA OthersKeepLock ==
  ASSUME TypeOK, NEW r \in Request, StepOf(r), NEW s \in Request, s # r, Held(s) = s
  PROVE  Held(s)' = s
  <1> USE RequestsOfType, NoneIsNoRequest DEF TypeOK, redis, Held, SetLock, DelLock
  <1>1. CASE GetOwner(r) \/ Claim(r) \/ CompareOwner(r) \/ ReadCache(r) \/ Wait(r)
    BY <1>1 DEF GetOwner, Claim, CompareOwner, ReadCache, Wait
  <1>2. CASE TakeLock(r) \/ Relock(r) \/ GiveBack(r) \/ Release(r) \/ LockLapsesUnderHolder(r)
    BY <1>2 DEF TakeLock, Relock, GiveBack, Release, LockLapsesUnderHolder
  <1>3. CASE RecheckOwner(r) \/ SettleOwner(r) \/ SettleCache(r) \/ HandlerEnds(r)
    BY <1>3 DEF RecheckOwner, SettleOwner, SettleCache, HandlerEnds
  <1>4. CASE FreeKey(r) \/ StoreResponse(r) \/ MarkCompleted(r) \/ RunBare(r) \/ Crash(r)
    BY <1>4 DEF FreeKey, StoreResponse, MarkCompleted, RunBare, Crash
  <1> QED
    BY <1>1, <1>2, <1>3, <1>4 DEF StepOf, Step

\* What is not a step of a request: a lock lapses, or nothing happens.
LEMMA StepKinds ==
  ASSUME [Next]_vars
  PROVE  \/ \E r \in Request : StepOf(r)
         \/ \E p \in Principal : LockLapses(p)
         \/ UNCHANGED vars
  BY DEF Next, StepOf, Settled

-----------------------------------------------------------------------------
(***************************************************************************)
(* The lock.                                                               *)
(***************************************************************************)

\* A step of r: r still has the lock where it believes so.
LEMMA OwnLock ==
  ASSUME TypeOK, NEW r \in Request, StepOf(r), pc'[r] \in HolderPc,
         pc[r] \in HolderPc => Held(r) = r \/ r \in lapsed
  PROVE  Held(r)' = r \/ r \in lapsed'
  <1> USE RequestsOfType, NoneIsNoRequest
      DEF TypeOK, redis, Held, HolderPc, Goto, Respond, StoreUnavailable, Verdict
  <1>1. CASE GetOwner(r) \/ CompareOwner(r)
    BY <1>1 DEF GetOwner, CompareOwner
  <1>6. CASE Claim(r)
    BY <1>6 DEF Claim
  <1>7. CASE ReadCache(r) \/ Wait(r)
    BY <1>7 DEF ReadCache, Wait
  <1>2. CASE TakeLock(r) \/ Relock(r)
    BY <1>2 DEF TakeLock, Relock, Start, SetLock
  <1>3. CASE GiveBack(r) \/ Release(r) \/ LockLapsesUnderHolder(r)
    BY <1>3 DEF GiveBack, Release, LockLapsesUnderHolder
  <1>4. CASE RecheckOwner(r) \/ SettleOwner(r) \/ SettleCache(r) \/ HandlerEnds(r)
    BY <1>4 DEF RecheckOwner, SettleOwner, SettleCache, HandlerEnds, Start
  <1>5. CASE FreeKey(r) \/ StoreResponse(r) \/ MarkCompleted(r) \/ RunBare(r) \/ Crash(r)
    BY <1>5 DEF FreeKey, StoreResponse, MarkCompleted, RunBare, Crash, Raise
  <1> QED
    BY <1>1, <1>2, <1>3, <1>4, <1>5, <1>6, <1>7 DEF StepOf, Step

LEMMA HandlerHoldsLockStep ==
  TypeOK /\ HandlerHoldsLock /\ [Next]_vars => HandlerHoldsLock'
  <1> SUFFICES ASSUME TypeOK, HandlerHoldsLock, [Next]_vars,
                      NEW s \in Request, pc'[s] \in HolderPc
               PROVE  Held(s)' = s \/ s \in lapsed'
    BY DEF HandlerHoldsLock
  <1>1. ASSUME NEW r \in Request, StepOf(r) PROVE Held(s)' = s \/ s \in lapsed'
    <2>1. CASE r = s
      BY <1>1, <2>1, OwnLock DEF HandlerHoldsLock
    <2>2. CASE r # s
      BY <1>1, <2>2, OthersStay, OthersKeepLock DEF HandlerHoldsLock
    <2> QED BY <2>1, <2>2
  <1>2. ASSUME NEW p \in Principal, LockLapses(p) PROVE Held(s)' = s \/ s \in lapsed'
    BY <1>2, RequestsOfType, NoneIsNoRequest DEF LockLapses, HandlerHoldsLock, TypeOK, Held
  <1>3. CASE UNCHANGED vars
    BY <1>3 DEF vars, HandlerHoldsLock, Held
  <1> QED BY <1>1, <1>2, <1>3, StepKinds

\* Handlers of one principal exclude each other unless a lock lapses under one.
THEOREM HandlersLocked == Spec => []HandlerHoldsLock
  <1>1. Init => HandlerHoldsLock
    BY DEF Init, HandlerHoldsLock, HolderPc
  <1> QED BY <1>1, TypeCorrect, HandlerHoldsLockStep, PTL DEF Spec

-----------------------------------------------------------------------------
(***************************************************************************)
(* Responses.                                                              *)
(***************************************************************************)

\* A stored response is where its maker's principal looks, under its fingerprint.
StoredByOwner ==
  \A p \in Principal : cached[p] # None =>
    PrincipalOf[cached[p].by] = p /\ PayloadOf[cached[p].by] = cached[p].what

\* Only StoreResponse changes what is stored.
LEMMA CachedSteps ==
  ASSUME [Next]_vars
  PROVE  UNCHANGED cached \/ \E r \in Request : StoreResponse(r)
  <1>1. CASE \E p \in Principal : LockLapses(p)
    BY <1>1 DEF LockLapses
  <1>2. CASE UNCHANGED vars
    BY <1>2 DEF vars
  <1>3. ASSUME NEW r \in Request, StepOf(r), ~StoreResponse(r) PROVE UNCHANGED cached
    <2> USE DEF redis
    <2>1. CASE GetOwner(r) \/ Claim(r) \/ CompareOwner(r) \/ ReadCache(r) \/ TakeLock(r)
      BY <2>1 DEF GetOwner, Claim, CompareOwner, ReadCache, TakeLock
    <2>2. CASE Wait(r) \/ RecheckOwner(r) \/ Relock(r) \/ SettleOwner(r) \/ SettleCache(r)
      BY <2>2 DEF Wait, RecheckOwner, Relock, SettleOwner, SettleCache
    <2>3. CASE GiveBack(r) \/ HandlerEnds(r) \/ FreeKey(r) \/ MarkCompleted(r) \/ Release(r)
      BY <2>3 DEF GiveBack, HandlerEnds, FreeKey, MarkCompleted, Release
    <2>4. CASE RunBare(r) \/ LockLapsesUnderHolder(r) \/ Crash(r)
      BY <2>4 DEF RunBare, LockLapsesUnderHolder, Crash
    <2> QED BY <1>3, <2>1, <2>2, <2>3, <2>4 DEF StepOf, Step
  <1> QED BY <1>1, <1>2, <1>3, StepKinds

LEMMA StoredByOwnerStep ==
  TypeOK /\ StoredByOwner /\ [Next]_vars => StoredByOwner'
  <1> SUFFICES ASSUME TypeOK, StoredByOwner, [Next]_vars PROVE StoredByOwner'
    OBVIOUS
  <1>1. CASE UNCHANGED cached
    BY <1>1 DEF StoredByOwner
  <1>2. ASSUME NEW r \in Request, StoreResponse(r) PROVE StoredByOwner'
    BY <1>2, RequestsOfType DEF StoreResponse, StoredByOwner, TypeOK
  <1> QED BY <1>1, <1>2, CachedSteps

\* A step of r hands r no foreign response.
LEMMA OwnReplay ==
  ASSUME TypeOK, StoredByOwner, NEW r \in Request, StepOf(r),
         answer[r] = "replayed" =>
           /\ source[r] # None
           /\ PrincipalOf[source[r]] = PrincipalOf[r] /\ PayloadOf[source[r]] = PayloadOf[r],
         answer'[r] = "replayed"
  PROVE  /\ source'[r] # None
         /\ PrincipalOf[source'[r]] = PrincipalOf[r]
         /\ PayloadOf[source'[r]] = PayloadOf[r]
  <1> USE DEF TypeOK, Goto, Respond, StoreUnavailable, Raise
  <1>1. ASSUME Cached(r) # None, Verdict(r)
        PROVE  /\ source'[r] # None
               /\ PrincipalOf[source'[r]] = PrincipalOf[r]
               /\ PayloadOf[source'[r]] = PayloadOf[r]
    <2>1. Cached(r) \in StoredResponse
      BY <1>1, RequestsOfType DEF Cached
    <2>2. Matches(r) /\ source'[r] = Cached(r).by
      BY <1>1 DEF Verdict
    <2> QED
      BY <1>1, <2>1, <2>2, RequestsOfType, NoneIsNoRequest
      DEF StoredByOwner, Cached, Matches, StoredResponse
  <1>2. CASE GetOwner(r) \/ Claim(r) \/ CompareOwner(r)
    BY <1>2 DEF GetOwner, Claim, CompareOwner
  <1>3. CASE ReadCache(r) \/ Wait(r) \/ SettleCache(r)
    BY <1>1, <1>3 DEF ReadCache, Wait, SettleCache, Start
  <1>4. CASE TakeLock(r) \/ RecheckOwner(r) \/ Relock(r) \/ SettleOwner(r) \/ GiveBack(r)
    BY <1>4 DEF TakeLock, RecheckOwner, Relock, SettleOwner, GiveBack, Start
  <1>5. CASE HandlerEnds(r) \/ FreeKey(r) \/ StoreResponse(r) \/ MarkCompleted(r)
    BY <1>5 DEF HandlerEnds, FreeKey, StoreResponse, MarkCompleted, Result
  <1>6. CASE Release(r) \/ RunBare(r) \/ LockLapsesUnderHolder(r) \/ Crash(r)
    BY <1>6 DEF Release, RunBare, LockLapsesUnderHolder, Crash, Result
  <1> QED
    BY <1>2, <1>3, <1>4, <1>5, <1>6 DEF StepOf, Step

LEMMA NoForeignReplayStep ==
  TypeOK /\ StoredByOwner /\ NoForeignReplay /\ [Next]_vars => NoForeignReplay'
  <1> SUFFICES ASSUME TypeOK, StoredByOwner, NoForeignReplay, [Next]_vars,
                      NEW s \in Request, answer'[s] = "replayed"
               PROVE  /\ source'[s] # None
                      /\ PrincipalOf[source'[s]] = PrincipalOf[s]
                      /\ PayloadOf[source'[s]] = PayloadOf[s]
    BY DEF NoForeignReplay
  <1>1. ASSUME NEW r \in Request, StepOf(r), r = s
        PROVE  /\ source'[s] # None
               /\ PrincipalOf[source'[s]] = PrincipalOf[s]
               /\ PayloadOf[source'[s]] = PayloadOf[s]
    BY <1>1, OwnReplay DEF NoForeignReplay
  <1>2. ASSUME NEW r \in Request, StepOf(r), r # s
        PROVE  answer'[s] = answer[s] /\ source'[s] = source[s]
    BY <1>2, OthersStay
  <1>3. ASSUME NEW p \in Principal, LockLapses(p) PROVE UNCHANGED <<answer, source>>
    BY <1>3 DEF LockLapses
  <1>4. CASE UNCHANGED vars
    BY <1>4 DEF vars, NoForeignReplay
  <1> QED BY <1>1, <1>2, <1>3, <1>4, StepKinds DEF NoForeignReplay

\* Nobody is handed what was answered to another principal or another request, also
\* not behind a key that was freed and bound anew.
THEOREM RepliesBelong == Spec => []NoForeignReplay
  <1>1. Init => StoredByOwner /\ NoForeignReplay
    BY DEF Init, StoredByOwner, NoForeignReplay
  <1> QED
    BY <1>1, TypeCorrect, StoredByOwnerStep, NoForeignReplayStep, PTL DEF Spec

-----------------------------------------------------------------------------
(***************************************************************************)
(* The way of a request through the middleware.                            *)
(***************************************************************************)

Running == {"handling", "freeing", "caching", "marking", "releasing"}

\* Who has run is past the lock; who may still take it has not waited; what follows the
\* handler knows what the handler answered.
WayOf(r) ==
  /\ pc[r] \in Running => r \in ran
  /\ r \in ran => pc[r] \in Running \union {"done", "gone"}
  /\ r \in freed => r \in ran /\ pc[r] \notin {"handling", "freeing"}
  /\ r \in repeated => r \in ran
  /\ r \in waited => pc[r] \notin {"idle", "claiming", "comparing", "reading", "locking"}
  /\ r \in waited => r \notin repeated
  /\ pc[r] = "freeing" => Frees(answer[r])
  /\ pc[r] = "caching" => answer[r] = "stored"
  /\ pc[r] = "marking" => policy.mode = "domain" /\ ~RerunAllowed(answer[r])
Way == \A r \in Request : WayOf(r)

LEMMA PolicyStays == ASSUME [Next]_vars PROVE policy' = policy
  <1>1. ASSUME NEW r \in Request, StepOf(r) PROVE policy' = policy
    <2>1. CASE GetOwner(r) \/ Claim(r) \/ CompareOwner(r) \/ ReadCache(r) \/ TakeLock(r)
      BY <2>1 DEF GetOwner, Claim, CompareOwner, ReadCache, TakeLock
    <2>2. CASE Wait(r) \/ RecheckOwner(r) \/ Relock(r) \/ SettleOwner(r) \/ SettleCache(r)
      BY <2>2 DEF Wait, RecheckOwner, Relock, SettleOwner, SettleCache
    <2>3. CASE GiveBack(r) \/ HandlerEnds(r) \/ FreeKey(r) \/ MarkCompleted(r) \/ Release(r)
      BY <2>3 DEF GiveBack, HandlerEnds, FreeKey, MarkCompleted, Release
    <2>4. CASE StoreResponse(r) \/ RunBare(r) \/ LockLapsesUnderHolder(r) \/ Crash(r)
      BY <2>4 DEF StoreResponse, RunBare, LockLapsesUnderHolder, Crash
    <2> QED BY <1>1, <2>1, <2>2, <2>3, <2>4 DEF StepOf, Step
  <1>2. CASE \E p \in Principal : LockLapses(p)
    BY <1>2 DEF LockLapses
  <1>3. CASE UNCHANGED vars
    BY <1>3 DEF vars
  <1> QED BY <1>1, <1>2, <1>3, StepKinds

LEMMA OwnWay ==
  ASSUME TypeOK, NEW r \in Request, StepOf(r), WayOf(r) PROVE WayOf(r)'
  <1> USE DEF TypeOK, redis, Running, WayOf, Goto, Respond, StoreUnavailable, Verdict, Raise,
              Frees, RerunAllowed
  <1>1. CASE GetOwner(r) \/ CompareOwner(r)
    BY <1>1 DEF GetOwner, CompareOwner
  <1>2. CASE Claim(r) \/ ReadCache(r)
    BY <1>2 DEF Claim, ReadCache
  <1>3. CASE TakeLock(r)
    BY <1>3 DEF TakeLock, Start
  <1>4. CASE Wait(r) \/ RecheckOwner(r) \/ Relock(r)
    BY <1>4 DEF Wait, RecheckOwner, Relock
  <1>5. CASE SettleOwner(r) \/ SettleCache(r) \/ GiveBack(r)
    BY <1>5 DEF SettleOwner, SettleCache, GiveBack, Start
  <1>6. CASE HandlerEnds(r)
    BY <1>6 DEF HandlerEnds, Recording, Result
  <1>7. CASE FreeKey(r)
    BY <1>7 DEF FreeKey, Recording
  <1>8. CASE StoreResponse(r) \/ MarkCompleted(r) \/ Release(r) \/ RunBare(r)
    BY <1>8 DEF StoreResponse, MarkCompleted, Release, RunBare
  <1>9. CASE LockLapsesUnderHolder(r) \/ Crash(r)
    BY <1>9 DEF LockLapsesUnderHolder, Crash
  <1> QED
    BY <1>1, <1>2, <1>3, <1>4, <1>5, <1>6, <1>7, <1>8, <1>9 DEF StepOf, Step

LEMMA WayStep == TypeOK /\ Way /\ [Next]_vars => Way'
  <1> SUFFICES ASSUME TypeOK, Way, [Next]_vars, NEW s \in Request PROVE WayOf(s)'
    BY DEF Way
  <1> USE DEF Way
  <1>1. ASSUME NEW r \in Request, StepOf(r) PROVE WayOf(s)'
    <2>1. CASE r = s
      BY <1>1, <2>1, OwnWay
    <2>2. CASE r # s
      BY <1>1, <2>2, OthersStay, PolicyStays DEF WayOf, Frees, RerunAllowed
    <2> QED BY <2>1, <2>2
  <1>2. ASSUME NEW p \in Principal, LockLapses(p) PROVE WayOf(s)'
    BY <1>2 DEF LockLapses, WayOf, Frees, RerunAllowed
  <1>3. CASE UNCHANGED vars
    BY <1>3 DEF vars, WayOf, Frees, RerunAllowed
  <1> QED BY <1>1, <1>2, <1>3, StepKinds

LEMMA WayHolds == Spec => []Way
  <1>1. Init => Way
    BY DEF Init, Way, WayOf, Running
  <1> QED BY <1>1, TypeCorrect, WayStep, PTL DEF Spec

\* A waiter that takes the lock does not run again what was stored meanwhile.
THEOREM WaitersReplay == Spec => []WaiterNeverRepeats
  <1>1. TypeOK /\ Way => WaiterNeverRepeats
    BY DEF TypeOK, Way, WayOf, WaiterNeverRepeats
  <1> QED BY <1>1, TypeCorrect, WayHolds, PTL

-----------------------------------------------------------------------------
(***************************************************************************)
(* The owner record.                                                       *)
(***************************************************************************)

\* Who got past the claim of the key, and did not go on unprotected before it ran.
Claimed == Pc \ {"idle", "claiming", "comparing", "bare", "done", "gone"}
Past(r) == pc[r] \in Claimed \/ r \in ran

\* The key serves whoever is past the claim, as long as nobody gave it up.
Bound ==
  freed = {} => \A r \in Request : Past(r) =>
    owner # None /\ owner.who = PrincipalOf[r] /\ owner.what = PayloadOf[r]

\* Who claimed the key itself, and has not given it up.
Holder(r) == Past(r) /\ r \notin existed /\ r \notin freed

\* Under domain_required there is one of them at most, the key is taken while there is,
\* and who found an owner runs nothing.
OneHolder ==
  policy.mode = "domain" =>
    /\ \A r \in Request : Holder(r) => owner # None
    /\ \A r, s \in Request : Holder(r) /\ Holder(s) => r = s
    /\ \A r \in existed : pc[r] \in {"reading", "done", "gone", "bare"} /\ r \notin ran

LEMMA OwnerIsRecord ==
  ASSUME NEW r \in Request, NEW c \in BOOLEAN
  PROVE  /\ OwnerOf(r, c) # None
         /\ OwnerOf(r, c).who = PrincipalOf[r] /\ OwnerOf(r, c).what = PayloadOf[r]
         /\ OwnerOf(r, c).by = r
  BY OwnerTyped, NoneIsNoRecord DEF OwnerOf

\* Three steps write or delete the owner record, one of them gives the key up.
LEMMA OwnerSteps ==
  ASSUME [Next]_vars
  PROVE  \/ UNCHANGED <<owner, freed>>
         \/ \E r \in Request : Claim(r) \/ FreeKey(r) \/ MarkCompleted(r)
  <1>1. CASE \E p \in Principal : LockLapses(p)
    BY <1>1 DEF LockLapses
  <1>2. CASE UNCHANGED vars
    BY <1>2 DEF vars
  <1>3. ASSUME NEW r \in Request, StepOf(r), ~Claim(r), ~FreeKey(r), ~MarkCompleted(r)
        PROVE  UNCHANGED <<owner, freed>>
    <2> USE DEF redis
    <2>1. CASE GetOwner(r) \/ CompareOwner(r) \/ ReadCache(r) \/ TakeLock(r)
      BY <2>1 DEF GetOwner, CompareOwner, ReadCache, TakeLock
    <2>2. CASE Wait(r) \/ RecheckOwner(r) \/ Relock(r) \/ SettleOwner(r) \/ SettleCache(r)
      BY <2>2 DEF Wait, RecheckOwner, Relock, SettleOwner, SettleCache
    <2>3. CASE GiveBack(r) \/ HandlerEnds(r) \/ StoreResponse(r) \/ Release(r)
      BY <2>3 DEF GiveBack, HandlerEnds, StoreResponse, Release
    <2>4. CASE RunBare(r) \/ LockLapsesUnderHolder(r) \/ Crash(r)
      BY <2>4 DEF RunBare, LockLapsesUnderHolder, Crash
    <2> QED BY <1>3, <2>1, <2>2, <2>3, <2>4 DEF StepOf, Step
  <1> QED BY <1>1, <1>2, <1>3, StepKinds

\* A request gets past the claim because it made the record, or because it found one.
Made(r) == owner = None /\ owner' = OwnerOf(r, FALSE) /\ UNCHANGED freed
Found(r) == Compatible(r) /\ r \in existed' /\ UNCHANGED <<owner, freed>>

LEMMA OwnPast ==
  ASSUME TypeOK, Way, NEW r \in Request, StepOf(r), Past(r)'
  PROVE  Past(r) \/ Made(r) \/ Found(r)
  <1> USE DEF TypeOK, redis, Way, WayOf, Running, HolderPc, Past, Claimed, Pc,
              Goto, Respond, StoreUnavailable
  <1>1. CASE GetOwner(r) \/ CompareOwner(r)
    BY <1>1 DEF GetOwner, CompareOwner, Found
  <1>2. CASE Claim(r)
    BY <1>2 DEF Claim, Made
  <1>3. CASE RunBare(r) \/ Crash(r) \/ LockLapsesUnderHolder(r)
    BY <1>3 DEF RunBare, Crash, LockLapsesUnderHolder
  <1>4. ASSUME pc[r] \notin {"idle", "claiming", "comparing", "bare", "done", "gone"}
        PROVE  Past(r)
    BY <1>4
  <1>5. CASE ReadCache(r) \/ TakeLock(r) \/ Wait(r) \/ RecheckOwner(r) \/ Relock(r)
    BY <1>4, <1>5 DEF ReadCache, TakeLock, Wait, RecheckOwner, Relock
  <1>6. CASE SettleOwner(r) \/ SettleCache(r) \/ GiveBack(r) \/ HandlerEnds(r)
    BY <1>4, <1>6 DEF SettleOwner, SettleCache, GiveBack, HandlerEnds
  <1>7. CASE FreeKey(r) \/ StoreResponse(r) \/ MarkCompleted(r) \/ Release(r)
    BY <1>4, <1>7 DEF FreeKey, StoreResponse, MarkCompleted, Release
  <1> QED BY <1>1, <1>2, <1>3, <1>5, <1>6, <1>7 DEF StepOf, Step

LEMMA PastSteps ==
  ASSUME TypeOK, Way, [Next]_vars, NEW s \in Request, Past(s)'
  PROVE  Past(s) \/ Made(s) \/ Found(s)
  <1>1. ASSUME NEW r \in Request, StepOf(r) PROVE Past(s) \/ Made(s) \/ Found(s)
    BY <1>1, OwnPast, OthersStay DEF Past
  <1>2. ASSUME NEW p \in Principal, LockLapses(p) PROVE Past(s)
    BY <1>2 DEF LockLapses, Past
  <1>3. CASE UNCHANGED vars
    BY <1>3 DEF vars, Past
  <1> QED BY <1>1, <1>2, <1>3, StepKinds

LEMMA BoundStep == TypeOK /\ Way /\ Bound /\ [Next]_vars => Bound'
  <1> SUFFICES ASSUME TypeOK, Way, Bound, [Next]_vars, freed' = {},
                      NEW s \in Request, Past(s)'
               PROVE  owner' # None /\ owner'.who = PrincipalOf[s] /\ owner'.what = PayloadOf[s]
    BY DEF Bound
  <1> DEFINE Goal == owner' # None /\ owner'.who = PrincipalOf[s] /\ owner'.what = PayloadOf[s]
  <1>1. CASE Made(s)
    BY <1>1, OwnerIsRecord DEF Made
  <1>2. CASE Found(s)
    BY <1>2 DEF Found, Compatible
  <1>3. CASE Past(s)
    <2>1. CASE UNCHANGED <<owner, freed>>
      BY <1>3, <2>1 DEF Bound
    <2>2. ASSUME NEW r \in Request, Claim(r) PROVE Goal
      BY <1>3, <2>2 DEF Claim, Bound
    <2>3. ASSUME NEW r \in Request, FreeKey(r) PROVE Goal
      BY <1>3, <2>3 DEF FreeKey, Bound
    <2>4. ASSUME NEW r \in Request, MarkCompleted(r) PROVE Goal
      <3>1. Past(r) /\ freed = {}
        BY <2>4 DEF MarkCompleted, Past, Claimed, Pc, HolderPc
      <3>2. owner' = owner \/ owner' = OwnerOf(r, TRUE)
        BY <2>4 DEF MarkCompleted
      <3> QED BY <1>3, <3>1, <3>2, OwnerIsRecord DEF Bound
    <2> QED BY <2>1, <2>2, <2>3, <2>4, OwnerSteps
  <1> QED BY <1>1, <1>2, <1>3, PastSteps

\* One key, one principal, one request: whatever claims race and whichever replies are
\* lost, until a run that failed or was rejected gives the key up.
THEOREM KeyBinds == Spec => []KeyBindsOneRequest
  <1>1. Init => Bound
    BY DEF Init, Bound, Past, Claimed
  <1>2. TypeOK /\ Bound => KeyBindsOneRequest
    BY DEF TypeOK, Bound, Past, KeyBindsOneRequest
  <1> QED BY <1>1, <1>2, TypeCorrect, WayHolds, BoundStep, PTL DEF Spec

\* Under domain_required, who found an owner goes no further than to look for a response.
LEMMA OwnExisted ==
  ASSUME TypeOK, Way, policy.mode = "domain", NEW r \in Request, StepOf(r), r \in existed',
         r \in existed => pc[r] \in {"reading", "done", "gone", "bare"} /\ r \notin ran
  PROVE  pc'[r] \in {"reading", "done", "gone", "bare"} /\ r \notin ran'
  <1> USE DEF TypeOK, redis, Way, WayOf, Running, HolderPc, Goto, Respond, StoreUnavailable
  <1>1. CASE GetOwner(r) \/ CompareOwner(r)
    BY <1>1 DEF GetOwner, CompareOwner
  <1>2. CASE ReadCache(r)
    BY <1>2 DEF ReadCache, Refuses
  <1>3. CASE RunBare(r) \/ Crash(r) \/ LockLapsesUnderHolder(r)
    BY <1>3 DEF RunBare, Crash, LockLapsesUnderHolder
  <1>4. CASE Claim(r) \/ TakeLock(r) \/ Wait(r) \/ RecheckOwner(r) \/ Relock(r)
    BY <1>4 DEF Claim, TakeLock, Wait, RecheckOwner, Relock
  <1>5. CASE SettleOwner(r) \/ SettleCache(r) \/ GiveBack(r) \/ HandlerEnds(r)
    BY <1>5 DEF SettleOwner, SettleCache, GiveBack, HandlerEnds
  <1>6. CASE FreeKey(r) \/ StoreResponse(r) \/ MarkCompleted(r) \/ Release(r)
    BY <1>6 DEF FreeKey, StoreResponse, MarkCompleted, Release
  <1> QED BY <1>1, <1>2, <1>3, <1>4, <1>5, <1>6 DEF StepOf, Step

LEMMA ExistedStep ==
  ASSUME TypeOK, Way, OneHolder, policy.mode = "domain", [Next]_vars, NEW s \in existed'
  PROVE  pc'[s] \in {"reading", "done", "gone", "bare"} /\ s \notin ran'
  <1> USE DEF OneHolder
  <1>1. s \in Request
    BY TypeOKStep DEF TypeOK
  <1>2. ASSUME NEW r \in Request, StepOf(r)
        PROVE  pc'[s] \in {"reading", "done", "gone", "bare"} /\ s \notin ran'
    BY <1>1, <1>2, OwnExisted, OthersStay
  <1>3. ASSUME NEW p \in Principal, LockLapses(p)
        PROVE  pc'[s] \in {"reading", "done", "gone", "bare"} /\ s \notin ran'
    BY <1>3 DEF LockLapses
  <1>4. CASE UNCHANGED vars
    BY <1>4 DEF vars
  <1> QED BY <1>2, <1>3, <1>4, StepKinds

\* A request found an owner for good, and gave the key up for good.
LEMMA HistoryGrows ==
  ASSUME TypeOK, [Next]_vars PROVE existed \subseteq existed' /\ freed \subseteq freed'
  <1>1. ASSUME NEW r \in Request, StepOf(r) PROVE existed \subseteq existed' /\ freed \subseteq freed'
    <2>1. CASE GetOwner(r) \/ Claim(r) \/ CompareOwner(r) \/ ReadCache(r) \/ TakeLock(r)
      BY <2>1 DEF GetOwner, Claim, CompareOwner, ReadCache, TakeLock
    <2>2. CASE Wait(r) \/ RecheckOwner(r) \/ Relock(r) \/ SettleOwner(r) \/ SettleCache(r)
      BY <2>2 DEF Wait, RecheckOwner, Relock, SettleOwner, SettleCache
    <2>3. CASE GiveBack(r) \/ HandlerEnds(r) \/ FreeKey(r) \/ MarkCompleted(r) \/ Release(r)
      BY <2>3 DEF GiveBack, HandlerEnds, FreeKey, MarkCompleted, Release
    <2>4. CASE StoreResponse(r) \/ RunBare(r) \/ LockLapsesUnderHolder(r) \/ Crash(r)
      BY <2>4 DEF StoreResponse, RunBare, LockLapsesUnderHolder, Crash
    <2> QED BY <1>1, <2>1, <2>2, <2>3, <2>4 DEF StepOf, Step
  <1>2. CASE \E p \in Principal : LockLapses(p)
    BY <1>2 DEF LockLapses
  <1>3. CASE UNCHANGED vars
    BY <1>3 DEF vars
  <1> QED BY <1>1, <1>2, <1>3, StepKinds

\* A new holder made the record where there was none.
LEMMA HolderSteps ==
  ASSUME TypeOK, Way, [Next]_vars, NEW s \in Request, Holder(s)'
  PROVE  Holder(s) \/ Made(s)
  BY PastSteps, HistoryGrows DEF Holder, Found

LEMMA OneHolderStep == TypeOK /\ Way /\ OneHolder /\ [Next]_vars => OneHolder'
  <1> SUFFICES ASSUME TypeOK, Way, OneHolder, [Next]_vars, policy.mode = "domain"
               PROVE  /\ \A s \in Request : Holder(s)' => owner' # None
                      /\ \A s, u \in Request : Holder(s)' /\ Holder(u)' => s = u
    BY ExistedStep, PolicyStays DEF OneHolder
  <1>1. ASSUME NEW s \in Request, Made(s)
        PROVE  owner' # None /\ \A u \in Request : Holder(u)' => u = s
    <2>1. owner' # None /\ owner'.by = s
      BY <1>1, OwnerIsRecord DEF Made
    <2>2. ASSUME NEW u \in Request, Holder(u)' PROVE u = s
      <3>1. ~Holder(u)
        BY <1>1 DEF Made, OneHolder
      <3>2. owner'.by = u
        BY <2>2, <3>1, HolderSteps, OwnerIsRecord DEF Made
      <3> QED BY <2>1, <3>2
    <2> QED BY <2>1, <2>2
  <1>2. ASSUME NEW s \in Request, Holder(s), Holder(s)' PROVE owner' # None
    <2>1. CASE UNCHANGED <<owner, freed>>
      BY <1>2, <2>1 DEF OneHolder
    <2>2. ASSUME NEW r \in Request, Claim(r) PROVE owner' # None
      BY <1>2, <2>2 DEF Claim, OneHolder
    <2>3. ASSUME NEW r \in Request, FreeKey(r) PROVE owner' # None
      <3>1. Holder(r)
        BY <2>3 DEF FreeKey, OneHolder, Holder, Past, Claimed, Pc, HolderPc, Way, WayOf, TypeOK
      <3>2. r = s
        BY <1>2, <3>1 DEF OneHolder
      <3> QED BY <1>2, <2>3, <3>2 DEF FreeKey, Holder, OneHolder
    <2>4. ASSUME NEW r \in Request, MarkCompleted(r) PROVE owner' # None
      BY <1>2, <2>4, OwnerIsRecord DEF MarkCompleted, OneHolder
    <2> QED BY <2>1, <2>2, <2>3, <2>4, OwnerSteps
  <1>3. ASSUME NEW s \in Request, NEW u \in Request, Holder(s)', Holder(u)' PROVE s = u
    BY <1>1, <1>3, HolderSteps DEF OneHolder
  <1> QED BY <1>1, <1>2, <1>3, HolderSteps

\* A high-risk operation does not execute twice, whatever crashes, lapses or is lost.
THEOREM RunsOnce == Spec => []DomainRunsOnce
  <1>1. Init => OneHolder
    BY DEF Init, OneHolder, Holder, Past, Claimed
  <1>2. TypeOK /\ OneHolder => DomainRunsOnce
    <2> SUFFICES ASSUME TypeOK, OneHolder, policy.mode = "domain",
                        NEW r \in ran \ freed, NEW s \in ran \ freed
                 PROVE  r = s
      BY DEF DomainRunsOnce
    <2>1. r \in Request /\ s \in Request /\ r \notin existed /\ s \notin existed
      BY DEF TypeOK, OneHolder
    <2> QED BY <2>1 DEF OneHolder, Holder, Past
  <1> QED BY <1>1, <1>2, TypeCorrect, WayHolds, OneHolderStep, PTL DEF Spec

-----------------------------------------------------------------------------
(***************************************************************************)
(* Giving the key up.                                                      *)
(***************************************************************************)

\* The handler of r answered something that is to leave the key free ...
Failed(r) == RerunAllowed(answer[r]) \/ (answer[r] = "rejected" /\ policy.mode = "replay")
\* ... and it is, as far as r is concerned, unless Redis refused.
LeftNothing(r) ==
  \/ owner = None \/ owner.by # r
  \/ r \notin freed /\ upsets > 0
Freed == \A r \in Request :
  pc[r] \in {"releasing", "done"} /\ r \in ran /\ Failed(r) => LeftNothing(r)

LEMMA UpsetsGrow ==
  ASSUME TypeOK, [Next]_vars PROVE upsets \in Nat /\ upsets' \in Nat /\ upsets <= upsets'
  <1>1. upsets \in Nat /\ upsets' \in Nat
    BY TypeOKStep, MaxUpsetsType DEF TypeOK
  <1>2. Upset => upsets <= upsets'
    BY <1>1 DEF Upset
  <1>3. \A o \in Reply : Spend(o) => upsets <= upsets'
    BY <1>1, <1>2 DEF Spend
  <1>4. ASSUME NEW r \in Request, StepOf(r) PROVE upsets <= upsets'
    <2> USE <1>1, <1>2, <1>3 DEF Reply
    <2>1. CASE GetOwner(r) \/ Claim(r) \/ CompareOwner(r)
      BY <2>1 DEF GetOwner, Claim, CompareOwner
    <2>2. CASE ReadCache(r) \/ TakeLock(r) \/ Wait(r) \/ RecheckOwner(r)
      BY <2>2 DEF ReadCache, TakeLock, Wait, RecheckOwner
    <2>3. CASE Relock(r) \/ SettleOwner(r) \/ SettleCache(r) \/ GiveBack(r)
      BY <2>3 DEF Relock, SettleOwner, SettleCache, GiveBack
    <2>4. CASE HandlerEnds(r) \/ FreeKey(r)
      BY <2>4 DEF HandlerEnds, FreeKey
    <2>6. CASE StoreResponse(r) \/ MarkCompleted(r)
      BY <2>6 DEF StoreResponse, MarkCompleted
    <2>5. CASE Release(r) \/ RunBare(r) \/ LockLapsesUnderHolder(r) \/ Crash(r)
      BY <2>5 DEF Release, RunBare, LockLapsesUnderHolder, Crash
    <2> QED BY <1>4, <2>1, <2>2, <2>3, <2>4, <2>5, <2>6 DEF StepOf, Step
  <1>5. CASE \E p \in Principal : LockLapses(p)
    BY <1>1, <1>5 DEF LockLapses
  <1>6. CASE UNCHANGED vars
    BY <1>1, <1>6 DEF vars
  <1> QED BY <1>1, <1>4, <1>5, <1>6, StepKinds

\* Whoever else acts on the record leaves nothing of s behind.
LEMMA OthersLeaveNothing ==
  ASSUME TypeOK, [Next]_vars, NEW s \in Request, LeftNothing(s), s \notin freed => s \notin freed',
         ~Claim(s), ~MarkCompleted(s)
  PROVE  LeftNothing(s)'
  <1>1. s \notin freed /\ upsets > 0 => s \notin freed' /\ upsets' > 0
    BY UpsetsGrow
  <1>2. ASSUME owner' = owner \/ owner' = None PROVE LeftNothing(s)'
    BY <1>1, <1>2 DEF LeftNothing
  <1>3. ASSUME NEW r \in Request, r # s, NEW c \in BOOLEAN, owner' = OwnerOf(r, c)
        PROVE  LeftNothing(s)'
    BY <1>3, OwnerIsRecord DEF LeftNothing
  <1>4. ASSUME NEW r \in Request, Claim(r) PROVE LeftNothing(s)'
    BY <1>2, <1>3, <1>4 DEF Claim
  <1>5. ASSUME NEW r \in Request, FreeKey(r) PROVE LeftNothing(s)'
    BY <1>2, <1>5 DEF FreeKey
  <1>6. ASSUME NEW r \in Request, MarkCompleted(r) PROVE LeftNothing(s)'
    BY <1>2, <1>3, <1>6 DEF MarkCompleted
  <1> QED BY <1>2, <1>4, <1>5, <1>6, OwnerSteps

\* A step of s itself.
LEMMA OwnFreed ==
  ASSUME TypeOK, Way, [Next]_vars, NEW s \in Request, StepOf(s),
         pc[s] \in {"releasing", "done"} /\ s \in ran /\ Failed(s) => LeftNothing(s),
         pc'[s] \in {"releasing", "done"}, s \in ran', Failed(s)'
  PROVE  LeftNothing(s)'
  <1> USE DEF TypeOK, redis, Way, WayOf, Running, Failed, RerunAllowed,
              Goto, Respond, StoreUnavailable, Raise
  <1>1. CASE FreeKey(s)
    BY <1>1, MaxUpsetsType DEF FreeKey, LeftNothing, Spend, Upset, Reply, Frees
  <1>2. CASE Release(s)
    <2>1. LeftNothing(s)
      BY <1>2 DEF Release
    <2> QED BY <1>2, <2>1, OthersLeaveNothing DEF Release, Claim, MarkCompleted
  <1>3. CASE HandlerEnds(s)
    BY <1>3 DEF HandlerEnds, Frees, Recording, Result
  <1>4. CASE StoreResponse(s) \/ MarkCompleted(s)
    BY <1>4 DEF StoreResponse, MarkCompleted
  <1>5. CASE GetOwner(s) \/ Claim(s) \/ CompareOwner(s) \/ ReadCache(s) \/ TakeLock(s)
    BY <1>5 DEF GetOwner, Claim, CompareOwner, ReadCache, TakeLock, Start
  <1>6. CASE Wait(s) \/ RecheckOwner(s) \/ Relock(s) \/ SettleOwner(s) \/ SettleCache(s)
    BY <1>6 DEF Wait, RecheckOwner, Relock, SettleOwner, SettleCache, Start
  <1>7. CASE GiveBack(s) \/ RunBare(s) \/ Crash(s)
    BY <1>7 DEF GiveBack, RunBare, Crash
  <1>8. CASE LockLapsesUnderHolder(s)
    BY <1>8, OthersLeaveNothing DEF LockLapsesUnderHolder, LeftNothing, Upset
  <1> QED BY <1>1, <1>2, <1>3, <1>4, <1>5, <1>6, <1>7, <1>8 DEF StepOf, Step

LEMMA FreedStep == TypeOK /\ Way /\ Freed /\ [Next]_vars => Freed'
  <1> SUFFICES ASSUME TypeOK, Way, Freed, [Next]_vars, NEW s \in Request,
                      pc'[s] \in {"releasing", "done"}, s \in ran', Failed(s)'
               PROVE  LeftNothing(s)'
    BY DEF Freed
  <1>1. CASE StepOf(s)
    BY <1>1, OwnFreed DEF Freed
  <1>2. ASSUME ~StepOf(s), pc'[s] = pc[s], answer'[s] = answer[s], s \in ran,
               s \notin freed => s \notin freed'
        PROVE  LeftNothing(s)'
    BY <1>2, PolicyStays, OthersLeaveNothing DEF Freed, Failed, RerunAllowed, StepOf, Step
  <1>3. ASSUME ~StepOf(s), NEW r \in Request, StepOf(r) PROVE LeftNothing(s)'
    BY <1>2, <1>3, OthersStay
  <1>4. ASSUME ~StepOf(s), NEW p \in Principal, LockLapses(p) PROVE LeftNothing(s)'
    BY <1>2, <1>4 DEF LockLapses
  <1>5. CASE ~StepOf(s) /\ UNCHANGED vars
    BY <1>2, <1>5 DEF vars
  <1> QED BY <1>1, <1>3, <1>4, <1>5, StepKinds

\* A failed run that may be repeated leaves the key free for the retry.
THEOREM FailuresFree == Spec => []FailureFreesKey
  <1>1. Init => Freed
    BY DEF Init, Freed
  <1>2. TypeOK /\ Freed => FailureFreesKey
    BY DEF TypeOK, Freed, Failed, LeftNothing, FailureFreesKey
  <1> QED BY <1>1, <1>2, TypeCorrect, WayHolds, FreedStep, PTL DEF Spec
=============================================================================
