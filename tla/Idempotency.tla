---------------------------- MODULE Idempotency ----------------------------
(***************************************************************************)
(* The Idempotency-Key middleware that all services share, for one key: it *)
(* binds the key to a principal and a request, lets one holder of a lock   *)
(* run the handler, stores what can be replayed and closes the key of what *)
(* can not.  Requests of any processes interleave at every Redis command;  *)
(* a command may fail, or take effect although its caller sees an error; a *)
(* request's process may die and its lock may lapse under it.              *)
(*                                                                         *)
(* The key's records outlive the requests (idempotency_ttl, a day).        *)
(***************************************************************************)
EXTENDS Integers, FiniteSets

CONSTANTS
  Request,     \* requests that carry the key, first tries and retries alike
  Principal,   \* principal scopes
  Payload,     \* request fingerprints
  PrincipalOf, PayloadOf,
  Policies,    \* the route policies to consider
  MaxUpsets,   \* bound: failed Redis calls, crashes and locks that lapse under a request
  None

Policy == [mode : {"replay", "domain"},   \* optional_ or required_replay; domain_required
           required : BOOLEAN,            \* _key_is_required
           rerun : BOOLEAN]               \* rerun_after_failure

ASSUME RequestsOfType == /\ PrincipalOf \in [Request -> Principal]
                         /\ PayloadOf \in [Request -> Payload]
ASSUME PoliciesOfType == Policies \subseteq Policy
ASSUME MaxUpsetsType == MaxUpsets \in Nat
ASSUME NoneIsNoRequest == None \notin Request

\* What a handler may do: answer something that can be stored, or 2xx / 4xx that
\* can not (a stream, a large body), 401 / 403, 429 / 5xx, or raise.
Result == {"stored", "unstored", "rejected", "transient", "raised"}
Answer == Result \union {"none", "reused", "inFlight", "unavailable", "replayed", "error"}

\* Where a request is while it holds the lock, as far as it knows.
HolderPc == {"settleOwner", "settleCache", "givingBack",
             "handling", "freeing", "caching", "marking", "releasing"}
Pc == {"idle", "claiming", "comparing", "reading", "locking", "waiting", "rechecking",
       "relocking", "bare", "done", "gone"} \union HolderPc

Reply == {"ok", "lost", "failed"}

VARIABLES
  policy,    \* the policy of the route
  \* Redis: the owner record, per principal the stored response and the lock
  owner, cached, lock,
  \* requests: where each is, whether it found an owner, its answer, whose response
  \* it was handed
  pc, existed, answer, source,
  \* history: whose handler started, who deleted the owner record, who waited, who
  \* started although a response for it was stored, whose lock lapsed under it
  ran, freed, waited, repeated, lapsed,
  upsets

redis == <<owner, cached, lock>>
vars == <<policy, owner, cached, lock, pc, existed, answer, source,
          ran, freed, waited, repeated, lapsed, upsets>>

OwnerRecord == [who : Principal, what : Payload, completed : BOOLEAN, by : Request]
StoredResponse == [what : Payload, by : Request]

ASSUME NoneIsNoRecord == None \notin OwnerRecord \union StoredResponse

TypeOK ==
  /\ policy \in Policies
  /\ owner \in OwnerRecord \union {None}
  /\ cached \in [Principal -> StoredResponse \union {None}]
  /\ lock \in [Principal -> Request \union {None}]
  /\ pc \in [Request -> Pc]
  /\ answer \in [Request -> Answer]
  /\ source \in [Request -> Request \union {None}]
  /\ existed \subseteq Request /\ ran \subseteq Request /\ freed \subseteq Request
  /\ waited \subseteq Request /\ repeated \subseteq Request /\ lapsed \subseteq Request
  /\ upsets \in 0..MaxUpsets

Init ==
  /\ policy \in Policies
  /\ owner = None
  /\ cached = [p \in Principal |-> None]
  /\ lock = [p \in Principal |-> None]
  /\ pc = [r \in Request |-> "idle"]
  /\ answer = [r \in Request |-> "none"]
  /\ source = [r \in Request |-> None]
  /\ existed = {} /\ ran = {} /\ freed = {} /\ waited = {} /\ repeated = {} /\ lapsed = {}
  /\ upsets = 0

-----------------------------------------------------------------------------
Upset == upsets < MaxUpsets /\ upsets' = upsets + 1
Spend(o) == IF o = "ok" THEN UNCHANGED upsets ELSE Upset

Goto(r, label) == pc' = [pc EXCEPT ![r] = label] /\ UNCHANGED <<answer, source>>

Respond(r, a) ==
  /\ pc' = [pc EXCEPT ![r] = "done"]
  /\ answer' = [answer EXCEPT ![r] = a]
  /\ UNCHANGED source

\* A RedisError on the way to the lock: fail closed, or go on without protection.
StoreUnavailable(r) ==
  IF policy.required
    THEN Respond(r, "unavailable")
    ELSE /\ pc' = [pc EXCEPT ![r] = "bare"]
         /\ answer' = [answer EXCEPT ![r] = "none"]
         /\ source' = [source EXCEPT ![r] = None]

\* An owner record that does not conflict.
Compatible(r) ==
  /\ owner # None
  /\ owner.who = PrincipalOf[r] /\ owner.what = PayloadOf[r]
  /\ ~owner.completed

OwnerOf(r, completed) ==
  [who |-> PrincipalOf[r], what |-> PayloadOf[r], completed |-> completed, by |-> r]

Cached(r) == cached[PrincipalOf[r]]
Held(r) == lock[PrincipalOf[r]]

\* _replay_or_reject: what is stored is replayed to the same request only.
MatchesAny(r) == TRUE   \* mutant: the fingerprint of the response is not compared
Matches(r) == Cached(r).what = PayloadOf[r]
Verdict(r) ==
  /\ answer' = [answer EXCEPT ![r] = IF Matches(r) THEN "replayed" ELSE "reused"]
  /\ source' = [source EXCEPT ![r] = IF Matches(r) THEN Cached(r).by ELSE None]

\* The handler is called under the lock.
Start(r) ==
  /\ Goto(r, "handling")
  /\ ran' = ran \union {r}
  /\ repeated' = IF Cached(r) # None /\ Cached(r).what = PayloadOf[r]
                   THEN repeated \union {r} ELSE repeated

\* SET NX of the lock; compare-and-delete of it.
SetLock(r, o) ==
  lock' = IF o # "failed" /\ Held(r) = None
            THEN [lock EXCEPT ![PrincipalOf[r]] = r] ELSE lock
DelLockAny(r, o) ==   \* mutant: deleted without comparing the token
  lock' = IF o # "failed" THEN [lock EXCEPT ![PrincipalOf[r]] = None] ELSE lock
DelLock(r, o) ==
  lock' = IF o # "failed" /\ Held(r) = r
            THEN [lock EXCEPT ![PrincipalOf[r]] = None] ELSE lock

-----------------------------------------------------------------------------
(***************************************************************************)
(* _acquire_slot.                                                          *)
(***************************************************************************)

\* _claim_ownership reads the owner record ...
GetOwner(r) ==
  /\ pc[r] = "idle"
  /\ \E o \in {"ok", "failed"} :
       /\ Spend(o)
       /\ \/ o = "failed" /\ StoreUnavailable(r) /\ UNCHANGED existed
          \/ o = "ok" /\ owner = None /\ Goto(r, "claiming") /\ UNCHANGED existed
          \/ o = "ok" /\ Compatible(r) /\ Goto(r, "reading") /\ existed' = existed \union {r}
          \/ /\ o = "ok" /\ owner # None /\ ~Compatible(r)
             /\ Respond(r, "reused") /\ UNCHANGED existed
  /\ UNCHANGED <<policy, redis, ran, freed, waited, repeated, lapsed>>

\* ... claims the key with SET NX if there is none ...
ClaimOver(r) ==   \* mutant: SETEX, whoever claimed the key meanwhile
  /\ pc[r] = "claiming"
  /\ owner' = OwnerOf(r, FALSE)
  /\ Goto(r, "reading")
  /\ UNCHANGED <<policy, cached, lock, existed, ran, freed, waited, repeated, lapsed, upsets>>
Claim(r) ==
  /\ pc[r] = "claiming"
  /\ \E o \in Reply :
       /\ Spend(o)
       /\ owner' = IF o # "failed" /\ owner = None THEN OwnerOf(r, FALSE) ELSE owner
       /\ \/ o # "ok" /\ StoreUnavailable(r)
          \/ o = "ok" /\ Goto(r, IF owner = None THEN "reading" ELSE "comparing")
  /\ UNCHANGED <<policy, cached, lock, existed, ran, freed, waited, repeated, lapsed>>

\* ... and looks at who was faster.
CompareOwner(r) ==
  /\ pc[r] = "comparing"
  /\ \E o \in {"ok", "failed"} :
       /\ Spend(o)
       /\ \/ o = "failed" /\ StoreUnavailable(r) /\ UNCHANGED existed
          \/ o = "ok" /\ Compatible(r) /\ Goto(r, "reading") /\ existed' = existed \union {r}
          \/ o = "ok" /\ ~Compatible(r) /\ Respond(r, "reused") /\ UNCHANGED existed
  /\ UNCHANGED <<policy, redis, ran, freed, waited, repeated, lapsed>>

\* domain_required does not run a second time for a key that has an owner.
RefusesNone(r) == FALSE   \* mutant: owner_existed is not consulted
Refuses(r) == policy.mode = "domain" /\ r \in existed

\* _replay_if_cached.
ReadCache(r) ==
  /\ pc[r] = "reading"
  /\ \E o \in {"ok", "failed"} :
       /\ Spend(o)
       /\ \/ o = "failed" /\ StoreUnavailable(r)
          \/ o = "ok" /\ Cached(r) # None /\ Verdict(r) /\ pc' = [pc EXCEPT ![r] = "done"]
          \/ o = "ok" /\ Cached(r) = None /\ Refuses(r) /\ Respond(r, "inFlight")
          \/ o = "ok" /\ Cached(r) = None /\ ~Refuses(r) /\ Goto(r, "locking")
  /\ UNCHANGED <<policy, redis, existed, ran, freed, waited, repeated, lapsed>>

\* With the lock the handler runs at once; without it, the request waits.
TakeLock(r) ==
  /\ pc[r] = "locking"
  /\ \E o \in Reply :
       /\ Spend(o)
       /\ SetLock(r, o)
       /\ \/ o # "ok" /\ StoreUnavailable(r) /\ UNCHANGED <<ran, repeated, waited>>
          \/ o = "ok" /\ Held(r) = None /\ Start(r) /\ UNCHANGED waited
          \/ /\ o = "ok" /\ Held(r) # None
             /\ Goto(r, "waiting")
             /\ waited' = waited \union {r}
             /\ UNCHANGED <<ran, repeated>>
  /\ UNCHANGED <<policy, owner, cached, existed, freed, lapsed>>

\* wait_for_lock_and_get: a poll finds a response, or the last one found none.
Wait(r) ==
  /\ pc[r] = "waiting"
  /\ \E o \in {"ok", "failed"} :
       /\ Spend(o)
       /\ \/ o = "failed" /\ StoreUnavailable(r)
          \/ o = "ok" /\ Cached(r) # None /\ Verdict(r) /\ pc' = [pc EXCEPT ![r] = "done"]
          \/ o = "ok" /\ Cached(r) = None /\ Goto(r, "rechecking")
  /\ UNCHANGED <<policy, redis, existed, ran, freed, waited, repeated, lapsed>>

RecheckOwner(r) ==
  /\ pc[r] = "rechecking"
  /\ \E o \in {"ok", "failed"} :
       /\ Spend(o)
       /\ \/ o = "failed" /\ StoreUnavailable(r)
          \/ o = "ok" /\ Compatible(r) /\ Goto(r, "relocking")
          \/ o = "ok" /\ ~Compatible(r) /\ Respond(r, "reused")
  /\ UNCHANGED <<policy, redis, existed, ran, freed, waited, repeated, lapsed>>

Relock(r) ==
  /\ pc[r] = "relocking"
  /\ \E o \in Reply :
       /\ Spend(o)
       /\ SetLock(r, o)
       /\ \/ o # "ok" /\ StoreUnavailable(r)
          \/ o = "ok" /\ Held(r) = None /\ Goto(r, "settleOwner")
          \/ o = "ok" /\ Held(r) # None /\ Respond(r, "inFlight")
  /\ UNCHANGED <<policy, owner, cached, existed, ran, freed, waited, repeated, lapsed>>

\* _settle_after_reacquire: nothing seen before the lock counts any more.
SettleOwner(r) ==
  /\ pc[r] = "settleOwner"
  /\ \E o \in {"ok", "failed"} :
       /\ Spend(o)
       /\ \/ o = "failed" /\ StoreUnavailable(r)
          \/ o = "ok" /\ Compatible(r) /\ Goto(r, "settleCache")
          \/ /\ o = "ok" /\ ~Compatible(r)
             /\ pc' = [pc EXCEPT ![r] = "givingBack"]
             /\ answer' = [answer EXCEPT ![r] = "reused"]
             /\ UNCHANGED source
  /\ UNCHANGED <<policy, redis, existed, ran, freed, waited, repeated, lapsed>>

SettleCacheBlind(r) ==   \* mutant: the response is not read again under the lock
  /\ pc[r] = "settleCache"
  /\ Start(r)
  /\ UNCHANGED <<policy, redis, existed, freed, waited, lapsed, upsets>>
SettleCache(r) ==
  /\ pc[r] = "settleCache"
  /\ \E o \in {"ok", "failed"} :
       /\ Spend(o)
       /\ \/ o = "failed" /\ StoreUnavailable(r) /\ UNCHANGED <<ran, repeated>>
          \/ o = "ok" /\ Cached(r) = None /\ Start(r)
          \/ /\ o = "ok" /\ Cached(r) # None
             /\ Verdict(r)
             /\ pc' = [pc EXCEPT ![r] = "givingBack"]
             /\ UNCHANGED <<ran, repeated>>
  /\ UNCHANGED <<policy, redis, existed, freed, waited, lapsed>>

\* The lock is given back before the answer; an error here loses the answer.
GiveBack(r) ==
  /\ pc[r] = "givingBack"
  /\ \E o \in Reply :
       /\ Spend(o)
       /\ DelLock(r, o)
       /\ IF o = "ok" THEN Goto(r, "done") ELSE StoreUnavailable(r)
  /\ UNCHANGED <<policy, owner, cached, existed, ran, freed, waited, repeated, lapsed>>

-----------------------------------------------------------------------------
(***************************************************************************)
(* _execute.                                                               *)
(***************************************************************************)

\* A run that failed in a way that lets the key be used again.
RerunAllowed(result) == policy.rerun /\ result \in {"transient", "raised"}
Frees(result) == RerunAllowed(result) \/ result = "rejected"

\* What follows: the response is stored, or a domain_required key is closed.
RecordingAlways(result) ==   \* mutant: rerun_allowed is not passed on
  IF result = "raised" THEN "releasing"
  ELSE IF result = "stored" THEN "caching"
  ELSE IF policy.mode = "domain" THEN "marking" ELSE "releasing"
Recording(result) ==
  IF result = "raised" THEN "releasing"
  ELSE IF result = "stored" THEN "caching"
  ELSE IF policy.mode = "domain" /\ ~RerunAllowed(result) THEN "marking" ELSE "releasing"

HandlerEnds(r) ==
  /\ pc[r] = "handling"
  /\ \E result \in Result :
       /\ answer' = [answer EXCEPT ![r] = result]
       /\ pc' = [pc EXCEPT ![r] = IF Frees(result) THEN "freeing" ELSE Recording(result)]
  /\ UNCHANGED <<policy, redis, existed, source, ran, freed, waited, repeated, lapsed, upsets>>

\* An error behind the handler replaces its response, in all but quiet steps.
Raise(r) ==
  /\ pc' = [pc EXCEPT ![r] = "releasing"]
  /\ answer' = [answer EXCEPT ![r] = "error"]
  /\ UNCHANGED source

\* delete_key_owner, whoever the record belongs to.  _free_key_after_failure
\* swallows an error; the delete after a 401 / 403 does not.
FreeKey(r) ==
  /\ pc[r] = "freeing"
  /\ \E o \in Reply :
       /\ Spend(o)
       /\ owner' = IF o # "failed" THEN None ELSE owner
       /\ freed' = IF o # "failed" THEN freed \union {r} ELSE freed
       /\ IF o # "ok" /\ answer[r] = "rejected"
            THEN Raise(r) ELSE Goto(r, Recording(answer[r]))
  /\ UNCHANGED <<policy, cached, lock, existed, ran, waited, repeated, lapsed>>

StoreResponse(r) ==
  /\ pc[r] = "caching"
  /\ \E o \in Reply :
       /\ Spend(o)
       /\ cached' = IF o # "failed"
                      THEN [cached EXCEPT ![PrincipalOf[r]] = [what |-> PayloadOf[r], by |-> r]]
                      ELSE cached
       /\ IF o = "ok" THEN Goto(r, "releasing") ELSE Raise(r)
  /\ UNCHANGED <<policy, owner, lock, existed, ran, freed, waited, repeated, lapsed>>

\* _mark_completed_without_replay, over whatever record there is.
MarkCompleted(r) ==
  /\ pc[r] = "marking"
  /\ \E o \in Reply :
       /\ Spend(o)
       /\ owner' = IF o # "failed" THEN OwnerOf(r, TRUE) ELSE owner
       /\ IF o = "ok" THEN Goto(r, "releasing") ELSE Raise(r)
  /\ UNCHANGED <<policy, cached, lock, existed, ran, freed, waited, repeated, lapsed>>

\* _release_quietly.
Release(r) ==
  /\ pc[r] = "releasing"
  /\ \E o \in Reply : Spend(o) /\ DelLock(r, o)
  /\ Goto(r, "done")
  /\ UNCHANGED <<policy, owner, cached, existed, ran, freed, waited, repeated, lapsed>>

\* The unprotected run of a route that fails open.
RunBare(r) ==
  /\ pc[r] = "bare"
  /\ \E result \in Result : Respond(r, result)
  /\ UNCHANGED <<policy, redis, existed, ran, freed, waited, repeated, lapsed, upsets>>

-----------------------------------------------------------------------------
(***************************************************************************)
(* Locks and processes.                                                    *)
(***************************************************************************)

\* Nobody renews the lock of a request that is over.
LockLapses(p) ==
  /\ lock[p] # None /\ pc[lock[p]] \notin HolderPc
  /\ lock' = [lock EXCEPT ![p] = None]
  /\ UNCHANGED <<policy, owner, cached, pc, existed, answer, source,
                 ran, freed, waited, repeated, lapsed, upsets>>

\* The renewal gave up on an error, or the event loop stalled.
LockLapsesUnderHolder(r) ==
  /\ Held(r) = r /\ pc[r] \in HolderPc
  /\ Upset
  /\ lock' = [lock EXCEPT ![PrincipalOf[r]] = None]
  /\ lapsed' = lapsed \union {r}
  /\ UNCHANGED <<policy, owner, cached, pc, existed, answer, source,
                 ran, freed, waited, repeated>>

Crash(r) ==
  /\ pc[r] \notin {"idle", "done", "gone"}
  /\ Upset
  /\ Goto(r, "gone")
  /\ UNCHANGED <<policy, redis, existed, ran, freed, waited, repeated, lapsed>>

-----------------------------------------------------------------------------
Step(r) ==
  \/ GetOwner(r) \/ Claim(r) \/ CompareOwner(r) \/ ReadCache(r) \/ TakeLock(r)
  \/ Wait(r) \/ RecheckOwner(r) \/ Relock(r) \/ SettleOwner(r) \/ SettleCache(r)
  \/ GiveBack(r) \/ HandlerEnds(r) \/ FreeKey(r) \/ StoreResponse(r)
  \/ MarkCompleted(r) \/ Release(r) \/ RunBare(r)

\* Every request was answered or died; a state that is stuck otherwise is an error.
Settled ==
  /\ \A r \in Request : pc[r] \in {"done", "gone"}
  /\ \A p \in Principal : lock[p] = None
  /\ UNCHANGED vars

Next == \/ \E r \in Request : Step(r) \/ LockLapsesUnderHolder(r) \/ Crash(r)
        \/ \E p \in Principal : LockLapses(p)
        \/ Settled

Spec == Init /\ [][Next]_vars

-----------------------------------------------------------------------------
(***************************************************************************)
(* Properties.                                                             *)
(***************************************************************************)

\* A high-risk operation does not execute twice: under domain_required the handler
\* runs for one of all the requests with the key, unless a run that failed or was
\* rejected gave the key up; no lost reply, lapsed lock or crash makes it two.
\* (A route that fails open may run it unprotected while Redis is away.)
DomainRunsOnce ==
  policy.mode = "domain" => \A r, s \in ran \ freed : r = s

\* Handlers of one principal run one at a time: who is past taking the lock still
\* has it, unless it lapsed under this very request.  No late release of a request
\* whose lock had lapsed takes the lock of the next one away.
HandlerHoldsLock ==
  \A r \in Request : pc[r] \in HolderPc => Held(r) = r \/ r \in lapsed

\* While nobody gives the key up, it serves one principal and one request, also
\* when different ones claim it at the same time or the claim's reply is lost.
KeyBindsOneRequest ==
  freed = {} => \A r, s \in ran : /\ PrincipalOf[r] = PrincipalOf[s]
                                 /\ PayloadOf[r] = PayloadOf[s]

\* A request is only ever handed a response that was made for the same principal
\* and the same request, also behind a key that was given up and claimed anew.
NoForeignReplay ==
  \A r \in Request : answer[r] = "replayed" =>
    /\ source[r] # None
    /\ PrincipalOf[source[r]] = PrincipalOf[r] /\ PayloadOf[source[r]] = PayloadOf[r]

\* A duplicate that waited in vain and took the lock then does not run again what
\* was answered and stored in between (middleware.py:562-566).
WaiterNeverRepeats == repeated \cap waited = {}

\* A run whose failure allows a rerun leaves no record of its own on the key that
\* would refuse the retry; nor does a rejected one where responses are replayed.
FailureFreesKey ==
  \A r \in ran :
    /\ pc[r] = "done"
    /\ RerunAllowed(answer[r]) \/ (answer[r] = "rejected" /\ policy.mode = "replay")
    => \/ owner = None \/ owner.by # r
       \/ r \notin freed /\ upsets > 0
=============================================================================
