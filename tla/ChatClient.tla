----------------------------- MODULE ChatClient -----------------------------
(***************************************************************************)
(* The chat controller of one browser tab on one session: what it sends    *)
(* and what it attaches to.  A submission is a producer (the stream with   *)
(* its 409 handling) that fills a queue, and a consumer (the loop of       *)
(* onSubmit) that wakes up on a timer and renders it.  Stop, the run       *)
(* lookups of a page load, a returning network or a 409, other devices and *)
(* the ends of earlier submissions come in between, at every await.        *)
(*                                                                         *)
(* A submission is a call of onSubmit that gets past its first guards (no  *)
(* answer under way, no upload, the message to resend still there): a new  *)
(* message, an edit or a retry of one in the tree, or an attach.  Of the   *)
(* input bar the module tells whether it holds a text.                     *)
(*                                                                         *)
(* The session exists already and its page stays mounted.  Reconnects are  *)
(* RunStream's, the message tree is MessageTree's.  The tracker's memory   *)
(* of 200 keys is not exhausted.  A run is named after the send it belongs   *)
(* to; the tracker's two kinds of keys (request and run id) name the same  *)
(* run.                                                                    *)
(***************************************************************************)
EXTENDS Integers, FiniteSets

CONSTANTS MaxSubmissions,  \* bound: calls of onSubmit that get past its guard
          Foreign,         \* a run of another device
          MaxAttempts,     \* sends of sendAfterOwnRunEnds (10 in the code)
          MaxPackets,      \* bound: packets a stream carries
          None

\* In the order they begin.
Submission == 1..MaxSubmissions

ASSUME ForeignIsForeign == Foreign \notin Submission /\ None \notin Submission /\ Foreign # None
ASSUME BoundsAreNatural ==
  MaxSubmissions \in Nat /\ MaxAttempts \in Nat \ {0} /\ MaxPackets \in Nat

Run == Submission \union {Foreign}

VARIABLES
  \* the server: the run that holds the thread, and those that ended
  active, ended,
  \* the session in the store: chatState, and whose AbortController it holds
  chatState, controller,
  \* the ChatRunTracker: keys settled, the key streamed, whether an attach is under way
  settled, streamedKey, attaching,
  \* runs some lookup has reported, whose report is on its way to attachToActiveRun
  found,
  \* submissions: the run attached to (its own if it is a send), producer, its error, its
  \* attempts, packets pushed and not yet rendered, consumer, abort signal
  run, producer, error, attempt, pushed, queue, consumer, aborted,
  typed,       \* the input bar holds a text the last send did not take along
  frozen,      \* the tab's event loop no longer turns
  \* history, until a submission returns: those whose text is back in the input bar or in
  \* the tree, or has an error below it; what those refused were; those under way while
  \* the user typed something else
  \* history for good: runs the user stopped; whether a submission ended in the middle of
  \* another one's stream; whether a stopped run was rendered
  kept, refused, overtyped, stopped, crossed, late

server == <<active, ended>>
tracker == <<settled, streamedKey, attaching>>
stream == <<producer, error, attempt, pushed>>
history == <<kept, refused, overtyped, stopped, crossed, late>>
vars == <<active, ended, chatState, controller, settled, streamedKey, attaching, found, run,
          producer, error, attempt, pushed, queue, consumer, aborted, typed, frozen,
          kept, refused, overtyped, stopped, crossed, late>>

TypeOK ==
  /\ active \in Run \union {None} /\ ended \subseteq Run
  /\ chatState \in {"input", "loading", "streaming"}
  /\ controller \in Submission \union {None}
  /\ settled \subseteq Run /\ streamedKey \in Run \union {None} /\ attaching \in BOOLEAN
  /\ found \subseteq Run
  /\ run \in [Submission -> Run \union {None}]
  /\ producer \in [Submission -> {"none", "sending", "looking", "waiting", "open", "complete"}]
  /\ error \in [Submission -> {"none", "active", "gone", "failed"}]
  /\ attempt \in [Submission -> 0..MaxAttempts]
  /\ pushed \in [Submission -> 0..MaxPackets]
  /\ queue \in [Submission -> 0..MaxPackets]
  /\ consumer \in [Submission -> {"none", "loop", "refused", "ending", "done"}]
  /\ aborted \subseteq Submission
  /\ typed \in BOOLEAN
  /\ frozen \in BOOLEAN
  /\ kept \subseteq Submission
  /\ refused \in [Submission -> {"none", "new", "edit", "retry"}]
  /\ overtyped \subseteq Submission
  /\ stopped \subseteq Run
  /\ crossed \in BOOLEAN /\ late \in BOOLEAN

Each(x) == [s \in Submission |-> x]

Init ==
  /\ active = None /\ ended = {}
  /\ chatState = "input" /\ controller = None
  /\ settled = {} /\ streamedKey = None /\ attaching = FALSE /\ found = {}
  /\ run = Each(None) /\ producer = Each("none") /\ error = Each("none")
  /\ attempt = Each(0) /\ pushed = Each(0) /\ queue = Each(0)
  /\ consumer = Each("none") /\ aborted = {}
  /\ typed = FALSE /\ frozen = FALSE
  /\ kept = {} /\ refused = Each("none") /\ overtyped = {} /\ stopped = {}
  /\ crossed = FALSE /\ late = FALSE

IsSend(s) == run[s] = s
Looping == {s \in Submission : consumer[s] = "loop"}
Live == Looping \ aborted

-----------------------------------------------------------------------------
(* The server, as far as the tab sees it.                                  *)

ForeignRuns ==
  /\ active = None /\ Foreign \notin ended
  /\ active' = Foreign
  /\ UNCHANGED <<ended, chatState, controller, tracker, found, run, stream, queue, consumer,
                 aborted, typed, frozen, history>>

\* A run ends: finished, failed, or stopped from any device.
RunEnds ==
  /\ active # None
  /\ ended' = ended \union {active}
  /\ active' = None
  /\ UNCHANGED <<chatState, controller, tracker, found, run, stream, queue, consumer, aborted,
                 typed, frozen, history>>

-----------------------------------------------------------------------------
(* onSubmit up to its first await.                                         *)

NothingShownAnyway == TRUE   \* mutant: onSubmit and the attach do not look
NothingShown == chatState = "input"

Begin(s, r, firstStep) ==
  /\ consumer[s] = "none" /\ (s > 1 => consumer[s - 1] # "none")
  /\ NothingShown
  /\ chatState' = "loading"
  /\ controller' = s
  /\ streamedKey' = r
  /\ run' = [run EXCEPT ![s] = r]
  /\ producer' = [producer EXCEPT ![s] = firstStep]
  /\ consumer' = [consumer EXCEPT ![s] = "loop"]
  /\ UNCHANGED <<server, settled, error, pushed, queue, aborted, frozen, history>>

\* A new message is what the input bar holds, an edit or a retry comes from the tree; either
\* way the input bar is emptied (resetInputBar).
Submit(s) ==
  /\ Begin(s, s, "sending")
  /\ attempt' = [attempt EXCEPT ![s] = 1]
  /\ typed' = FALSE
  /\ UNCHANGED <<attaching, found>>

\* A lookup answers (page load, visible again, online); its answer may be acted on late.
Discover ==
  /\ active # None
  /\ active \notin found
  /\ found' = found \union {active}
  /\ UNCHANGED <<server, chatState, controller, tracker, run, stream, queue, consumer, aborted,
                 typed, frozen, history>>

\* attachToActiveRun
AttachToActiveRun(s, r) ==
  /\ r \in found
  /\ found' = found \ {r}
  /\ r \notin settled
  /\ ~attaching
  /\ attaching' = TRUE
  /\ Begin(s, r, "open")
  /\ UNCHANGED <<attempt, typed>>

-----------------------------------------------------------------------------
(* The producer: sendAfterOwnRunEnds over the stream, pushing into the     *)
(* queue (updateCurrentMessageFIFO).                                       *)

CompletesUnlessAborted(s, e) ==   \* mutant: isComplete is not set in a finally
  /\ producer' = [producer EXCEPT ![s] = IF s \in aborted THEN @ ELSE "complete"]
  /\ error' = [error EXCEPT ![s] = e]
CompletesWith(s, e) ==
  /\ producer' = [producer EXCEPT ![s] = "complete"]
  /\ error' = [error EXCEPT ![s] = e]

\* The POST is answered: accepted, ...
SendAccepted(s) ==
  /\ producer[s] = "sending"
  /\ active = None /\ s \notin ended
  /\ active' = s
  /\ producer' = [producer EXCEPT ![s] = "open"]
  /\ UNCHANGED <<ended, error, attempt, pushed, queue>>

\* ... or refused with a 409 because another run holds the thread.
SendRefused(s) ==
  /\ producer[s] = "sending"
  /\ active \notin {None, s}
  /\ IF attempt[s] = MaxAttempts THEN CompletesWith(s, "active")
     ELSE producer' = [producer EXCEPT ![s] = "looking"] /\ UNCHANGED error
  /\ UNCHANGED <<server, attempt, pushed, queue>>

Again(s) ==
  IF s \in aborted THEN CompletesWith(s, "none") /\ UNCHANGED attempt
  ELSE /\ producer' = [producer EXCEPT ![s] = "sending"]
       /\ attempt' = [attempt EXCEPT ![s] = @ + 1]
       /\ UNCHANGED error

\* findActiveRun, which no abort cuts short: a run of this tab is waited for, a foreign
\* one is reported to the caller, a free thread is tried again at once.
LookedUp(s) ==
  /\ producer[s] = "looking"
  /\ \/ active = Foreign /\ CompletesWith(s, "active") /\ UNCHANGED attempt
     \/ active = None /\ Again(s)
     \/ /\ active # Foreign               \* this tab's, or the lookup failed
        /\ producer' = [producer EXCEPT ![s] = "waiting"]
        /\ UNCHANGED <<error, attempt>>
  /\ UNCHANGED <<server, pushed, queue>>

BackedOff(s) ==
  /\ producer[s] = "waiting"
  /\ Again(s)
  /\ UNCHANGED <<server, pushed, queue>>

Push(s) ==
  /\ producer[s] = "open" /\ s \notin aborted
  /\ pushed[s] < MaxPackets
  /\ pushed' = [pushed EXCEPT ![s] = @ + 1]
  /\ queue' = [queue EXCEPT ![s] = @ + 1]
  /\ UNCHANGED <<server, producer, error, attempt>>

\* The stream ends with its run, ...
StreamEnds(s) ==
  /\ producer[s] = "open"
  /\ run[s] \in ended
  /\ CompletesWith(s, "none")
  /\ UNCHANGED <<server, attempt, pushed, queue>>

\* ... or an attach finds its events trimmed or removed.
StreamExpires(s) ==
  /\ producer[s] = "open" /\ s \notin aborted
  /\ CompletesWith(s, "gone")
  /\ UNCHANGED <<server, attempt, pushed, queue>>

\* The network or the server gives up on it; an abort cuts the request or the stream.
StreamBreaks(s) ==
  /\ producer[s] \in {"sending", "open"}
  /\ CompletesWith(s, IF s \in aborted THEN "none" ELSE "failed")
  /\ UNCHANGED <<server, attempt, pushed, queue>>

Produce(s) ==
  /\ \/ SendAccepted(s) \/ SendRefused(s) \/ LookedUp(s) \/ BackedOff(s)
     \/ Push(s) \/ StreamEnds(s) \/ StreamExpires(s) \/ StreamBreaks(s)
  /\ UNCHANGED <<chatState, controller, tracker, found, run, consumer, aborted, typed, frozen,
                 history>>

-----------------------------------------------------------------------------
(* The consumer.                                                           *)

\* Every way out of the loop shows the input again, whatever the session does by then.
\* What the producer still pushes is not looked at any more.
LeaveLoop(s, next) ==
  /\ consumer' = [consumer EXCEPT ![s] = next]
  /\ chatState' = "input"
  /\ crossed' = (crossed \/ Live \ {s} # {})
  /\ producer' = [producer EXCEPT ![s] = "none"]
  /\ error' = [error EXCEPT ![s] = "none"]
  /\ attempt' = [attempt EXCEPT ![s] = 0]
  /\ pushed' = [pushed EXCEPT ![s] = 0]
  /\ queue' = [queue EXCEPT ![s] = 0]
  /\ UNCHANGED <<server, controller, streamedKey, attaching, found, run, aborted, frozen,
                 overtyped, stopped, late>>

\* The timer fires and everything queued is rendered.
Render(s) ==
  /\ consumer[s] = "loop" /\ s \notin aborted
  /\ queue[s] > 0 /\ error[s] = "none"
  /\ queue' = [queue EXCEPT ![s] = 0]
  /\ chatState' = "streaming"
  /\ late' = (late \/ run[s] \in stopped)
  /\ UNCHANGED <<server, controller, tracker, found, run, stream, consumer, aborted,
                 typed, frozen, kept, refused, overtyped, stopped, crossed>>

\* ... unless the submission was aborted with packets queued: then the loop neither takes
\* them nor yields.
Freeze(s) ==
  /\ consumer[s] = "loop" /\ s \in aborted
  /\ queue[s] > 0
  /\ frozen' = TRUE
  /\ UNCHANGED <<server, chatState, controller, tracker, found, run, stream, queue, consumer,
                 aborted, typed, history>>

\* Rendered to the end, or aborted.
LoopEnds(s) ==
  /\ consumer[s] = "loop"
  /\ producer[s] = "complete" /\ queue[s] = 0
  /\ error[s] = "none" \/ s \in aborted
  /\ settled' = settled \union {run[s]}
  /\ LeaveLoop(s, "ending")
  /\ UNCHANGED <<typed, kept, refused>>

\* The stream failed, or a packet is an error: an error message takes the answer's place.
LoopFails(s) ==
  /\ consumer[s] = "loop" /\ s \notin aborted
  /\ error[s] = "failed" \/ (error[s] = "none" /\ queue[s] > 0)
  /\ kept' = kept \union {s}
  /\ LeaveLoop(s, "ending")
  /\ UNCHANGED <<settled, typed, refused>>

\* Another device answers: the tree is put back, with the message a retry sent, and the tab
\* looks for the run.  A new message goes back into the input bar, unless that holds another
\* text by now; an edit goes nowhere.  (What a send is, matters here only.)
RefusedSilently(s, k) ==   \* mutant: the input bar is not given the text back
  /\ refused' = [refused EXCEPT ![s] = k]
  /\ kept' = kept \union {t \in {s} : k = "retry"}
  /\ UNCHANGED typed
Refused(s, k) ==
  /\ refused' = [refused EXCEPT ![s] = k]
  /\ kept' = kept \union {t \in {s} : k = "retry" \/ (k = "new" /\ ~typed)}
  /\ typed' = (typed \/ k = "new")
LoopRefused(s) ==
  /\ consumer[s] = "loop" /\ s \notin aborted
  /\ error[s] = "active"
  /\ \E k \in {"new", "edit", "retry"} : Refused(s, k)
  /\ LeaveLoop(s, "refused")
  /\ UNCHANGED settled

Relooked(s) ==
  /\ consumer[s] = "refused"
  /\ consumer' = [consumer EXCEPT ![s] = "ending"]
  /\ \/ active # None /\ found' = found \union {active}
     \/ UNCHANGED found                                  \* nothing runs, or the lookup fails
  /\ UNCHANGED <<server, chatState, controller, tracker, run, stream, queue, aborted, typed,
                 frozen, history>>

\* The replay is gone: the saved conversation is loaded.
LoopExpired(s) ==
  /\ consumer[s] = "loop" /\ s \notin aborted
  /\ error[s] = "gone"
  /\ LeaveLoop(s, "ending")
  /\ UNCHANGED <<settled, typed, kept, refused>>

\* The awaits after the answer are over and onSubmit returns.
Return(s) ==
  /\ consumer[s] = "ending"
  /\ consumer' = [consumer EXCEPT ![s] = "done"]
  /\ attaching' = (attaching /\ IsSend(s))
  /\ run' = [run EXCEPT ![s] = None]
  /\ kept' = kept \ {s} /\ overtyped' = overtyped \ {s}
  /\ refused' = [refused EXCEPT ![s] = "none"]
  /\ UNCHANGED <<server, chatState, controller, settled, streamedKey, found, stream, queue,
                 aborted, typed, frozen, stopped, crossed, late>>

Consume(s) == \/ Render(s) \/ Freeze(s) \/ LoopEnds(s) \/ LoopFails(s) \/ LoopRefused(s)
              \/ Relooked(s) \/ LoopExpired(s) \/ Return(s)

-----------------------------------------------------------------------------
(* The user.                                                               *)

\* abortSession: the session gets a fresh controller.
AbortSession ==
  /\ aborted' = IF controller = None THEN aborted ELSE aborted \union {controller}
  /\ controller' = None

\* stopGenerating; its request ends the run sooner or later (RunEnds).
StopUnsettled ==   \* mutant: the tracker is not told
  /\ chatState \in {"loading", "streaming"}
  /\ AbortSession
  /\ stopped' = stopped \union {streamedKey}
  /\ chatState' = "input"
  /\ UNCHANGED <<server, tracker, found, run, stream, queue, consumer, typed,
                 frozen, kept, refused, overtyped, crossed, late>>
Stop ==
  /\ chatState \in {"loading", "streaming"}
  /\ AbortSession
  /\ settled' = settled \union {streamedKey}
  /\ stopped' = stopped \union {streamedKey}
  /\ chatState' = "input"
  /\ UNCHANGED <<server, streamedKey, attaching, found, run, stream, queue, consumer, typed,
                 frozen, kept, refused, overtyped, crossed, late>>

\* The input bar stays open while a send is under way.  (What it holds before goes out with
\* the send, or is emptied by it.)
Sending == {s \in Live : IsSend(s)}
Type ==
  /\ ~typed
  /\ Sending # {}
  /\ typed' = TRUE
  /\ overtyped' = overtyped \union Sending
  /\ UNCHANGED <<server, chatState, controller, tracker, found, run, stream, queue, consumer,
                 aborted, frozen, kept, refused, stopped, crossed, late>>

\* By hand, or with Enter while an answer streams: the page empties the input bar before
\* onSubmit turns the message away.
Erase ==
  /\ typed
  /\ typed' = FALSE
  /\ UNCHANGED <<server, chatState, controller, tracker, found, run, stream, queue, consumer,
                 aborted, frozen, history>>

-----------------------------------------------------------------------------
Next ==
  /\ ~frozen
  /\ \/ ForeignRuns \/ RunEnds \/ Discover \/ Stop \/ Type \/ Erase
     \/ \E s \in Submission : Submit(s) \/ Produce(s) \/ Consume(s)
     \/ \E s \in Submission, r \in Run : AttachToActiveRun(s, r)

\* Timers fire, requests are answered, and runs end (the supervisor's time limit).
Fairness ==
  /\ WF_vars(~frozen /\ RunEnds)
  /\ \A s \in Submission : /\ WF_vars(~frozen /\ Produce(s))
                           /\ WF_vars(~frozen /\ Consume(s))

Spec == Init /\ [][Next]_vars /\ Fairness

-----------------------------------------------------------------------------
(* What the user sent is not dropped: a send that is over was accepted by  *)
(* the server, or its text is back in the input bar or stands in the tree, *)
(* with or without an error below it, or the user stopped it.  The code    *)
(* drops a send that another device's run refused in three cases only: it  *)
(* was an edit, the user has typed something else meanwhile, or two        *)
(* submissions streamed at once.                                           *)
Dropped(s) == refused[s] = "edit" \/ (refused[s] = "new" /\ (s \in overtyped \/ crossed))
MessageKept ==
  \A s \in Submission : consumer[s] = "ending" /\ IsSend(s) =>
    s \in ended \union {active} \union kept \union stopped \/ Dropped(s)

(* The session shows one stream at a time, and a run the user stopped is   *)
(* not rendered again, by its own stream or by an attach to it that some   *)
(* lookup asked for earlier.  As long as no stopped submission ends in the *)
(* middle of a later one: it then shows the input over that one's stream.  *)
OneStream == crossed \/ Cardinality(Live) <= 1
StoppedStaysSilent == crossed \/ ~late

(* Every submission comes to its end and the input comes back, unless the  *)
(* tab is frozen by a Stop that found packets queued.                      *)
SubmissionEnds ==
  \A s \in Submission : consumer[s] = "loop" ~> consumer[s] = "done" \/ frozen
=============================================================================
