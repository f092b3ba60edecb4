---------------------------- MODULE RunLifecycle ----------------------------
(***************************************************************************)
(* What the chat-run subsystem promises its viewers about one run, with no *)
(* leases, processes, retries or failures in it: a run is admitted once,   *)
(* finishes once, and its stream is a series of frames that the run_end    *)
(* frame closes, which tells the status on record, followed by [DONE].     *)
(* Frames may still arrive between the record of the end and run_end, and  *)
(* a stream may stay unclosed (its viewers then get a synthetic end).      *)
(***************************************************************************)
EXTENDS Sequences, Naturals

CONSTANTS Run, Terminal, Plain   \* Plain: the frames that do not end a stream

VARIABLES st, ev                 \* status and stream of every run

lifecycle == <<st, ev>>

Ends(s) == \E k \in DOMAIN s : s[k] \in Terminal \union {"DONE"}

Init == st = [r \in Run |-> "absent"] /\ ev = [r \in Run |-> <<>>]

\* A send is admitted.
Admit(r) ==
  /\ st[r] = "absent"
  /\ st' = [st EXCEPT ![r] = "running"]
  /\ UNCHANGED ev

\* A frame joins an open stream.
Publish(r) ==
  /\ st[r] # "absent"
  /\ ~Ends(ev[r])
  /\ \E f \in Plain : ev' = [ev EXCEPT ![r] = Append(@, f)]
  /\ UNCHANGED st

\* The end is put on record, once.
Finish(r) ==
  /\ st[r] = "running"
  /\ \E end \in Terminal : st' = [st EXCEPT ![r] = end]
  /\ UNCHANGED ev

\* run_end tells what is on record.
Announce(r) ==
  /\ st[r] \in Terminal
  /\ ~Ends(ev[r])
  /\ ev' = [ev EXCEPT ![r] = Append(@, st[r])]
  /\ UNCHANGED st

\* [DONE] follows run_end at once and closes the stream.
SignOff(r) ==
  /\ ev[r] # <<>>
  /\ ev[r][Len(ev[r])] \in Terminal
  /\ ev' = [ev EXCEPT ![r] = Append(@, "DONE")]
  /\ UNCHANGED st

Next == \E r \in Run : Admit(r) \/ Publish(r) \/ Finish(r) \/ Announce(r) \/ SignOff(r)

Spec == Init /\ [][Next]_lifecycle
=============================================================================
