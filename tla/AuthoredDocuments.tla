------------------------- MODULE AuthoredDocuments -------------------------
(***************************************************************************)
(* The agent service's versioned documents: append-only drafts whose head  *)
(* moves only from the draft the writer started from.  A write is checked  *)
(* against the head, rendered and its file stored, and only then committed *)
(* by a conditional update, so any number of writers overlap; the service  *)
(* may fail at each step and a reply may be lost.                          *)
(*                                                                         *)
(* The UPDATE of the head and the INSERT of the draft share a transaction  *)
(* and are one step.  Rendering touches no shared state, so the check, the *)
(* rendering and the storing of the file are one step too: the commit      *)
(* looks at the head again.                                                *)
(***************************************************************************)
EXTENDS Integers, Sequences

CONSTANTS Doc,      \* documents, each created with draft 1
          Request,  \* writes: of the user's editor, of the restore button, of the agent
          None      \* nobody, nothing

ASSUME NoneIsNoWrite == None \notin Request /\ None \notin Doc

VARIABLES
  head,     \* head_revision_no of each document row
  drafts,   \* the revision rows of each document, in the order of their numbers
  files,    \* rendered files in the store, named after the write that stored them
  request   \* the writes on their way

documents == <<head, drafts, files>>

(***************************************************************************)
(* Contents: what the agent wrote is named after its request, what the     *)
(* user typed is a number, the text a document was created with is None.   *)
(***************************************************************************)
Content == Request \union Nat \union {None}
Kind == {"save", "restore", "agent"}
Draft == [content : Content, operation : Kind \union {"create"}, by : Request \union {None},
          seen : Nat]           \* history: the newest draft its author had seen
Write == [state : {"new", "sent", "committing", "answered", "over"},
          kind : Kind, doc : Doc \union {None}, base : Nat, content : Content, seen : Nat,
          answer : {"none", "created", "conflict", "noChange", "failed"},
          no : Nat,             \* the draft created, or the head a conflict reports
          retried : BOOLEAN]

Blank(state) == [state |-> state, kind |-> "agent", doc |-> None, base |-> 0, content |-> None,
                 seen |-> 0, answer |-> "none", no |-> 0, retried |-> FALSE]

DocumentsTypeOK ==
  /\ head \in [Doc -> Nat]
  /\ drafts \in [Doc -> Seq(Draft)]
  /\ files \subseteq Request
  /\ request \in [Request -> Write]

DocumentsInit ==
  /\ head = [d \in Doc |-> 1]
  /\ drafts = [d \in Doc |-> <<[content |-> None, operation |-> "create", by |-> None,
                                  seen |-> 0]>>]
  /\ files = {}
  /\ request = [r \in Request |-> Blank("new")]

-----------------------------------------------------------------------------
(* What a request does to the service.                                     *)

Send(r, kind, d, base, content, seen) ==
  /\ request[r].state = "new"
  /\ request' = [request EXCEPT ![r] = [Blank("sent") EXCEPT !.kind = kind, !.doc = d,
                                                             !.base = base, !.content = content,
                                                             !.seen = seen]]

Answered(r, what, no) ==
  request' = [request EXCEPT ![r] = [@ EXCEPT !.state = "answered", !.answer = what, !.no = no]]

\* _head and _next_draft: refused if the head moved or nothing would change, or the
\* content is rejected, the renderer or the store is down, or the request is lost.
Check(r) ==
  LET w == request[r] IN
  /\ w.state = "sent"
  /\ \/ head[w.doc] # w.base /\ Answered(r, "conflict", head[w.doc])
     \/ head[w.doc] = w.base /\ drafts[w.doc][w.base].content = w.content
                             /\ Answered(r, "noChange", 0)
     \/ Answered(r, "failed", 0)
  /\ UNCHANGED documents

\* _prepare: the draft is rendered and its file stored.
Prepare(r) ==
  LET w == request[r] IN
  /\ w.state = "sent"
  /\ head[w.doc] = w.base
  /\ drafts[w.doc][w.base].content # w.content
  /\ files' = files \union {r}
  /\ request' = [request EXCEPT ![r].state = "committing"]
  /\ UNCHANGED <<head, drafts>>

\* append_revision: the UPDATE matches only while the head is the base, and the number
\* of the new draft is still free.
Appends(r) ==
  LET w == request[r] IN
  /\ head[w.doc] = w.base
  /\ Len(drafts[w.doc]) = w.base
  /\ head' = [head EXCEPT ![w.doc] = w.base + 1]
  /\ drafts' = [drafts EXCEPT ![w.doc] = Append(@, [content |-> w.content, operation |-> w.kind,
                                                      by |-> r, seen |-> w.seen])]

\* mutant: a lost reply is taken for a failure, and the file of the draft is removed
CommitCleaningUp(r) ==
  /\ request[r].state = "committing"
  /\ Appends(r)
  /\ \/ Answered(r, "created", request[r].base + 1) /\ UNCHANGED files
     \/ Answered(r, "failed", 0) /\ files' = files \ {r}
Commit(r) ==
  /\ request[r].state = "committing"
  /\ Appends(r)
  /\ UNCHANGED files
  /\ \/ Answered(r, "created", request[r].base + 1)
     \/ Answered(r, "failed", 0)                    \* committed, and the reply is lost

\* A lost race proves that no draft references the file.
CommitConflict(r) ==
  LET w == request[r] IN
  /\ w.state = "committing"
  /\ head[w.doc] # w.base \/ Len(drafts[w.doc]) # w.base
  /\ files' = files \ {r}
  /\ Answered(r, "conflict", head[w.doc])
  /\ UNCHANGED <<head, drafts>>

\* Any other failure may have committed: its file is left in place.
CommitFails(r) ==
  /\ request[r].state = "committing"
  /\ Answered(r, "failed", 0)
  /\ UNCHANGED documents

Service(r) == Check(r) \/ Prepare(r) \/ Commit(r) \/ CommitConflict(r) \/ CommitFails(r)

-----------------------------------------------------------------------------
(* Every draft's rendered file is in the store, whatever races and         *)
(* failures the write met on its way (service._commit).                    *)
FilesKept == \A d \in Doc : \A n \in DOMAIN drafts[d] : drafts[d][n].by \in files \union {None}
=============================================================================
