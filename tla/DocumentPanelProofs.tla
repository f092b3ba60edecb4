------------------------ MODULE DocumentPanelProofs ------------------------
(***************************************************************************)
(* What DocumentPanel and the documents below it guarantee for any number  *)
(* of documents, writes and typed texts, proved with TLAPS.                *)
(***************************************************************************)
EXTENDS DocumentPanel, TLAPS

-----------------------------------------------------------------------------
(***************************************************************************)
(* The inductive invariant.                                                *)
(***************************************************************************)

\* The head is the newest draft.
HeadIsLast == \A d \in Doc : head[d] = Len(drafts[d]) /\ head[d] >= 1

\* No draft stems from a write that may still commit: it is not over, or was refused and
\* may be sent again.
May(r) == request[r].state \in {"new", "sent", "committing"} \/ request[r].answer = "conflict"
Unwritten ==
  \A r \in Request : May(r) => \A d \in Doc : \A n \in DOMAIN drafts[d] : drafts[d][n].by # r

\* A write has a document while it is under way, its file is stored before it commits, and
\* the draft it names in its answer exists.
Underway ==
  \A r \in Request :
    LET w == request[r] IN
    /\ w.state \in {"sent", "committing", "answered"} => w.doc \in Doc /\ w.no <= head[w.doc]
    /\ w.state = "committing" => r \in files

\* Saves and agents' writes start from what their author saw.
Sighted ==
  \A r \in Request : request[r].kind \in {"save", "agent"} => request[r].seen = request[r].base

DocumentsOK == /\ DocumentsTypeOK /\ HeadIsLast /\ Unwritten /\ Underway /\ Sighted
               /\ FilesKept /\ NoSilentOverwrite

\* An edit of the document shown, which starts from what its author saw and holds the
\* text it began with or one the user typed.
EditFits(p, sight) ==
  p.edit # None => /\ p.edit.doc = p.documentId /\ p.edit.base = sight
                   /\ p.edit.text = p.edit.original \/ p.edit.text \in 1..MaxTyped

\* A draft the dialog would open exists.
Pending(p) == p.pendingDiscard \in Doc => p.pendingNo <= head[p.pendingDiscard]

\* The drafts the panel knows of exist.
Known(p) == p.documentId # None => p.knownHead <= head[p.documentId] /\ p.revisionNo <= head[p.documentId]

\* What a panel must be, given what its user saw and whether answers crossed.
Good(p, sight, cross) ==
  p \in Panel /\ EditFits(p, sight) /\ Pending(p) /\ (~cross => Known(p))

PanelOK == /\ Good(panel, seen, crossed)
           /\ saving \in Request \union {None} /\ typed \in 0..MaxTyped
           /\ seen \in Nat /\ crossed \in BOOLEAN /\ lost \subseteq 1..MaxTyped

IInv == DocumentsOK /\ PanelOK

-----------------------------------------------------------------------------
(***************************************************************************)
(* The documents.                                                          *)
(***************************************************************************)

LEMMA BlankTyped ==
  ASSUME NEW st \in {"new", "sent", "committing", "answered", "over"}
  PROVE  /\ Blank(st) \in Write
         /\ Blank(st).state = st /\ Blank(st).answer = "none" /\ Blank(st).no = 0
         /\ Blank(st).kind = "agent" /\ Blank(st).seen = Blank(st).base
  BY DEF Blank, Write, Kind, Content

LEMMA DocumentsInitOK == DocumentsInit => DocumentsOK
  <1> SUFFICES ASSUME DocumentsInit PROVE DocumentsOK
    OBVIOUS
  <1> DEFINE first == [content |-> None, operation |-> "create", by |-> None, seen |-> 0]
  <1>1. first \in Draft
    BY DEF Draft, Content, Kind
  <1>2. /\ \A d \in Doc : /\ head[d] = 1 /\ drafts[d] = <<first>>
                         /\ Len(drafts[d]) = 1 /\ DOMAIN drafts[d] = {1} /\ drafts[d][1] = first
        /\ \A r \in Request : request[r] = Blank("new")
    BY DEF DocumentsInit
  <1>3. /\ head = [d \in Doc |-> 1] /\ drafts = [d \in Doc |-> <<first>>] /\ files = {}
        /\ request = [r \in Request |-> Blank("new")]
    BY DEF DocumentsInit
  <1>4. first.by = None /\ first.operation = "create"
    OBVIOUS
  <1> HIDE DEF first
  <1>5. DocumentsTypeOK
    <2>1. <<first>> \in Seq(Draft)
      BY <1>1
    <2>2. Blank("new") \in Write
      BY BlankTyped
    <2> QED
      BY <1>3, <2>1, <2>2 DEF DocumentsTypeOK
  <1>6. HeadIsLast /\ Unwritten /\ FilesKept /\ NoSilentOverwrite
    <2>1. \A d \in Doc : \A n \in DOMAIN drafts[d] :
            drafts[d][n].by = None /\ drafts[d][n].operation = "create"
      BY <1>2, <1>4
    <2>2. HeadIsLast
      <3> SUFFICES ASSUME NEW d \in Doc PROVE head[d] = Len(drafts[d]) /\ head[d] >= 1
        BY DEF HeadIsLast
      <3>1. head[d] = 1 /\ Len(drafts[d]) = 1
        BY <1>2
      <3> QED
        BY <3>1
    <2> QED
      BY <2>1, <2>2, NoneIsNoWrite DEF Unwritten, FilesKept, NoSilentOverwrite
  <1>7. Underway /\ Sighted
    BY <1>2, BlankTyped DEF Underway, Sighted
  <1> QED
    BY <1>5, <1>6, <1>7 DEF DocumentsOK

\* A step that changes one write and neither drafts nor heads: what is asked of the write.
LEMMA WriteChanges ==
  ASSUME DocumentsOK, NEW r \in Request, NEW w \in Write,
         request' = [request EXCEPT ![r] = w],
         UNCHANGED <<head, drafts>>,
         files' = files \/ files' = files \union {r} \/ (files' = files \ {r} /\ May(r)),
         w.state \in {"new", "sent", "committing"} \/ w.answer = "conflict" => May(r),
         w.state \in {"sent", "committing", "answered"} => w.doc \in Doc /\ w.no <= head[w.doc],
         w.state = "committing" => r \in files',
         w.kind \in {"save", "agent"} => w.seen = w.base
  PROVE  DocumentsOK'
  <1> USE DEF DocumentsOK, DocumentsTypeOK
  <1>1. request'[r] = w /\ \A t \in Request \ {r} : request'[t] = request[t]
    OBVIOUS
  <1>2. DocumentsTypeOK' /\ HeadIsLast' /\ NoSilentOverwrite'
    BY DEF HeadIsLast, NoSilentOverwrite
  <1>3. Unwritten' /\ Underway' /\ Sighted'
    BY <1>1 DEF Unwritten, May, Underway, Sighted
  <1>4. FilesKept'
    BY DEF Unwritten, FilesKept
  <1> QED
    BY <1>2, <1>3, <1>4

\* w is the write q, answered.
IsAnswer(w, q, what, no) ==
  /\ w \in Write /\ w.state = "answered" /\ w.answer = what /\ w.no = no
  /\ w.doc = q.doc /\ w.kind = q.kind /\ w.seen = q.seen /\ w.base = q.base

LEMMA AnsweredIs ==
  ASSUME DocumentsOK, NEW r \in Request, NEW no \in Nat,
         NEW what \in {"none", "created", "conflict", "noChange", "failed"}, Answered(r, what, no)
  PROVE  \E w : /\ IsAnswer(w, request[r], what, no)
                /\ request' = [request EXCEPT ![r] = w]
  <1> DEFINE w == [request[r] EXCEPT !.state = "answered", !.answer = what, !.no = no]
  <1>1. request[r] \in Write
    BY DEF DocumentsOK, DocumentsTypeOK
  <1>2. IsAnswer(w, request[r], what, no)
    BY <1>1 DEF Write, IsAnswer
  <1>3. request' = [request EXCEPT ![r] = w]
    BY DEF Answered
  <1> HIDE DEF w
  <1> QED
    BY <1>2, <1>3

LEMMA SendOK ==
  ASSUME DocumentsOK, NEW r \in Request, NEW kind \in Kind, NEW d \in Doc, NEW base \in Nat,
         NEW content \in Content, NEW sight \in Nat, kind \in {"save", "agent"} => sight = base,
         Send(r, kind, d, base, content, sight),
         UNCHANGED <<head, drafts, files>>
  PROVE  DocumentsOK'
  <1> DEFINE w == [Blank("sent") EXCEPT !.kind = kind, !.doc = d, !.base = base,
                                        !.content = content, !.seen = sight]
  <1>1. /\ w \in Write /\ w.state = "sent" /\ w.kind = kind /\ w.doc = d /\ w.base = base
        /\ w.seen = sight /\ w.no = 0
    BY BlankTyped DEF Write
  <1>2. request' = [request EXCEPT ![r] = w] /\ May(r)
    BY DEF Send, May
  <1> HIDE DEF w
  <1>3. w.no <= head[w.doc]
    BY <1>1 DEF DocumentsOK, DocumentsTypeOK
  <1> QED
    BY <1>1, <1>2, <1>3, WriteChanges

LEMMA OverOK ==
  ASSUME DocumentsOK, NEW r \in Request, Over(r), UNCHANGED <<head, drafts, files>>
  PROVE  DocumentsOK'
  <1> DEFINE w == Blank("over")
  <1>1. request' = [request EXCEPT ![r] = w]
    BY DEF Over
  <1>2. w \in Write /\ w.state = "over" /\ w.answer = "none" /\ w.seen = w.base
    BY BlankTyped
  <1> HIDE DEF w
  <1> QED
    BY <1>1, <1>2, WriteChanges

\* An answer of the service, with the draft it names, that leaves the documents alone.
LEMMA AnswerOK ==
  ASSUME DocumentsOK, NEW r \in Request, request[r].state \in {"sent", "committing"},
         NEW what \in {"conflict", "noChange", "failed"},
         NEW no \in Nat, no <= head[request[r].doc], Answered(r, what, no),
         UNCHANGED <<head, drafts>>, files' = files \/ files' = files \ {r}
  PROVE  DocumentsOK'
  <1>1. PICK w : /\ IsAnswer(w, request[r], what, no)
                 /\ request' = [request EXCEPT ![r] = w]
    BY AnsweredIs
  <1>2. May(r) /\ request[r].doc \in Doc
    BY DEF May, DocumentsOK, Underway
  <1>3. w.kind \in {"save", "agent"} => w.seen = w.base
    BY <1>1 DEF IsAnswer, DocumentsOK, Sighted
  <1> QED
    BY <1>1, <1>2, <1>3, WriteChanges DEF IsAnswer

LEMMA CommitOK ==
  ASSUME DocumentsOK, NEW r \in Request, Commit(r)
  PROVE  DocumentsOK'
  <1> DEFINE q == request[r]
             d == q.doc
             n == q.base + 1
             draft == [content |-> q.content, operation |-> q.kind, by |-> r, seen |-> q.seen]
  <1> USE DEF DocumentsOK
  <1>1. /\ q \in Write /\ q.state = "committing" /\ d \in Doc /\ r \in files
        /\ q.kind \in {"save", "agent"} => q.seen = q.base
    BY DEF Commit, DocumentsTypeOK, Underway, Sighted
  <1>2. /\ head[d] = q.base /\ Len(drafts[d]) = q.base /\ q.base \in Nat
        /\ head' = [head EXCEPT ![d] = n]
        /\ drafts' = [drafts EXCEPT ![d] = Append(drafts[d], draft)]
        /\ files' = files
    BY <1>1 DEF Commit, Appends, Write
  <1>3. /\ draft \in Draft /\ draft.by = r /\ draft.operation = q.kind /\ draft.seen = q.seen
    BY <1>1 DEF Draft, Write
  <1> HIDE DEF draft
  <1>4. PICK w \in Write : /\ request' = [request EXCEPT ![r] = w]
                           /\ w.state = "answered" /\ w.answer \in {"created", "failed"}
                           /\ w.doc = d /\ w.no <= n /\ w.kind = q.kind /\ w.seen = q.seen
                           /\ w.base = q.base
    <2>1. Answered(r, "created", n) \/ Answered(r, "failed", 0)
      BY DEF Commit
    <2>2. n \in Nat /\ 0 \in Nat
      BY <1>2
    <2> HIDE DEF n
    <2>3. CASE Answered(r, "created", n)
      <3>1. PICK w : IsAnswer(w, q, "created", n) /\ request' = [request EXCEPT ![r] = w]
        BY <2>2, <2>3, AnsweredIs
      <3>2. w.no <= n
        BY <2>2, <3>1 DEF IsAnswer
      <3> QED
        BY <3>1, <3>2 DEF IsAnswer
    <2>4. CASE Answered(r, "failed", 0)
      <3>1. PICK w : IsAnswer(w, q, "failed", 0) /\ request' = [request EXCEPT ![r] = w]
        BY <2>2, <2>4, AnsweredIs
      <3>2. 0 <= n
        BY <1>2 DEF n
      <3> QED
        BY <3>1, <3>2 DEF IsAnswer
    <2> QED
      BY <2>1, <2>3, <2>4
  <1> HIDE DEF q, d, n
  <1>5. /\ head' \in [Doc -> Nat] /\ head'[d] = n /\ \A e \in Doc : head'[e] >= head[e]
        /\ \A e \in Doc \ {d} : head'[e] = head[e] /\ drafts'[e] = drafts[e]
    BY <1>1, <1>2 DEF DocumentsTypeOK, n
  <1>6. /\ drafts' \in [Doc -> Seq(Draft)] /\ Len(drafts'[d]) = n /\ drafts'[d][n] = draft
        /\ DOMAIN drafts'[d] = 1..n /\ DOMAIN drafts[d] = 1..n - 1
        /\ \A k \in 1..n - 1 : drafts'[d][k] = drafts[d][k]
    BY <1>1, <1>2, <1>3 DEF DocumentsTypeOK, n
  <1>7. request'[r] = w /\ \A t \in Request \ {r} : request'[t] = request[t]
    BY <1>4 DEF DocumentsTypeOK
  <1>8. DocumentsTypeOK' /\ HeadIsLast'
    BY <1>1, <1>2, <1>4, <1>5, <1>6 DEF DocumentsTypeOK, HeadIsLast, n
  <1>9. \A e \in Doc : \A k \in DOMAIN drafts'[e] :
          \/ e = d /\ k = n /\ drafts'[e][k] = draft
          \/ k \in DOMAIN drafts[e] /\ drafts'[e][k] = drafts[e][k]
    BY <1>5, <1>6, <1>2 DEF n
  <1>10. Unwritten'
    BY <1>3, <1>4, <1>7, <1>9 DEF Unwritten, May
  <1>11. Underway' /\ Sighted'
    BY <1>1, <1>2, <1>4, <1>5, <1>7 DEF Underway, Sighted, DocumentsTypeOK, Write
  <1>12. FilesKept'
    BY <1>1, <1>2, <1>3, <1>9 DEF FilesKept
  <1>13. NoSilentOverwrite'
    BY <1>1, <1>2, <1>3, <1>9 DEF NoSilentOverwrite, n
  <1> QED
    BY <1>8, <1>10, <1>11, <1>12, <1>13

LEMMA ServiceOK ==
  ASSUME DocumentsOK, NEW r \in Request, Service(r)
  PROVE  DocumentsOK'
  <1> DEFINE q == request[r]
  <1>1. q \in Write /\ (q.state \in {"sent", "committing"} => q.doc \in Doc /\ head[q.doc] \in Nat)
    BY DEF DocumentsOK, DocumentsTypeOK, Underway
  <1>2. CASE Check(r)
    <2>1. q.state = "sent" /\ UNCHANGED <<head, drafts, files>>
      BY <1>2 DEF Check, documents
    <2>2. \/ Answered(r, "conflict", head[q.doc]) \/ Answered(r, "noChange", 0)
          \/ Answered(r, "failed", 0)
      BY <1>2 DEF Check
    <2>3. 0 <= head[q.doc] /\ head[q.doc] <= head[q.doc] /\ 0 \in Nat /\ head[q.doc] \in Nat
      BY <1>1, <2>1
    <2> QED
      BY <2>1, <2>2, <2>3, AnswerOK
  <1>3. CASE Prepare(r)
    <2> DEFINE w == [q EXCEPT !.state = "committing"]
    <2>1. /\ request' = [request EXCEPT ![r] = w] /\ q.state = "sent"
          /\ files' = files \union {r} /\ UNCHANGED <<head, drafts>>
      BY <1>3 DEF Prepare
    <2>2. /\ w \in Write /\ w.state = "committing" /\ w.answer = q.answer /\ w.no = q.no
          /\ w.doc = q.doc /\ w.kind = q.kind /\ w.seen = q.seen /\ w.base = q.base
      BY <1>1 DEF Write
    <2> HIDE DEF w
    <2>3. /\ May(r) /\ w.doc \in Doc /\ w.no <= head[w.doc]
          /\ w.kind \in {"save", "agent"} => w.seen = w.base
      BY <2>1, <2>2 DEF May, DocumentsOK, Underway, Sighted
    <2> QED
      BY <2>1, <2>2, <2>3, WriteChanges
  <1>4. CASE Commit(r)
    BY <1>4, CommitOK
  <1>5. CASE CommitConflict(r)
    <2>1. /\ q.state = "committing" /\ Answered(r, "conflict", head[q.doc])
          /\ files' = files \ {r} /\ UNCHANGED <<head, drafts>>
      BY <1>5 DEF CommitConflict
    <2>2. head[q.doc] <= head[q.doc] /\ head[q.doc] \in Nat
      BY <1>1, <2>1
    <2> QED
      BY <2>1, <2>2, AnswerOK
  <1>6. CASE CommitFails(r)
    <2>1. q.state = "committing" /\ Answered(r, "failed", 0) /\ UNCHANGED <<head, drafts, files>>
      BY <1>6 DEF CommitFails, documents
    <2>2. 0 <= head[q.doc] /\ 0 \in Nat
      BY <1>1, <2>1
    <2> QED
      BY <2>1, <2>2, AnswerOK
  <1> QED
    BY <1>2, <1>3, <1>4, <1>5, <1>6 DEF Service

\* A restore that is sent again, over the head the conflict reported.
LEMMA RetryOK ==
  ASSUME DocumentsOK, NEW r \in Request,
         request[r].kind = "restore", request[r].state = "answered", request[r].answer = "conflict",
         request' = [request EXCEPT ![r] = [request[r] EXCEPT !.state = "sent",
                                              !.base = request[r].no,
                                              !.answer = "none", !.retried = TRUE]],
         UNCHANGED <<head, drafts, files>>
  PROVE  DocumentsOK'
  <1> DEFINE q == request[r]
             w == [q EXCEPT !.state = "sent", !.base = q.no, !.answer = "none", !.retried = TRUE]
  <1>1. q \in Write
    BY DEF DocumentsOK, DocumentsTypeOK
  <1>2. /\ w \in Write /\ w.state = "sent" /\ w.answer = "none" /\ w.no = q.no
        /\ w.doc = q.doc /\ w.kind = q.kind
    BY <1>1 DEF Write
  <1>3. request' = [request EXCEPT ![r] = w]
    OBVIOUS
  <1> HIDE DEF w
  <1>4. May(r) /\ w.doc \in Doc /\ w.no <= head[w.doc]
    BY <1>2 DEF May, DocumentsOK, Underway
  <1> QED
    BY <1>2, <1>3, <1>4, WriteChanges

\* Heads only grow.
LEMMA HeadsGrow ==
  ASSUME DocumentsOK, NEW r \in Request, Service(r)
  PROVE  \A d \in Doc : head'[d] >= head[d]
  <1>1. CASE Commit(r)
    BY <1>1 DEF DocumentsOK, DocumentsTypeOK, Commit, Appends
  <1>2. CASE ~Commit(r)
    <2>1. head' = head
      BY <1>2 DEF Service, Check, Prepare, CommitConflict, CommitFails, documents
    <2> QED
      BY <2>1 DEF DocumentsOK, DocumentsTypeOK
  <1> QED
    BY <1>1, <1>2

-----------------------------------------------------------------------------
(***************************************************************************)
(* The store of the panel.                                                 *)
(***************************************************************************)

LEMMA EditTyped ==
  ASSUME NEW p \in Panel
  PROVE  /\ p.documentId \in Doc \union {None} /\ p.revisionNo \in Nat /\ p.knownHead \in Nat
         /\ p.edit = None \/ p.edit \in EditSession
         /\ p.pendingDiscard \in Doc \union {"none", "close", "discard"} /\ p.pendingNo \in Nat
  BY DEF Panel

LEMMA LargerIs ==
  ASSUME NEW m \in Nat, NEW n \in Nat
  PROVE  /\ Larger(m, n) \in Nat
         /\ \A k \in Nat : m <= k /\ n <= k => Larger(m, n) <= k
  BY DEF Larger

\* Every update of the store makes a good panel of a good one.
LEMMA ClosedGood ==
  ASSUME DocumentsOK, NEW sight, NEW cross PROVE Good(Closed, sight, cross)
  BY NoneIsNoWrite
     DEF Closed, Good, Panel, EditFits, Pending, Known, DocumentsOK, DocumentsTypeOK

LEMMA OpenGood ==
  ASSUME DocumentsOK, NEW sight, NEW cross, NEW p, Good(p, sight, cross),
         NEW d \in Doc, NEW n \in Nat, n <= head[d]
  PROVE  Good(OpenDocument(p, d, n), sight, cross)
  <1> DEFINE q == OpenDocument(p, d, n)
  <1>1. p \in Panel
    BY DEF Good
  <1>2. /\ q \in Panel /\ q.documentId = d /\ q.revisionNo = n /\ q.pendingDiscard = "none"
        /\ q.pendingNo = 0
        /\ q.knownHead = IF p.documentId = d THEN p.knownHead ELSE 0
        /\ q.edit = IF p.edit # None /\ p.edit.doc = d THEN p.edit ELSE None
    BY <1>1, EditTyped DEF OpenDocument, Closed, Panel
  <1> HIDE DEF q
  <1>3. EditFits(q, sight)
    BY <1>2 DEF Good, EditFits
  <1>4. Pending(q)
    <2>1. head \in [Doc -> Nat]
      BY DEF DocumentsOK, DocumentsTypeOK
    <2> QED
      BY <1>2, <2>1 DEF Pending
  <1>5. ~cross => Known(q)
    <2>1. head[d] \in Nat /\ d # None
      BY NoneIsNoWrite DEF DocumentsOK, DocumentsTypeOK
    <2>2. ~cross => q.knownHead <= head[d]
      BY <1>2, <2>1 DEF Good, Known
    <2> QED
      BY <1>2, <2>2 DEF Known
  <1>6. Good(q, sight, cross)
    BY <1>2, <1>3, <1>4, <1>5 DEF Good
  <1> QED
    BY <1>6 DEF q

LEMMA SelectGood ==
  ASSUME NEW sight, NEW cross, NEW p, Good(p, sight, cross), NEW n \in Nat,
         ~cross /\ p.documentId # None => n <= head[p.documentId]
  PROVE  Good(SelectRevision(p, n), sight, cross)
  BY DEF Good, SelectRevision, Panel, EditFits, Pending, Known

LEMMA SyncGood ==
  ASSUME DocumentsOK, NEW sight, NEW cross, NEW p, Good(p, sight, cross), NEW d \in Doc, NEW n \in Nat,
         n <= head[d]
  PROVE  /\ Good(SyncHead(p, d, n), sight, cross)
         /\ SyncHead(p, d, n).documentId = p.documentId
  <1>1. CASE p.documentId # d
    BY <1>1 DEF SyncHead
  <1>2. CASE p.documentId = d
    <2> DEFINE known == Larger(n, p.knownHead)
    <2>1. p \in Panel /\ known \in Nat
      BY EditTyped, LargerIs DEF Good
    <2>2. ~cross => known <= head[d]
      BY <1>2, <2>1, EditTyped, LargerIs, NoneIsNoWrite DEF Good, Known, DocumentsOK, DocumentsTypeOK
    <2>3. SyncHead(p, d, n) = [p EXCEPT !.knownHead = known]
      BY <1>2 DEF SyncHead
    <2> HIDE DEF known
    <2> QED
      BY <1>2, <2>1, <2>2, <2>3 DEF Good, Panel, EditFits, Pending, Known
  <1> QED
    BY <1>1, <1>2

LEMMA PublishedGood ==
  ASSUME DocumentsOK, NEW sight, NEW cross, NEW p, Good(p, sight, cross), NEW d \in Doc, NEW n \in Nat,
         n <= head[d]
  PROVE  Good(RevisionPublished(p, d, n), sight, cross)
  <1>1. CASE p.documentId # d
    BY <1>1 DEF RevisionPublished
  <1>2. CASE p.documentId = d
    <2> DEFINE known == Larger(n, p.knownHead)
    <2>1. p \in Panel /\ known \in Nat
      BY EditTyped, LargerIs DEF Good
    <2>2. ~cross => known <= head[d]
      BY <1>2, <2>1, EditTyped, LargerIs, NoneIsNoWrite DEF Good, Known, DocumentsOK, DocumentsTypeOK
    <2>3. \/ RevisionPublished(p, d, n) = [p EXCEPT !.knownHead = known, !.revisionNo = known]
          \/ RevisionPublished(p, d, n) = [p EXCEPT !.knownHead = known]
      BY <1>2 DEF RevisionPublished
    <2> HIDE DEF known
    <2> QED
      BY <1>2, <2>1, <2>2, <2>3 DEF Good, Panel, EditFits, Pending, Known
  <1> QED
    BY <1>1, <1>2

LEMMA MarkGood ==
  ASSUME DocumentsOK, NEW sight, NEW cross, NEW p, Good(p, sight, cross), NEW n \in Nat,
         ~cross /\ p.documentId # None => n <= head[p.documentId]
  PROVE  Good(MarkConflict(p, n), sight, cross)
  <1>1. CASE p.edit = None
    BY <1>1 DEF MarkConflict
  <1>2. CASE p.edit # None
    <2> DEFINE known == Larger(n, p.knownHead)
               edit == [p.edit EXCEPT !.conflict = n]
    <2>1. p \in Panel /\ known \in Nat /\ p.edit \in EditSession
      BY <1>2, EditTyped, LargerIs DEF Good
    <2>2. ~cross /\ p.documentId # None => known <= head[p.documentId]
      BY <2>1, EditTyped, LargerIs DEF Good, Known, DocumentsOK, DocumentsTypeOK
    <2>3. /\ edit \in EditSession /\ edit.doc = p.edit.doc /\ edit.base = p.edit.base
          /\ edit.text = p.edit.text /\ edit.original = p.edit.original
      BY <2>1 DEF EditSession
    <2>4. MarkConflict(p, n) = [p EXCEPT !.edit = edit, !.knownHead = known]
      BY <1>2, <2>1 DEF MarkConflict, Panel
    <2> HIDE DEF known, edit
    <2> QED
      BY <1>2, <2>1, <2>2, <2>3, <2>4 DEF Good, Panel, EditFits, Pending, Known
  <1> QED
    BY <1>1, <1>2

LEMMA RebaseGood ==
  ASSUME NEW sight, NEW cross, NEW p, Good(p, sight, cross), p.edit # None, NEW n \in Nat
  PROVE  Good(RebaseDraft(p, n), n, cross)
  <1> DEFINE edit == [p.edit EXCEPT !.base = n, !.conflict = 0]
  <1>1. p \in Panel /\ p.edit \in EditSession
    BY EditTyped DEF Good
  <1>2. /\ edit \in EditSession /\ edit.doc = p.edit.doc /\ edit.base = n
        /\ edit.text = p.edit.text /\ edit.original = p.edit.original
    BY <1>1 DEF EditSession
  <1>3. RebaseDraft(p, n) = [p EXCEPT !.tab = "edit", !.edit = edit]
    BY <1>1 DEF RebaseDraft, Panel
  <1> HIDE DEF edit
  <1> QED
    BY <1>1, <1>2, <1>3 DEF Good, Panel, EditFits, Pending, Known

LEMMA DiscardGood ==
  ASSUME NEW sight, NEW cross, NEW p, Good(p, sight, cross)
  PROVE  Good(DiscardDraft(p), sight, cross) /\ DiscardDraft(p).documentId = p.documentId
  BY DEF Good, DiscardDraft, Panel, EditFits, Pending, Known

LEMMA DecidedGood ==
  ASSUME DocumentsOK, NEW sight, NEW cross, NEW p, Good(p, sight, cross)
  PROVE  Good(Decided(p), sight, cross)
  <1> DEFINE q == Decided(p)
  <1>1. p \in Panel
    BY DEF Good
  <1>2. /\ q \in Panel /\ q.documentId = p.documentId /\ q.edit = p.edit
        /\ q.knownHead = p.knownHead /\ q.revisionNo = p.revisionNo
        /\ q.pendingDiscard = "none" /\ q.pendingNo = 0
    BY <1>1 DEF Decided, Panel
  <1> HIDE DEF q
  <1>3. Pending(q)
    <2>1. head \in [Doc -> Nat]
      BY DEF DocumentsOK, DocumentsTypeOK
    <2> QED
      BY <1>2, <2>1 DEF Pending
  <1>4. Good(q, sight, cross)
    BY <1>2, <1>3 DEF Good, EditFits, Known
  <1> QED
    BY <1>4 DEF q

\* What the user is asked about or does at once.
Choice(what, n) ==
  /\ what \in Doc \union {"close", "discard"} /\ n \in Nat
  /\ what \in Doc => n <= head[what]

LEMMA ProceedGood ==
  ASSUME DocumentsOK, NEW sight, NEW cross, NEW p, Good(p, sight, cross), NEW what, NEW n,
         Choice(what, n)
  PROVE  Good(Proceed(p, what, n), sight, cross)
  <1>1. CASE what = "close"
    BY <1>1, ClosedGood DEF Proceed
  <1>2. CASE what = "discard" /\ what # "close"
    BY <1>2, DecidedGood, DiscardGood DEF Proceed
  <1>3. CASE what \in Doc /\ what # "close" /\ what # "discard"
    BY <1>3, OpenGood DEF Proceed, Choice
  <1> QED
    BY <1>1, <1>2, <1>3 DEF Choice

-----------------------------------------------------------------------------
(***************************************************************************)
(* The steps of the panel.                                                 *)
(***************************************************************************)

\* A step to a panel that is good for the heads before it, while heads grow.
LEMMA GoodStep ==
  ASSUME head \in [Doc -> Nat], head' \in [Doc -> Nat], \A d \in Doc : head'[d] >= head[d],
         Good(panel', seen', crossed'), seen' \in Nat, crossed' \in BOOLEAN,
         saving' \in Request \union {None}, typed' \in 0..MaxTyped, lost' \subseteq 1..MaxTyped
  PROVE  PanelOK'
  <1> DEFINE d == panel'.documentId
             e == panel'.pendingDiscard
  <1>1. panel' \in Panel
    BY DEF Good
  <1>2. /\ d \in Doc \union {None} /\ panel'.knownHead \in Nat /\ panel'.revisionNo \in Nat
        /\ panel'.pendingNo \in Nat
    BY <1>1, EditTyped
  <1>3. EditFits(panel, seen)'
    BY DEF EditFits, Good
  <1>4. Pending(panel)'
    <2> SUFFICES ASSUME e \in Doc PROVE panel'.pendingNo <= head'[e]
      BY DEF Pending
    <2>1. panel'.pendingNo <= head[e]
      BY DEF Good, Pending
    <2>2. head[e] \in Nat /\ head'[e] \in Nat /\ head'[e] >= head[e]
      OBVIOUS
    <2> HIDE DEF e
    <2> QED
      BY <1>2, <2>1, <2>2
  <1>5. ~crossed' => Known(panel)'
    <2> SUFFICES ASSUME ~crossed', d # None
                 PROVE  panel'.knownHead <= head'[d] /\ panel'.revisionNo <= head'[d]
      BY DEF Known
    <2>1. panel'.knownHead <= head[d] /\ panel'.revisionNo <= head[d]
      BY DEF Good, Known
    <2>2. head[d] \in Nat /\ head'[d] \in Nat /\ head'[d] >= head[d]
      BY <1>2
    <2> HIDE DEF d
    <2> QED
      BY <1>2, <2>1, <2>2
  <1> QED
    BY <1>1, <1>3, <1>4, <1>5 DEF PanelOK, Good

\* An update of the store while the documents stand still.
LEMMA SetStep ==
  ASSUME IInv, UNCHANGED head, NEW p, Set(p), Good(p, seen', crossed'),
         seen' \in Nat, crossed' \in BOOLEAN, typed' \in 0..MaxTyped, lost' \subseteq 1..MaxTyped
  PROVE  PanelOK'
  <1>1. panel' = p /\ saving' \in Request \union {None}
    BY DEF Set, IInv, PanelOK
  <1>2. head \in [Doc -> Nat] /\ \A d \in Doc : head[d] \in Nat
    BY DEF IInv, DocumentsOK, DocumentsTypeOK
  <1>3. head' \in [Doc -> Nat] /\ \A d \in Doc : head'[d] >= head[d]
    BY <1>2
  <1> QED
    BY <1>1, <1>2, <1>3, GoodStep

\* One that leaves the rest of the client alone.
LEMMA QuietStep ==
  ASSUME IInv, UNCHANGED <<head, typed, seen, crossed, lost>>,
         NEW p, Set(p), Good(p, seen, crossed)
  PROVE  PanelOK'
  <1>1. Good(p, seen', crossed')
    OBVIOUS
  <1>2. seen' \in Nat /\ crossed' \in BOOLEAN /\ typed' \in 0..MaxTyped /\ lost' \subseteq 1..MaxTyped
    BY DEF IInv, PanelOK
  <1> QED
    BY <1>1, <1>2, SetStep

LEMMA GuardGood ==
  ASSUME IInv, NEW what, NEW n, Choice(what, n), GuardUnsaved(what, n)
  PROVE  \E p : Set(p) /\ Good(p, seen, crossed)
  <1>1. DocumentsOK /\ Good(panel, seen, crossed) /\ panel \in Panel
    BY DEF IInv, PanelOK, Good
  <1>2. CASE IsDirty(panel)
    <2> DEFINE q == [panel EXCEPT !.pendingDiscard = what, !.pendingNo = n]
    <2>1. Set(q)
      BY <1>2 DEF GuardUnsaved
    <2>2. /\ q \in Panel /\ q.documentId = panel.documentId /\ q.edit = panel.edit
          /\ q.knownHead = panel.knownHead /\ q.revisionNo = panel.revisionNo
          /\ q.pendingDiscard = what /\ q.pendingNo = n
      BY <1>1 DEF Choice, Panel
    <2> HIDE DEF q
    <2>3. Good(q, seen, crossed)
      BY <1>1, <2>2 DEF Good, EditFits, Known, Pending, Choice
    <2> QED
      BY <2>1, <2>3
  <1>3. CASE ~IsDirty(panel)
    <2>1. Set(Proceed(panel, what, n))
      BY <1>3 DEF GuardUnsaved
    <2>2. Good(Proceed(panel, what, n), seen, crossed)
      BY <1>1, ProceedGood
    <2> QED
      BY <2>1, <2>2
  <1> QED
    BY <1>2, <1>3

LEMMA UserStepOK ==
  ASSUME IInv, UserStep
  PROVE  PanelOK'
  <1> DEFINE quiet == UNCHANGED <<typed, seen, crossed, lost>>
             doc == panel.documentId
  <1>1. DocumentsOK /\ Good(panel, seen, crossed) /\ panel \in Panel /\ UNCHANGED head
    BY DEF IInv, PanelOK, Good, UserStep
  <1>2. /\ head \in [Doc -> Nat] /\ \A d \in Doc : head[d] = Len(drafts[d])
        /\ drafts \in [Doc -> Seq(Draft)]
    BY <1>1 DEF DocumentsOK, DocumentsTypeOK, HeadIsLast
  <1>3. ASSUME NEW n \in 1..Cardinality(Request) + 1, ViewRevision(n) PROVE PanelOK'
    <2>1. quiet /\ doc # None /\ n <= head[doc] /\ Set(SelectRevision(panel, n)) /\ n \in Nat
      BY <1>3 DEF ViewRevision, OnScreen
    <2>2. Good(SelectRevision(panel, n), seen, crossed)
      BY <1>1, <2>1, SelectGood
    <2> QED
      BY <1>1, <2>1, <2>2, QuietStep
  <1>4. ASSUME NEW n \in 1..Cardinality(Request) + 1, NEW d \in Doc, RequestOpenDocument(d, n)
        PROVE  PanelOK'
    <2>1. quiet /\ n \in Nat /\ n \in 1..Len(drafts[d])
      BY <1>4 DEF RequestOpenDocument, Card
    <2>2. n <= head[d]
      BY <1>2, <2>1
    <2>3. CASE Set(OpenDocument(panel, d, n))
      <3>1. Good(OpenDocument(panel, d, n), seen, crossed)
        BY <1>1, <2>1, <2>2, OpenGood
      <3> QED
        BY <1>1, <2>1, <2>3, <3>1, QuietStep
    <2>4. CASE GuardUnsaved(d, n)
      <3>1. Choice(d, n)
        BY <2>1, <2>2 DEF Choice
      <3> QED
        BY <1>1, <2>1, <2>4, <3>1, GuardGood, QuietStep
    <2> QED
      BY <1>4, <2>3, <2>4 DEF RequestOpenDocument
  <1>5. CASE RequestClose \/ RequestDiscardDraft
    <2>1. quiet /\ (GuardUnsaved("close", 0) \/ GuardUnsaved("discard", 0))
      BY <1>5 DEF RequestClose, RequestDiscardDraft
    <2>2. Choice("close", 0) /\ Choice("discard", 0)
      BY <1>2 DEF Choice
    <2> QED
      BY <1>1, <2>1, <2>2, GuardGood, QuietStep
  <1>6. CASE ConfirmDiscard
    <2> DEFINE what == panel.pendingDiscard
               n == panel.pendingNo
    <2>1. quiet /\ what # "none" /\ Set(Proceed(panel, what, n))
      BY <1>6 DEF ConfirmDiscard, NoDialog
    <2>2. Choice(what, n)
      BY <1>1, <2>1, EditTyped DEF Choice, Good, Pending
    <2> HIDE DEF what, n
    <2>3. Good(Proceed(panel, what, n), seen, crossed)
      BY <1>1, <2>2, ProceedGood
    <2> QED
      BY <1>1, <2>1, <2>3, QuietStep
  <1>7. CASE KeepEditing
    <2>1. quiet /\ Set(Decided(panel))
      BY <1>7 DEF KeepEditing
    <2> QED
      BY <1>1, <2>1, DecidedGood, QuietStep
  <1>8. CASE EditDraft
    <2> DEFINE n == Viewed(panel)
               content == drafts[doc][n].content
               started == [doc |-> doc, base |-> n, original |-> content, text |-> content,
                           conflict |-> 0]
               resumed == [panel EXCEPT !.tab = "edit"]
               opened == [panel EXCEPT !.tab = "edit", !.edit = started]
    <2>1. /\ doc \in Doc /\ n \in 1..head[doc] /\ UNCHANGED <<typed, crossed, lost>>
          /\ (Set(resumed) /\ UNCHANGED seen) \/ (Set(opened) /\ seen' = n)
      BY <1>1, <1>8, EditTyped DEF EditDraft, OnScreen
    <2>2. n \in Nat /\ content \in Content
      <3>1. drafts[doc] \in Seq(Draft) /\ head[doc] = Len(drafts[doc]) /\ n \in 1..head[doc]
        BY <1>2, <2>1
      <3> HIDE DEF n, doc
      <3>2. n \in Nat /\ drafts[doc][n] \in Draft
        BY <3>1
      <3> QED
        BY <3>2 DEF Draft
    <2> HIDE DEF n, content
    <2>3. CASE Set(resumed) /\ UNCHANGED seen
      <3>1. Good(resumed, seen, crossed)
        BY <1>1 DEF Good, Panel, EditFits, Pending, Known
      <3> QED
        BY <1>1, <2>1, <2>3, <3>1, QuietStep
    <2>4. CASE Set(opened) /\ seen' = n
      <3>1. /\ started \in EditSession /\ started.doc = doc /\ started.base = n
            /\ started.text = started.original
        BY <2>1, <2>2 DEF EditSession
      <3> HIDE DEF started
      <3>2. Good(opened, n, crossed)
        BY <1>1, <3>1 DEF Good, Panel, EditFits, Pending, Known
      <3>3. /\ Good(opened, seen', crossed') /\ seen' \in Nat /\ crossed' \in BOOLEAN
            /\ typed' \in 0..MaxTyped /\ lost' \subseteq 1..MaxTyped
        BY <2>1, <2>2, <2>4, <3>2 DEF IInv, PanelOK
      <3> HIDE DEF opened
      <3> QED
        BY <1>1, <2>4, <3>3, SetStep
    <2> QED
      BY <2>1, <2>3, <2>4
  <1>9. CASE Type
    <2> DEFINE edit == [panel.edit EXCEPT !.text = typed + 1]
               q == [panel EXCEPT !.edit = edit]
    <2>1. /\ panel.edit # None /\ typed' = typed + 1 /\ typed < MaxTyped
          /\ UNCHANGED <<seen, crossed, lost>>
          /\ typed \in 0..MaxTyped
      BY <1>9 DEF Type, Editing, EditsOpenDocument, IInv, PanelOK
    <2>2. panel.edit \in EditSession
      BY <1>1, <2>1, EditTyped
    <2>3. Set(q)
      BY <1>1, <1>9 DEF Type, Panel
    <2>4. typed + 1 \in 1..MaxTyped /\ typed + 1 \in Content
      BY <2>1, MaxTypedType DEF Content
    <2>5. /\ edit \in EditSession /\ edit.doc = panel.edit.doc /\ edit.base = panel.edit.base
          /\ edit.text \in 1..MaxTyped
      BY <2>2, <2>4 DEF EditSession
    <2> HIDE DEF edit
    <2>6. Good(q, seen, crossed)
      BY <1>1, <2>1, <2>5 DEF Good, Panel, EditFits, Pending, Known
    <2>7. /\ Good(q, seen', crossed') /\ seen' \in Nat /\ crossed' \in BOOLEAN
          /\ typed' \in 0..MaxTyped /\ lost' \subseteq 1..MaxTyped
      BY <2>1, <2>4, <2>6 DEF IInv, PanelOK
    <2> HIDE DEF q
    <2> QED
      BY <1>1, <2>3, <2>7, SetStep
  <1>10. CASE ApplyOnLatest
    <2> DEFINE n == panel.edit.conflict
               q == RebaseDraft(panel, n)
    <2>1. /\ panel.edit # None /\ Set(q) /\ seen' = n /\ UNCHANGED <<typed, crossed, lost>>
      BY <1>10 DEF ApplyOnLatest, Editing, EditsOpenDocument
    <2>2. n \in Nat
      BY <1>1, <2>1, EditTyped DEF EditSession
    <2>3. Good(q, n, crossed)
      BY <1>1, <2>1, <2>2, RebaseGood
    <2>4. /\ Good(q, seen', crossed') /\ seen' \in Nat /\ crossed' \in BOOLEAN
          /\ typed' \in 0..MaxTyped /\ lost' \subseteq 1..MaxTyped
      BY <2>1, <2>2, <2>3 DEF IInv, PanelOK
    <2> HIDE DEF q
    <2> QED
      BY <1>1, <2>1, <2>4, SetStep
  <1> QED
    BY <1>3, <1>4, <1>5, <1>6, <1>7, <1>8, <1>9, <1>10 DEF UserStep

\* A step that leaves the documents, the store and what the user saw alone.
LEMMA StillStep ==
  ASSUME IInv, UNCHANGED <<head, panel, typed, seen, crossed, lost>>,
         saving' \in Request \union {None}
  PROVE  PanelOK'
  BY DEF IInv, PanelOK, Good, EditFits, Pending, Known

LEMMA FetchedOK ==
  ASSUME IInv, Fetched
  PROVE  IInv'
  <1> DEFINE d == panel.documentId
  <1>1. DocumentsOK /\ Good(panel, seen, crossed)
    BY DEF IInv, PanelOK
  <1>2. head \in [Doc -> Nat] /\ d \in Doc
    BY <1>1, EditTyped DEF DocumentsOK, DocumentsTypeOK, Good, Fetched
  <1>3. PICK n \in 1..head[d] : panel' = SyncHead(panel, d, n)
    BY DEF Fetched
  <1>4. UNCHANGED <<head, drafts, files, request, saving, typed, seen, crossed, lost>>
    BY DEF Fetched
  <1>5. n \in Nat /\ n <= head[d]
    BY <1>2, <1>3
  <1> HIDE DEF d
  <1>6. Good(panel', seen, crossed)
    BY <1>1, <1>2, <1>3, <1>5, SyncGood
  <1>7. /\ Good(panel', seen', crossed') /\ head' \in [Doc -> Nat]
        /\ \A e \in Doc : head'[e] >= head[e]
    BY <1>2, <1>4, <1>6
  <1>8. PanelOK'
    BY <1>2, <1>4, <1>7, GoodStep DEF IInv, PanelOK
  <1>9. DocumentsOK'
    BY <1>1, <1>4 DEF DocumentsOK, DocumentsTypeOK, HeadIsLast, Unwritten, May, Underway, Sighted,
                      FilesKept, NoSilentOverwrite
  <1> QED
    BY <1>8, <1>9 DEF IInv

\* The edit that is saved: its document, base and text.
LEMMA EditIs ==
  ASSUME NEW sight, NEW cross, NEW p, Good(p, sight, cross), p.edit # None
  PROVE  /\ p.documentId \in Doc \union {None} /\ p.edit.base = sight
         /\ p.edit.text \in Content /\ p.edit.conflict \in Nat
  BY EditTyped DEF Good, EditFits, EditSession

LEMMA SaveOK ==
  ASSUME IInv, NEW r \in Request, Save(r) \/ Overwrite(r)
  PROVE  IInv'
  <1> DEFINE d == panel.documentId
             n == panel.edit.conflict
  <1>1. /\ DocumentsOK /\ Good(panel, seen, crossed) /\ seen \in Nat
        /\ crossed \in BOOLEAN /\ typed \in 0..MaxTyped /\ lost \subseteq 1..MaxTyped
    BY DEF IInv, PanelOK
  <1>2. /\ panel.edit # None /\ d # None /\ saving' = r
        /\ UNCHANGED <<head, drafts, files, typed, crossed, lost>>
    BY DEF Save, Overwrite, Editing, EditsOpenDocument, OnScreen
  <1>3. d \in Doc
    BY <1>1, <1>2, EditIs
  <1>4. CASE Save(r)
    <2>1. /\ Send(r, "save", d, panel.edit.base, panel.edit.text, seen')
          /\ UNCHANGED <<panel, seen>>
      BY <1>4 DEF Save, SendSave
    <2>2. panel.edit.base = seen' /\ panel.edit.base \in Nat /\ panel.edit.text \in Content
          /\ seen' \in Nat /\ "save" \in Kind
      BY <1>1, <1>2, <2>1, EditIs DEF Kind
    <2>3. DocumentsOK'
      BY <1>1, <1>2, <1>3, <2>1, <2>2, SendOK
    <2>4. PanelOK'
      BY <1>2, <2>1, StillStep
    <2> QED
      BY <2>3, <2>4 DEF IInv
  <1>5. CASE Overwrite(r)
    <2> DEFINE q == RebaseDraft(panel, n)
    <2>1. /\ Send(r, "save", d, q.edit.base, q.edit.text, seen')
          /\ panel' = q /\ seen' = n
      BY <1>5 DEF Overwrite, SendSave
    <2>2. n \in Nat /\ panel.edit.text \in Content /\ panel.edit \in EditSession
      BY <1>1, <1>2, EditIs, EditTyped DEF Good
    <2>3. Good(q, n, crossed)
      BY <1>1, <1>2, <2>2, RebaseGood
    <2>4. q.edit.base = n /\ q.edit.text = panel.edit.text
      <3>1. q.edit = [panel.edit EXCEPT !.base = n, !.conflict = 0]
        BY <1>1 DEF RebaseDraft, Good, Panel
      <3> QED
        BY <2>2, <3>1 DEF EditSession
    <2> HIDE DEF q
    <2>5. q.edit.base = n /\ q.edit.text \in Content /\ "save" \in Kind
      BY <2>2, <2>4 DEF Kind
    <2>6. DocumentsOK'
      BY <1>1, <1>2, <1>3, <2>1, <2>2, <2>4, <2>5, SendOK
    <2>7. head \in [Doc -> Nat] /\ \A e \in Doc : head[e] \in Nat
      BY <1>1 DEF DocumentsOK, DocumentsTypeOK
    <2>8. Good(panel', seen', crossed')
      BY <1>2, <2>1, <2>3
    <2>9. \A e \in Doc : head'[e] >= head[e]
      BY <1>2, <2>7
    <2>10. PanelOK'
      BY <1>1, <1>2, <2>1, <2>2, <2>7, <2>8, <2>9, GoodStep
    <2> QED
      BY <2>6, <2>10 DEF IInv
  <1> QED
    BY <1>4, <1>5

LEMMA RestoreOK ==
  ASSUME IInv, NEW r \in Request, Restore(r)
  PROVE  IInv'
  <1> DEFINE d == panel.documentId
             m == Viewed(panel)
             content == drafts[d][m].content
  <1>1. DocumentsOK /\ Good(panel, seen, crossed)
    BY DEF IInv, PanelOK
  <1>2. /\ d # None /\ m \in 1..head[d] /\ UNCHANGED <<head, drafts, files, client>>
        /\ \E n \in m + 1 .. head[d] : Send(r, "restore", d, n, content, m)
    BY DEF Restore, OnScreen
  <1>3. d \in Doc
    BY <1>1, <1>2, EditTyped DEF Good
  <1>4. drafts[d] \in Seq(Draft) /\ head[d] = Len(drafts[d])
    BY <1>1, <1>3 DEF DocumentsOK, DocumentsTypeOK, HeadIsLast
  <1> HIDE DEF d, m
  <1>5. m \in Nat /\ drafts[d][m] \in Draft
    BY <1>2, <1>4
  <1>6. content \in Content /\ "restore" \in Kind
    BY <1>5 DEF Draft, Kind
  <1> HIDE DEF content
  <1>7. PICK n \in m + 1 .. head[d] : Send(r, "restore", d, n, content, m)
    BY <1>2
  <1>8. n \in Nat
    BY <1>4, <1>5, <1>7
  <1>9. DocumentsOK'
    BY <1>1, <1>2, <1>3, <1>5, <1>6, <1>7, <1>8, SendOK
  <1>10. PanelOK'
    BY <1>2, StillStep DEF client, IInv, PanelOK
  <1> QED
    BY <1>9, <1>10 DEF IInv

LEMMA AgentWritesOK ==
  ASSUME IInv, NEW r \in Request, AgentWrites(r)
  PROVE  IInv'
  <1>1. PICK d \in Doc : Send(r, "agent", d, head[d], r, head[d])
    BY DEF AgentWrites
  <1>2. DocumentsOK /\ UNCHANGED <<head, drafts, files, client>>
    BY DEF AgentWrites, IInv
  <1>3. head[d] \in Nat /\ r \in Content /\ "agent" \in Kind
    BY <1>2 DEF DocumentsOK, DocumentsTypeOK, Content, Kind
  <1>4. DocumentsOK'
    BY <1>1, <1>2, <1>3, SendOK
  <1>5. PanelOK'
    BY <1>2, StillStep DEF client, IInv, PanelOK
  <1> QED
    BY <1>4, <1>5 DEF IInv

LEMMA ServiceStepOK ==
  ASSUME IInv, NEW r \in Request, Service(r), UNCHANGED client
  PROVE  IInv'
  <1>1. DocumentsOK /\ DocumentsOK' /\ \A d \in Doc : head'[d] >= head[d]
    BY ServiceOK, HeadsGrow DEF IInv
  <1>2. head \in [Doc -> Nat] /\ head' \in [Doc -> Nat]
    BY <1>1 DEF DocumentsOK, DocumentsTypeOK
  <1>3. UNCHANGED <<panel, saving, typed, seen, crossed, lost>>
    BY DEF client
  <1>4. Good(panel', seen', crossed')
    BY <1>3 DEF IInv, PanelOK
  <1>5. PanelOK'
    BY <1>1, <1>2, <1>3, <1>4, GoodStep DEF IInv, PanelOK
  <1> QED
    BY <1>1, <1>5 DEF IInv

\* The answer of a write names a draft of its document.
LEMMA AnswerNames ==
  ASSUME IInv, NEW r \in Request, request[r].state = "answered"
  PROVE  /\ request[r].doc \in Doc /\ request[r].no \in Nat
         /\ request[r].no <= head[request[r].doc] /\ request[r].content \in Content
  BY DEF IInv, DocumentsOK, Underway, DocumentsTypeOK, Write

LEMMA CrossedGood ==
  ASSUME NEW sight, NEW cross, NEW p, Good(p, sight, cross), NEW more \in BOOLEAN
  PROVE  Good(p, sight, cross \/ more)
  BY DEF Good

LEMMA SaveAnsweredOK ==
  ASSUME IInv, NEW r \in Request, SaveAnswered(r)
  PROVE  IInv'
  <1> DEFINE w == request[r]
             d == w.doc
             n == w.no
  <1>1. /\ DocumentsOK /\ Good(panel, seen, crossed) /\ seen \in Nat /\ saving \in Request \union {None}
        /\ crossed \in BOOLEAN /\ typed \in 0..MaxTyped /\ lost \subseteq 1..MaxTyped
    BY DEF IInv, PanelOK
  <1>2. /\ w.state = "answered" /\ UNCHANGED <<head, drafts, files, typed, seen>>
        /\ IF w.answer = "created" THEN SaveCreated(r) ELSE SaveRefused(r)
    BY DEF SaveAnswered
  <1>3. d \in Doc /\ n \in Nat /\ n <= head[d]
    BY <1>2, AnswerNames
  <1>4. Over(r)
    BY <1>2 DEF SaveCreated, SaveRefused
  <1>5. DocumentsOK'
    BY <1>1, <1>2, <1>4, OverOK
  <1>6. CASE SaveCreated(r)
    <2> DEFINE synced == SyncHead(panel, d, n)
               closed == DiscardDraft(synced)
               shown == SelectRevision(closed, n)
    <2>1. /\ Set(shown) /\ crossed' = (crossed \/ Foreign(r))
          /\ lost' = IF IsDirty(panel) /\ panel.edit.text # w.content
                     THEN lost \union {panel.edit.text} ELSE lost
      BY <1>6 DEF SaveCreated
    <2>2. crossed' \in BOOLEAN /\ Good(panel, seen, crossed')
      BY <1>1, <2>1, CrossedGood DEF Foreign
    <2>3. Good(synced, seen, crossed') /\ synced.documentId = panel.documentId
      BY <1>1, <1>3, <2>2, SyncGood
    <2> HIDE DEF synced
    <2>4. Good(closed, seen, crossed') /\ closed.documentId = panel.documentId
      BY <2>3, DiscardGood
    <2> HIDE DEF closed
    <2>5. ~crossed' => closed.documentId = d
      BY <2>1, <2>4 DEF Foreign
    <2>6. Good(shown, seen, crossed')
      BY <1>3, <2>4, <2>5, SelectGood
    <2> HIDE DEF shown
    <2>7. lost' \subseteq 1..MaxTyped
      <3>1. IsDirty(panel) => panel.edit.text \in 1..MaxTyped
        BY <1>1 DEF IsDirty, Good, EditFits
      <3> QED
        BY <1>1, <2>1, <3>1
    <2>8. Good(shown, seen', crossed') /\ seen' \in Nat /\ typed' \in 0..MaxTyped
      BY <1>1, <1>2, <2>6
    <2>9. PanelOK'
      BY <1>2, <2>1, <2>2, <2>7, <2>8, SetStep
    <2> QED
      BY <1>5, <2>9 DEF IInv
  <1>7. CASE SaveRefused(r)
    <2>1. /\ panel' = IF w.answer = "conflict" THEN MarkConflict(panel, n) ELSE panel
          /\ saving' = IF saving = r THEN None ELSE saving
          /\ crossed' = (crossed \/ (w.answer = "conflict" /\ Foreign(r)))
          /\ UNCHANGED lost
      BY <1>7 DEF SaveRefused
    <2>2. crossed' \in BOOLEAN /\ Good(panel, seen, crossed')
      BY <1>1, <2>1, CrossedGood DEF Foreign
    <2>3. Good(panel', seen, crossed')
      <3>1. CASE w.answer = "conflict"
        <4>1. ~crossed' => panel.documentId = d
          BY <2>1, <3>1 DEF Foreign
        <4>2. Good(MarkConflict(panel, n), seen, crossed')
          BY <1>1, <1>3, <2>2, <4>1, MarkGood
        <4> QED
          BY <2>1, <3>1, <4>2
      <3> QED
        BY <2>1, <2>2, <3>1
    <2>4. head \in [Doc -> Nat] /\ \A e \in Doc : head[e] \in Nat
      BY <1>1 DEF DocumentsOK, DocumentsTypeOK
    <2>5. /\ \A e \in Doc : head'[e] >= head[e]
          /\ head' \in [Doc -> Nat] /\ Good(panel', seen', crossed')
      BY <1>2, <2>3, <2>4
    <2>6. saving' \in Request \union {None}
      BY <1>1, <2>1
    <2>7. PanelOK'
      BY <1>1, <1>2, <2>1, <2>2, <2>4, <2>5, <2>6, GoodStep
    <2> QED
      BY <1>5, <2>7 DEF IInv
  <1> QED
    BY <1>2, <1>6, <1>7

LEMMA RestoreAnsweredOK ==
  ASSUME IInv, NEW r \in Request, RestoreAnswered(r)
  PROVE  IInv'
  <1> DEFINE w == request[r]
             d == w.doc
             n == w.no
             retried == [w EXCEPT !.state = "sent", !.base = n, !.answer = "none", !.retried = TRUE]
  <1>1. /\ DocumentsOK /\ Good(panel, seen, crossed) /\ seen \in Nat /\ saving \in Request \union {None}
        /\ crossed \in BOOLEAN /\ typed \in 0..MaxTyped /\ lost \subseteq 1..MaxTyped
    BY DEF IInv, PanelOK
  <1>2. /\ w.kind = "restore" /\ w.state = "answered"
        /\ UNCHANGED <<head, drafts, files, typed, seen, lost>>
    BY DEF RestoreAnswered
  <1>3. d \in Doc /\ n \in Nat /\ n <= head[d]
    BY <1>2, AnswerNames
  <1>4. CASE /\ w.answer = "conflict" /\ request' = [request EXCEPT ![r] = retried]
             /\ UNCHANGED <<panel, saving, crossed>>
    <2>1. DocumentsOK'
      BY <1>1, <1>2, <1>4, RetryOK
    <2>2. PanelOK'
      BY <1>1, <1>2, <1>4, StillStep
    <2> QED
      BY <2>1, <2>2 DEF IInv
  <1>5. CASE /\ Over(r) /\ Set(SelectRevision(SyncHead(panel, d, n), n))
             /\ crossed' = (crossed \/ Foreign(r))
    <2> DEFINE synced == SyncHead(panel, d, n)
               shown == SelectRevision(synced, n)
    <2>1. DocumentsOK'
      BY <1>1, <1>2, <1>5, OverOK
    <2>2. crossed' \in BOOLEAN /\ Good(panel, seen, crossed')
      BY <1>1, <1>5, CrossedGood DEF Foreign
    <2>3. Good(synced, seen, crossed') /\ synced.documentId = panel.documentId
      BY <1>1, <1>3, <2>2, SyncGood
    <2>4. Set(shown)
      BY <1>5
    <2> HIDE DEF synced
    <2>5. ~crossed' => synced.documentId = d
      BY <1>5, <2>3 DEF Foreign
    <2>6. Good(shown, seen, crossed')
      BY <1>3, <2>3, <2>5, SelectGood
    <2> HIDE DEF shown
    <2>7. /\ Good(shown, seen', crossed') /\ seen' \in Nat /\ typed' \in 0..MaxTyped
          /\ lost' \subseteq 1..MaxTyped
      BY <1>1, <1>2, <2>6
    <2>8. PanelOK'
      BY <1>2, <2>2, <2>4, <2>7, SetStep
    <2> QED
      BY <2>1, <2>8 DEF IInv
  <1>6. CASE Over(r) /\ UNCHANGED <<panel, saving, crossed>>
    <2>1. DocumentsOK'
      BY <1>1, <1>2, <1>6, OverOK
    <2>2. PanelOK'
      BY <1>1, <1>2, <1>6, StillStep
    <2> QED
      BY <2>1, <2>2 DEF IInv
  <1> QED
    BY <1>4, <1>5, <1>6 DEF RestoreAnswered

LEMMA AgentAnsweredOK ==
  ASSUME IInv, NEW r \in Request, AgentAnswered(r)
  PROVE  IInv'
  <1> DEFINE w == request[r]
             q == RevisionPublished(panel, w.doc, w.no)
  <1>1. /\ DocumentsOK /\ Good(panel, seen, crossed) /\ saving \in Request \union {None}
    BY DEF IInv, PanelOK
  <1>2. /\ w.state = "answered" /\ Over(r)
        /\ Set(q) \/ UNCHANGED <<panel, saving>>
        /\ UNCHANGED <<head, drafts, files, typed, seen, crossed, lost>>
    BY DEF AgentAnswered
  <1>3. w.doc \in Doc /\ w.no \in Nat /\ w.no <= head[w.doc]
    BY <1>2, AnswerNames
  <1>4. DocumentsOK'
    BY <1>1, <1>2, OverOK
  <1>5. CASE Set(q)
    <2>1. Good(q, seen, crossed)
      BY <1>1, <1>3, PublishedGood
    <2>2. PanelOK'
      BY <1>2, <1>5, <2>1, QuietStep
    <2> QED
      BY <1>4, <2>2 DEF IInv
  <1>6. CASE UNCHANGED <<panel, saving>>
    <2>1. PanelOK'
      BY <1>1, <1>2, <1>6, StillStep
    <2> QED
      BY <1>4, <2>1 DEF IInv
  <1> QED
    BY <1>2, <1>5, <1>6

-----------------------------------------------------------------------------
(***************************************************************************)
(* No step loses the user's text.                                          *)
(***************************************************************************)

\* The edit of the panel is there after the step with the text it had.
Kept == panel'.edit # None /\ panel'.edit.text = panel.edit.text

\* What takes a text away: typing over it, a confirmed discard, a save that arrives.
Excused == \/ typed' # typed
           \/ panel.pendingDiscard # "none" /\ panel'.pendingDiscard = "none"
           \/ \E r \in Request : SaveArrives(r)

\* What is no edit of the text leaves it alone.
LEMMA EditStays ==
  ASSUME NEW p \in Panel, NEW d, NEW n, NEW what
  PROVE  /\ SelectRevision(p, n).edit = p.edit
         /\ SyncHead(p, d, n).edit = p.edit
         /\ RevisionPublished(p, d, n).edit = p.edit
         /\ Decided(p).edit = p.edit
         /\ [p EXCEPT !.pendingDiscard = what, !.pendingNo = n].edit = p.edit
         /\ [p EXCEPT !.tab = "edit"].edit = p.edit
  BY DEF SelectRevision, SyncHead, RevisionPublished, Decided, Panel

LEMMA RebaseKeeps ==
  ASSUME NEW p \in Panel, p.edit # None, NEW n \in Nat
  PROVE  RebaseDraft(p, n).edit # None /\ RebaseDraft(p, n).edit.text = p.edit.text
  <1>1. p.edit \in EditSession
    BY EditTyped
  <1> DEFINE edit == [p.edit EXCEPT !.base = n, !.conflict = 0]
  <1>2. RebaseDraft(p, n).edit = edit
    BY DEF RebaseDraft, Panel
  <1>3. edit \in EditSession /\ edit.text = p.edit.text
    BY <1>1 DEF EditSession
  <1> HIDE DEF edit
  <1> QED
    BY <1>2, <1>3, NoneIsNoEdit

LEMMA MarkKeeps ==
  ASSUME NEW p \in Panel, p.edit # None, NEW n \in Nat
  PROVE  MarkConflict(p, n).edit # None /\ MarkConflict(p, n).edit.text = p.edit.text
  <1>1. p.edit \in EditSession
    BY EditTyped
  <1>2. MarkConflict(p, n).edit = [p.edit EXCEPT !.conflict = n]
    BY DEF MarkConflict, Panel
  <1>3. /\ MarkConflict(p, n).edit \in EditSession
        /\ MarkConflict(p, n).edit.text = p.edit.text
    BY <1>1, <1>2 DEF EditSession
  <1> QED
    BY <1>3, NoneIsNoEdit

\* Unsaved text is held for the dialog.
LEMMA GuardKeeps ==
  ASSUME panel \in Panel, IsDirty(panel), NEW what, NEW n, GuardUnsaved(what, n)
  PROVE  Kept
  <1>1. panel' = [panel EXCEPT !.pendingDiscard = what, !.pendingNo = n]
    BY DEF GuardUnsaved, Set
  <1> QED
    BY <1>1, EditStays DEF Kept, IsDirty

LEMMA UserKeeps ==
  ASSUME IInv, UserStep, IsDirty(panel)
  PROVE  Kept \/ Excused
  <1> DEFINE doc == panel.documentId
             n == panel.edit.conflict
  <1>1. /\ panel \in Panel /\ panel.edit # None /\ panel.edit.doc = doc
        /\ panel.edit \in EditSession
    BY EditTyped DEF IInv, PanelOK, Good, EditFits, IsDirty
  <1>2. ASSUME NEW m \in 1..Cardinality(Request) + 1, ViewRevision(m) PROVE Kept
    BY <1>1, <1>2, EditStays DEF ViewRevision, Set, Kept
  <1>3. ASSUME NEW m \in 1..Cardinality(Request) + 1, NEW d \in Doc, RequestOpenDocument(d, m)
        PROVE  Kept
    <2>1. CASE panel.edit.doc = d
      <3>1. panel' = OpenDocument(panel, d, m)
        BY <1>1, <1>3, <2>1 DEF RequestOpenDocument, Set
      <3>2. OpenDocument(panel, d, m).edit = panel.edit
        BY <1>1, <2>1 DEF OpenDocument, Closed
      <3> QED
        BY <1>1, <3>1, <3>2 DEF Kept
    <2>2. CASE panel.edit.doc # d
      BY <1>1, <1>3, <2>2, GuardKeeps DEF RequestOpenDocument
    <2> QED
      BY <2>1, <2>2
  <1>4. CASE RequestClose \/ RequestDiscardDraft
    BY <1>1, <1>4, GuardKeeps DEF RequestClose, RequestDiscardDraft
  <1>5. CASE ConfirmDiscard
    <2>1. /\ panel.pendingDiscard # "none"
          /\ panel' = Proceed(panel, panel.pendingDiscard, panel.pendingNo)
      BY <1>5 DEF ConfirmDiscard, NoDialog, Set
    <2>2. ASSUME NEW what, NEW m PROVE Proceed(panel, what, m).pendingDiscard = "none"
      BY <1>1 DEF Proceed, Closed, DiscardDraft, Decided, OpenDocument, Panel
    <2> QED
      BY <2>1, <2>2 DEF Excused
  <1>6. CASE KeepEditing
    BY <1>1, <1>6, EditStays DEF KeepEditing, Set, Kept
  <1>7. CASE EditDraft
    <2>1. panel' = [panel EXCEPT !.tab = "edit"]
      BY <1>1, <1>7 DEF EditDraft, EditsOpenDocument, Set
    <2> QED
      BY <1>1, <2>1, EditStays DEF Kept
  <1>8. CASE Type
    <2>1. typed' = typed + 1 /\ typed \in Nat
      BY <1>8, MaxTypedType DEF Type, IInv, PanelOK
    <2> QED
      BY <2>1 DEF Excused
  <1>9. CASE ApplyOnLatest
    <2>1. panel' = RebaseDraft(panel, n) /\ n \in Nat
      BY <1>1, <1>9 DEF ApplyOnLatest, Set, EditSession
    <2> QED
      BY <1>1, <2>1, RebaseKeeps DEF Kept
  <1> QED
    BY <1>2, <1>3, <1>4, <1>5, <1>6, <1>7, <1>8, <1>9 DEF UserStep

LEMMA NextKeeps ==
  ASSUME IInv, Next, IsDirty(panel)
  PROVE  Kept \/ Excused
  <1>1. /\ panel \in Panel /\ panel.edit # None /\ panel.edit \in EditSession
        /\ DocumentsOK /\ Good(panel, seen, crossed)
    BY EditTyped DEF IInv, PanelOK, Good, IsDirty
  <1>2. CASE UNCHANGED panel
    BY <1>1, <1>2 DEF Kept
  <1>3. CASE UserStep
    BY <1>3, UserKeeps
  <1>4. CASE Fetched
    BY <1>1, <1>4, EditStays DEF Fetched, Kept
  <1>5. ASSUME NEW r \in Request, Overwrite(r) PROVE Kept
    <2> DEFINE n == panel.edit.conflict
    <2>1. panel' = RebaseDraft(panel, n) /\ n \in Nat
      BY <1>1, <1>5 DEF Overwrite, EditSession
    <2> QED
      BY <1>1, <2>1, RebaseKeeps DEF Kept
  <1>6. ASSUME NEW r \in Request, SaveAnswered(r) PROVE Kept \/ Excused
    <2> DEFINE n == request[r].no
    <2>1. CASE request[r].answer = "created"
      <3>1. /\ request[r].kind = "save" /\ request[r].state = "answered"
            /\ request' = [request EXCEPT ![r] = Blank("over")]
        BY <1>6, <2>1 DEF SaveAnswered, SaveCreated, Over
      <3>2. request'[r].state = "over"
        BY <1>1, <3>1, BlankTyped DEF DocumentsOK, DocumentsTypeOK
      <3> QED
        BY <2>1, <3>1, <3>2 DEF SaveArrives, Excused
    <2>2. CASE request[r].answer = "conflict"
      <3>1. panel' = MarkConflict(panel, n)
        BY <1>6, <2>2 DEF SaveAnswered, SaveRefused
      <3>2. n \in Nat
        BY <1>1 DEF DocumentsOK, DocumentsTypeOK, Write
      <3> QED
        BY <1>1, <3>1, <3>2, MarkKeeps DEF Kept
    <2>3. CASE request[r].answer \notin {"created", "conflict"}
      <3>1. UNCHANGED panel
        BY <1>6, <2>3 DEF SaveAnswered, SaveRefused
      <3> QED
        BY <1>1, <3>1 DEF Kept
    <2> QED
      BY <2>1, <2>2, <2>3
  <1>7. ASSUME NEW r \in Request, RestoreAnswered(r) PROVE Kept
    <2> DEFINE d == request[r].doc
               n == request[r].no
               synced == SyncHead(panel, d, n)
    <2>1. d \in Doc /\ n \in Nat /\ n <= head[d]
      BY <1>7, AnswerNames DEF RestoreAnswered
    <2>2. synced \in Panel /\ synced.edit = panel.edit
      BY <1>1, <2>1, SyncGood, EditStays DEF Good
    <2>3. panel' = SelectRevision(synced, n) \/ UNCHANGED panel
      BY <1>7 DEF RestoreAnswered, Set
    <2> HIDE DEF synced
    <2> QED
      BY <1>1, <2>2, <2>3, EditStays DEF Kept
  <1>8. ASSUME NEW r \in Request, AgentAnswered(r) PROVE Kept
    <2>1. panel' = RevisionPublished(panel, request[r].doc, request[r].no) \/ UNCHANGED panel
      BY <1>8 DEF AgentAnswered, Set
    <2> QED
      BY <1>1, <2>1, EditStays DEF Kept
  <1> QED
    BY <1>2, <1>3, <1>4, <1>5, <1>6, <1>7, <1>8 DEF Next, Save, Restore, AgentWrites, client

-----------------------------------------------------------------------------
(***************************************************************************)
(* The theorems.                                                           *)
(***************************************************************************)

LEMMA InitOK == Init => IInv
  <1> SUFFICES ASSUME Init PROVE IInv
    OBVIOUS
  <1>1. DocumentsOK
    BY DocumentsInitOK DEF Init
  <1>2. panel = Closed /\ saving = None /\ typed = 0 /\ seen = 0 /\ crossed = FALSE /\ lost = {}
    BY DEF Init
  <1>3. Good(panel, seen, crossed)
    BY <1>1, <1>2, ClosedGood
  <1>4. saving \in Request \union {None} /\ lost \subseteq 1..MaxTyped /\ crossed \in BOOLEAN
    BY <1>2
  <1>5. typed \in 0..MaxTyped /\ seen \in Nat
    BY <1>2, MaxTypedType
  <1> QED
    BY <1>1, <1>3, <1>4, <1>5 DEF IInv, PanelOK

\* Nothing changes.
LEMMA StutterOK == IInv /\ UNCHANGED vars => IInv'
  BY DEF IInv, DocumentsOK, DocumentsTypeOK, HeadIsLast, Unwritten, May, Underway, Sighted,
         FilesKept, NoSilentOverwrite, PanelOK, Good, EditFits, Pending, Known, vars

LEMMA StepOK == IInv /\ [Next]_vars => IInv'
  <1> SUFFICES ASSUME IInv, [Next]_vars PROVE IInv'
    OBVIOUS
  <1>1. CASE UserStep
    <2>1. PanelOK'
      BY <1>1, UserStepOK
    <2>2. UNCHANGED <<head, drafts, files, request>>
      BY <1>1 DEF UserStep
    <2>3. DocumentsOK'
      BY <2>2 DEF IInv, DocumentsOK, DocumentsTypeOK, HeadIsLast, Unwritten, May, Underway,
                  Sighted, FilesKept, NoSilentOverwrite
    <2> QED
      BY <2>1, <2>3 DEF IInv
  <1>2. CASE Fetched
    BY <1>2, FetchedOK
  <1>3. ASSUME NEW r \in Request, Save(r) \/ Overwrite(r) PROVE IInv'
    BY <1>3, SaveOK
  <1>4. ASSUME NEW r \in Request, Restore(r) PROVE IInv'
    BY <1>4, RestoreOK
  <1>5. ASSUME NEW r \in Request, AgentWrites(r) PROVE IInv'
    BY <1>5, AgentWritesOK
  <1>6. ASSUME NEW r \in Request, SaveAnswered(r) PROVE IInv'
    BY <1>6, SaveAnsweredOK
  <1>7. ASSUME NEW r \in Request, RestoreAnswered(r) PROVE IInv'
    BY <1>7, RestoreAnsweredOK
  <1>8. ASSUME NEW r \in Request, AgentAnswered(r) PROVE IInv'
    BY <1>8, AgentAnsweredOK
  <1>9. ASSUME NEW r \in Request, Service(r), UNCHANGED client PROVE IInv'
    BY <1>9, ServiceStepOK
  <1>10. CASE UNCHANGED vars
    BY <1>10, StutterOK
  <1> QED
    BY <1>1, <1>2, <1>3, <1>4, <1>5, <1>6, <1>7, <1>8, <1>9, <1>10 DEF Next

\* The inductive invariant holds in every state of the panel and its documents.
THEOREM Inductive == Spec => []IInv
  BY InitOK, StepOK, PTL DEF Spec

\* Every variable keeps its type: the store, the drafts and the writes are always well formed,
\* and a text that an answer took away was one the user had typed.
THEOREM TypeCorrect == Spec => []TypeOK
  <1>1. IInv => TypeOK
    BY DEF IInv, DocumentsOK, PanelOK, Good, TypeOK
  <1> QED
    BY <1>1, Inductive, PTL

\* The rendered file of every draft stays in the store (AuthoredDocumentService._commit), for
\* any number of documents and of writes that race, fail or lose their reply.
THEOREM KeepsFiles == Spec => []FilesKept
  <1>1. IInv => FilesKept
    BY DEF IInv, DocumentsOK
  <1> QED
    BY <1>1, Inductive, PTL

\* Nobody's draft is overwritten unseen: whatever heads the panel believed in and whichever
\* document its answers reached, a saved draft follows the one its author saw (append_revision's
\* conditional UPDATE and the base that EditTab.save sends).
THEOREM OverwritesNothing == Spec => []NoSilentOverwrite
  <1>1. IInv => NoSilentOverwrite
    BY DEF IInv, DocumentsOK
  <1> QED
    BY <1>1, Inductive, PTL

\* The head and the draft the panel shows exist (useDocumentPanelStore), until a save or a
\* restore is answered while another document is open.
THEOREM KnowsHeads == Spec => []KnownHeadExists
  <1>1. IInv => KnownHeadExists
    BY DEF IInv, PanelOK, Good, Known, KnownHeadExists
  <1> QED
    BY <1>1, Inductive, PTL

\* No step loses the user's unsaved text but typing over it, a discard the user confirmed, or
\* the arrival of a successful save (useDocumentPanelStore, documentPanelActions).
THEOREM KeepsText == Spec => TextKept
  <1> DEFINE Gone == IsDirty(panel) /\ (panel'.edit = None \/ panel'.edit.text # panel.edit.text)
  <1>1. IInv /\ Next => (Gone => Excused)
    BY NextKeeps DEF Kept
  <1>2. UNCHANGED vars => ~Gone
    BY DEF vars, IsDirty
  <1>3. IInv /\ [Next]_vars => [Gone => Excused]_vars
    BY <1>1, <1>2
  <1>4. Spec => [][Gone => Excused]_vars
    BY <1>3, Inductive, PTL DEF Spec
  <1> QED
    BY <1>4 DEF TextKept, Excused
=============================================================================
