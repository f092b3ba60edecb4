--------------------------- MODULE DocumentPanel ---------------------------
(***************************************************************************)
(* The document panel of one browser tab over AuthoredDocuments: the store *)
(* that holds the open document, the draft in view and the user's unsaved  *)
(* edit, and the save, restore and refresh calls whose answers come back   *)
(* while the user types, discards, or opens another document.  The agent   *)
(* writes drafts of the same documents, and the panel hears of them late.  *)
(*                                                                         *)
(* 0 stands for the store's null draft numbers.  The tabs that only read   *)
(* are "preview"; a legacy file in the panel is no document.  Left out as  *)
(* display: compare, mergeWith, staleAtStart, contextEnabled, and the      *)
(* notice of pendingHead, whose button is one more way to view a draft.    *)
(***************************************************************************)
EXTENDS AuthoredDocuments, FiniteSets

CONSTANTS AgentWrite,  \* the writes of the agent; the others are the tab's
          MaxTyped     \* bound: texts the user types

ASSUME AgentWritesAreWrites == AgentWrite \subseteq Request
ASSUME MaxTypedType == MaxTyped \in Nat

VARIABLES
  panel,    \* useDocumentPanelStore
  saving,   \* the save the mounted EditTab waits for
  typed,    \* how many texts the user typed; each is new
  \* history: the draft the user's text last took into account, whether an answer
  \* about one document was applied while another was open, texts an answer took away
  seen, crossed, lost

client == <<panel, saving, typed, seen, crossed, lost>>
vars == <<head, drafts, files, request, panel, saving, typed, seen, crossed, lost>>

EditSession == [doc : Doc, base : Nat, original : Content, text : Content, conflict : Nat]
Panel == [documentId : Doc \union {None}, revisionNo : Nat, knownHead : Nat,
          tab : {"preview", "edit"}, edit : EditSession \union {None},
          pendingDiscard : Doc \union {"none", "close", "discard"}, pendingNo : Nat]

ASSUME NoneIsNoEdit == None \notin EditSession

TypeOK ==
  /\ DocumentsTypeOK
  /\ panel \in Panel
  /\ saving \in Request \union {None}
  /\ typed \in 0..MaxTyped
  /\ seen \in Nat
  /\ crossed \in BOOLEAN
  /\ lost \subseteq 1..MaxTyped

Closed == [documentId |-> None, revisionNo |-> 0, knownHead |-> 0,
           tab |-> "preview", edit |-> None, pendingDiscard |-> "none", pendingNo |-> 0]

Init ==
  /\ DocumentsInit
  /\ panel = Closed
  /\ saving = None
  /\ typed = 0
  /\ seen = 0
  /\ crossed = FALSE
  /\ lost = {}

-----------------------------------------------------------------------------
(* The store's functions of its state.                                     *)

Larger(m, n) == IF m >= n THEN m ELSE n

IsDirty(p) == p.edit # None /\ p.edit.text # p.edit.original
Viewed(p) == IF p.revisionNo # 0 THEN p.revisionNo ELSE p.knownHead
EditsOpenDocument(p) == p.edit # None /\ p.edit.doc = p.documentId
\* The editor is on screen (DraftPanel): EditTab lives exactly as long.
Editing(p) == EditsOpenDocument(p) /\ p.tab = "edit"

OpenDocumentAfresh(p, d, n) ==   \* mutant: drops its own edit
  [Closed EXCEPT !.documentId = d, !.revisionNo = n]
OpenDocument(p, d, n) ==
  [Closed EXCEPT !.documentId = d,
                 !.revisionNo = n,
                 !.knownHead = IF p.documentId = d THEN p.knownHead ELSE 0,
                 !.edit = IF p.edit # None /\ p.edit.doc = d THEN p.edit ELSE None]

SelectRevision(p, n) ==
  [p EXCEPT !.revisionNo = n, !.tab = "preview"]

SyncHead(p, d, n) == IF p.documentId = d THEN [p EXCEPT !.knownHead = Larger(n, @)] ELSE p

\* A new head is followed by a reader who is on the head.
RevisionPublishedAnywhere(p, d, n) ==   \* mutant: whichever document is open
  [p EXCEPT !.knownHead = Larger(n, @)]
RevisionPublished(p, d, n) ==
  LET known == Larger(n, p.knownHead)
      onHead == p.revisionNo = 0 \/ Viewed(p) = p.knownHead
  IN IF p.documentId # d THEN p
     ELSE IF ~EditsOpenDocument(p) /\ onHead
          THEN [p EXCEPT !.knownHead = known, !.revisionNo = known]
          ELSE [p EXCEPT !.knownHead = known]

\* Marks whatever edit is there.
MarkConflict(p, n) ==
  IF p.edit = None THEN p
  ELSE [p EXCEPT !.edit.conflict = n, !.knownHead = Larger(n, @)]

RebaseDraft(p, n) == [p EXCEPT !.tab = "edit", !.edit.base = n, !.edit.conflict = 0]

\* Discards whatever edit is there.
DiscardDraft(p) == [p EXCEPT !.edit = None, !.tab = "preview"]

\* An update of the store: an EditTab that leaves the screen forgets its `saving`.
Set(p) ==
  /\ panel' = p
  /\ saving' = IF Editing(p) THEN saving ELSE None

-----------------------------------------------------------------------------
(* The user.  The confirmation dialog is modal.                            *)

NoDialog == panel.pendingDiscard = "none"
\* A draft that exists is on screen.
OnScreen == panel.documentId # None /\ Viewed(panel) \in 1..head[panel.documentId]

Decided(p) == [p EXCEPT !.pendingDiscard = "none", !.pendingNo = 0]

Proceed(p, what, n) ==
  CASE what = "close" -> Closed
    [] what = "discard" -> DiscardDraft(Decided(p))
    [] OTHER -> OpenDocument(p, what, n)

\* guardUnsaved: at once if nothing is unsaved, else held for the dialog.
GuardUnsaved(what, n) ==
  Set(IF IsDirty(panel) THEN [panel EXCEPT !.pendingDiscard = what, !.pendingNo = n]
                        ELSE Proceed(panel, what, n))

\* The cards in the chat: one for each draft the agent made.
Card(d) == {n \in 1..Len(drafts[d]) : drafts[d][n].operation \in {"create", "agent"}}

RequestOpenDocument(d, n) ==
  /\ NoDialog
  /\ n \in Card(d)
  /\ IF panel.edit # None /\ panel.edit.doc = d
     THEN Set(OpenDocument(panel, d, n))
     ELSE GuardUnsaved(d, n)
  /\ UNCHANGED <<typed, seen, crossed, lost>>

RequestClose ==
  /\ NoDialog
  /\ panel.documentId # None
  /\ GuardUnsaved("close", 0)
  /\ UNCHANGED <<typed, seen, crossed, lost>>

RequestDiscardDraft ==
  /\ NoDialog
  /\ Editing(panel)
  /\ GuardUnsaved("discard", 0)
  /\ UNCHANGED <<typed, seen, crossed, lost>>

ConfirmDiscard ==
  /\ ~NoDialog
  /\ Set(Proceed(panel, panel.pendingDiscard, panel.pendingNo))
  /\ UNCHANGED <<typed, seen, crossed, lost>>

KeepEditing ==
  /\ ~NoDialog
  /\ Set(Decided(panel))
  /\ UNCHANGED <<typed, seen, crossed, lost>>

\* The switcher, the notices and the history tab; also leaves the editor.
ViewRevision(n) ==
  /\ NoDialog /\ OnScreen
  /\ n <= head[panel.documentId]
  /\ Set(SelectRevision(panel, n))
  /\ UNCHANGED <<typed, seen, crossed, lost>>

\* editDraft: an edit of this document is resumed, else one starts from the draft in view.
EditDraft ==
  LET d == panel.documentId
      n == Viewed(panel)
      content == drafts[d][n].content
  IN
  /\ NoDialog /\ OnScreen
  /\ ~Editing(panel)
  /\ IF EditsOpenDocument(panel)
     THEN Set([panel EXCEPT !.tab = "edit"]) /\ UNCHANGED seen
     ELSE /\ Set([panel EXCEPT !.tab = "edit",
                               !.edit = [doc |-> d, base |-> n, original |-> content,
                                         text |-> content, conflict |-> 0]])
          /\ seen' = n
  /\ UNCHANGED <<typed, crossed, lost>>

\* updateDraft; the editor stays writable while a save is under way.
Type ==
  /\ NoDialog /\ OnScreen
  /\ Editing(panel)
  /\ typed < MaxTyped
  /\ typed' = typed + 1
  /\ Set([panel EXCEPT !.edit.text = typed + 1])
  /\ UNCHANGED <<seen, crossed, lost>>

\* "Apply on latest": the conflict notice names the head the text is moved to.
ApplyOnLatest ==
  /\ NoDialog /\ OnScreen
  /\ Editing(panel) /\ panel.edit.conflict # 0
  /\ saving = None
  /\ Set(RebaseDraft(panel, panel.edit.conflict))
  /\ seen' = panel.edit.conflict
  /\ UNCHANGED <<typed, crossed, lost>>

UserStep ==
  /\ \/ \E n \in 1..Cardinality(Request) + 1 : ViewRevision(n) \/ \E d \in Doc : RequestOpenDocument(d, n)
     \/ RequestClose \/ RequestDiscardDraft \/ ConfirmDiscard \/ KeepEditing
     \/ EditDraft \/ Type \/ ApplyOnLatest
  /\ UNCHANGED <<head, drafts, files, request>>

-----------------------------------------------------------------------------
(* Writes of the user and of the agent, and their answers.                 *)

SendSaveOverHead(r, p) ==   \* mutant: over the newest draft the panel knows
  r \notin AgentWrite /\ Send(r, "save", panel.documentId, p.knownHead, p.edit.text, seen')
SendSave(r, p) ==
  r \notin AgentWrite /\ Send(r, "save", panel.documentId, p.edit.base, p.edit.text, seen')

Save(r) ==
  /\ NoDialog /\ OnScreen
  /\ Editing(panel) /\ panel.edit.conflict = 0
  /\ saving = None
  /\ UNCHANGED seen
  /\ SendSave(r, panel)
  /\ saving' = r
  /\ UNCHANGED <<head, drafts, files, panel, typed, crossed, lost>>

\* "Overwrite": re-base and save in one click.
Overwrite(r) ==
  LET rebased == RebaseDraft(panel, panel.edit.conflict) IN
  /\ NoDialog /\ OnScreen
  /\ Editing(panel) /\ panel.edit.conflict # 0
  /\ saving = None
  /\ seen' = panel.edit.conflict
  /\ SendSave(r, rebased)
  /\ panel' = rebased
  /\ saving' = r
  /\ UNCHANGED <<head, drafts, files, typed, crossed, lost>>

Over(r) == request' = [request EXCEPT ![r] = Blank("over")]

Foreign(r) == panel.documentId # request[r].doc

\* save() after its await: the new draft is synced for its own document only, while the
\* edit is discarded and the draft selected in whatever the panel shows by then.
SaveCreated(r) ==
  LET w == request[r] IN
  /\ Over(r)
  /\ Set(SelectRevision(DiscardDraft(SyncHead(panel, w.doc, w.no)), w.no))
  /\ lost' = IF IsDirty(panel) /\ panel.edit.text # w.content
             THEN lost \union {panel.edit.text} ELSE lost
  /\ crossed' = (crossed \/ Foreign(r))

SaveRefused(r) ==
  LET w == request[r]
      marked == IF w.answer = "conflict" THEN MarkConflict(panel, w.no) ELSE panel
  IN
  /\ Over(r)
  /\ panel' = marked
  /\ saving' = IF saving = r THEN None ELSE saving     \* finally { setSaving(false) }
  /\ crossed' = (crossed \/ (w.answer = "conflict" /\ Foreign(r)))
  /\ UNCHANGED lost

SaveAnswered(r) ==
  /\ request[r].kind = "save" /\ request[r].state = "answered"
  /\ IF request[r].answer = "created" THEN SaveCreated(r) ELSE SaveRefused(r)
  /\ UNCHANGED <<head, drafts, files, typed, seen>>

\* "Continue from this draft" of an older draft, over the head last fetched.
Restore(r) ==
  LET d == panel.documentId IN
  /\ NoDialog /\ OnScreen
  /\ ~Editing(panel)
  /\ r \notin AgentWrite
  /\ \E n \in Viewed(panel) + 1 .. head[d] :
        Send(r, "restore", d, n, drafts[d][Viewed(panel)].content, Viewed(panel))
  /\ UNCHANGED <<head, drafts, files, client>>

\* A conflict is retried once over the head it reports.
RestoreAnswered(r) ==
  LET w == request[r] IN
  /\ w.kind = "restore" /\ w.state = "answered"
  /\ \/ /\ w.answer = "conflict" /\ ~w.retried
        /\ request' = [request EXCEPT ![r] = [@ EXCEPT !.state = "sent", !.base = w.no,
                                                       !.answer = "none", !.retried = TRUE]]
        /\ UNCHANGED <<panel, saving, crossed>>
     \/ /\ w.answer = "created"
        /\ Over(r)
        /\ Set(SelectRevision(SyncHead(panel, w.doc, w.no), w.no))
        /\ crossed' = (crossed \/ Foreign(r))
     \/ /\ w.answer \in {"noChange", "failed"} \/ (w.answer = "conflict" /\ w.retried)
        /\ Over(r)
        /\ UNCHANGED <<panel, saving, crossed>>
  /\ UNCHANGED <<head, drafts, files, typed, seen, lost>>

\* A tool of the agent writes over the head it read.
AgentWrites(r) ==
  /\ r \in AgentWrite
  /\ \E d \in Doc : Send(r, "agent", d, head[d], r, head[d])
  /\ UNCHANGED <<head, drafts, files, client>>

\* The agent's answer: a card for the new draft reaches the chat, live.
AgentAnswered(r) ==
  LET w == request[r] IN
  /\ w.kind = "agent" /\ w.state = "answered"
  /\ Over(r)
  /\ IF w.answer = "created" THEN Set(RevisionPublished(panel, w.doc, w.no))
                             ELSE UNCHANGED <<panel, saving>>
  /\ UNCHANGED <<head, drafts, files, typed, seen, crossed, lost>>

\* The document is fetched, now or a while ago, and DraftPanel syncs its head.
Fetched ==
  /\ panel.documentId # None
  /\ \E n \in 1..head[panel.documentId] : panel' = SyncHead(panel, panel.documentId, n)
  /\ UNCHANGED <<head, drafts, files, request, saving, typed, seen, crossed, lost>>

Next ==
  \/ UserStep
  \/ Fetched
  \/ \E r \in Request :
       \/ Save(r) \/ Overwrite(r) \/ Restore(r) \/ AgentWrites(r)
       \/ SaveAnswered(r) \/ RestoreAnswered(r) \/ AgentAnswered(r)
       \/ Service(r) /\ UNCHANGED client

Spec == Init /\ [][Next]_vars

-----------------------------------------------------------------------------
(* Nobody's draft is overwritten unseen: a draft saved by the user follows *)
(* a draft the user started from or was shown as the newer one in a        *)
(* conflict notice, however late, stale or misdirected the panel's heads.  *)
NoSilentOverwrite ==
  \A d \in Doc : \A n \in DOMAIN drafts[d] :
    drafts[d][n].operation \in {"save", "agent"} => drafts[d][n].seen = n - 1

(* The head the panel believes in exists.  As long as no save or restore   *)
(* was answered while another document was open: those two answers are not *)
(* tied to their document (EditTab.save, useRevisionActions).              *)
KnownHeadExists ==
  ~crossed /\ panel.documentId # None => /\ panel.knownHead <= head[panel.documentId]
                                         /\ panel.revisionNo <= head[panel.documentId]

(* No step loses unsaved text but typing over it, a discard the user       *)
(* confirmed, or the arrival of a successful save: not re-opening, not     *)
(* viewing, not a conflict, a re-base, a refresh or the agent's draft.     *)
SaveArrives(r) == /\ request[r].kind = "save" /\ request[r].answer = "created"
                  /\ request[r].state = "answered" /\ request'[r].state = "over"

TextKept ==
  [][IsDirty(panel) /\ (panel'.edit = None \/ panel'.edit.text # panel.edit.text)
       => \/ typed' # typed
          \/ panel.pendingDiscard # "none" /\ panel'.pendingDiscard = "none"
          \/ \E r \in Request : SaveArrives(r)]_vars

(* "The user's unsaved edit.  Lives here so no remount or tab switch can   *)
(* lose it": no answer takes away a text it did not save.                  *)
NoTextLost == lost = {}
=============================================================================
