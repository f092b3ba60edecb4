---------------------------- MODULE MessageTree ----------------------------
(***************************************************************************)
(* The conversation tree of one session in the web client: user messages   *)
(* and the answers below them, with branches from edits and regenerations, *)
(* each node naming its children and the latest one, which is on screen.   *)
(* A turn (useChatController.onSubmit) works on a tree of its own: every   *)
(* packet publishes it whole into the session store, over whatever the     *)
(* user did there in between, and a refused turn puts back the tree it     *)
(* started from.                                                           *)
(*                                                                         *)
(* One turn at a time.  The tree starts empty and grows by turns; trees    *)
(* loaded from the server, whose root may be a message, are left out.      *)
(***************************************************************************)
EXTENDS Integers, FiniteSets

CONSTANTS Node,  \* node ids (fresh timestamps in the code)
          Root,  \* SYSTEM_NODE_ID
          None

ASSUME NodesAreNodes == Root \in Node /\ None \notin Node
ASSUME NodesAreFinite == IsFiniteSet(Node)

VARIABLES
  tree,   \* the session's messageTree, as shown
  turn,   \* the turn under way
  moved   \* history: the user changed the tree since the turn last published

vars == <<tree, turn, moved>>

Message == [type : {"system", "user", "answer", "error"}, parent : Node \union {None},
            children : SUBSET Node, latest : Node \union {None}]

ASSUME NoneIsNoMessage == None \notin Message

Tree == [Node -> Message \union {None}]
Turn == [user : Node, userNode : Message,   \* initialUserNode, as captured
         agent : Node,                      \* initialAgentNode
         reuses : BOOLEAN,                  \* reusesAttachedUserNode
         regenerates : BOOLEAN,
         parent : Node \union {None},      \* parentMessage, for the error node
         local : Tree, before : Tree]       \* currentMessageTreeLocal, messageTreeBeforeTurn

TypeOK ==
  /\ tree \in Tree
  /\ turn = None \/ turn \in Turn
  /\ moved \in BOOLEAN

Empty == [n \in Node |-> None]

Init == tree = Empty /\ turn = None /\ moved = FALSE

-----------------------------------------------------------------------------
(* messageTree.ts                                                          *)

Exists(t, n) == n \in Node /\ t[n] # None

\* updateParentInMap: a child becomes the latest when it is new or the only one.
LinkKeepingLatest(t, p, c) ==   \* mutant: only a first child becomes the latest
  IF ~Exists(t, p) THEN t
  ELSE [t EXCEPT ![p].children = @ \union {c},
                 ![p].latest = IF t[p].children \subseteq {c} THEN c ELSE @]
Link(t, p, c) ==
  IF ~Exists(t, p) THEN t
  ELSE [t EXCEPT ![p].children = @ \union {c},
                 ![p].latest = IF c \notin t[p].children \/ t[p].children = {c} THEN c ELSE @]

Put(t, n, m) == Link([t EXCEPT ![n] = m], m.parent, n)

\* An empty tree is given its system node with the first message.
WithRoot(t, n) ==
  IF t = Empty
  THEN [t EXCEPT ![Root] = [type |-> "system", parent |-> None, children |-> {n}, latest |-> n]]
  ELSE t

Upsert(t, u, user, a, agent) == Put(Put(WithRoot(t, u), u, user), a, agent)

\* getLatestMessageChain: position k of the chain (its end is repeated).
Chain(t) ==
  LET pos[k \in 0..Cardinality(Node)] ==
        IF k = 0 THEN Root
        ELSE LET n == pos[k - 1] IN
             IF Exists(t, n) /\ Exists(t, t[n].latest) THEN t[n].latest ELSE n
  IN pos
OnChain(t) == {n \in {Chain(t)[k] : k \in 0..Cardinality(Node)} : Exists(t, n)}

\* The last message of the chain; of an empty one, the node its first message goes below.
LastOf(t) ==
  LET ends == {n \in OnChain(t) : ~Exists(t, t[n].latest)}
  IN IF ends = {} THEN Root ELSE CHOOSE n \in ends : TRUE

SetAsLatest(t, n) == [t EXCEPT ![t[n].parent].latest = n]

\* onSubmit, before it looks whether it may send: the error at the end of the chain goes
\* together with the user message above it.
EndsInError(t) == Exists(t, LastOf(t)) /\ t[LastOf(t)].type = "error"
WithoutErrorNodes(t) ==   \* mutant: the message above still lists what is removed
  [n \in Node |-> IF n \in {LastOf(t), t[LastOf(t)].parent} THEN None ELSE t[n]]
WithoutError(t) ==
  LET e == LastOf(t)
      u == t[e].parent
      g == IF Exists(t, u) THEN t[u].parent ELSE None
      unlinked == IF Exists(t, g)
                  THEN [t EXCEPT ![g].children = @ \ {u},
                                 ![g].latest = IF @ = u THEN None ELSE @]
                  ELSE t
  IN [n \in Node |-> IF n \in {e, u} THEN None ELSE unlinked[n]]

-----------------------------------------------------------------------------
(* Turns.                                                                  *)

AnswerTo(u, type) == [type |-> type, parent |-> u, children |-> {}, latest |-> None]

\* The optimistic upsert: both messages, or the answer alone below a user message that
\* is already there.
Begin(t, u, userNode, a, reuses, regenerates) ==
  LET local == IF reuses \/ regenerates THEN Put(t, a, AnswerTo(u, "answer"))
               ELSE Upsert(t, u, userNode, a, AnswerTo(u, "answer"))
  IN /\ turn' = [user |-> u, userNode |-> userNode, agent |-> a, reuses |-> reuses,
                 regenerates |-> regenerates, parent |-> userNode.parent,
                 local |-> local, before |-> t]
     /\ tree' = local
     /\ moved' = FALSE

Fresh(t) == {n \in Node \ {Root} : t[n] = None}

\* buildImmediateMessages: a new user message below p and its answer.
BeginBelow(t, p) ==
  \E u, a \in Fresh(t) :
    /\ u # a
    /\ Begin(t, u, [type |-> "user", parent |-> p, children |-> {a}, latest |-> a], a, FALSE, FALSE)

Send ==
  LET t == IF EndsInError(tree) THEN WithoutError(tree) ELSE tree IN
  /\ turn = None
  /\ BeginBelow(t, LastOf(t))

UsersShown == {n \in OnChain(tree) : tree[n].type = "user"}

\* A new version of a user message, beside it (also the retry of a failed one).
Edit(u) ==
  /\ turn = None
  /\ u \in UsersShown
  /\ BeginBelow(tree, tree[u].parent)

\* Another answer to the same user message.
RegenerateAfresh(u) ==   \* mutant: the turn's user message forgets its earlier answers
  /\ turn = None
  /\ u \in UsersShown
  /\ \E a \in Fresh(tree) :
       Begin(tree, u, [tree[u] EXCEPT !.children = {a}, !.latest = a], a, FALSE, TRUE)
Regenerate(u) ==
  /\ turn = None
  /\ u \in UsersShown
  /\ \E a \in Fresh(tree) : Begin(tree, u, tree[u], a, FALSE, TRUE)

\* resolveAttachTarget: a run found executing goes below the last user message if that
\* is its own, and else brings its own message.
Attach ==
  /\ turn = None
  /\ \/ \E u \in UsersShown, a \in Fresh(tree) :
          /\ \A k \in 0..Cardinality(Node) :
                \* no user message comes after u
                Chain(tree)[k] = u => \A j \in k..Cardinality(Node) : Chain(tree)[j] \notin UsersShown \ {u}
          /\ Begin(tree, u, tree[u], a, TRUE, FALSE)
     \/ BeginBelow(tree, LastOf(tree))

\* A packet: both nodes are upserted into the turn's tree and that is published.
Publish ==
  LET local == Upsert(turn.local, turn.user, turn.userNode, turn.agent,
                      AnswerTo(turn.user, "answer"))
  IN /\ turn # None
     /\ turn' = [turn EXCEPT !.local = local]
     /\ tree' = local
     /\ moved' = FALSE

\* Rendered to its end, or stopped.
Finish == turn # None /\ turn' = None /\ UNCHANGED tree /\ moved' = FALSE

\* An error: the answer's node becomes the error, and the user message is written anew,
\* without children, unless the run was attached below it.
Fail ==
  /\ turn # None
  /\ tree' = Upsert(turn.local, turn.user,
                    IF turn.reuses THEN turn.userNode
                    ELSE [AnswerTo(turn.parent, "user") EXCEPT !.parent = turn.parent],
                    turn.agent, AnswerTo(turn.user, "error"))
  /\ turn' = None
  /\ moved' = FALSE

\* Another device answers (409), or the run can not be replayed any more.
PutBack == turn # None /\ tree' = turn.before /\ turn' = None /\ moved' = FALSE

\* The switch between versions of a message.
SelectMessage(n) ==
  /\ Exists(tree, n) /\ Exists(tree, tree[n].parent)
  /\ n \in tree[tree[n].parent].children
  /\ tree[tree[n].parent].latest # n
  /\ tree' = SetAsLatest(tree, n)
  /\ moved' = (turn # None)
  /\ UNCHANGED turn

\* A submit that is refused afterwards: a turn or an upload is under way, ...
SubmitRefused ==
  /\ EndsInError(tree)
  /\ tree' = WithoutError(tree)
  /\ moved' = (turn # None)
  /\ UNCHANGED turn

Next ==
  \/ Send \/ Attach \/ Publish \/ Finish \/ Fail \/ PutBack \/ SubmitRefused
  \/ \E n \in Node : Edit(n) \/ Regenerate(n) \/ SelectMessage(n)

Spec == Init /\ [][Next]_vars

-----------------------------------------------------------------------------
(* Every node that is listed as a child exists and names the lister as its *)
(* parent, and the latest child is one of the children: no chain breaks,   *)
(* no message is below two others, whatever branches, errors and stale     *)
(* publications came in which order.                                       *)
WellLinkedTree(t) ==
  \A n \in Node : t[n] # None =>
    /\ \A c \in t[n].children : t[c] # None /\ t[c].parent = n
    /\ t[n].latest \in t[n].children \union {None}

WellLinked == WellLinkedTree(tree)

(* The answer under way is at the end of the conversation on screen, in    *)
(* whichever branch it was asked for, unless the user moved elsewhere      *)
(* since the last packet.                                                  *)
TurnInView == turn # None /\ ~moved => LastOf(tree) = turn.agent

(* What can be reached from a node, on screen or by switching versions.    *)
Below(t, top) ==
  LET below[k \in 0..Cardinality(Node)] ==
        IF k = 0 THEN {top}
        ELSE below[k - 1] \union UNION {t[n].children : n \in {m \in below[k - 1] : t[m] # None}}
  IN {n \in below[Cardinality(Node)] : t[n] # None}

AnswersOf(t) == {n \in Below(t, Root) : t[n].type = "answer"}

(* An answer the user got stays reachable when a turn begins, streams,     *)
(* branches, is attached, refused or fails beside it.  It is lost from     *)
(* view only with the turn whose error a new submit clears away, and when  *)
(* regenerating a message above it fails.                                  *)
ClearedAway == IF EndsInError(tree) THEN Below(tree, tree[LastOf(tree)].parent) ELSE {}
HiddenByRetry == IF turn # None /\ turn.regenerates THEN Below(tree, turn.user) ELSE {}
TurnFails == turn # None /\ turn' = None /\ EndsInError(tree')

AnswersKept ==
  [][AnswersOf(tree) \ AnswersOf(tree') \subseteq
       (IF turn = None THEN {} ELSE {turn.agent})
         \union (IF TurnFails THEN HiddenByRetry ELSE {})
         \union ClearedAway]_vars
=============================================================================
