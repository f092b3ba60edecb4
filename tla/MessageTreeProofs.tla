-------------------------- MODULE MessageTreeProofs --------------------------
(***************************************************************************)
(* MessageTree for any number of messages and turns, proved with TLAPS.    *)
(*                                                                         *)
(* Three invariants, each inductive with those before it: IInv, the links  *)
(* of every tree; Shown, that a turn's own tree ends in its answer and is  *)
(* on screen until the user moves; TurnKept, what a turn's own tree holds  *)
(* beyond the tree on screen and beyond the one it began with.             *)
(*                                                                         *)
(* Chain and Below are recursive functions.  What they are is proved by    *)
(* induction, put as the smallest counterexample (Least): the chain is the *)
(* path along the latest children, Below the least set that holds its top  *)
(* and the children of what it holds.                                      *)
(***************************************************************************)
EXTENDS MessageTree, FiniteSetTheorems, WellFoundedInduction, TLAPS

LEMMA EmptyIsTree == Empty \in Tree
  BY DEF Empty, Tree

LEMMA OnChainExists == ASSUME NEW t, NEW n \in OnChain(t) PROVE Exists(t, n)
  BY DEF OnChain

\* The end of the chain is a node, and below nothing there is but the root.
LEMMA LastIsNode ==
  ASSUME NEW t
  PROVE  /\ LastOf(t) \in Node
         /\ t = Empty => LastOf(t) = Root
  <1> DEFINE ends == {n \in OnChain(t) : ~Exists(t, t[n].latest)}
  <1>1. LastOf(t) = IF ends = {} THEN Root ELSE CHOOSE n \in ends : TRUE
    BY DEF LastOf
  <1>2. ends \subseteq Node
    BY OnChainExists DEF Exists
  <1>3. ends # {} => (CHOOSE n \in ends : TRUE) \in ends
    OBVIOUS
  <1>4. t = Empty => ends = {}
    BY OnChainExists DEF Exists, Empty
  <1> HIDE DEF ends
  <1> QED
    BY <1>1, <1>2, <1>3, <1>4, NodesAreNodes

-----------------------------------------------------------------------------
(***************************************************************************)
(* Putting messages into a tree.                                           *)
(***************************************************************************)

LEMMA RelinkedIs ==
  ASSUME NEW m \in Message, NEW cs \in SUBSET Node, NEW l \in Node \union {None}
  PROVE  [m EXCEPT !.children = cs, !.latest = l]
           = [type |-> m.type, parent |-> m.parent, children |-> cs, latest |-> l]
  <1> DEFINE m1 == [m EXCEPT !.children = cs, !.latest = l]
  <1>1. m1 \in Message /\ m1.type = m.type /\ m1.parent = m.parent /\ m1.children = cs
        /\ m1.latest = l
    BY DEF Message
  <1> HIDE DEF m1
  <1>2. m1 = [type |-> m1.type, parent |-> m1.parent, children |-> m1.children, latest |-> m1.latest]
    BY <1>1 DEF Message
  <1> QED
    BY <1>1, <1>2 DEF m1

\* r is t with the message m put at n: that changes the node itself, and the children and
\* the latest child of the node above it.
IsPut(r, t, n, m) ==
  /\ r \in Tree
  /\ \A c \in Node : r[c] = None <=> c # n /\ t[c] = None
  /\ \A c \in Node : r[c] # None =>
       LET was == IF c = n THEN m ELSE t[c]
       IN /\ r[c].type = was.type /\ r[c].parent = was.parent
          /\ r[c].children = was.children \union (IF c = m.parent THEN {n} ELSE {})
          /\ r[c].latest = IF c = m.parent /\ (n \notin was.children \/ was.children = {n})
                           THEN n ELSE was.latest

LEMMA PutFacts ==
  ASSUME NEW t \in Tree, NEW n \in Node, NEW m \in Message
  PROVE  IsPut(Put(t, n, m), t, n, m)
  <1> DEFINE t1 == [t EXCEPT ![n] = m]
  <1>1. t1 \in Tree /\ t1[n] = m /\ \A c \in Node \ {n} : t1[c] = t[c]
    BY DEF Tree
  <1>2. Put(t, n, m) = Link(t1, m.parent, n)
    BY DEF Put
  <1>3. m # None
    BY NoneIsNoMessage
  <1> HIDE DEF t1
  <1>4. CASE ~Exists(t1, m.parent)
    <2>1. Put(t, n, m) = t1
      BY <1>2, <1>4 DEF Link
    <2> QED
      BY <1>1, <1>3, <1>4, <2>1 DEF Exists, IsPut
  <1>5. CASE Exists(t1, m.parent)
    <2> DEFINE p == m.parent
               next == IF n \notin t1[p].children \/ t1[p].children = {n} THEN n ELSE t1[p].latest
    <2>1. p \in Node /\ t1[p] \in Message
      BY <1>1, <1>5 DEF Exists, Tree
    <2> DEFINE linked == [type |-> t1[p].type, parent |-> t1[p].parent,
                          children |-> t1[p].children \union {n}, latest |-> next]
    <2>2. next \in Node \union {None}
      BY <2>1 DEF Message
    <2>3. linked \in Message
      BY <2>1, <2>2 DEF Message
    <2>4. Put(t, n, m) = [t1 EXCEPT ![p].children = t1[p].children \union {n}, ![p].latest = next]
      BY <1>2, <1>5 DEF Link
    <2>5. [t1[p] EXCEPT !.children = t1[p].children \union {n}, !.latest = next] = linked
      <3> HIDE DEF next
      <3> QED
        BY <2>1, <2>2, RelinkedIs DEF Message
    <2> HIDE DEF next
    <2>6. Put(t, n, m) = [t1 EXCEPT ![p] = linked]
      <3> HIDE DEF linked
      <3> QED
        BY <1>1, <2>1, <2>4, <2>5, Zenon DEF Tree
    <2>7. /\ Put(t, n, m) \in Tree
          /\ Put(t, n, m)[p] = linked
          /\ \A c \in Node \ {p} : Put(t, n, m)[c] = t1[c]
      BY <1>1, <2>1, <2>3, <2>6 DEF Tree
    <2>8. next = IF n \notin t1[p].children \/ t1[p].children = {n} THEN n ELSE t1[p].latest
      BY DEF next
    <2> QED
      BY <1>1, <1>3, <1>5, <2>1, <2>3, <2>7, <2>8, NoneIsNoMessage DEF Exists, IsPut
  <1> QED
    BY <1>4, <1>5

\* A new node below u, or one that is below u already.
LEMMA PutLinks ==
  ASSUME NEW t \in Tree, WellLinkedTree(t), NEW u \in Node, NEW a \in Node,
         NEW type \in {"answer", "error"}, t[a] = None
  PROVE  LET r == Put(t, a, AnswerTo(u, type))
         IN r \in Tree /\ WellLinkedTree(r)
  <1> DEFINE m == AnswerTo(u, type)
             r == Put(t, a, m)
  <1>1. m \in Message /\ m.parent = u /\ m.children = {} /\ m.latest = None
    BY DEF AnswerTo, Message
  <1> HIDE DEF m
  <1>2. IsPut(r, t, a, m)
    BY <1>1, PutFacts
  <1>3. \A c \in Node : t[c] # None => t[c] \in Message /\ t[c].children \subseteq Node
    BY DEF Tree, Message
  <1> HIDE DEF r
  <1>4. WellLinkedTree(r)
    BY <1>1, <1>2, <1>3 DEF WellLinkedTree, IsPut
  <1> QED
    BY <1>2, <1>4 DEF IsPut, r, m

\* When a turn's two messages fit into a tree: each is new or below the node it was below,
\* and the user message brings no foreign children.
Fits(t, u, user, a) ==
  /\ u # a
  /\ t[u] # None => t[u].parent = user.parent
  /\ t[a] # None => t[a].parent = u
  /\ \A c \in user.children \ {a} : t[c] # None /\ t[c].parent = u
  /\ user.latest \in user.children \union {None}
  /\ t = Empty => user.parent = Root

LEMMA UpsertLinks ==
  ASSUME NEW t \in Tree, WellLinkedTree(t), NEW u \in Node, NEW user \in Message, NEW a \in Node,
         NEW type \in {"answer", "error"}, Fits(t, u, user, a)
  PROVE  LET r == Upsert(t, u, user, a, AnswerTo(u, type))
         IN /\ r \in Tree /\ WellLinkedTree(r) /\ r # Empty
            /\ r[u] # None /\ r[u].parent = user.parent
            /\ r[a] # None /\ r[a].parent = u
            /\ Fits(r, u, user, a)
  <1> DEFINE m == AnswerTo(u, type)
             w == WithRoot(t, u)
             t1 == Put(w, u, user)
             r == Put(t1, a, m)
  <1>0. Upsert(t, u, user, a, AnswerTo(u, type)) = r
    BY DEF Upsert
  <1>1. m \in Message /\ m.parent = u /\ m.children = {} /\ m.latest = None
    BY DEF AnswerTo, Message
  <1> HIDE DEF m
  <1>2. /\ w \in Tree
        /\ \A c \in Node : w[c] # None =>
              \/ w[c] = t[c]
              \/ t = Empty /\ c = Root /\ w[c].children = {u} /\ w[c].latest = u
        /\ \A c \in Node : t[c] # None => w[c] = t[c]
    <2>1. CASE t = Empty
      <3> DEFINE sys == [type |-> "system", parent |-> None, children |-> {u}, latest |-> u]
      <3>1. sys \in Message
        BY DEF Message
      <3>2. w = [t EXCEPT ![Root] = sys]
        BY <2>1 DEF WithRoot
      <3>3. sys.children = {u} /\ sys.latest = u
        OBVIOUS
      <3> HIDE DEF sys
      <3> QED
        BY <2>1, <3>1, <3>2, <3>3, NodesAreNodes DEF Tree, Empty
    <2>2. CASE t # Empty
      BY <2>2 DEF WithRoot
    <2> QED
      BY <2>1, <2>2
  <1> HIDE DEF w
  <1>3. IsPut(t1, w, u, user)
    BY <1>2, PutFacts
  <1> HIDE DEF t1
  <1>4. IsPut(r, t1, a, m)
    <2>1. t1 \in Tree
      BY <1>3 DEF IsPut
    <2> QED
      BY <1>1, <2>1, PutFacts
  <1> HIDE DEF r
  <1>5. \A c \in Node : t[c] # None => t[c] \in Message /\ t[c].children \subseteq Node
    BY DEF Tree, Message
  <1>6. user.children \subseteq Node
    BY DEF Message
  <1>7. r[u] # None /\ r[u].parent = user.parent /\ r[a] # None /\ r[a].parent = u /\ r # Empty
    BY <1>1, <1>3, <1>4 DEF IsPut, Fits, Empty
  <1>8. \A c \in Node : t[c] # None => r[c] # None /\ r[c].parent = t[c].parent
    <2> SUFFICES ASSUME NEW c \in Node, t[c] # None PROVE r[c] # None /\ r[c].parent = t[c].parent
      OBVIOUS
    <2>1. CASE c = a \/ c = u
      BY <1>7, <2>1 DEF Fits
    <2>2. CASE c # a /\ c # u
      <3>1. w[c] # None /\ w[c].parent = t[c].parent
        BY <1>2
      <3>2. t1[c] # None /\ t1[c].parent = t[c].parent
        BY <1>3, <2>2, <3>1 DEF IsPut
      <3> QED
        BY <1>4, <2>2, <3>2 DEF IsPut
    <2> QED
      BY <2>1, <2>2
  <1>9. Fits(r, u, user, a)
    BY <1>6, <1>7, <1>8 DEF Fits
  <1>10. ASSUME NEW n \in Node, r[n] # None, NEW c \in r[n].children
         PROVE  r[c] # None /\ r[c].parent = n
    <2>1. CASE n = a
      BY <1>1, <1>4, <1>10, <2>1 DEF IsPut, Fits
    <2>2. CASE n = u
      <3>1. c \in user.children \union {a} \/ (c = u /\ u = user.parent)
        BY <1>3, <1>4, <1>10, <2>2 DEF IsPut, Fits
      <3> QED
        BY <1>6, <1>7, <1>8, <2>2, <3>1 DEF Fits
    <2>3. CASE n # a /\ n # u
      <3>1. w[n] # None /\ (c \in w[n].children \/ (n = user.parent /\ c = u))
        BY <1>1, <1>3, <1>4, <1>10, <2>3 DEF IsPut
      <3>2. CASE w[n] = t[n] /\ c \in w[n].children
        BY <1>5, <1>8, <3>1, <3>2 DEF WellLinkedTree
      <3>3. CASE c = u
        <4>1. user.parent = n
          BY <1>2, <1>5, <1>10, <2>3, <3>1, <3>3 DEF Fits, WellLinkedTree
        <4> QED
          BY <1>7, <3>3, <4>1
      <3> QED
        BY <1>2, <3>1, <3>2, <3>3
    <2> QED
      BY <2>1, <2>2, <2>3
  <1>11. ASSUME NEW n \in Node, r[n] # None
         PROVE  r[n].latest \in r[n].children \union {None}
    <2>1. CASE n = a
      BY <1>1, <1>4, <1>11, <2>1 DEF IsPut
    <2>2. CASE n = u
      BY <1>3, <1>4, <1>11, <2>2 DEF IsPut, Fits
    <2>3. CASE n # a /\ n # u
      BY <1>2, <1>3, <1>4, <1>11, <2>3 DEF IsPut, WellLinkedTree
    <2> QED
      BY <2>1, <2>2, <2>3
  <1> QED
    BY <1>0, <1>4, <1>7, <1>9, <1>10, <1>11 DEF IsPut, WellLinkedTree

\* The error and the message above it taken out: nobody else names them.
LEMMA WithoutErrorLinks ==
  ASSUME NEW t \in Tree, WellLinkedTree(t), EndsInError(t)
  PROVE  LET r == WithoutError(t)
         IN /\ r \in Tree /\ WellLinkedTree(r)
            /\ \A n \in Node : r[n] = None <=> n \in {LastOf(t), t[LastOf(t)].parent} \/ t[n] = None
            /\ \A n \in Node : r[n] # None =>
                 /\ r[n].type = t[n].type /\ r[n].parent = t[n].parent
                 /\ r[n].children \subseteq t[n].children
                 /\ t[n].children \subseteq r[n].children \union {t[LastOf(t)].parent}
  <1> DEFINE e == LastOf(t)
             u == t[e].parent
             g == IF Exists(t, u) THEN t[u].parent ELSE None
             cut == [t EXCEPT ![g].children = t[g].children \ {u},
                              ![g].latest = IF t[g].latest = u THEN None ELSE t[g].latest]
             unlinked == IF Exists(t, g) THEN cut ELSE t
             r == [n \in Node |-> IF n \in {e, u} THEN None ELSE unlinked[n]]
  <1>1. WithoutError(t) = r
    BY DEF WithoutError
  <1>2. e \in Node /\ t[e] \in Message
    BY DEF EndsInError, Exists, Tree
  <1>3. /\ unlinked \in Tree
        /\ \A n \in Node : unlinked[n] = None <=> t[n] = None
        /\ \A n \in Node : t[n] # None =>
             /\ unlinked[n].type = t[n].type /\ unlinked[n].parent = t[n].parent
             /\ unlinked[n].children = t[n].children \ (IF n = g THEN {u} ELSE {})
             /\ unlinked[n].latest = IF n = g /\ t[n].latest = u THEN None ELSE t[n].latest
    <2>1. CASE ~Exists(t, g)
      BY <2>1 DEF Exists, Tree, Message
    <2>2. CASE Exists(t, g)
      <3> DEFINE latest == IF t[g].latest = u THEN None ELSE t[g].latest
                 relinked == [type |-> t[g].type, parent |-> t[g].parent,
                              children |-> t[g].children \ {u}, latest |-> latest]
      <3>1. g \in Node /\ t[g] \in Message
        BY <2>2 DEF Exists, Tree
      <3>2. latest \in Node \union {None} /\ t[g].children \ {u} \in SUBSET Node
        BY <3>1 DEF Message
      <3>3. relinked \in Message
        BY <3>1, <3>2 DEF Message
      <3>4. unlinked = [t EXCEPT ![g].children = t[g].children \ {u}, ![g].latest = latest]
        BY <2>2
      <3> HIDE DEF latest
      <3>5. [t[g] EXCEPT !.children = t[g].children \ {u}, !.latest = latest] = relinked
        BY <3>1, <3>2, RelinkedIs
      <3> HIDE DEF g, unlinked
      <3>6. unlinked = [t EXCEPT ![g] = relinked]
        <4> HIDE DEF relinked
        <4> QED
          BY <3>1, <3>4, <3>5, Zenon DEF Tree
      <3>7. /\ unlinked \in Tree /\ unlinked[g] = relinked
            /\ \A n \in Node \ {g} : unlinked[n] = t[n]
        BY <3>1, <3>3, <3>6 DEF Tree
      <3> QED
        BY <3>1, <3>3, <3>7, NoneIsNoMessage DEF latest
    <2> QED
      BY <2>1, <2>2
  <1> HIDE DEF unlinked
  <1>4. r \in Tree
    BY <1>3 DEF Tree
  <1>5. \A n \in Node : t[n] # None => t[n] \in Message /\ t[n].children \subseteq Node
    BY DEF Tree, Message
  <1>6. ASSUME NEW n \in Node, r[n] # None, NEW c \in r[n].children
        PROVE  r[c] # None /\ r[c].parent = n
    <2>1. n # e /\ n # u /\ t[n] # None /\ unlinked[n] = r[n] /\ c \in t[n].children
      BY <1>3, <1>6
    <2>2. c \in Node /\ t[c] # None /\ t[c].parent = n
      BY <1>5, <2>1 DEF WellLinkedTree
    <2>3. c # e
      BY <2>1, <2>2
    <2>4. c # u
      <3>1. c = u => n = g
        BY <2>2 DEF Exists
      <3> QED
        BY <1>3, <1>6, <2>1, <3>1
    <2> QED
      BY <1>3, <2>2, <2>3, <2>4
  <1>7. ASSUME NEW n \in Node, r[n] # None
        PROVE  r[n].latest \in r[n].children \union {None}
    <2>1. t[n] # None /\ unlinked[n] = r[n]
      BY <1>3, <1>7
    <2>2. t[n].latest \in t[n].children \union {None}
      BY <2>1 DEF WellLinkedTree
    <2> QED
      BY <1>3, <2>1, <2>2
  <1>8. /\ \A n \in Node : r[n] = None <=> n \in {e, u} \/ t[n] = None
        /\ \A n \in Node : r[n] # None =>
             /\ r[n].type = t[n].type /\ r[n].parent = t[n].parent
             /\ r[n].children \subseteq t[n].children
             /\ t[n].children \subseteq r[n].children \union {u}
    BY <1>3
  <1> HIDE DEF r
  <1> QED
    BY <1>1, <1>4, <1>6, <1>7, <1>8 DEF WellLinkedTree

-----------------------------------------------------------------------------
(***************************************************************************)
(* The chain on screen.                                                    *)
(***************************************************************************)

\* Induction, as the smallest number of a set.
LEMMA Least ==
  ASSUME NEW S \in SUBSET Nat, S # {}
  PROVE  \E m \in S : \A k \in S : m <= k
  <1>1. PICK m \in S : \A k \in S : ~ (<<k, m>> \in OpToRel(<, Nat))
    BY WFMin, NatLessThanWellFounded, Zenon
  <1>2. \A k \in S : ~ (k < m)
    BY <1>1 DEF OpToRel
  <1> QED
    BY <1>2

\* The most steps a chain takes.
N == Cardinality(Node)

LEMMA NIsNat == N \in Nat
  BY NodesAreFinite, FS_CardinalityType DEF N

\* The next node of the chain, or n itself where the chain ends.
After(t, n) == IF Exists(t, n) /\ Exists(t, t[n].latest) THEN t[n].latest ELSE n

\* f[k] is what k times g make of x.
IsIteration(f, D, x, g, n) ==
  f \in [0..n -> D] /\ f[0] = x /\ \A k \in 1..n : f[k] = g[f[k - 1]]

LEMMA Iterates ==
  ASSUME NEW D, NEW x \in D, NEW g \in [D -> D], NEW n \in Nat
  PROVE  \E f : IsIteration(f, D, x, g, n)
  <1> DEFINE Iter(f, m) == f[0] = x /\ \A k \in 1..m : f[k] = g[f[k - 1]]
             Bad == {m \in Nat : ~ \E f \in [0..m -> D] : Iter(f, m)}
  <1> SUFFICES ASSUME Bad # {} PROVE FALSE
    BY DEF IsIteration
  <1>1. PICK m \in Bad : \A k \in Bad : m <= k
    <2>1. Bad \subseteq Nat
      OBVIOUS
    <2> HIDE DEF Bad
    <2> QED
      BY <2>1, Least
  <1>2. m \in Nat /\ ~ \E f \in [0..m -> D] : Iter(f, m)
    BY <1>1
  <1>3. CASE m = 0
    <2> DEFINE f == [k \in 0..m |-> x]
    <2>1. f \in [0..m -> D] /\ Iter(f, m)
      BY <1>3
    <2> QED
      BY <1>2, <2>1
  <1>4. CASE m # 0
    <2>1. m - 1 \in Nat /\ m - 1 \notin Bad
      <3> HIDE DEF Bad
      <3> QED
        BY <1>1, <1>2, <1>4
    <2>2. PICK f \in [0..(m - 1) -> D] : Iter(f, m - 1)
      BY <2>1
    <2> DEFINE h == [k \in 0..m |-> IF k < m THEN f[k] ELSE g[f[m - 1]]]
    <2> HIDE DEF Bad
    <2>3. h \in [0..m -> D]
      BY <1>2, <1>4
    <2>4. Iter(h, m)
      BY <1>2, <1>4, <2>2
    <2> QED
      BY <1>2, <2>3, <2>4
  <1> QED
    BY <1>3, <1>4

LEMMA ChainIs ==
  ASSUME NEW t
  PROVE  /\ Chain(t)[0] = Root
         /\ \A k \in 1..N : Chain(t)[k] = After(t, Chain(t)[k - 1])
  <1> DEFINE Eq(f) == [k \in 0..N |-> IF k = 0 THEN Root ELSE After(t, f[k - 1])]
             g == [n \in Node |-> After(t, n)]
  <1>1. g \in [Node -> Node]
    BY DEF After, Exists
  <1>2. PICK f \in [0..N -> Node] : f[0] = Root /\ \A k \in 1..N : f[k] = g[f[k - 1]]
    <2> HIDE DEF g
    <2>1. \E f : IsIteration(f, Node, Root, g, N)
      BY <1>1, NodesAreNodes, NIsNat, Iterates
    <2> QED
      BY <2>1 DEF IsIteration
  <1>3. \A k \in 0..N : k # 0 => f[k - 1] \in Node
    BY NIsNat
  <1>4. ASSUME NEW k \in 0..N PROVE f[k] = IF k = 0 THEN Root ELSE After(t, f[k - 1])
    <2>1. CASE k = 0
      BY <1>2, <2>1
    <2>2. CASE k # 0
      <3>1. k \in 1..N
        BY <2>2, NIsNat
      <3>2. f[k] = g[f[k - 1]] /\ f[k - 1] \in Node
        BY <1>2, <1>3, <2>2, <3>1
      <3> QED
        BY <2>2, <3>2
    <2> QED
      BY <2>1, <2>2
  <1>5. f = Eq(f)
    <2> HIDE DEF g
    <2> QED
      BY <1>4, Zenon
  <1>6. Chain(t) = CHOOSE f1 : f1 = Eq(f1)
    BY DEF Chain, After, N
  <1>7. Chain(t) = Eq(Chain(t))
    <2> HIDE DEF Eq
    <2> QED
      BY <1>5, <1>6
  <1> QED
    BY <1>7, NIsNat

\* s is a path of k steps down from the root along the latest children.
IsPath(t, s, k) ==
  /\ s[0] = Root
  /\ \A i \in 0..k : s[i] \in Node /\ t[s[i]] # None
  /\ \A i \in 1..k : s[i] = t[s[i - 1]].latest

\* n is on such a path.
OnPath(t, n) == \E k \in Nat : \E s : IsPath(t, s, k) /\ s[k] = n

LEMMA PathOnChain ==
  ASSUME NEW t, NEW k \in 0..N, NEW s, IsPath(t, s, k)
  PROVE  \A i \in 0..k : Chain(t)[i] = s[i]
  <1> DEFINE Bad == {i \in 0..k : Chain(t)[i] # s[i]}
  <1> SUFFICES ASSUME Bad # {} PROVE FALSE
    OBVIOUS
  <1>1. PICK m \in Bad : \A i \in Bad : m <= i
    <2>1. Bad \subseteq Nat
      BY NIsNat
    <2> HIDE DEF Bad
    <2> QED
      BY <2>1, Least
  <1>2. m \in 0..k /\ Chain(t)[m] # s[m] /\ k \in Nat /\ k <= N
    BY <1>1, NIsNat
  <1>3. m # 0
    BY <1>2, ChainIs DEF IsPath
  <1>4. m \in 1..N /\ m - 1 \in 0..k /\ m - 1 \notin Bad
    <2> HIDE DEF Bad
    <2> QED
      BY <1>1, <1>2, <1>3, NIsNat
  <1>5. Chain(t)[m - 1] = s[m - 1]
    BY <1>4
  <1> HIDE DEF Bad
  <1>6. Chain(t)[m] = After(t, s[m - 1])
    BY <1>4, <1>5, ChainIs
  <1>7. /\ s[m - 1] \in Node /\ t[s[m - 1]] # None
        /\ s[m] \in Node /\ t[s[m]] # None
        /\ s[m] = t[s[m - 1]].latest
    BY <1>2, <1>3, <1>4 DEF IsPath
  <1> QED
    BY <1>2, <1>6, <1>7 DEF After, Exists

LEMMA PathEnds ==
  ASSUME NEW t, NEW k \in 0..N, NEW s, IsPath(t, s, k), ~Exists(t, t[s[k]].latest)
  PROVE  LastOf(t) = s[k]
  <1>0. k \in Nat /\ k <= N
    BY NIsNat
  <1>1. \A i \in k..N : Chain(t)[i] = s[k]
    <2> DEFINE Bad == {i \in k..N : Chain(t)[i] # s[k]}
    <2> SUFFICES ASSUME Bad # {} PROVE FALSE
      OBVIOUS
    <2>1. PICK m \in Bad : \A i \in Bad : m <= i
      <3>1. Bad \subseteq Nat
        BY NIsNat, <1>0
      <3> HIDE DEF Bad
      <3> QED
        BY <3>1, Least
    <2>2. m \in k..N /\ Chain(t)[m] # s[k]
      BY <2>1
    <2>3. m # k
      BY <1>0, <2>2, PathOnChain
    <2>4. m \in 1..N /\ m - 1 \in k..N /\ m - 1 \notin Bad
      <3> HIDE DEF Bad
      <3> QED
        BY <1>0, <2>1, <2>2, <2>3, NIsNat
    <2>5. Chain(t)[m - 1] = s[k]
      BY <2>4
    <2> HIDE DEF Bad
    <2> QED
      BY <2>2, <2>4, <2>5, ChainIs DEF After
  <1>2. \A i \in 0..k : Chain(t)[i] = s[i]
    BY PathOnChain
  <1> DEFINE ends == {n \in OnChain(t) : ~Exists(t, t[n].latest)}
  <1>3. ends = {s[k]}
    <2>1. s[k] \in OnChain(t)
      <3>1. Chain(t)[k] = s[k] /\ Exists(t, s[k])
        BY <1>0, <1>2 DEF IsPath, Exists
      <3> QED
        BY <3>1 DEF OnChain, N
    <2>2. ASSUME NEW n \in OnChain(t), n # s[k] PROVE Exists(t, t[n].latest)
      <3>1. PICK i \in 0..N : n = Chain(t)[i]
        BY DEF OnChain, N
      <3>2. i \in 0..k /\ i # k
        BY <1>0, <1>1, <1>2, <2>2, <3>1
      <3>3. n = s[i] /\ i + 1 \in 1..k
        BY <1>0, <1>2, <3>1, <3>2
      <3>4. i + 1 \in 0..k /\ (i + 1) - 1 = i
        BY <1>0, <3>2
      <3>5. t[n].latest = s[i + 1]
        BY <3>3, <3>4 DEF IsPath
      <3> QED
        BY <3>4, <3>5 DEF IsPath, Exists
    <2> QED
      BY <2>1, <2>2
  <1>4. LastOf(t) = CHOOSE n \in ends : TRUE
    <2> HIDE DEF ends
    <2>1. LastOf(t) = IF ends = {} THEN Root ELSE CHOOSE n \in ends : TRUE
      BY DEF LastOf, ends
    <2> QED
      BY <1>3, <2>1
  <1> HIDE DEF ends
  <1> QED
    BY <1>3, <1>4

\* What is on screen is reached from the root along the latest children.
LEMMA ChainPath ==
  ASSUME NEW t, Exists(t, Root), NEW n \in OnChain(t)
  PROVE  OnPath(t, n)
  <1> DEFINE Bad == {i \in 0..N : ~OnPath(t, Chain(t)[i])}
  <1>1. PICK j \in 0..N : n = Chain(t)[j]
    BY DEF OnChain, N
  <1> SUFFICES ASSUME Bad # {} PROVE FALSE
    BY <1>1
  <1>2. PICK m \in Bad : \A i \in Bad : m <= i
    <2>1. Bad \subseteq Nat
      BY NIsNat
    <2> HIDE DEF Bad
    <2> QED
      BY <2>1, Least
  <1>3. m \in 0..N /\ ~OnPath(t, Chain(t)[m])
    BY <1>2
  <1>4. CASE m = 0
    <2> DEFINE s == [i \in {0} |-> Root]
    <2>1. IsPath(t, s, 0) /\ s[0] = Chain(t)[0]
      BY ChainIs DEF IsPath, Exists
    <2> QED
      BY <1>3, <1>4, <2>1 DEF OnPath
  <1>5. CASE m # 0
    <2>1. m \in 1..N /\ m - 1 \in 0..N /\ m - 1 \notin Bad
      <3> HIDE DEF Bad
      <3> QED
        BY <1>2, <1>3, <1>5, NIsNat
    <2>2. PICK k \in Nat : \E s : IsPath(t, s, k) /\ s[k] = Chain(t)[m - 1]
      BY <2>1 DEF OnPath
    <2>3. PICK s : IsPath(t, s, k) /\ s[k] = Chain(t)[m - 1]
      BY <2>2
    <2>4. Chain(t)[m] = After(t, s[k])
      BY <2>1, <2>3, ChainIs
    <2>5. CASE After(t, s[k]) = s[k]
      BY <1>3, <2>3, <2>4, <2>5 DEF OnPath
    <2>6. CASE After(t, s[k]) # s[k]
      <3> DEFINE l == t[s[k]].latest
                 s1 == [i \in 0..(k + 1) |-> IF i = k + 1 THEN l ELSE s[i]]
      <3>1. Exists(t, l) /\ After(t, s[k]) = l
        BY <2>6 DEF After
      <3> HIDE DEF l
      <3>2. IsPath(t, s1, k + 1)
        BY <2>3, <3>1 DEF IsPath, Exists, l
      <3>3. s1[k + 1] = Chain(t)[m]
        BY <2>4, <3>1
      <3> QED
        BY <1>3, <3>2, <3>3 DEF OnPath
    <2> QED
      BY <2>5, <2>6
  <1> QED
    BY <1>4, <1>5

LEMMA LastPath ==
  ASSUME NEW t, Exists(t, Root)
  PROVE  OnPath(t, LastOf(t))
  <1> DEFINE ends == {n \in OnChain(t) : ~Exists(t, t[n].latest)}
  <1>1. LastOf(t) = IF ends = {} THEN Root ELSE CHOOSE n \in ends : TRUE
    BY DEF LastOf
  <1>2. CASE ends = {}
    <2> DEFINE s == [i \in {0} |-> Root]
    <2>1. IsPath(t, s, 0) /\ s[0] = Root
      BY DEF IsPath, Exists
    <2> QED
      BY <1>1, <1>2, <2>1 DEF OnPath
  <1>3. CASE ends # {}
    <2>1. (CHOOSE n \in ends : TRUE) \in ends
      BY <1>3
    <2>2. LastOf(t) \in OnChain(t)
      <3>1. ends \subseteq OnChain(t)
        OBVIOUS
      <3> HIDE DEF ends
      <3> QED
        BY <1>1, <1>3, <2>1, <3>1
    <2> QED
      BY <2>2, ChainPath
  <1> QED
    BY <1>2, <1>3

LEMMA PathNoRepeat ==
  ASSUME NEW t \in Tree, WellLinkedTree(t), t[Root] # None => t[Root].parent = None,
         NEW k \in Nat, NEW s, IsPath(t, s, k)
  PROVE  /\ \A i \in 0..k, j \in 0..k : s[i] = s[j] => i = j
         /\ \A i \in 1..k : t[s[i]].parent = s[i - 1]
         /\ k < N
  <1>1. ASSUME NEW i \in 1..k PROVE t[s[i]].parent = s[i - 1]
    <2>1. i - 1 \in 0..k /\ i \in 0..k
      OBVIOUS
    <2>2. /\ s[i - 1] \in Node /\ t[s[i - 1]] # None
          /\ s[i] \in Node
          /\ t[s[i - 1]].latest = s[i]
      BY <2>1 DEF IsPath
    <2>3. t[s[i - 1]] \in Message
      BY <2>2 DEF Tree
    <2> QED
      BY <2>2, <2>3, NodesAreNodes DEF WellLinkedTree
  <1>2. \A i \in 0..k, j \in 0..k : s[i] = s[j] => i = j
    <2> DEFINE Bad == {i \in 0..k : \E j \in 0..k : i < j /\ s[i] = s[j]}
    <2>1. Bad = {}
      <3> SUFFICES ASSUME Bad # {} PROVE FALSE
        OBVIOUS
      <3>1. PICK m \in Bad : \A i \in Bad : m <= i
        <4>1. Bad \subseteq Nat
          OBVIOUS
        <4> HIDE DEF Bad
        <4> QED
          BY <4>1, Least
      <3>2. m \in 0..k
        BY <3>1
      <3>3. PICK j \in 0..k : m < j /\ s[m] = s[j]
        BY <3>1
      <3>4. j \in 1..k /\ j - 1 \in 0..k
        BY <3>2, <3>3
      <3>5. t[s[j]].parent = s[j - 1] /\ s[j - 1] \in Node
        BY <1>1, <3>4 DEF IsPath
      <3>6. CASE m = 0
        <4>1. s[m] = Root /\ t[Root] # None
          BY <3>2, <3>6 DEF IsPath
        <4> QED
          BY <3>3, <3>5, <4>1, NodesAreNodes
      <3>7. CASE m # 0
        <4>1. m \in 1..k /\ m - 1 \in 0..k
          BY <3>2, <3>7
        <4>2. t[s[m]].parent = s[m - 1]
          BY <1>1, <4>1
        <4>3. s[m - 1] = s[j - 1] /\ m - 1 < j - 1
          BY <3>2, <3>3, <3>5, <4>2
        <4>4. m - 1 \in Bad
          BY <3>4, <4>1, <4>3
        <4> HIDE DEF Bad
        <4> QED
          BY <3>1, <3>2, <4>4
      <3> QED
        BY <3>6, <3>7
    <2> QED
      BY <2>1
  <1>3. k < N
    <2> SUFFICES ASSUME ~(k < N) PROVE FALSE
      OBVIOUS
    <2> DEFINE f == [i \in 0..k |-> s[i]]
    <2>1. f \in [0..k -> Node]
      BY DEF IsPath
    <2>2. IsFiniteSet(0..k) /\ Cardinality(0..k) = k + 1
      BY FS_Interval
    <2>3. PICK i \in 0..k, j \in 0..k : i # j /\ f[i] = f[j]
      <3>1. Cardinality(Node) < Cardinality(0..k)
        BY <2>2, NIsNat DEF N
      <3> HIDE DEF f
      <3> QED
        BY <2>1, <2>2, <3>1, NodesAreFinite, FS_PigeonHole, Zenon
    <2> QED
      BY <1>2, <2>3
  <1> QED
    BY <1>1, <1>2, <1>3

\* The answer a ends the chain, below its user message u.
Aims(t, u, a) ==
  \E k \in Nat \ {0} : \E s :
    IsPath(t, s, k) /\ s[k - 1] = u /\ s[k] = a /\ t[a].latest = None

LEMMA AimedIsLast ==
  ASSUME NEW t \in Tree, WellLinkedTree(t), t[Root] # None => t[Root].parent = None,
         NEW u, NEW a, Aims(t, u, a)
  PROVE  LastOf(t) = a
  <1>1. PICK k \in Nat \ {0} : \E s : IsPath(t, s, k) /\ s[k] = a /\ t[a].latest = None
    BY DEF Aims
  <1>2. PICK s : IsPath(t, s, k) /\ s[k] = a /\ t[a].latest = None
    BY <1>1
  <1>3. k \in 0..N
    BY <1>2, NIsNat, PathNoRepeat
  <1>4. ~Exists(t, t[s[k]].latest)
    BY <1>2, NodesAreNodes DEF Exists
  <1> QED
    BY <1>2, <1>3, <1>4, PathEnds

\* A user message and its answer put below the end of a path: new there, or there already
\* with the user message the latest.
LEMMA UpsertAims ==
  ASSUME NEW w \in Tree, NEW k \in Nat, NEW s, IsPath(w, s, k),
         \A i \in 0..k, j \in 0..k : s[i] = s[j] => i = j,
         NEW u \in Node, NEW a \in Node, u # a, \A i \in 0..k : s[i] # u /\ s[i] # a,
         NEW user \in Message, user.parent = s[k],
         u \in w[s[k]].children => w[s[k]].latest = u,
         a \in user.children => user.children = {a},
         NEW type \in {"answer", "error"}
  PROVE  Aims(Put(Put(w, u, user), a, AnswerTo(u, type)), u, a)
  <1> DEFINE m == AnswerTo(u, type)
             t1 == Put(w, u, user)
             r == Put(t1, a, m)
             p == s[k]
             s1 == [i \in 0..(k + 2) |-> IF i <= k THEN s[i] ELSE IF i = k + 1 THEN u ELSE a]
  <1>1. m \in Message /\ m.parent = u /\ m.children = {} /\ m.latest = None
    BY DEF AnswerTo, Message
  <1> HIDE DEF m
  <1>2. IsPut(t1, w, u, user)
    BY PutFacts
  <1> HIDE DEF t1
  <1>3. IsPut(r, t1, a, m)
    <2>1. t1 \in Tree
      BY <1>2 DEF IsPut
    <2> QED
      BY <1>1, <2>1, PutFacts
  <1> HIDE DEF r
  <1>4. p \in Node /\ w[p] # None /\ p # u /\ p # a
    BY DEF IsPath
  <1>5. \A i \in 0..k : s[i] \in Node /\ w[s[i]] # None /\ s[i] # u /\ s[i] # a
    BY DEF IsPath
  <1>6. \A i \in 0..k : r[s[i]] # None
    BY <1>2, <1>3, <1>5 DEF IsPut
  <1>7. \A i \in 0..(k - 1) : r[s[i]].latest = w[s[i]].latest
    <2> SUFFICES ASSUME NEW i \in 0..(k - 1) PROVE r[s[i]].latest = w[s[i]].latest
      OBVIOUS
    <2>1. i \in 0..k /\ s[i] # p
      OBVIOUS
    <2>2. t1[s[i]] # None /\ t1[s[i]].latest = w[s[i]].latest
      BY <1>2, <1>5, <2>1 DEF IsPut
    <2> QED
      BY <1>1, <1>3, <1>5, <1>6, <2>1, <2>2 DEF IsPut
  <1>8. r[p].latest = u
    <2>1. t1[p] # None /\ t1[p].latest = u
      BY <1>2, <1>4 DEF IsPut
    <2> QED
      BY <1>1, <1>3, <1>4, <2>1 DEF IsPut
  <1>9. r[u] # None /\ r[u].latest = a
    <2>1. user.parent # u
      BY <1>4
    <2>2. t1[u] # None /\ t1[u].children = user.children \union {}
      BY <1>2, <2>1 DEF IsPut
    <2> QED
      BY <1>1, <1>3, <2>2 DEF IsPut
  <1>10. r[a] # None /\ r[a].latest = None
    BY <1>1, <1>3 DEF IsPut
  <1>11. IsPath(r, s1, k + 2)
    <2>1. s1[0] = Root
      BY DEF IsPath
    <2>2. \A i \in 0..(k + 2) : s1[i] \in Node /\ r[s1[i]] # None
      BY <1>5, <1>6, <1>9, <1>10
    <2>3. ASSUME NEW i \in 1..(k + 2) PROVE s1[i] = r[s1[i - 1]].latest
      <3>1. CASE i <= k
        <4>1. i \in 1..k /\ i - 1 \in 0..(k - 1)
          BY <3>1
        <4>2. s1[i] = s[i] /\ s1[i - 1] = s[i - 1]
          BY <4>1
        <4> HIDE DEF s1
        <4>3. s[i] = w[s[i - 1]].latest
          BY <4>1 DEF IsPath
        <4> QED
          BY <1>7, <4>1, <4>2, <4>3
      <3>2. CASE i = k + 1
        <4>1. s1[i] = u /\ s1[i - 1] = p
          BY <3>2
        <4> QED
          BY <1>8, <4>1
      <3>3. CASE i = k + 2
        <4>1. s1[i] = a /\ s1[i - 1] = u
          BY <3>3
        <4> QED
          BY <1>9, <4>1
      <3> QED
        BY <3>1, <3>2, <3>3
    <2> QED
      BY <2>1, <2>2, <2>3 DEF IsPath
  <1>12. k + 2 \in Nat \ {0} /\ s1[k + 2] = a /\ s1[(k + 2) - 1] = u
    OBVIOUS
  <1> HIDE DEF s1
  <1>13. Aims(r, u, a)
    BY <1>10, <1>11, <1>12 DEF Aims
  <1> QED
    BY <1>13 DEF r, t1, m

\* An answer put below a user message that is on screen.
LEMMA PutAims ==
  ASSUME NEW t \in Tree, WellLinkedTree(t), t[Root] # None => t[Root].parent = None,
         NEW u \in Node, NEW a \in Node, t[a] = None, OnPath(t, u), NEW type \in {"answer", "error"}
  PROVE  Aims(Put(t, a, AnswerTo(u, type)), u, a)
  <1> DEFINE m == AnswerTo(u, type)
             r == Put(t, a, m)
  <1>1. m \in Message /\ m.parent = u /\ m.children = {} /\ m.latest = None
    BY DEF AnswerTo, Message
  <1> HIDE DEF m
  <1>2. IsPut(r, t, a, m)
    BY <1>1, PutFacts
  <1> HIDE DEF r
  <1>3. PICK k \in Nat : \E s : IsPath(t, s, k) /\ s[k] = u
    BY DEF OnPath
  <1>4. PICK s : IsPath(t, s, k) /\ s[k] = u
    BY <1>3
  <1> DEFINE s1 == [i \in 0..(k + 1) |-> IF i <= k THEN s[i] ELSE a]
  <1>5. \A i \in 0..k : s[i] \in Node /\ t[s[i]] # None /\ s[i] # a
    BY <1>4 DEF IsPath
  <1>6. \A i \in 0..k : r[s[i]] # None
    BY <1>2, <1>5 DEF IsPut
  <1>7. \A i \in 0..(k - 1) : r[s[i]].latest = t[s[i]].latest
    <2> SUFFICES ASSUME NEW i \in 0..(k - 1) PROVE r[s[i]].latest = t[s[i]].latest
      OBVIOUS
    <2>1. i \in 0..k /\ s[i] # u
      BY <1>4, PathNoRepeat
    <2> QED
      BY <1>1, <1>2, <1>5, <1>6, <2>1 DEF IsPut
  <1>8. r[u].latest = a
    <2>1. k \in 0..k
      OBVIOUS
    <2>2. t[u] # None /\ r[u] # None /\ u # a /\ a \notin t[u].children
      BY <1>4, <1>5, <1>6, <2>1 DEF WellLinkedTree
    <2> QED
      BY <1>1, <1>2, <2>2 DEF IsPut
  <1>9. r[a] # None /\ r[a].latest = None
    <2>1. u # a
      BY <1>4, <1>5
    <2> QED
      BY <1>1, <1>2, <2>1 DEF IsPut
  <1>10. IsPath(r, s1, k + 1)
    <2>1. s1[0] = Root
      BY <1>4 DEF IsPath
    <2>2. \A i \in 0..(k + 1) : s1[i] \in Node /\ r[s1[i]] # None
      BY <1>5, <1>6, <1>9
    <2>3. ASSUME NEW i \in 1..(k + 1) PROVE s1[i] = r[s1[i - 1]].latest
      <3>1. CASE i <= k
        <4>1. i \in 1..k /\ i - 1 \in 0..(k - 1)
          BY <3>1
        <4>2. s1[i] = s[i] /\ s1[i - 1] = s[i - 1]
          BY <4>1
        <4> HIDE DEF s1
        <4>3. s[i] = t[s[i - 1]].latest
          BY <1>4, <4>1 DEF IsPath
        <4> QED
          BY <1>7, <4>1, <4>2, <4>3
      <3>2. CASE i = k + 1
        <4>1. s1[i] = a /\ s1[i - 1] = u
          BY <1>4, <3>2
        <4> QED
          BY <1>8, <4>1
      <3> QED
        BY <3>1, <3>2
    <2> QED
      BY <2>1, <2>2, <2>3 DEF IsPath
  <1>11. k + 1 \in Nat \ {0} /\ s1[k + 1] = a /\ s1[(k + 1) - 1] = u
    BY <1>4
  <1> HIDE DEF s1
  <1>12. Aims(r, u, a)
    BY <1>9, <1>10, <1>11 DEF Aims
  <1> QED
    BY <1>12 DEF r, m

-----------------------------------------------------------------------------
(***************************************************************************)
(* The root and the errors.                                                *)
(***************************************************************************)

\* Nothing is above the root, and what is cleared away with an error is not the root.
Sound(t) ==
  t # Empty =>
    /\ t[Root] # None /\ t[Root].parent = None /\ t[Root].type = "system"
    /\ \A n \in Node : t[n] # None /\ t[n].type = "error" => t[n].parent # Root

LEMMA SoundRoot ==
  ASSUME NEW t, Sound(t)
  PROVE  t[Root] # None => t[Root].parent = None /\ t[Root].type = "system"
  BY NodesAreNodes DEF Sound, Empty

LEMMA PutSound ==
  ASSUME NEW t \in Tree, Sound(t), t # Empty, NEW n \in Node \ {Root}, NEW m \in Message,
         m.type = "error" => m.parent # Root
  PROVE  Sound(Put(t, n, m)) /\ Put(t, n, m) # Empty
  <1> DEFINE r == Put(t, n, m)
  <1>1. IsPut(r, t, n, m)
    BY PutFacts
  <1> HIDE DEF r
  <1>2. r[Root] # None /\ r[Root].parent = None /\ r[Root].type = "system"
    BY <1>1, NodesAreNodes DEF IsPut, Sound
  <1>3. \A c \in Node : r[c] # None /\ r[c].type = "error" => r[c].parent # Root
    BY <1>1 DEF IsPut, Sound
  <1>4. r # Empty
    BY <1>2, NodesAreNodes DEF Empty
  <1> QED
    BY <1>2, <1>3, <1>4 DEF Sound, r

LEMMA WithRootIs ==
  ASSUME NEW t \in Tree, Sound(t), NEW n \in Node
  PROVE  LET w == WithRoot(t, n)
         IN /\ w \in Tree /\ Sound(w) /\ w # Empty
            /\ t # Empty => w = t
            /\ t = Empty => /\ w[Root].children = {n} /\ w[Root].latest = n
                            /\ \A c \in Node \ {Root} : w[c] = None
  <1> DEFINE w == WithRoot(t, n)
             sys == [type |-> "system", parent |-> None, children |-> {n}, latest |-> n]
  <1>1. CASE t # Empty
    BY <1>1 DEF WithRoot
  <1>2. CASE t = Empty
    <2>1. sys \in Message /\ sys.children = {n} /\ sys.latest = n /\ sys.parent = None
          /\ sys.type = "system"
      BY DEF Message
    <2>2. w = [t EXCEPT ![Root] = sys]
      BY <1>2 DEF WithRoot
    <2> HIDE DEF sys, w
    <2>3. w \in Tree /\ w[Root] = sys /\ \A c \in Node \ {Root} : w[c] = None
      BY <1>2, <2>1, <2>2, NodesAreNodes DEF Tree, Empty
    <2>4. sys # None
      BY <2>1, NoneIsNoMessage
    <2>5. Sound(w) /\ w # Empty
      BY <2>1, <2>3, <2>4, NodesAreNodes DEF Sound, Empty
    <2> QED
      BY <1>2, <2>1, <2>3, <2>5 DEF w
  <1> QED
    BY <1>1, <1>2

LEMMA UpsertSound ==
  ASSUME NEW t \in Tree, Sound(t), NEW u \in Node \ {Root}, NEW user \in Message, user.type = "user",
         NEW a \in Node \ {Root}, NEW type \in {"answer", "error"}
  PROVE  Sound(Upsert(t, u, user, a, AnswerTo(u, type)))
  <1> DEFINE m == AnswerTo(u, type)
             w == WithRoot(t, u)
             t1 == Put(w, u, user)
  <1>1. m \in Message /\ m.parent = u
    BY DEF AnswerTo, Message
  <1>2. w \in Tree /\ Sound(w) /\ w # Empty
    BY WithRootIs
  <1>3. Upsert(t, u, user, a, m) = Put(t1, a, m)
    BY DEF Upsert
  <1> HIDE DEF m, w
  <1>4. t1 \in Tree /\ Sound(t1) /\ t1 # Empty
    BY <1>2, PutSound, PutFacts DEF IsPut
  <1> HIDE DEF t1
  <1>5. Sound(Put(t1, a, m))
    BY <1>1, <1>4, PutSound
  <1> QED
    BY <1>3, <1>5 DEF m

-----------------------------------------------------------------------------
(***************************************************************************)
(* Turns.                                                                  *)
(***************************************************************************)

\* The turn's own trees are well linked too, and its messages fit into the one it works on,
\* however often it publishes.
TurnFits ==
  turn # None =>
    /\ WellLinkedTree(turn.before) /\ WellLinkedTree(turn.local)
    /\ turn.local # Empty
    /\ Fits(turn.local, turn.user, turn.userNode, turn.agent)
    /\ turn.parent = turn.userNode.parent

IInv == TypeOK /\ WellLinked /\ TurnFits

LEMMA InitIInv == Init => IInv
  BY EmptyIsTree DEF Init, IInv, TypeOK, WellLinked, WellLinkedTree, Empty, TurnFits

LEMMA BeginLinks ==
  ASSUME NEW t \in Tree, WellLinkedTree(t),
         NEW u \in Node, NEW user \in Message, NEW a \in Node,
         NEW reuses \in BOOLEAN, NEW regenerates \in BOOLEAN,
         IF reuses \/ regenerates THEN t[u] # None /\ user = t[u] ELSE Fits(t, u, user, a),
         u # a, t[a] = None,
         Begin(t, u, user, a, reuses, regenerates)
  PROVE  IInv'
  <1> DEFINE local == IF reuses \/ regenerates THEN Put(t, a, AnswerTo(u, "answer"))
                      ELSE Upsert(t, u, user, a, AnswerTo(u, "answer"))
             turn1 == [user |-> u, userNode |-> user, agent |-> a, reuses |-> reuses,
                       regenerates |-> regenerates, parent |-> user.parent,
                       local |-> local, before |-> t]
  <1>1. turn' = turn1 /\ tree' = local /\ moved' = FALSE
    BY DEF Begin
  <1>2. /\ local \in Tree /\ WellLinkedTree(local)
        /\ local # Empty /\ Fits(local, u, user, a)
    <2>1. CASE reuses \/ regenerates
      <3>1. local = Put(t, a, AnswerTo(u, "answer"))
        BY <2>1
      <3>2. AnswerTo(u, "answer") \in Message /\ AnswerTo(u, "answer").parent = u
        BY DEF AnswerTo, Message
      <3> HIDE DEF local
      <3>3. local \in Tree /\ WellLinkedTree(local)
        BY <3>1, PutLinks
      <3>4. IsPut(local, t, a, AnswerTo(u, "answer"))
        BY <3>1, <3>2, PutFacts
      <3>5. /\ local[u] # None /\ local[u].parent = user.parent
            /\ local[a] # None /\ local[a].parent = u
            /\ local # Empty
        BY <2>1, <3>2, <3>4 DEF IsPut, Empty
      <3>6. /\ user.children \subseteq Node
            /\ \A c \in user.children : t[c] # None /\ t[c].parent = u
            /\ user.latest \in user.children \union {None}
        BY <2>1 DEF WellLinkedTree, Message
      <3>7. \A c \in user.children \ {a} : local[c] # None /\ local[c].parent = u
        BY <3>4, <3>6 DEF IsPut
      <3> QED
        BY <3>3, <3>5, <3>6, <3>7 DEF Fits
    <2>2. CASE ~(reuses \/ regenerates)
      BY <2>2, UpsertLinks
    <2> QED
      BY <2>1, <2>2
  <1> HIDE DEF local
  <1>3. turn1 \in Turn
    BY <1>2 DEF Turn, Message
  <1> QED
    BY <1>1, <1>2, <1>3 DEF IInv, TypeOK, WellLinked, TurnFits

LEMMA BeginBelowLinks ==
  ASSUME NEW t \in Tree, WellLinkedTree(t), NEW p \in Node \union {None}, t = Empty => p = Root,
         BeginBelow(t, p)
  PROVE  IInv'
  <1>1. PICK u \in Fresh(t), a \in Fresh(t) :
          /\ u # a
          /\ Begin(t, u, [type |-> "user", parent |-> p, children |-> {a}, latest |-> a], a,
                   FALSE, FALSE)
    BY DEF BeginBelow
  <1> DEFINE user == [type |-> "user", parent |-> p, children |-> {a}, latest |-> a]
  <1>2. u \in Node /\ a \in Node /\ t[u] = None /\ t[a] = None
    BY DEF Fresh
  <1>3. user \in Message /\ Fits(t, u, user, a)
    BY <1>1, <1>2 DEF Message, Fits
  <1> HIDE DEF user
  <1> QED
    BY <1>1, <1>2, <1>3, BeginLinks DEF user

LEMMA StepIInv == IInv /\ [Next]_vars => IInv'
  <1> SUFFICES ASSUME IInv, [Next]_vars PROVE IInv'
    OBVIOUS
  <1>1. tree \in Tree /\ WellLinkedTree(tree)
    BY DEF IInv, TypeOK, WellLinked
  <1>2. CASE Send
    <2> DEFINE t == IF EndsInError(tree) THEN WithoutError(tree) ELSE tree
    <2>1. t \in Tree /\ WellLinkedTree(t)
      BY <1>1, WithoutErrorLinks
    <2>2. BeginBelow(t, LastOf(t))
      BY <1>2 DEF Send
    <2> HIDE DEF t
    <2> QED
      BY <2>1, <2>2, LastIsNode, BeginBelowLinks
  <1>3. ASSUME NEW u \in Node, Edit(u) PROVE IInv'
    <2>1. tree[u] \in Message /\ tree # Empty
      BY <1>1, <1>3, NoneIsNoMessage, OnChainExists DEF Edit, UsersShown, Exists, Tree, Empty
    <2> QED
      BY <1>1, <1>3, <2>1, BeginBelowLinks DEF Edit, Message
  <1>4. ASSUME NEW u \in Node, Regenerate(u) PROVE IInv'
    <2>1. tree[u] \in Message /\ tree[u] # None
      BY <1>1, <1>4, OnChainExists DEF Regenerate, UsersShown, Exists, Tree
    <2>2. PICK a \in Fresh(tree) : Begin(tree, u, tree[u], a, FALSE, TRUE)
      BY <1>4 DEF Regenerate
    <2>3. a \in Node /\ tree[a] = None /\ u # a
      BY <2>1 DEF Fresh
    <2> QED
      BY <1>1, <2>1, <2>2, <2>3, BeginLinks
  <1>5. CASE Attach
    <2>1. CASE BeginBelow(tree, LastOf(tree))
      BY <1>1, <2>1, LastIsNode, BeginBelowLinks
    <2>2. ASSUME NEW u \in UsersShown, NEW a \in Fresh(tree),
                 Begin(tree, u, tree[u], a, TRUE, FALSE)
          PROVE  IInv'
      <3>1. u \in Node /\ tree[u] \in Message /\ tree[u] # None
        BY <1>1, OnChainExists DEF UsersShown, Exists, Tree
      <3>2. a \in Node /\ tree[a] = None /\ u # a
        BY <3>1 DEF Fresh
      <3> QED
        BY <1>1, <2>2, <3>1, <3>2, BeginLinks
    <2> QED
      BY <1>5, <2>1, <2>2 DEF Attach
  <1>6. CASE Publish
    <2> DEFINE local == Upsert(turn.local, turn.user, turn.userNode, turn.agent,
                               AnswerTo(turn.user, "answer"))
    <2>1. /\ turn # None /\ turn \in Turn
          /\ turn' = [turn EXCEPT !.local = local] /\ tree' = local /\ moved' = FALSE
      BY <1>6 DEF Publish, IInv, TypeOK
    <2>2. /\ local \in Tree /\ WellLinkedTree(local) /\ local # Empty
          /\ Fits(local, turn.user, turn.userNode, turn.agent)
      BY <2>1, UpsertLinks DEF IInv, TurnFits, Turn
    <2> HIDE DEF local
    <2>3. /\ turn' \in Turn /\ turn'.local = local /\ turn'.before = turn.before
          /\ turn'.user = turn.user /\ turn'.userNode = turn.userNode
          /\ turn'.agent = turn.agent /\ turn'.parent = turn.parent
      BY <2>1, <2>2 DEF Turn
    <2> QED
      BY <2>1, <2>2, <2>3 DEF IInv, TypeOK, WellLinked, TurnFits
  <1>7. CASE Fail
    <2> DEFINE user == IF turn.reuses THEN turn.userNode
                       ELSE [AnswerTo(turn.parent, "user") EXCEPT !.parent = turn.parent]
    <2>1. turn # None /\ turn \in Turn
      BY <1>7 DEF Fail, IInv, TypeOK
    <2>2. user \in Message /\ Fits(turn.local, turn.user, user, turn.agent)
      BY <2>1 DEF Turn, Message, AnswerTo, Fits, IInv, TurnFits
    <2>3. tree' = Upsert(turn.local, turn.user, user, turn.agent, AnswerTo(turn.user, "error"))
          /\ turn' = None /\ moved' = FALSE
      BY <1>7 DEF Fail
    <2> HIDE DEF user
    <2>4. tree' \in Tree /\ WellLinkedTree(tree')
      BY <2>1, <2>2, <2>3, UpsertLinks DEF Turn, IInv, TurnFits
    <2> QED
      BY <2>3, <2>4 DEF IInv, TypeOK, WellLinked, WellLinkedTree, TurnFits
  <1>8. CASE Finish
    BY <1>8 DEF Finish, IInv, TypeOK, WellLinked, WellLinkedTree, TurnFits
  <1>9. CASE PutBack
    <2>1. turn # None /\ turn.before \in Tree /\ WellLinkedTree(turn.before)
      BY <1>9 DEF PutBack, IInv, TypeOK, TurnFits, Turn
    <2>2. tree' = turn.before /\ turn' = None /\ moved' = FALSE
      BY <1>9 DEF PutBack
    <2>3. WellLinkedTree(tree')
      BY <2>1, <2>2
    <2> QED
      BY <2>1, <2>2, <2>3 DEF IInv, TypeOK, WellLinked, WellLinkedTree, TurnFits
  <1>10. ASSUME NEW n \in Node, SelectMessage(n) PROVE IInv'
    <2> DEFINE p == tree[n].parent
    <2>1. p \in Node /\ tree[p] \in Message /\ n \in tree[p].children
      BY <1>1, <1>10 DEF SelectMessage, Exists, Tree
    <2>2. tree' = [tree EXCEPT ![p].latest = n] /\ UNCHANGED turn /\ moved' \in BOOLEAN
      BY <1>10 DEF SelectMessage, SetAsLatest
    <2> HIDE DEF p
    <2>3. tree' \in Tree /\ WellLinkedTree(tree')
      BY <1>1, <2>1, <2>2, NoneIsNoMessage DEF Tree, Message, WellLinkedTree
    <2> QED
      BY <2>2, <2>3 DEF IInv, TypeOK, WellLinked, WellLinkedTree, TurnFits
  <1>11. CASE SubmitRefused
    <2>1. tree' \in Tree /\ WellLinkedTree(tree')
      BY <1>1, <1>11, WithoutErrorLinks DEF SubmitRefused
    <2> QED
      BY <1>11, <2>1 DEF SubmitRefused, IInv, TypeOK, WellLinked, WellLinkedTree, TurnFits
  <1>12. CASE UNCHANGED vars
    BY <1>12 DEF vars, IInv, TypeOK, WellLinked, WellLinkedTree, TurnFits
  <1> QED
    BY <1>2, <1>3, <1>4, <1>5, <1>6, <1>7, <1>8, <1>9, <1>10, <1>11, <1>12 DEF Next

-----------------------------------------------------------------------------
(***************************************************************************)
(* The answer under way on screen.                                         *)
(***************************************************************************)

\* The turn's own tree shows its answer at the end, and is the tree on screen until the
\* user moves.
TurnShown ==
  turn # None =>
    /\ Sound(turn.before) /\ Sound(turn.local)
    /\ turn.user # Root /\ turn.agent # Root
    /\ turn.userNode.type = "user"
    /\ turn.agent \in turn.userNode.children => turn.userNode.children = {turn.agent}
    /\ Aims(turn.local, turn.user, turn.agent)
    /\ ~moved => tree = turn.local

Shown == Sound(tree) /\ TurnShown

LEMMA InitShown == Init => Shown
  BY DEF Init, Shown, Sound, TurnShown

\* A turn's messages are put below the end p of a path where they are new.
LEMMA NewBelowAims ==
  ASSUME NEW t \in Tree, WellLinkedTree(t), Sound(t),
         NEW u \in Node \ {Root}, NEW a \in Node \ {Root}, u # a, t[u] = None, t[a] = None,
         NEW user \in Message, user.children = {a},
         IF t = Empty THEN user.parent = Root ELSE OnPath(t, user.parent)
  PROVE  Aims(Upsert(t, u, user, a, AnswerTo(u, "answer")), u, a)
  <1> DEFINE w == WithRoot(t, u)
  <1>1. Upsert(t, u, user, a, AnswerTo(u, "answer"))
          = Put(Put(w, u, user), a, AnswerTo(u, "answer"))
    BY DEF Upsert
  <1>2. /\ w \in Tree /\ Sound(w) /\ w # Empty
        /\ t # Empty => w = t
        /\ t = Empty => /\ w[Root].children = {u} /\ w[Root].latest = u
                        /\ \A c \in Node \ {Root} : w[c] = None
    BY WithRootIs
  <1> HIDE DEF w
  <1>3. w[u] = None /\ w[a] = None
    BY <1>2
  <1>4. PICK k \in Nat : \E s : /\ IsPath(w, s, k) /\ s[k] = user.parent
                                /\ \A i \in 0..k, j \in 0..k : s[i] = s[j] => i = j
                                /\ u \in w[s[k]].children => w[s[k]].latest = u
    <2>1. CASE t = Empty
      <3> DEFINE s == [i \in {0} |-> Root]
      <3>1. IsPath(w, s, 0) /\ s[0] = Root
        BY <1>2, NodesAreNodes DEF IsPath, Sound
      <3>2. \A i \in 0..0, j \in 0..0 : i = j
        OBVIOUS
      <3> HIDE DEF s
      <3> QED
        BY <1>2, <2>1, <3>1, <3>2
    <2>2. CASE t # Empty
      <3>1. PICK k \in Nat : \E s : IsPath(t, s, k) /\ s[k] = user.parent
        BY <2>2 DEF OnPath
      <3>2. PICK s : IsPath(t, s, k) /\ s[k] = user.parent
        BY <3>1
      <3>3. \A i \in 0..k, j \in 0..k : s[i] = s[j] => i = j
        BY <3>2, PathNoRepeat, SoundRoot
      <3>4. k \in 0..k
        OBVIOUS
      <3>5. u \notin t[s[k]].children
        BY <3>2, <3>4 DEF IsPath, WellLinkedTree
      <3> QED
        BY <1>2, <2>2, <3>2, <3>3, <3>5
    <2> QED
      BY <2>1, <2>2
  <1>5. PICK s : /\ IsPath(w, s, k) /\ s[k] = user.parent
                 /\ \A i \in 0..k, j \in 0..k : s[i] = s[j] => i = j
                 /\ u \in w[s[k]].children => w[s[k]].latest = u
    BY <1>4
  <1>6. \A i \in 0..k : s[i] # u /\ s[i] # a
    BY <1>3, <1>5 DEF IsPath
  <1>7. Aims(Put(Put(w, u, user), a, AnswerTo(u, "answer")), u, a)
    BY <1>2, <1>5, <1>6, UpsertAims
  <1> QED
    BY <1>1, <1>7

\* Putting the turn's messages once more leaves the answer at the end.
LEMMA AgainAims ==
  ASSUME NEW t \in Tree, WellLinkedTree(t), Sound(t), t # Empty,
         NEW u \in Node \ {Root}, NEW a \in Node, NEW user \in Message,
         Fits(t, u, user, a), a \in user.children => user.children = {a},
         Aims(t, u, a), NEW type \in {"answer", "error"}
  PROVE  Aims(Upsert(t, u, user, a, AnswerTo(u, type)), u, a)
  <1>1. Upsert(t, u, user, a, AnswerTo(u, type))
          = Put(Put(t, u, user), a, AnswerTo(u, type))
    BY DEF Upsert, WithRoot
  <1>2. PICK k \in Nat \ {0} : \E s : IsPath(t, s, k) /\ s[k - 1] = u /\ s[k] = a
    BY DEF Aims
  <1>3. PICK s : IsPath(t, s, k) /\ s[k - 1] = u /\ s[k] = a
    BY <1>2
  <1>4. k - 1 \in 1..k
    <2>1. k - 1 # 0
      BY <1>3 DEF IsPath
    <2> QED
      BY <2>1
  <1>5. /\ \A i \in 0..k, j \in 0..k : s[i] = s[j] => i = j
        /\ \A i \in 1..k : t[s[i]].parent = s[i - 1]
    BY <1>3, PathNoRepeat, SoundRoot
  <1>6. /\ s[k - 2] \in Node /\ t[s[k - 2]] # None
        /\ t[s[k - 2]].latest = u /\ user.parent = s[k - 2]
    <2>1. k - 2 \in 0..k /\ (k - 1) - 1 = k - 2 /\ k - 1 \in 0..k
      BY <1>4
    <2>2. t[u] # None /\ u = t[s[k - 2]].latest /\ t[u].parent = s[k - 2]
      BY <1>3, <1>4, <1>5, <2>1 DEF IsPath
    <2>3. user.parent = t[u].parent
      BY <2>2 DEF Fits
    <2> QED
      BY <1>3, <2>1, <2>2, <2>3 DEF IsPath
  <1>7. k - 2 \in Nat /\ IsPath(t, s, k - 2)
    BY <1>3, <1>4 DEF IsPath
  <1>8. \A i \in 0..(k - 2), j \in 0..(k - 2) : s[i] = s[j] => i = j
    BY <1>4, <1>5
  <1>9. \A i \in 0..(k - 2) : s[i] # u /\ s[i] # a
    <2> SUFFICES ASSUME NEW i \in 0..(k - 2) PROVE s[i] # u /\ s[i] # a
      OBVIOUS
    <2>1. i \in 0..k /\ i # k - 1 /\ i # k /\ k - 1 \in 0..k /\ k \in 0..k
      BY <1>4
    <2> QED
      BY <1>3, <1>5, <2>1
  <1>10. u # a
    BY DEF Fits
  <1>11. Aims(Put(Put(t, u, user), a, AnswerTo(u, type)), u, a)
    BY <1>6, <1>7, <1>8, <1>9, <1>10, UpsertAims
  <1> QED
    BY <1>1, <1>11

LEMMA BeginShown ==
  ASSUME NEW t \in Tree, WellLinkedTree(t), Sound(t),
         NEW u \in Node \ {Root}, NEW user \in Message, NEW a \in Node \ {Root},
         NEW reuses \in BOOLEAN, NEW regenerates \in BOOLEAN,
         u # a, t[a] = None, user.type = "user",
         IF reuses \/ regenerates
         THEN user = t[u] /\ OnPath(t, u)
         ELSE /\ t[u] = None /\ user.children = {a}
              /\ IF t = Empty THEN user.parent = Root ELSE OnPath(t, user.parent),
         Begin(t, u, user, a, reuses, regenerates)
  PROVE  Shown'
  <1> DEFINE m == AnswerTo(u, "answer")
             local == IF reuses \/ regenerates THEN Put(t, a, m) ELSE Upsert(t, u, user, a, m)
  <1>1. /\ turn' = [user |-> u, userNode |-> user, agent |-> a, reuses |-> reuses,
                    regenerates |-> regenerates, parent |-> user.parent,
                    local |-> local, before |-> t]
        /\ tree' = local
    BY DEF Begin
  <1>2. Sound(local) /\ Aims(local, u, a)
    <2>1. CASE reuses \/ regenerates
      <3>1. m \in Message /\ m.type = "answer"
        BY DEF AnswerTo, Message
      <3>2. t # Empty
        <4>1. PICK k \in Nat : \E s : IsPath(t, s, k)
          BY <2>1 DEF OnPath
        <4>2. t[Root] # None
          BY <4>1 DEF IsPath
        <4> QED
          BY <4>2, NodesAreNodes DEF Empty
      <3>3. Sound(Put(t, a, m))
        <4> HIDE DEF m
        <4> QED
          BY <3>1, <3>2, PutSound
      <3>4. Aims(Put(t, a, m), u, a)
        BY <2>1, PutAims, SoundRoot
      <3> QED
        BY <2>1, <3>3, <3>4
    <2>2. CASE ~(reuses \/ regenerates)
      <3>1. Sound(Upsert(t, u, user, a, m))
        BY UpsertSound
      <3>2. Aims(Upsert(t, u, user, a, m), u, a)
        BY <2>2, NewBelowAims
      <3> QED
        BY <2>2, <3>1, <3>2
    <2> QED
      BY <2>1, <2>2
  <1>3. a \in user.children => user.children = {a}
    BY NoneIsNoMessage DEF WellLinkedTree
  <1> HIDE DEF local
  <1> QED
    BY <1>1, <1>2, <1>3 DEF Shown, TurnShown

LEMMA BeginBelowShown ==
  ASSUME NEW t \in Tree, WellLinkedTree(t), Sound(t), NEW p \in Node,
         IF t = Empty THEN p = Root ELSE OnPath(t, p),
         BeginBelow(t, p)
  PROVE  Shown'
  <1>1. PICK u \in Fresh(t), a \in Fresh(t) :
          /\ u # a
          /\ Begin(t, u, [type |-> "user", parent |-> p, children |-> {a}, latest |-> a], a,
                   FALSE, FALSE)
    BY DEF BeginBelow
  <1> DEFINE user == [type |-> "user", parent |-> p, children |-> {a}, latest |-> a]
  <1>2. u \in Node \ {Root} /\ a \in Node \ {Root} /\ t[u] = None /\ t[a] = None
    BY DEF Fresh
  <1>3. user \in Message /\ user.type = "user" /\ user.children = {a} /\ user.parent = p
    BY <1>2 DEF Message
  <1> HIDE DEF user
  <1> QED
    BY <1>1, <1>2, <1>3, BeginShown DEF user

LEMMA WithoutErrorSound ==
  ASSUME NEW t \in Tree, WellLinkedTree(t), Sound(t), EndsInError(t)
  PROVE  Sound(WithoutError(t))
  <1> DEFINE r == WithoutError(t)
             e == LastOf(t)
  <1>1. /\ \A n \in Node : r[n] = None <=> n \in {e, t[e].parent} \/ t[n] = None
        /\ \A n \in Node : r[n] # None => r[n].type = t[n].type /\ r[n].parent = t[n].parent
    BY WithoutErrorLinks
  <1>2. e \in Node /\ t[e] # None /\ t[e].type = "error"
    BY DEF EndsInError, Exists
  <1>3. t # Empty
    BY <1>2 DEF Empty
  <1>4. t[Root] # None /\ Root # e /\ Root # t[e].parent
    BY <1>2, <1>3 DEF Sound
  <1> HIDE DEF r, e
  <1>5. r[Root] # None
    BY <1>1, <1>4, NodesAreNodes
  <1> QED
    BY <1>1, <1>3, <1>5, NodesAreNodes DEF Sound, r

\* Below the end of the chain a new turn begins.
LEMMA LastOnPath ==
  ASSUME NEW t, Sound(t)
  PROVE  IF t = Empty THEN LastOf(t) = Root ELSE OnPath(t, LastOf(t))
  <1>1. CASE t = Empty
    BY <1>1, LastIsNode
  <1>2. CASE t # Empty
    BY <1>2, LastPath, NodesAreNodes DEF Sound, Exists
  <1> QED
    BY <1>1, <1>2

LEMMA OnPathExists == ASSUME NEW t, NEW n, OnPath(t, n) PROVE n \in Node /\ t[n] # None
  BY DEF OnPath, IsPath

\* Above what is on screen, but for the root, there is what it is shown below.
LEMMA PathParent ==
  ASSUME NEW t \in Tree, WellLinkedTree(t), Sound(t), NEW n, n # Root, OnPath(t, n)
  PROVE  LET p == t[n].parent IN p \in Node /\ t[p] # None /\ OnPath(t, p)
  <1>1. PICK k \in Nat : \E s : IsPath(t, s, k) /\ s[k] = n
    BY DEF OnPath
  <1>2. PICK s : IsPath(t, s, k) /\ s[k] = n
    BY <1>1
  <1>3. k # 0
    BY <1>2 DEF IsPath
  <1>4. k \in 1..k /\ k - 1 \in 0..k /\ k - 1 \in Nat
    BY <1>3
  <1>5. t[n].parent = s[k - 1]
    BY <1>2, <1>4, PathNoRepeat, SoundRoot
  <1>6. IsPath(t, s, k - 1)
    BY <1>2, <1>4 DEF IsPath
  <1>7. OnPath(t, s[k - 1])
    BY <1>4, <1>6 DEF OnPath
  <1> QED
    BY <1>5, <1>7, OnPathExists

LEMMA UserShownOnPath ==
  ASSUME tree \in Tree, WellLinkedTree(tree), Sound(tree), NEW u \in UsersShown
  PROVE  /\ u \in Node \ {Root} /\ tree[u] \in Message /\ tree[u] # None /\ tree[u].type = "user"
         /\ tree # Empty /\ OnPath(tree, u)
         /\ tree[u].parent \in Node /\ OnPath(tree, tree[u].parent)
  <1>1. u \in OnChain(tree) /\ Exists(tree, u) /\ tree[u].type = "user"
    BY OnChainExists DEF UsersShown
  <1>2. u \in Node /\ tree[u] \in Message /\ tree[u] # None /\ tree # Empty
    BY <1>1, NoneIsNoMessage DEF Exists, Tree, Empty
  <1>3. u # Root /\ Exists(tree, Root)
    BY <1>1, <1>2, NodesAreNodes DEF Sound, Exists
  <1>4. OnPath(tree, u)
    BY <1>1, <1>3, ChainPath
  <1>5. tree[u].parent \in Node /\ OnPath(tree, tree[u].parent)
    BY <1>3, <1>4, PathParent
  <1> QED
    BY <1>1, <1>2, <1>3, <1>4, <1>5

LEMMA StepShown == IInv /\ Shown /\ [Next]_vars => Shown'
  <1> SUFFICES ASSUME IInv, Shown, [Next]_vars PROVE Shown'
    OBVIOUS
  <1>1. tree \in Tree /\ WellLinkedTree(tree) /\ Sound(tree)
    BY DEF IInv, TypeOK, WellLinked, Shown
  <1>2. turn # None => /\ turn \in Turn
                       /\ WellLinkedTree(turn.local) /\ turn.local # Empty
                       /\ Fits(turn.local, turn.user, turn.userNode, turn.agent)
    BY DEF IInv, TypeOK, TurnFits
  <1>3. CASE Send
    <2> DEFINE t == IF EndsInError(tree) THEN WithoutError(tree) ELSE tree
    <2>1. t \in Tree /\ WellLinkedTree(t) /\ Sound(t)
      BY <1>1, WithoutErrorLinks, WithoutErrorSound
    <2>2. BeginBelow(t, LastOf(t))
      BY <1>3 DEF Send
    <2> HIDE DEF t
    <2> QED
      BY <2>1, <2>2, LastIsNode, LastOnPath, BeginBelowShown
  <1>4. ASSUME NEW u \in Node, Edit(u) PROVE Shown'
    <2>1. u \in UsersShown /\ BeginBelow(tree, tree[u].parent)
      BY <1>4 DEF Edit
    <2> QED
      BY <1>1, <2>1, UserShownOnPath, BeginBelowShown
  <1>5. ASSUME NEW u \in UsersShown, NEW a \in Fresh(tree), NEW reuses \in BOOLEAN,
               NEW regenerates \in BOOLEAN, reuses \/ regenerates,
               Begin(tree, u, tree[u], a, reuses, regenerates)
        PROVE  Shown'
    <2>1. /\ u \in Node \ {Root} /\ tree[u] \in Message /\ tree[u] # None /\ tree[u].type = "user"
          /\ OnPath(tree, u)
      BY <1>1, UserShownOnPath
    <2>2. a \in Node \ {Root} /\ tree[a] = None /\ u # a
      BY <2>1 DEF Fresh
    <2> QED
      BY <1>1, <1>5, <2>1, <2>2, BeginShown
  <1>6. ASSUME NEW u \in Node, Regenerate(u) PROVE Shown'
    BY <1>5, <1>6 DEF Regenerate
  <1>7. CASE Attach
    <2>1. CASE BeginBelow(tree, LastOf(tree))
      BY <1>1, <2>1, LastIsNode, LastOnPath, BeginBelowShown
    <2>2. CASE \E u \in UsersShown, a \in Fresh(tree) : Begin(tree, u, tree[u], a, TRUE, FALSE)
      BY <1>5, <2>2
    <2> QED
      BY <1>7, <2>1, <2>2 DEF Attach
  <1>8. CASE Publish
    <2> DEFINE local == Upsert(turn.local, turn.user, turn.userNode, turn.agent,
                               AnswerTo(turn.user, "answer"))
    <2>1. /\ turn # None /\ turn' = [turn EXCEPT !.local = local] /\ tree' = local
      BY <1>8 DEF Publish
    <2>2. /\ turn.user \in Node \ {Root} /\ turn.agent \in Node \ {Root}
          /\ turn.userNode \in Message /\ turn.local \in Tree
      BY <1>2, <2>1 DEF Turn, Shown, TurnShown
    <2>3. Sound(local)
      BY <2>1, <2>2, UpsertSound DEF Shown, TurnShown
    <2>4. Aims(local, turn.user, turn.agent)
      BY <1>2, <2>1, <2>2, AgainAims DEF Shown, TurnShown
    <2> HIDE DEF local
    <2>5. /\ turn'.local = local /\ turn'.before = turn.before
          /\ turn'.user = turn.user /\ turn'.userNode = turn.userNode
          /\ turn'.agent = turn.agent
      BY <1>2, <2>1 DEF Turn
    <2> QED
      BY <2>1, <2>3, <2>4, <2>5 DEF Shown, TurnShown
  <1>9. CASE Fail
    <2> DEFINE user == IF turn.reuses THEN turn.userNode
                       ELSE [AnswerTo(turn.parent, "user") EXCEPT !.parent = turn.parent]
    <2>1. turn # None
      BY <1>9 DEF Fail
    <2>2. /\ turn.user \in Node \ {Root} /\ turn.agent \in Node \ {Root}
          /\ user \in Message /\ user.type = "user" /\ turn.local \in Tree
      BY <1>2, <2>1 DEF Turn, Message, AnswerTo, Shown, TurnShown
    <2>3. tree' = Upsert(turn.local, turn.user, user, turn.agent, AnswerTo(turn.user, "error"))
          /\ turn' = None
      BY <1>9 DEF Fail
    <2> HIDE DEF user
    <2>4. Sound(tree')
      BY <2>1, <2>2, <2>3, UpsertSound DEF Shown, TurnShown
    <2> QED
      BY <2>3, <2>4 DEF Shown, TurnShown, Sound
  <1>10. CASE Finish
    BY <1>10 DEF Finish, Shown, TurnShown, Sound
  <1>11. CASE PutBack
    BY <1>11 DEF PutBack, Shown, TurnShown, Sound
  <1>12. ASSUME NEW n \in Node, SelectMessage(n) PROVE Shown'
    <2> DEFINE p == tree[n].parent
    <2>1. p \in Node /\ tree[p] \in Message
      BY <1>1, <1>12 DEF SelectMessage, Exists, Tree
    <2>2. tree' = [tree EXCEPT ![p].latest = n] /\ turn' = turn /\ moved' = (turn # None)
      BY <1>12 DEF SelectMessage, SetAsLatest
    <2> HIDE DEF p
    <2>3. \A c \in Node : /\ tree'[c] = None <=> tree[c] = None
                          /\ tree[c] # None => /\ tree'[c].type = tree[c].type
                                               /\ tree'[c].parent = tree[c].parent
      BY <1>1, <2>1, <2>2, NoneIsNoMessage DEF Tree, Message
    <2>4. tree # Empty
      BY <2>1, NoneIsNoMessage DEF Empty
    <2>5. Sound(tree')
      BY <1>1, <2>3, <2>4, NodesAreNodes DEF Sound
    <2> QED
      BY <2>2, <2>5 DEF Shown, TurnShown
  <1>13. CASE SubmitRefused
    <2>1. Sound(tree')
      BY <1>1, <1>13, WithoutErrorSound DEF SubmitRefused
    <2> QED
      BY <1>13, <2>1 DEF SubmitRefused, Shown, TurnShown
  <1>14. CASE UNCHANGED vars
    BY <1>14 DEF vars, Shown, TurnShown, Sound
  <1> QED
    BY <1>3, <1>4, <1>6, <1>7, <1>8, <1>9, <1>10, <1>11, <1>12, <1>13, <1>14 DEF Next

-----------------------------------------------------------------------------
(***************************************************************************)
(* What is below a node.                                                   *)
(***************************************************************************)

\* S and the children of what it holds.
Grow(t, S) == S \union UNION {t[n].children : n \in {m \in S : t[m] # None}}

\* A set that holds the children of the nodes it holds.
Closed(t, S) == \A n \in S \cap Node : t[n] # None => t[n].children \subseteq S

LEMMA GrowIs ==
  ASSUME NEW t \in Tree, NEW S \in SUBSET Node
  PROVE  /\ Grow(t, S) \in SUBSET Node /\ S \subseteq Grow(t, S)
         /\ Grow(t, S) = S <=> Closed(t, S)
         /\ \A R : S \subseteq R /\ Closed(t, R) => Grow(t, S) \subseteq R
  <1>1. \A n \in Node : t[n] # None => t[n].children \subseteq Node
    BY DEF Tree, Message
  <1> QED
    BY <1>1 DEF Grow, Closed

LEMMA BelowGrows ==
  ASSUME NEW t \in Tree, NEW top \in Node
  PROVE  \E f : /\ f \in [0..N -> SUBSET Node] /\ f[0] = {top}
                /\ \A k \in 1..N : f[k] = Grow(t, f[k - 1])
                /\ Below(t, top) = {n \in f[N] : t[n] # None}
  <1> DEFINE Eq(f) == [k \in 0..N |-> IF k = 0 THEN {top} ELSE Grow(t, f[k - 1])]
             g == [S \in SUBSET Node |-> Grow(t, S)]
             below == CHOOSE f : f = Eq(f)
  <1>1. g \in [SUBSET Node -> SUBSET Node]
    BY GrowIs
  <1>2. PICK f \in [0..N -> SUBSET Node] : f[0] = {top} /\ \A k \in 1..N : f[k] = g[f[k - 1]]
    <2> HIDE DEF g
    <2>1. {top} \in SUBSET Node
      OBVIOUS
    <2>2. \E f : IsIteration(f, SUBSET Node, {top}, g, N)
      BY <1>1, <2>1, NIsNat, Iterates
    <2> QED
      BY <2>2 DEF IsIteration
  <1>3. \A k \in 0..N : k # 0 => f[k - 1] \in SUBSET Node
    BY NIsNat
  <1>4. ASSUME NEW k \in 0..N PROVE f[k] = IF k = 0 THEN {top} ELSE Grow(t, f[k - 1])
    <2>1. CASE k = 0
      BY <1>2, <2>1
    <2>2. CASE k # 0
      <3>1. k \in 1..N
        BY <2>2, NIsNat
      <3>2. f[k] = g[f[k - 1]] /\ f[k - 1] \in SUBSET Node
        BY <1>2, <1>3, <2>2, <3>1
      <3> QED
        BY <2>2, <3>2
    <2> QED
      BY <2>1, <2>2
  <1>5. f = Eq(f)
    <2> HIDE DEF g
    <2> QED
      BY <1>4, Zenon
  <1>6. Below(t, top) = {n \in below[N] : t[n] # None}
    BY DEF Below, Grow, N
  <1>7. below = Eq(below)
    <2> HIDE DEF Eq
    <2> QED
      BY <1>5
  <1> HIDE DEF below
  <1>8. below[0] = {top} /\ \A k \in 1..N : below[k] = Grow(t, below[k - 1])
    <2>1. \A k \in 0..N : Eq(below)[k] = IF k = 0 THEN {top} ELSE Grow(t, below[k - 1])
      OBVIOUS
    <2> HIDE DEF Eq
    <2>2. \A k \in 0..N : below[k] = IF k = 0 THEN {top} ELSE Grow(t, below[k - 1])
      BY <1>7, <2>1, Zenon
    <2> QED
      BY <2>2, NIsNat
  <1>9. below \in [0..N -> SUBSET Node]
    <2>1. below = [k \in 0..N |-> below[k]]
      BY <1>7
    <2>2. \A k \in 0..N : below[k] \in SUBSET Node
      <3> DEFINE Bad == {k \in 0..N : below[k] \notin SUBSET Node}
      <3> SUFFICES ASSUME Bad # {} PROVE FALSE
        OBVIOUS
      <3>1. PICK m \in Bad : \A i \in Bad : m <= i
        <4>1. Bad \subseteq Nat
          BY NIsNat
        <4> HIDE DEF Bad
        <4> QED
          BY <4>1, Least
      <3>2. m \in 0..N /\ below[m] \notin SUBSET Node
        BY <3>1
      <3>3. m # 0
        BY <1>8, <3>2
      <3>4. m \in 1..N /\ m - 1 \in 0..N /\ m - 1 \notin Bad
        <4> HIDE DEF Bad
        <4> QED
          BY <3>1, <3>2, <3>3, NIsNat
      <3>5. below[m - 1] \in SUBSET Node
        BY <3>4
      <3> HIDE DEF Bad
      <3> QED
        BY <1>8, <3>2, <3>4, <3>5, GrowIs
    <2> QED
      BY <2>1, <2>2
  <1> QED
    BY <1>6, <1>8, <1>9

\* Below a node is the node itself, with every node their children: enough steps are taken.
LEMMA BelowIs ==
  ASSUME NEW t \in Tree, WellLinkedTree(t), NEW top \in Node
  PROVE  /\ Below(t, top) \subseteq Node
         /\ \A n \in Below(t, top) : t[n] # None
         /\ t[top] # None => top \in Below(t, top)
         /\ Closed(t, Below(t, top))
         /\ \A S : top \in S /\ Closed(t, S) => Below(t, top) \subseteq S
  <1>1. PICK f : /\ f \in [0..N -> SUBSET Node] /\ f[0] = {top}
                 /\ \A k \in 1..N : f[k] = Grow(t, f[k - 1])
                 /\ Below(t, top) = {n \in f[N] : t[n] # None}
    BY BelowGrows
  <1>2. \A k \in 1..N : k - 1 \in 0..N /\ k \in 0..N
    BY NIsNat
  <1>3. \A k \in 0..N : top \in f[k]
    <2> DEFINE Bad == {k \in 0..N : top \notin f[k]}
    <2> SUFFICES ASSUME Bad # {} PROVE FALSE
      OBVIOUS
    <2>1. PICK m \in Bad : \A i \in Bad : m <= i
      <3>1. Bad \subseteq Nat
        BY NIsNat
      <3> HIDE DEF Bad
      <3> QED
        BY <3>1, Least
    <2>2. m \in 0..N /\ top \notin f[m]
      BY <2>1
    <2>3. m # 0
      BY <1>1, <2>2
    <2>4. m \in 1..N /\ m - 1 \in 0..N /\ m - 1 \notin Bad
      <3> HIDE DEF Bad
      <3> QED
        BY <2>1, <2>2, <2>3, NIsNat
    <2>5. top \in f[m - 1] /\ f[m - 1] \in SUBSET Node
      BY <1>1, <2>4
    <2> HIDE DEF Bad
    <2> QED
      BY <1>1, <2>2, <2>4, <2>5, GrowIs
  <1>4. ASSUME NEW S, top \in S, Closed(t, S) PROVE \A k \in 0..N : f[k] \subseteq S
    <2> DEFINE Bad == {k \in 0..N : ~(f[k] \subseteq S)}
    <2> SUFFICES ASSUME Bad # {} PROVE FALSE
      OBVIOUS
    <2>1. PICK m \in Bad : \A i \in Bad : m <= i
      <3>1. Bad \subseteq Nat
        BY NIsNat
      <3> HIDE DEF Bad
      <3> QED
        BY <3>1, Least
    <2>2. m \in 0..N /\ ~(f[m] \subseteq S)
      BY <2>1
    <2>3. m # 0
      BY <1>1, <1>4, <2>2
    <2>4. m \in 1..N /\ m - 1 \in 0..N /\ m - 1 \notin Bad
      <3> HIDE DEF Bad
      <3> QED
        BY <2>1, <2>2, <2>3, NIsNat
    <2>5. f[m - 1] \subseteq S /\ f[m - 1] \in SUBSET Node
      BY <1>1, <2>4
    <2> HIDE DEF Bad
    <2> QED
      BY <1>1, <1>4, <2>2, <2>4, <2>5, GrowIs
  <1>5. \A k \in 0..N : Closed(t, f[k]) \/ Cardinality(f[k]) > k
    <2> DEFINE Bad == {k \in 0..N : ~(Closed(t, f[k]) \/ Cardinality(f[k]) > k)}
    <2> SUFFICES ASSUME Bad # {} PROVE FALSE
      OBVIOUS
    <2>1. PICK m \in Bad : \A i \in Bad : m <= i
      <3>1. Bad \subseteq Nat
        BY NIsNat
      <3> HIDE DEF Bad
      <3> QED
        BY <3>1, Least
    <2>2. m \in 0..N /\ ~Closed(t, f[m]) /\ ~(Cardinality(f[m]) > m)
      BY <2>1
    <2>3. m # 0
      <3>1. Cardinality(f[0]) = 1
        BY <1>1, FS_Singleton
      <3> QED
        BY <2>2, <3>1
    <2>4. m \in 1..N /\ m - 1 \in 0..N /\ m - 1 \notin Bad
      <3> HIDE DEF Bad
      <3> QED
        BY <2>1, <2>2, <2>3, NIsNat
    <2>5. Closed(t, f[m - 1]) \/ Cardinality(f[m - 1]) > m - 1
      BY <2>4
    <2> HIDE DEF Bad
    <2>6. f[m - 1] \in SUBSET Node /\ f[m] \in SUBSET Node /\ f[m] = Grow(t, f[m - 1])
      BY <1>1, <2>2, <2>4
    <2>7. ~Closed(t, f[m - 1])
      BY <2>2, <2>6, GrowIs
    <2>8. f[m - 1] \subseteq f[m] /\ f[m - 1] # f[m]
      BY <2>6, <2>7, GrowIs
    <2>9. IsFiniteSet(f[m]) /\ Cardinality(f[m]) \in Nat
      BY <2>6, NodesAreFinite, FS_Subset, FS_CardinalityType
    <2>10. Cardinality(f[m - 1]) <= Cardinality(f[m]) /\ Cardinality(f[m]) # Cardinality(f[m - 1])
           /\ Cardinality(f[m - 1]) \in Nat
      <3>1. f[m - 1] \in SUBSET f[m]
        BY <2>8
      <3>2. IsFiniteSet(f[m - 1])
        BY <2>9, <3>1, FS_Subset
      <3> QED
        BY <2>8, <2>9, <3>1, <3>2, FS_Subset, FS_CardinalityType
    <2> QED
      BY <2>2, <2>5, <2>7, <2>9, <2>10
  <1>6. N \in 0..N /\ f[N] \in SUBSET Node
    BY <1>1, NIsNat
  <1>7. Closed(t, f[N])
    <2>1. Cardinality(f[N]) <= N
      BY <1>6, NodesAreFinite, FS_Subset DEF N
    <2>2. Cardinality(f[N]) \in Nat
      BY <1>6, NodesAreFinite, FS_Subset, FS_CardinalityType
    <2> QED
      BY <1>5, <1>6, <2>1, <2>2, NIsNat
  <1>8. Closed(t, Below(t, top))
    BY <1>1, <1>6, <1>7 DEF Closed, WellLinkedTree
  <1>9. t[top] # None => top \in Below(t, top)
    BY <1>1, <1>3, <1>6
  <1>10. \A S : top \in S /\ Closed(t, S) => Below(t, top) \subseteq S
    BY <1>1, <1>4, <1>6
  <1> QED
    BY <1>1, <1>6, <1>8, <1>9, <1>10

\* Below what does not exist there is nothing.
LEMMA BelowNothing ==
  ASSUME NEW t \in Tree, WellLinkedTree(t), NEW top \in Node, t[top] = None
  PROVE  Below(t, top) = {}
  <1>1. Closed(t, {top})
    BY DEF Closed
  <1>2. Below(t, top) \subseteq {top}
    BY <1>1, BelowIs
  <1> QED
    BY <1>2, BelowIs

\* Every message of t is in r, of the same kind and with the same children or more.
Within(t, r) ==
  \A n \in Node : t[n] # None =>
    r[n] # None /\ t[n].type = r[n].type /\ t[n].children \subseteq r[n].children

LEMMA WithinKeeps ==
  ASSUME NEW t \in Tree, WellLinkedTree(t), NEW r \in Tree, WellLinkedTree(r), Within(t, r)
  PROVE  AnswersOf(t) \subseteq AnswersOf(r)
  <1> DEFINE S == Below(r, Root)
  <1>1. /\ S \subseteq Node /\ Closed(r, S)
        /\ r[Root] # None => Root \in S
    BY NodesAreNodes, BelowIs
  <1>2. /\ Below(t, Root) \subseteq Node
        /\ \A n \in Below(t, Root) : t[n] # None
        /\ \A R : Root \in R /\ Closed(t, R) => Below(t, Root) \subseteq R
        /\ t[Root] = None => Below(t, Root) = {}
    BY NodesAreNodes, BelowIs, BelowNothing
  <1> HIDE DEF S
  <1>3. Closed(t, S)
    BY <1>1 DEF Closed, Within
  <1>4. Below(t, Root) \subseteq S
    BY <1>1, <1>2, <1>3, NodesAreNodes DEF Within
  <1> QED
    BY <1>2, <1>4 DEF AnswersOf, Within, S

\* Only what is below the message above the error goes with it.
LEMMA WithoutErrorKeeps ==
  ASSUME NEW t \in Tree, WellLinkedTree(t), Sound(t), EndsInError(t)
  PROVE  AnswersOf(t) \subseteq AnswersOf(WithoutError(t)) \union Below(t, t[LastOf(t)].parent)
  <1> DEFINE e == LastOf(t)
             u == t[e].parent
             r == WithoutError(t)
             B == Below(r, Root)
             C == Below(t, u)
  <1>1. e \in Node /\ t[e] # None /\ t[e].type = "error" /\ t # Empty
    BY DEF EndsInError, Exists, Empty
  <1>2. e # Root /\ OnPath(t, e)
    BY <1>1, LastOnPath DEF Sound
  <1>3. u \in Node /\ t[u] # None
    BY <1>2, PathParent
  <1>4. /\ r \in Tree /\ WellLinkedTree(r) /\ Sound(r)
        /\ \A n \in Node : r[n] = None <=> n \in {e, u} \/ t[n] = None
        /\ \A n \in Node : r[n] # None => r[n].type = t[n].type
        /\ \A n \in Node : r[n] # None => t[n].children \subseteq r[n].children \union {u}
    BY WithoutErrorLinks, WithoutErrorSound
  <1>5. Root # u /\ t[Root] # None
    BY <1>1 DEF Sound
  <1>6. r[Root] # None
    BY <1>2, <1>4, <1>5, NodesAreNodes
  <1> HIDE DEF r, e, u
  <1>7. /\ B \subseteq Node /\ Closed(r, B) /\ Root \in B
        /\ \A n \in B : r[n] # None
    BY <1>4, <1>6, NodesAreNodes, BelowIs
  <1>8. C \subseteq Node /\ Closed(t, C) /\ u \in C
    BY <1>3, BelowIs
  <1> HIDE DEF B, C
  <1>9. Closed(t, B \union C)
    BY <1>4, <1>7, <1>8 DEF Closed
  <1>10. Below(t, Root) \subseteq B \union C
    BY <1>7, <1>9, NodesAreNodes, BelowIs
  <1> QED
    BY <1>4, <1>7, <1>10 DEF AnswersOf, B, C, r, e, u

\* What is left out of WithoutError is in the tree with its kind and its children.
LEMMA WithoutErrorWithin ==
  ASSUME NEW t \in Tree, WellLinkedTree(t), EndsInError(t)
  PROVE  Within(WithoutError(t), t)
  BY WithoutErrorLinks DEF Within

-----------------------------------------------------------------------------
(***************************************************************************)
(* What a turn does to the messages that are there.                        *)
(***************************************************************************)

\* A turn's two messages put into the tree w: kinds and children.
LEMMA UpsertIs ==
  ASSUME NEW w \in Tree, NEW u \in Node, NEW a \in Node, u # a,
         NEW user \in Message, user.parent \notin {u, a}, NEW type \in {"answer", "error"}
  PROVE  LET r == Put(Put(w, u, user), a, AnswerTo(u, type))
         IN /\ r[u] # None /\ r[u].type = user.type /\ r[u].children = user.children \union {a}
            /\ r[a] # None /\ r[a].type = type /\ r[a].children = {}
            /\ \A c \in Node \ {u, a} :
                 /\ r[c] = None <=> w[c] = None
                 /\ w[c] # None =>
                      /\ r[c].type = w[c].type
                      /\ r[c].children = w[c].children \union (IF c = user.parent THEN {u} ELSE {})
  <1> DEFINE m == AnswerTo(u, type)
             t1 == Put(w, u, user)
             r == Put(t1, a, m)
  <1>1. m \in Message /\ m.parent = u /\ m.children = {} /\ m.type = type
    BY DEF AnswerTo, Message
  <1> HIDE DEF m
  <1>2. IsPut(t1, w, u, user)
    BY PutFacts
  <1> HIDE DEF t1
  <1>3. IsPut(r, t1, a, m)
    <2>1. t1 \in Tree
      BY <1>2 DEF IsPut
    <2> QED
      BY <1>1, <2>1, PutFacts
  <1> HIDE DEF r
  <1>4. r[u] # None /\ r[u].type = user.type /\ r[u].children = user.children \union {a}
    <2>1. t1[u] # None /\ t1[u].type = user.type /\ t1[u].children = user.children \union {}
      BY <1>2 DEF IsPut
    <2> QED
      BY <1>1, <1>3, <2>1 DEF IsPut
  <1>5. r[a] # None /\ r[a].type = type /\ r[a].children = {}
    BY <1>1, <1>3 DEF IsPut
  <1>6. ASSUME NEW c \in Node \ {u, a}
        PROVE  /\ r[c] = None <=> w[c] = None
               /\ w[c] # None =>
                    /\ r[c].type = w[c].type
                    /\ r[c].children = w[c].children \union (IF c = user.parent THEN {u} ELSE {})
    <2>1. r[c] = None <=> w[c] = None
      BY <1>2, <1>3 DEF IsPut
    <2>2. ASSUME w[c] # None
          PROVE  /\ t1[c] # None /\ t1[c].type = w[c].type
                 /\ t1[c].children = w[c].children \union (IF c = user.parent THEN {u} ELSE {})
      BY <1>2, <2>2 DEF IsPut
    <2>3. ASSUME w[c] # None
          PROVE  r[c].type = t1[c].type /\ r[c].children = t1[c].children \union {}
      BY <1>1, <1>3, <2>1, <2>2, <2>3 DEF IsPut
    <2> QED
      BY <2>1, <2>2, <2>3
  <1> QED
    BY <1>4, <1>5, <1>6 DEF r, t1, m

\* t is b with the turn's messages u and a.
Grown(t, b, u, a) ==
  \A n \in Node \ {a} : t[n] # None =>
    IF b[n] = None
    THEN \/ n = u /\ t[n].type = "user" /\ t[n].children \subseteq {a}
         \/ b = Empty /\ n = Root /\ t[n].type = "system"
    ELSE /\ t[n].type = b[n].type
         /\ t[n].children \subseteq b[n].children \union {a} \union {m \in {u} : b[u] = None}

\* The turn's own tree has all that is on screen, and beyond what was there when the turn
\* began only its messages; of the user message it knows every child.
TurnKept ==
  turn # None =>
    /\ Within(tree, turn.local)
    /\ Grown(turn.local, turn.before, turn.user, turn.agent)
    /\ turn.local[turn.user].type = "user"
    /\ turn.local[turn.user].children = turn.userNode.children \union {turn.agent}
    /\ turn.local[turn.agent].type = "answer" /\ turn.local[turn.agent].children = {}
    /\ turn.regenerates \/ turn.reuses \/ turn.userNode.children = {turn.agent}

LEMMA InitKept == Init => TurnKept
  BY DEF Init, TurnKept

LEMMA BeginKept ==
  ASSUME NEW t \in Tree, WellLinkedTree(t), Sound(t),
         NEW u \in Node \ {Root}, NEW user \in Message, NEW a \in Node \ {Root},
         NEW reuses \in BOOLEAN, NEW regenerates \in BOOLEAN,
         u # a, t[a] = None, user.type = "user",
         IF reuses \/ regenerates
         THEN user = t[u]
         ELSE /\ t[u] = None /\ user.children = {a}
              /\ IF t = Empty THEN user.parent = Root ELSE t[user.parent] # None,
         user.parent \in Node,
         Begin(t, u, user, a, reuses, regenerates)
  PROVE  TurnKept' /\ Within(t, tree')
  <1> DEFINE m == AnswerTo(u, "answer")
             local == IF reuses \/ regenerates THEN Put(t, a, m) ELSE Upsert(t, u, user, a, m)
  <1>1. /\ turn' = [user |-> u, userNode |-> user, agent |-> a, reuses |-> reuses,
                    regenerates |-> regenerates, parent |-> user.parent,
                    local |-> local, before |-> t]
        /\ tree' = local
    BY DEF Begin
  <1>2. /\ local[u].type = "user" /\ local[u].children = user.children \union {a}
        /\ local[a].type = "answer" /\ local[a].children = {}
        /\ Grown(local, t, u, a) /\ Within(t, local)
    <2>1. CASE reuses \/ regenerates
      <3>1. m \in Message /\ m.type = "answer" /\ m.parent = u /\ m.children = {}
        BY DEF AnswerTo, Message
      <3>2. local = Put(t, a, m)
        BY <2>1
      <3> HIDE DEF m, local
      <3>3. IsPut(local, t, a, m)
        BY <3>1, <3>2, PutFacts
      <3>4. t[u] = user /\ user # None
        BY <2>1, NoneIsNoMessage
      <3>5. local[u] # None /\ local[u].type = "user" /\ local[u].children = user.children \union {a}
        BY <3>1, <3>3, <3>4 DEF IsPut
      <3>6. local[a].type = "answer" /\ local[a].children = {}
        BY <3>1, <3>3 DEF IsPut
      <3>7. \A c \in Node \ {a} :
              /\ local[c] = None <=> t[c] = None
              /\ t[c] # None =>
                   /\ local[c].type = t[c].type
                   /\ local[c].children = t[c].children \union (IF c = u THEN {a} ELSE {})
        BY <3>1, <3>3 DEF IsPut
      <3>8. Grown(local, t, u, a)
        BY <3>7 DEF Grown
      <3>9. Within(t, local)
        BY <3>7 DEF Within
      <3> QED
        BY <3>5, <3>6, <3>8, <3>9
    <2>2. CASE ~(reuses \/ regenerates)
      <3> DEFINE w == WithRoot(t, u)
      <3>1. local = Put(Put(w, u, user), a, m)
        BY <2>2 DEF Upsert
      <3>2. /\ w \in Tree /\ Sound(w) /\ w # Empty
            /\ t # Empty => w = t
            /\ t = Empty => \A c \in Node \ {Root} : w[c] = None
        BY WithRootIs
      <3>3. user.parent \notin {u, a}
        BY <2>2
      <3> HIDE DEF w, local
      <3>4. /\ local[u] # None /\ local[u].type = "user"
            /\ local[u].children = user.children \union {a}
            /\ local[a] # None /\ local[a].type = "answer" /\ local[a].children = {}
            /\ \A c \in Node \ {u, a} :
                 /\ local[c] = None <=> w[c] = None
                 /\ w[c] # None =>
                      /\ local[c].type = w[c].type
                      /\ local[c].children
                           = w[c].children \union (IF c = user.parent THEN {u} ELSE {})
        BY <3>1, <3>2, <3>3, UpsertIs
      <3>5. Within(t, local)
        BY <2>2, <3>2, <3>4 DEF Within, Empty
      <3>6. Grown(local, t, u, a)
        <4>1. CASE t = Empty
          BY <2>2, <3>2, <3>4, <4>1 DEF Grown, Empty, Sound
        <4>2. CASE t # Empty
          BY <2>2, <3>2, <3>4, <4>2 DEF Grown
        <4> QED
          BY <4>1, <4>2
      <3> QED
        BY <3>4, <3>5, <3>6
    <2> QED
      BY <2>1, <2>2
  <1>3. Within(local, local)
    BY DEF Within
  <1> HIDE DEF local
  <1>4. reuses \/ regenerates \/ user.children = {a}
    OBVIOUS
  <1> QED
    BY <1>1, <1>2, <1>3, <1>4 DEF TurnKept

LEMMA BeginBelowKept ==
  ASSUME NEW t \in Tree, WellLinkedTree(t), Sound(t), NEW p \in Node,
         IF t = Empty THEN p = Root ELSE OnPath(t, p),
         BeginBelow(t, p)
  PROVE  TurnKept' /\ Within(t, tree')
  <1>1. PICK u \in Fresh(t), a \in Fresh(t) :
          /\ u # a
          /\ Begin(t, u, [type |-> "user", parent |-> p, children |-> {a}, latest |-> a], a,
                   FALSE, FALSE)
    BY DEF BeginBelow
  <1> DEFINE user == [type |-> "user", parent |-> p, children |-> {a}, latest |-> a]
  <1>2. u \in Node \ {Root} /\ a \in Node \ {Root} /\ t[u] = None /\ t[a] = None
    BY DEF Fresh
  <1>3. user \in Message /\ user.type = "user" /\ user.children = {a} /\ user.parent = p
    BY <1>2 DEF Message
  <1>4. IF t = Empty THEN p = Root ELSE t[p] # None
    BY OnPathExists
  <1> HIDE DEF user
  <1> QED
    BY <1>1, <1>2, <1>3, <1>4, BeginKept DEF user

\* Where the turn's messages stand in its tree.
LEMMA AimedParent ==
  ASSUME NEW t \in Tree, WellLinkedTree(t), Sound(t), NEW u \in Node \ {Root}, NEW a \in Node,
         Aims(t, u, a)
  PROVE  /\ t[u] # None /\ t[a] # None
         /\ t[u].parent \in Node \ {u, a} /\ t[t[u].parent] # None
         /\ u \in t[t[u].parent].children
  <1>1. PICK k \in Nat \ {0} : \E s : IsPath(t, s, k) /\ s[k - 1] = u /\ s[k] = a
    BY DEF Aims
  <1>2. PICK s : IsPath(t, s, k) /\ s[k - 1] = u /\ s[k] = a
    BY <1>1
  <1>3. k - 1 # 0
    BY <1>2 DEF IsPath
  <1>4. k - 2 \in 0..k /\ k - 1 \in 1..k /\ k \in 0..k /\ k - 1 \in 0..k /\ (k - 1) - 1 = k - 2
    BY <1>3
  <1>5. /\ \A i \in 0..k, j \in 0..k : s[i] = s[j] => i = j
        /\ t[u].parent = s[k - 2]
    BY <1>2, <1>4, PathNoRepeat, SoundRoot
  <1>6. /\ s[k - 2] \in Node /\ t[s[k - 2]] # None /\ t[u] # None /\ t[a] # None
        /\ u = t[s[k - 2]].latest
    BY <1>2, <1>4 DEF IsPath
  <1>7. s[k - 2] # u /\ s[k - 2] # a
    BY <1>2, <1>4, <1>5
  <1>8. u \in t[s[k - 2]].children
    BY <1>6, NodesAreNodes DEF WellLinkedTree
  <1> QED
    BY <1>5, <1>6, <1>7, <1>8

\* A turn that puts its messages once more changes nothing but them.
LEMMA AgainIs ==
  ASSUME NEW t \in Tree, WellLinkedTree(t), Sound(t), t # Empty,
         NEW u \in Node \ {Root}, NEW a \in Node, NEW user \in Message,
         Fits(t, u, user, a), Aims(t, u, a), NEW type \in {"answer", "error"}
  PROVE  LET r == Upsert(t, u, user, a, AnswerTo(u, type))
         IN /\ t[u] # None /\ t[a] # None /\ u # a
            /\ r[u] # None /\ r[u].type = user.type /\ r[u].children = user.children \union {a}
            /\ r[a] # None /\ r[a].type = type /\ r[a].children = {}
            /\ \A c \in Node \ {u, a} :
                 /\ r[c] = None <=> t[c] = None
                 /\ t[c] # None => r[c].type = t[c].type /\ r[c].children = t[c].children
  <1> DEFINE r == Put(Put(t, u, user), a, AnswerTo(u, type))
  <1>1. Upsert(t, u, user, a, AnswerTo(u, type)) = r
    BY DEF Upsert, WithRoot
  <1>2. /\ t[u] # None /\ t[a] # None /\ u # a
        /\ user.parent \notin {u, a} /\ u \in t[user.parent].children
    BY AimedParent DEF Fits
  <1>3. /\ r[u] # None /\ r[u].type = user.type /\ r[u].children = user.children \union {a}
        /\ r[a] # None /\ r[a].type = type /\ r[a].children = {}
        /\ \A c \in Node \ {u, a} :
             /\ r[c] = None <=> t[c] = None
             /\ t[c] # None =>
                  /\ r[c].type = t[c].type
                  /\ r[c].children = t[c].children \union (IF c = user.parent THEN {u} ELSE {})
    BY <1>2, UpsertIs
  <1> HIDE DEF r
  <1>4. ASSUME NEW c \in Node \ {u, a}, t[c] # None PROVE r[c].children = t[c].children
    <2>1. CASE c = user.parent
      <3>1. r[c].children = t[c].children \union {u}
        BY <1>3, <1>4, <2>1
      <3> QED
        BY <1>2, <2>1, <3>1
    <2>2. CASE c # user.parent
      <3>1. r[c].children = t[c].children \union {}
        BY <1>3, <1>4, <2>2
      <3> QED
        BY <3>1
    <2> QED
      BY <2>1, <2>2
  <1> QED
    BY <1>1, <1>2, <1>3, <1>4

\* Putting back the tree the turn began with loses the turn's answer at most.
LEMMA PutBackKeeps ==
  ASSUME NEW t \in Tree, WellLinkedTree(t), NEW l \in Tree,
         NEW b \in Tree, WellLinkedTree(b), Sound(b),
         NEW u \in Node, NEW a \in Node, l[a].children = {}, Within(t, l), Grown(l, b, u, a)
  PROVE  AnswersOf(t) \subseteq AnswersOf(b) \union {a}
  <1> DEFINE B == Below(b, Root)
             S == B \union {a} \union {m \in {u} : b[u] = None}
  <1>1. /\ Below(t, Root) \subseteq Node
        /\ \A n \in Below(t, Root) : t[n] # None
        /\ \A R : Root \in R /\ Closed(t, R) => Below(t, Root) \subseteq R
    BY NodesAreNodes, BelowIs
  <1> SUFFICES ASSUME NEW n \in Below(t, Root), t[n].type = "answer", n # a
               PROVE  n \in B /\ b[n].type = "answer"
    BY DEF AnswersOf
  <1>2. n \in Node /\ t[n] # None /\ l[n] # None /\ l[n].type = "answer"
    BY <1>1 DEF Within
  <1>3. b[n] # None /\ b[n].type = "answer"
    BY <1>2 DEF Grown
  <1>4. /\ B \subseteq Node /\ Closed(b, B)
        /\ b[Root] # None => Root \in B
        /\ \A c \in B : b[c] # None
    BY NodesAreNodes, BelowIs
  <1>5. Root \in B
    BY <1>2, <1>3, <1>4 DEF Sound, Empty
  <1> HIDE DEF B
  <1>6. Closed(t, S)
    <2> SUFFICES ASSUME NEW m \in S, m \in Node, t[m] # None, NEW c \in t[m].children
                 PROVE  c \in S
      BY DEF Closed
    <2>1. l[m] # None /\ c \in l[m].children
      BY DEF Within
    <2>2. m # a
      BY <2>1
    <2>3. CASE b[m] = None
      <3>1. m = u /\ b[u] = None
        BY <1>4, <2>2, <2>3
      <3>2. b # Empty
        BY <1>2, <1>3 DEF Empty
      <3> QED
        BY <2>1, <2>2, <2>3, <3>1, <3>2 DEF Grown
    <2>4. CASE b[m] # None
      <3>1. m \in B
        BY <2>2, <2>4
      <3>2. b[m].children \subseteq B
        BY <1>4, <2>4, <3>1 DEF Closed
      <3> QED
        BY <2>1, <2>2, <2>4, <3>2 DEF Grown
    <2> QED
      BY <2>3, <2>4
  <1>7. n \in S
    BY <1>1, <1>5, <1>6
  <1> QED
    BY <1>3, <1>7

\* A turn that fails keeps what its tree held, but for its answer and, when the user message
\* is written without its earlier answers, for what was below that.
LEMMA FailKeeps ==
  ASSUME NEW t \in Tree, WellLinkedTree(t), NEW l \in Tree, NEW r \in Tree, WellLinkedTree(r),
         NEW u \in Node, NEW a \in Node, Within(t, l),
         r[u] # None, r[a] # None, l[u].type = "user", l[a].children = {},
         \A c \in Node \ {u, a} :
           /\ r[c] = None <=> l[c] = None
           /\ l[c] # None => r[c].type = l[c].type /\ r[c].children = l[c].children,
         NEW X, Closed(t, X),
         l[u].children \subseteq r[u].children \/ (t[u] # None => u \in X)
  PROVE  AnswersOf(t) \subseteq AnswersOf(r) \union {a} \union X
  <1> DEFINE B == Below(r, Root)
             S == B \union X
  <1>1. /\ Below(t, Root) \subseteq Node
        /\ \A n \in Below(t, Root) : t[n] # None
        /\ \A R : Root \in R /\ Closed(t, R) => Below(t, Root) \subseteq R
        /\ t[Root] = None => Below(t, Root) = {}
    BY NodesAreNodes, BelowIs, BelowNothing
  <1>2. /\ B \subseteq Node /\ Closed(r, B)
        /\ r[Root] # None => Root \in B
        /\ \A c \in B : r[c] # None
    BY NodesAreNodes, BelowIs
  <1>3. \A n \in Node : t[n] # None => l[n] # None /\ r[n] # None /\ l[n].type = t[n].type
    BY DEF Within
  <1> HIDE DEF B
  <1>4. Closed(t, S)
    <2> SUFFICES ASSUME NEW m \in S, m \in Node, t[m] # None, NEW c \in t[m].children
                 PROVE  c \in S
      BY DEF Closed
    <2>1. l[m] # None /\ c \in l[m].children /\ r[m] # None
      BY <1>3 DEF Within
    <2>2. CASE m \in X
      BY <2>2 DEF Closed
    <2>3. CASE m \notin X
      <3>1. m \in B /\ r[m].children \subseteq B
        BY <1>2, <2>1, <2>3 DEF Closed
      <3>2. l[m].children \subseteq r[m].children
        BY <2>3
      <3> QED
        BY <2>1, <3>1, <3>2
    <2> QED
      BY <2>2, <2>3
  <1>5. Below(t, Root) \subseteq S
    BY <1>1, <1>2, <1>3, <1>4, NodesAreNodes
  <1>6. ASSUME NEW n \in Below(t, Root), t[n].type = "answer", n # a
        PROVE  r[n].type = "answer"
    <2>1. n \in Node /\ l[n] # None /\ l[n].type = "answer" /\ n # u
      BY <1>1, <1>3, <1>6
    <2> QED
      BY <1>6, <2>1
  <1> QED
    BY <1>5, <1>6 DEF AnswersOf, B

\* What AnswersKept says of a step.
AnswersSafe ==
  AnswersOf(tree) \ AnswersOf(tree') \subseteq
    (IF turn = None THEN {} ELSE {turn.agent})
      \union (IF TurnFails THEN HiddenByRetry ELSE {})
      \union ClearedAway

LEMMA StepKept == IInv /\ Shown /\ TurnKept /\ [Next]_vars => TurnKept' /\ AnswersSafe
  <1> SUFFICES ASSUME IInv, Shown, TurnKept, [Next]_vars PROVE TurnKept' /\ AnswersSafe
    OBVIOUS
  <1>1. tree \in Tree /\ WellLinkedTree(tree) /\ Sound(tree)
    BY DEF IInv, TypeOK, WellLinked, Shown
  <1>2. tree' \in Tree /\ WellLinkedTree(tree')
    BY StepIInv DEF IInv, TypeOK, WellLinked
  <1>3. ASSUME AnswersOf(tree) \subseteq AnswersOf(tree') PROVE AnswersSafe
    BY <1>3 DEF AnswersSafe
  <1>4. ASSUME Within(tree, tree') PROVE AnswersSafe
    BY <1>1, <1>2, <1>3, <1>4, WithinKeeps
  <1>5. turn # None =>
          /\ turn \in Turn /\ turn.local \in Tree /\ WellLinkedTree(turn.local)
          /\ turn.local # Empty /\ Sound(turn.local)
          /\ turn.before \in Tree /\ WellLinkedTree(turn.before) /\ Sound(turn.before)
          /\ turn.user \in Node \ {Root} /\ turn.agent \in Node \ {Root}
          /\ turn.userNode \in Message /\ turn.userNode.type = "user"
          /\ Fits(turn.local, turn.user, turn.userNode, turn.agent)
          /\ turn.parent = turn.userNode.parent
          /\ turn.agent \in turn.userNode.children => turn.userNode.children = {turn.agent}
          /\ Aims(turn.local, turn.user, turn.agent)
    BY DEF IInv, TypeOK, TurnFits, Turn, Shown, TurnShown
  <1>6. CASE Send
    <2> DEFINE t == IF EndsInError(tree) THEN WithoutError(tree) ELSE tree
    <2>1. t \in Tree /\ WellLinkedTree(t) /\ Sound(t)
      BY <1>1, WithoutErrorLinks, WithoutErrorSound
    <2>2. BeginBelow(t, LastOf(t))
      BY <1>6 DEF Send
    <2>3. AnswersOf(tree) \subseteq AnswersOf(t) \union ClearedAway
      BY <1>1, WithoutErrorKeeps DEF ClearedAway
    <2> HIDE DEF t
    <2>4. TurnKept' /\ Within(t, tree')
      BY <2>1, <2>2, LastIsNode, LastOnPath, BeginBelowKept
    <2>5. AnswersOf(t) \subseteq AnswersOf(tree')
      BY <1>2, <2>1, <2>4, WithinKeeps
    <2> QED
      BY <2>3, <2>4, <2>5 DEF AnswersSafe
  <1>7. ASSUME NEW u \in Node, Edit(u) PROVE TurnKept' /\ AnswersSafe
    <2>1. u \in UsersShown /\ BeginBelow(tree, tree[u].parent)
      BY <1>7 DEF Edit
    <2>2. TurnKept' /\ Within(tree, tree')
      BY <1>1, <2>1, UserShownOnPath, BeginBelowKept
    <2> QED
      BY <1>4, <2>2
  <1>8. ASSUME NEW u \in UsersShown, NEW a \in Fresh(tree), NEW reuses \in BOOLEAN,
               NEW regenerates \in BOOLEAN, reuses \/ regenerates,
               Begin(tree, u, tree[u], a, reuses, regenerates)
        PROVE  TurnKept' /\ AnswersSafe
    <2>1. /\ u \in Node \ {Root} /\ tree[u] \in Message /\ tree[u] # None /\ tree[u].type = "user"
          /\ tree[u].parent \in Node
      BY <1>1, UserShownOnPath
    <2>2. a \in Node \ {Root} /\ tree[a] = None /\ u # a
      BY <2>1 DEF Fresh
    <2>3. TurnKept' /\ Within(tree, tree')
      BY <1>1, <1>8, <2>1, <2>2, BeginKept
    <2> QED
      BY <1>4, <2>3
  <1>9. ASSUME NEW u \in Node, Regenerate(u) PROVE TurnKept' /\ AnswersSafe
    BY <1>8, <1>9 DEF Regenerate
  <1>10. CASE Attach
    <2>1. CASE BeginBelow(tree, LastOf(tree))
      <3>1. TurnKept' /\ Within(tree, tree')
        BY <1>1, <2>1, LastIsNode, LastOnPath, BeginBelowKept
      <3> QED
        BY <1>4, <3>1
    <2>2. CASE \E u \in UsersShown, a \in Fresh(tree) : Begin(tree, u, tree[u], a, TRUE, FALSE)
      BY <1>8, <2>2
    <2> QED
      BY <1>10, <2>1, <2>2 DEF Attach
  <1>11. CASE Publish
    <2> DEFINE u == turn.user
               a == turn.agent
               local == Upsert(turn.local, u, turn.userNode, a, AnswerTo(u, "answer"))
    <2>1. /\ turn # None /\ turn' = [turn EXCEPT !.local = local] /\ tree' = local
      BY <1>11 DEF Publish
    <2>2. /\ turn.local[u] # None /\ turn.local[a] # None /\ u # a
          /\ local[u] # None /\ local[u].type = "user"
          /\ local[u].children = turn.userNode.children \union {a}
          /\ local[a] # None /\ local[a].type = "answer" /\ local[a].children = {}
          /\ \A c \in Node \ {u, a} :
               /\ local[c] = None <=> turn.local[c] = None
               /\ turn.local[c] # None => /\ local[c].type = turn.local[c].type
                                          /\ local[c].children = turn.local[c].children
      BY <1>5, <2>1, AgainIs
    <2> HIDE DEF local
    <2>3. /\ turn'.local = local /\ turn'.before = turn.before
          /\ turn'.user = u /\ turn'.userNode = turn.userNode
          /\ turn'.agent = a /\ turn'.reuses = turn.reuses /\ turn'.regenerates = turn.regenerates
      BY <1>5, <2>1 DEF Turn
    <2>4. /\ turn.local[u].type = "user" /\ turn.local[u].children = turn.userNode.children \union {a}
          /\ turn.local[a].type = "answer" /\ turn.local[a].children = {}
          /\ Within(tree, turn.local) /\ Grown(turn.local, turn.before, u, a)
          /\ turn.regenerates \/ turn.reuses \/ turn.userNode.children = {a}
      BY <2>1 DEF TurnKept
    <2> HIDE DEF u, a
    <2>5. \A c \in Node : /\ local[c] = None <=> turn.local[c] = None
                          /\ turn.local[c] # None => /\ local[c].type = turn.local[c].type
                                                     /\ local[c].children = turn.local[c].children
      BY <2>2, <2>4
    <2>6. Within(tree, tree') /\ Within(tree', local)
      BY <2>1, <2>4, <2>5 DEF Within
    <2>7. Grown(local, turn.before, u, a)
      BY <2>4, <2>5 DEF Grown
    <2>8. TurnKept'
      BY <2>2, <2>3, <2>4, <2>6, <2>7 DEF TurnKept
    <2> QED
      BY <1>4, <2>6, <2>8
  <1>12. CASE Fail
    <2> DEFINE u == turn.user
               a == turn.agent
               user == IF turn.reuses THEN turn.userNode
                       ELSE [AnswerTo(turn.parent, "user") EXCEPT !.parent = turn.parent]
    <2>1. turn # None /\ turn' = None
          /\ tree' = Upsert(turn.local, u, user, a, AnswerTo(u, "error"))
      BY <1>12 DEF Fail
    <2>2. /\ user \in Message /\ user.parent = turn.userNode.parent
          /\ turn.reuses => user.children = turn.userNode.children
          /\ ~turn.reuses => user.children = {}
      BY <1>5, <2>1 DEF Turn, Message, AnswerTo
    <2>3. Fits(turn.local, u, user, a)
      <3>1. user.latest \in user.children \union {None}
        BY <1>5, <2>1 DEF Fits, AnswerTo
      <3> QED
        BY <1>5, <2>1, <2>2, <3>1 DEF Fits
    <2> HIDE DEF user
    <2>4. /\ u # a /\ tree'[u] # None /\ tree'[u].children = user.children \union {a}
          /\ tree'[a] # None /\ tree'[a].type = "error" /\ tree'[a].children = {}
          /\ \A c \in Node \ {u, a} :
               /\ tree'[c] = None <=> turn.local[c] = None
               /\ turn.local[c] # None => /\ tree'[c].type = turn.local[c].type
                                          /\ tree'[c].children = turn.local[c].children
      BY <1>5, <2>1, <2>2, <2>3, AgainIs
    <2>5. /\ turn.local[u].type = "user" /\ turn.local[u].children = turn.userNode.children \union {a}
          /\ turn.local[a].children = {} /\ Within(tree, turn.local)
          /\ turn.regenerates \/ turn.reuses \/ turn.userNode.children = {a}
      BY <2>1 DEF TurnKept
    <2>6. EndsInError(tree')
      <3>1. a \in user.children => user.children = {a}
        BY <1>5, <2>1, <2>2
      <3>2. Aims(tree', u, a)
        BY <1>5, <2>1, <2>2, <2>3, <3>1, AgainAims
      <3>3. Sound(tree')
        BY StepShown DEF Shown
      <3>4. LastOf(tree') = a
        BY <1>2, <3>2, <3>3, SoundRoot, AimedIsLast
      <3>5. a \in Node
        BY <1>5, <2>1
      <3> QED
        BY <2>4, <3>4, <3>5 DEF EndsInError, Exists
    <2>7. u \in Node /\ a \in Node /\ turn.local \in Tree
      BY <1>5, <2>1
    <2> HIDE DEF u, a
    <2>8. CASE turn.reuses \/ ~turn.regenerates
      <3>1. turn.local[u].children \subseteq tree'[u].children
        BY <2>2, <2>4, <2>5, <2>8
      <3>2. Closed(tree, {})
        BY DEF Closed
      <3>3. AnswersOf(tree) \subseteq AnswersOf(tree') \union {a} \union {}
        BY <1>1, <1>2, <2>4, <2>5, <2>7, <3>1, <3>2, FailKeeps
      <3> QED
        BY <2>1, <3>3 DEF AnswersSafe, TurnKept, a
    <2>9. CASE ~turn.reuses /\ turn.regenerates
      <3>1. Closed(tree, Below(tree, u)) /\ (tree[u] # None => u \in Below(tree, u))
        BY <1>1, <2>7, BelowIs
      <3>2. AnswersOf(tree) \subseteq AnswersOf(tree') \union {a} \union Below(tree, u)
        BY <1>1, <1>2, <2>4, <2>5, <2>7, <3>1, FailKeeps
      <3>3. TurnFails /\ HiddenByRetry = Below(tree, u)
        BY <2>1, <2>6, <2>9 DEF TurnFails, HiddenByRetry, u
      <3> QED
        BY <2>1, <3>2, <3>3 DEF AnswersSafe, TurnKept, a
    <2> QED
      BY <2>8, <2>9
  <1>13. CASE Finish
    BY <1>3, <1>13 DEF Finish, TurnKept
  <1>14. CASE PutBack
    <2>1. turn # None /\ turn' = None /\ tree' = turn.before
      BY <1>14 DEF PutBack
    <2>2. AnswersOf(tree) \subseteq AnswersOf(turn.before) \union {turn.agent}
      BY <1>1, <1>5, <2>1, PutBackKeeps DEF TurnKept
    <2> QED
      BY <2>1, <2>2 DEF AnswersSafe, TurnKept
  <1>15. ASSUME NEW n \in Node, SelectMessage(n) PROVE TurnKept' /\ AnswersSafe
    <2> DEFINE p == tree[n].parent
    <2>1. p \in Node /\ tree[p] \in Message
      BY <1>1, <1>15 DEF SelectMessage, Exists, Tree
    <2>2. tree' = [tree EXCEPT ![p].latest = n] /\ turn' = turn
      BY <1>15 DEF SelectMessage, SetAsLatest
    <2> HIDE DEF p
    <2>3. \A c \in Node : /\ tree'[c] = None <=> tree[c] = None
                          /\ tree[c] # None => /\ tree'[c].type = tree[c].type
                                               /\ tree'[c].children = tree[c].children
      BY <1>1, <2>1, <2>2, NoneIsNoMessage DEF Tree, Message
    <2>4. Within(tree, tree')
      BY <2>3 DEF Within
    <2>5. turn # None => Within(tree', turn.local)
      BY <2>3 DEF TurnKept, Within
    <2> QED
      BY <1>4, <2>2, <2>4, <2>5 DEF TurnKept
  <1>16. CASE SubmitRefused
    <2>1. EndsInError(tree) /\ tree' = WithoutError(tree) /\ turn' = turn
      BY <1>16 DEF SubmitRefused
    <2>2. AnswersOf(tree) \subseteq AnswersOf(tree') \union ClearedAway
      BY <1>1, <2>1, WithoutErrorKeeps DEF ClearedAway
    <2>3. Within(tree', tree)
      BY <1>1, <2>1, WithoutErrorWithin
    <2>4. turn # None => Within(tree', turn.local)
      BY <2>3 DEF TurnKept, Within
    <2> QED
      BY <2>1, <2>2, <2>4 DEF AnswersSafe, TurnKept
  <1>17. CASE UNCHANGED vars
    BY <1>3, <1>17 DEF vars, TurnKept
  <1> QED
    BY <1>6, <1>7, <1>9, <1>10, <1>11, <1>12, <1>13, <1>14, <1>15, <1>16, <1>17 DEF Next

-----------------------------------------------------------------------------
(***************************************************************************)
(* The theorems.                                                           *)
(***************************************************************************)

\* The trees have their types, a turn's own trees included.
THEOREM TypeCorrect == Spec => []TypeOK
  <1>1. IInv => TypeOK
    BY DEF IInv
  <1> QED BY <1>1, InitIInv, StepIInv, PTL DEF Spec

\* No chain breaks and no message is below two others, with any number of messages and
\* turns, whatever stale tree a turn publishes or puts back (upsertMessages, onSubmit).
THEOREM StaysWellLinked == Spec => []WellLinked
  <1>1. IInv => WellLinked
    BY DEF IInv
  <1> QED BY <1>1, InitIInv, StepIInv, PTL DEF Spec

\* While a turn streams, its answer is the end of the conversation on screen, in whichever
\* branch it was asked for, until the user moves elsewhere (getLatestMessageChain over what
\* upsertMessages published).
THEOREM StaysInView == Spec => []TurnInView
  <1>1. ASSUME IInv, Shown PROVE TurnInView
    <2> SUFFICES ASSUME turn # None, ~moved PROVE LastOf(tree) = turn.agent
      BY DEF TurnInView
    <2>1. tree = turn.local /\ Aims(tree, turn.user, turn.agent)
      BY <1>1 DEF Shown, TurnShown
    <2>2. tree \in Tree /\ WellLinkedTree(tree) /\ Sound(tree)
      BY <1>1 DEF IInv, TypeOK, WellLinked, Shown
    <2> QED
      BY <2>1, <2>2, SoundRoot, AimedIsLast
  <1> QED BY <1>1, InitIInv, StepIInv, InitShown, StepShown, PTL DEF Spec

\* No step loses an answer the user got but its own turn's refusal or failure, a new submit
\* that clears an error away, and a failed retry of a message above it, whatever the user
\* did to the tree on screen while the turn kept its own (onSubmit, upsertMessages).
THEOREM KeepsAnswers == Spec => AnswersKept
  <1>1. IInv /\ Shown /\ TurnKept /\ [Next]_vars => [AnswersSafe]_vars
    BY StepKept
  <1>2. Spec => [][AnswersSafe]_vars
    BY <1>1, InitIInv, StepIInv, InitShown, StepShown, InitKept, StepKept, PTL DEF Spec
  <1> QED
    BY <1>2 DEF AnswersKept, AnswersSafe
=============================================================================
