--------------------------- MODULE RefinementProofs ---------------------------
(***************************************************************************)
(* What the calls of Augeas do to the tree a caller sees: each is a step   *)
(* of ConfigTree, failures only add, Remove, SetMultiple and Move do what  *)
(* they promise, edits of a detached subtree stay out of the tree, and the *)
(* path reported for a node leads to it.                                   *)
(*                                                                         *)
(* h is the heap a call starts from, g the one it makes of h, T and U the  *)
(* nodes of their trees.                                                   *)
(***************************************************************************)
EXTENDS AugeasProofs

-----------------------------------------------------------------------------
(* The steps.  View has the variables of ConfigTree as AugeasProperties maps *)
(* them.                                                                     *)
View == INSTANCE ConfigTree WITH
  live   <- heap.live,
  parent <- ParentsIn(heap, heap.live),
  older  <- OrderIn(heap, heap.live),
  label  <- LabelsIn(heap, heap.live),
  value  <- ValuesIn(heap, heap.live)

LEMMA ViewIsTree ==
  /\ View!Init <=> Tree!Init
  /\ [View!Next]_(View!doc) <=> [Tree!Next]_(Tree!doc)
<1>1. View!Init <=> Tree!Init
  BY DEF View!Init, Tree!Init, ParentsIn, OrderIn, LabelsIn, ValuesIn, InTree
<1>2. View!doc = Tree!doc /\ View!doc' = Tree!doc'
  BY DEF View!doc, Tree!doc, ParentsIn, OrderIn, LabelsIn, ValuesIn, InTree
<1>3. View!Next <=> Tree!Next
  BY DEF View!Next, Tree!Next, ParentsIn, OrderIn, LabelsIn, ValuesIn, InTree,
     View!Write, Tree!Write, View!Store, Tree!Store, View!Prune, Tree!Prune, View!Move, Tree!Move,
     View!InsertBeside, Tree!InsertBeside, View!Free, Tree!Free, View!Inner, Tree!Inner,
     View!Regrown, Tree!Regrown, View!Rehung, Tree!Rehung, View!Labelled, Tree!Labelled,
     View!HangsUnder, Tree!HangsUnder, View!Grounded, Tree!Grounded
<1> QED
  BY <1>1, <1>2, <1>3

Tidy == Agreeing /\ IsTree(heap, heap.live) /\ Blank(heap)

LEMMA TidyIs ==
  ASSUME Tidy
  PROVE  /\ Typed /\ heap \in Heaps /\ Shaped(heap) /\ Linked(heap) /\ ChildLinks(heap, heap.used)
         /\ IsTree(heap, heap.live) /\ Blank(heap) /\ heap.used \subseteq Node
         /\ heap.live \subseteq heap.used /\ Root \in heap.live /\ ChildLinks(heap, heap.live)
<1>1. /\ Typed /\ heap \in Heaps /\ Shaped(heap) /\ Linked(heap) /\ ChildLinks(heap, heap.used)
      /\ IsTree(heap, heap.live) /\ Blank(heap) /\ heap.used \subseteq Node
      /\ heap.live \subseteq heap.used /\ Root \in heap.live
  BY DEF Tidy, Agreeing, Typed, Linked, IsTree, Heaps, Heap
<1> QED
  BY <1>1, LinksWithin

(* g is the heap of a call; the state that follows shows its tree.           *)
Shows(g) ==
  /\ g \in Heaps /\ Shaped(g) /\ Lost \notin g.used
  /\ heap' \in Heaps /\ Shaped(heap') /\ KeptOf(g, heap') /\ heap'.live \subseteq heap'.used
  /\ IsTree(g, heap'.live) /\ IsTree(heap', heap'.live) /\ Blank(heap')

LEMMA BelowIsTree ==
  ASSUME NEW h \in Heaps, Shaped(h)
  PROVE  IsTree(h, Below(h, {Root}))
<1>1. {Root} \in SUBSET h.used
  BY DEF Shaped
<1> QED
  BY <1>1, BelowIs DEF IsTree, Heaps

LEMMA OneTree ==
  ASSUME NEW h, NEW T, IsTree(h, T), NEW U, IsTree(h, U)
  PROVE  T = U
BY DEF IsTree

LEMMA CollectedTree ==
  ASSUME NEW g \in Heaps, Shaped(g), NEW held \in SUBSET g.used, NEW h, h = Collected(g, held)
  PROVE  /\ h \in Heaps /\ Shaped(h) /\ KeptOf(g, h) /\ h.live \subseteq h.used
         /\ IsTree(g, h.live) /\ IsTree(h, h.live) /\ Blank(h)
<1>1. h \in Heaps /\ Shaped(h) /\ KeptOf(g, h) /\ h.live \subseteq h.used
  BY CollectedHeap
<1>2. IsTree(g, h.live)
  <2>1. h.live = Below(g, {Root})
    BY DEF Collected, Kept
  <2> QED
    BY <2>1, BelowIsTree
<1>3. IsTree(h, h.live)
  <2>1. \A S \in SUBSET h.used : Closed(h, S) <=> Closed(g, S)
    <3>1. \A n \in h.used : /\ h.len[n] = g.len[n]
                            /\ \A i \in 1 .. g.len[n] : Kid(h, n, i) = Kid(g, n, i)
      BY <1>1 DEF KeptOf, KeptAs
    <3> QED
      BY <3>1 DEF Closed
  <2>2. h.used \subseteq g.used
    BY <1>1 DEF KeptOf
  <2> QED
    BY <1>1, <1>2, <2>1, <2>2 DEF IsTree
<1>4. Blank(h)
  <2>1. h.used = Touchable(g, {Root} \cup held)
    BY DEF Collected, Kept
  <2>2. h.value = [n \in Node |-> IF n \in h.used THEN g.value[n] ELSE NoValue]
    BY <2>1 DEF Collected, Kept
  <2> QED
    BY <2>2 DEF Blank
<1> QED
  BY <1>1, <1>2, <1>3, <1>4

LEMMA Shown ==
  ASSUME NEW of, NEW g, NEW vs, NEW err, NEW ret, Return(of, g, vs, err, ret),
         g \in Heaps, Shaped(g), Bound(g.used, vs)
  PROVE  Shows(g)
<1>1. heap' = Collected(g, Held(vs)) /\ Lost \notin g.used
  BY DEF Return
<1>2. Held(vs) \in SUBSET g.used
  BY HeldIs
<1> QED
  BY <1>1, <1>2, CollectedTree DEF Shows

LEMMA ShownView ==
  ASSUME NEW g, Shows(g), ChildLinks(g, heap'.live)
  PROVE  /\ ParentsIn(heap', heap'.live) = ParentsIn(g, heap'.live)
         /\ OrderIn(heap', heap'.live) = OrderIn(g, heap'.live)
         /\ LabelsIn(heap', heap'.live) = LabelsIn(g, heap'.live)
         /\ ValuesIn(heap', heap'.live) = ValuesIn(g, heap'.live)
<1> DEFINE h == heap'
           T == heap'.live
<1>1. /\ g \in Heaps /\ Shaped(g) /\ h \in Heaps /\ Shaped(h) /\ KeptOf(g, h)
      /\ T \in SUBSET h.used /\ IsTree(g, T) /\ ChildLinks(g, T)
  BY DEF Shows
<1> HIDE DEF h, T
<1>2. /\ ParentsIn(h, T) = ParentsIn(g, T) /\ OrderIn(h, T) = OrderIn(g, T)
      /\ LabelsIn(h, T) = LabelsIn(g, T) /\ ValuesIn(h, T) = ValuesIn(g, T)
  BY <1>1, KeptTree
<1> QED
  BY <1>2 DEF h, T

-----------------------------------------------------------------------------
(* Calls that leave the tree alone. *)
LEMMA SameTree ==
  ASSUME Tidy, NEW g, Shows(g), heap.used \subseteq g.used,
         \A n \in heap.live :
           /\ g.label[n] = heap.label[n] /\ g.value[n] = heap.value[n]
           /\ g.parent[n] = heap.parent[n] /\ g.arr[n] = heap.arr[n] /\ g.len[n] = heap.len[n]
           /\ \A i \in 1 .. heap.len[n] : Kid(g, n, i) = Kid(heap, n, i)
  PROVE  /\ UNCHANGED View!doc
         /\ heap'.live = heap.live /\ IsTree(g, heap.live) /\ ChildLinks(g, heap.live)
<1> DEFINE h == heap
           T == heap.live
<1>1. /\ h \in Heaps /\ Shaped(h) /\ IsTree(h, T) /\ ChildLinks(h, T) /\ T \subseteq h.used /\ Root \in T
      /\ \A n \in T : \A i \in 1 .. h.len[n] : Kid(h, n, i) \in T
  BY TidyIs DEF IsTree, Closed
<1>2. /\ g \in Heaps /\ Shaped(g) /\ IsTree(g, heap'.live) /\ h.used \subseteq g.used
      /\ \A n \in T : /\ g.label[n] = h.label[n] /\ g.value[n] = h.value[n]
                      /\ g.parent[n] = h.parent[n] /\ g.arr[n] = h.arr[n] /\ g.len[n] = h.len[n]
                      /\ \A i \in 1 .. h.len[n] : Kid(g, n, i) = Kid(h, n, i)
  BY DEF Shows
<1> HIDE DEF h, T
<1>3. IsTree(g, T)
  <2>1. Closed(g, T)
    BY <1>1, <1>2 DEF Closed
  <2>2. ASSUME NEW S \in SUBSET g.used, Root \in S, Closed(g, S) PROVE T \subseteq S
    <3>1. Closed(h, S \cap T)
      BY <1>1, <1>2, <2>2 DEF Closed
    <3>2. S \cap T \in SUBSET h.used /\ Root \in S \cap T
      BY <1>1, <2>2
    <3> QED
      BY <1>1, <3>1, <3>2 DEF IsTree
  <2> QED
    BY <1>1, <1>2, <2>1, <2>2 DEF IsTree
<1>4. ChildLinks(g, T)
  BY <1>1, <1>2 DEF ChildLinks
<1>5. heap'.live = T
  BY <1>2, <1>3, OneTree
<1>6. OrderIn(g, T) = OrderIn(h, T)
  <2>1. \A m \in T \ {Root} : h.parent[m] \in T
    BY <1>1, TreeLinks
  <2>2. \A m \in T \ {Root} : \A n : Before(g, m, n) <=> Before(h, m, n)
    BY <1>2, <2>1 DEF Before
  <2>3. OrderIn(g, T) = {e \in (T \ {Root}) \X (T \ {Root}) :
                            g.parent[e[1]] = g.parent[e[2]] /\ Before(g, e[1], e[2])}
    BY <1>2, <1>3, <1>4, OrderIs
  <2>4. OrderIn(h, T) = {e \in (T \ {Root}) \X (T \ {Root}) :
                            h.parent[e[1]] = h.parent[e[2]] /\ Before(h, e[1], e[2])}
    BY <1>1, OrderIs
  <2> QED
    BY <1>2, <2>2, <2>3, <2>4
<1>7. ParentsIn(g, T) = ParentsIn(h, T) /\ LabelsIn(g, T) = LabelsIn(h, T) /\ ValuesIn(g, T) = ValuesIn(h, T)
  BY <1>2 DEF ParentsIn, LabelsIn, ValuesIn
<1>8. /\ ParentsIn(heap', T) = ParentsIn(g, T) /\ OrderIn(heap', T) = OrderIn(g, T)
      /\ LabelsIn(heap', T) = LabelsIn(g, T) /\ ValuesIn(heap', T) = ValuesIn(g, T)
  BY <1>4, <1>5, ShownView
<1>9. UNCHANGED View!doc
  BY <1>5, <1>6, <1>7, <1>8 DEF View!doc, h, T
<1> QED
  BY <1>3, <1>4, <1>5, <1>9 DEF T

(* Calls that add, and what they add. *)
Additions == heap'.live \ heap.live

(* The conjuncts that Write and Store share. *)
Adds(keep) ==
  /\ Additions \in SUBSET View!Free
  /\ heap'.live = keep \cup Additions
  /\ \E par \in [Additions -> keep \cup Additions] :
       View!Grounded(Additions, par) /\ View!Regrown(keep, Additions, par)
  /\ View!Labelled(keep, Additions)

LEMMA SproutStep ==
  ASSUME Tidy, NEW g, Shows(g), Sprouts(heap, g)
  PROVE  /\ Adds(heap.live)
         /\ heap.live \subseteq heap'.live /\ Additions \cap heap.used = {}
         /\ ValuesIn(heap', heap'.live) = ValuesIn(g, heap'.live)
<1> DEFINE h == heap
           T == heap.live
           U == heap'.live
           X == Additions
           par == [x \in X |-> g.parent[x]]
           lab == [x \in X |-> g.label[x]]
<1>1. /\ h \in Heaps /\ Shaped(h) /\ ChildLinks(h, h.used) /\ IsTree(h, T) /\ ChildLinks(h, T)
      /\ T \subseteq Node
  BY TidyIs
<1>2. /\ g \in Heaps /\ Shaped(g) /\ IsTree(g, U) /\ ChildLinks(g, U) /\ Sprouts(h, g) /\ X = U \ T
  BY LinksWithin DEF Shows, Sprouts, IsTree, Additions
<1> HIDE DEF h, T, U, X
<1>3. /\ T \subseteq U /\ X \cap h.used = {} /\ X \subseteq Node
      /\ \A x \in X : x # Root /\ g.parent[x] \in T \cup X /\ g.label[x] \in Label
      /\ \A S \in SUBSET X : S # {} => \E x \in S : g.parent[x] \notin S
      /\ \A n \in T : g.parent[n] = h.parent[n] /\ g.label[n] = h.label[n]
  <2>1. T \subseteq U /\ Grows(h, T, g, X)
    BY <1>1, <1>2, GrownTree
  <2> QED
    BY <2>1 DEF Grows
<1>4. OrderIn(g, U) = Behind(h, T, g, X)
  BY <1>1, <1>2, GrownOrder
<1>5. U = T \cup X /\ X \cap T = {}
  BY <1>2, <1>3
<1>6. par \in [X -> T \cup X] /\ lab \in [X -> Label]
  BY <1>3, <1>5
<1>7. /\ ParentsIn(heap', U) = ParentsIn(g, U) /\ OrderIn(heap', U) = OrderIn(g, U)
      /\ LabelsIn(heap', U) = LabelsIn(g, U) /\ ValuesIn(heap', U) = ValuesIn(g, U)
  BY <1>2, ShownView DEF U
<1>8. View!Grounded(X, par)
  BY <1>3 DEF View!Grounded
<1>9. ParentsIn(heap', U) = [n \in (T \cup X) \ {Root} |-> IF n \in X THEN par[n] ELSE ParentsIn(h, T)[n]]
  BY <1>3, <1>5, <1>7 DEF ParentsIn
<1>10. OrderIn(heap', U) = {e \in OrderIn(h, T) : e[1] \in T /\ e[2] \in T}
                             \cup {e \in (T \ {Root}) \X X : ParentsIn(h, T)[e[1]] = par[e[2]]}
                             \cup {e \in X \X X : par[e[1]] = par[e[2]] /\ e[1] < e[2]}
  <2>1. OrderIn(h, T) = {e \in OrderIn(h, T) : e[1] \in T /\ e[2] \in T}
    BY DEF OrderIn
  <2>2. \A e \in (T \ {Root}) \X X : ParentsIn(h, T)[e[1]] = h.parent[e[1]] /\ par[e[2]] = g.parent[e[2]]
    BY DEF ParentsIn
  <2>3. {e \in (T \ {Root}) \X X : ParentsIn(h, T)[e[1]] = par[e[2]]}
          = {e \in (T \ {Root}) \X X : h.parent[e[1]] = g.parent[e[2]]}
    BY <2>2
  <2>4. {e \in X \X X : par[e[1]] = par[e[2]] /\ e[1] < e[2]}
          = {e \in X \X X : g.parent[e[1]] = g.parent[e[2]] /\ e[1] < e[2]}
    OBVIOUS
  <2> QED
    BY <1>4, <1>7, <2>1, <2>3, <2>4 DEF Behind
<1>11. LabelsIn(heap', U) = [n \in (T \cup X) \ {Root} |-> IF n \in X THEN lab[n] ELSE LabelsIn(h, T)[n]]
  BY <1>3, <1>5, <1>7 DEF LabelsIn
<1> HIDE DEF par, lab
<1>12. View!Regrown(T, X, par)
  BY <1>5, <1>9, <1>10 DEF View!Regrown, h, T, U
<1>13. View!Labelled(T, X)
  BY <1>6, <1>11 DEF View!Labelled, h, T, U
<1>14. X \in SUBSET View!Free
  BY <1>3, <1>5 DEF View!Free, T
<1> QED
  BY <1>3, <1>5, <1>6, <1>7, <1>8, <1>12, <1>13, <1>14 DEF Adds, h, T, U, X

(* Set, SetMultiple and DefineNode, as far as they got. *)
LEMMA WriteStep ==
  ASSUME Tidy, NEW g, Shows(g), Sprouts(heap, g), NEW v \in Value, Revalued(heap, v, g)
  PROVE  View!Write
<1> DEFINE T == heap.live
           X == Additions
           N == {n \in T \cup X : g.value[n] = v}
<1>1. Adds(T) /\ T \subseteq heap'.live /\ X \cap heap.used = {}
      /\ ValuesIn(heap', heap'.live) = ValuesIn(g, heap'.live)
  BY SproutStep
<1>2. heap'.live = T \cup X /\ X \in SUBSET View!Free
  BY <1>1 DEF Adds
<1>3. Blank(heap) /\ heap'.live \subseteq Node /\ heap.live \subseteq heap.used
  BY TidyIs DEF Shows, Heaps, Heap
<1>4. ValuesIn(heap', heap'.live) = [n \in T \cup X |-> CASE n \in N -> v
                                                       [] n \in X \ N -> NoValue
                                                       [] OTHER -> ValuesIn(heap, heap.live)[n]]
  <2>1. ASSUME NEW n \in T \cup X
        PROVE  g.value[n] = CASE n \in N -> v
                              [] n \in X \ N -> NoValue
                              [] OTHER -> ValuesIn(heap, heap.live)[n]
    <3>1. g.value[n] \in {heap.value[n], v}
      BY <1>2, <1>3 DEF Revalued
    <3>2. CASE n \in N
      BY <3>2
    <3>3. CASE n \in X \ N
      <4>1. heap.value[n] = NoValue
        BY <1>1, <1>2, <1>3, <3>3 DEF Blank
      <4> QED
        BY <3>1, <3>3, <4>1
    <3>4. CASE n \notin X /\ n \notin N
      BY <3>1, <3>4 DEF ValuesIn
    <3> QED
      BY <3>2, <3>3, <3>4
  <2> QED
    BY <1>1, <1>2, <2>1 DEF ValuesIn
<1>5. N \in SUBSET (T \cup X)
  OBVIOUS
<1> HIDE DEF N
<1>6. \E M \in SUBSET (T \cup X), w \in Value :
        ValuesIn(heap', heap'.live) = [n \in T \cup X |-> CASE n \in M -> w
                                                       [] n \in X \ M -> NoValue
                                                       [] OTHER -> ValuesIn(heap, heap.live)[n]]
  BY <1>4, <1>5
<1> HIDE DEF X
<1> QED
  BY <1>1, <1>2, <1>6 DEF View!Write, Adds, X

(* createFrom stopped part-way. *)
LEMMA StopStep ==
  ASSUME Tidy, NEW g, Shows(g), Sprouts(heap, g), g.value = heap.value
  PROVE  View!Store
<1> DEFINE T == heap.live
           X == Additions
           val == [x \in X |-> NoValue]
           none == {}
<1>1. Adds(T) /\ T \subseteq heap'.live /\ X \cap heap.used = {}
      /\ ValuesIn(heap', heap'.live) = ValuesIn(g, heap'.live)
  BY SproutStep
<1>2. heap'.live = T \cup X /\ X \in SUBSET View!Free
  BY <1>1 DEF Adds
<1>3. Blank(heap) /\ heap'.live \subseteq Node
  BY TidyIs DEF Shows, Heaps, Heap
<1>4. ValuesIn(heap', heap'.live) = [n \in T \cup X |-> IF n \in X THEN val[n] ELSE ValuesIn(heap, heap.live)[n]]
  <2>1. \A n \in X : heap.value[n] = NoValue
    BY <1>1, <1>2, <1>3 DEF Blank
  <2> QED
    BY <1>1, <1>2, <2>1 DEF ValuesIn
<1>5. val \in [X -> Value \cup {NoValue}] /\ none \in SUBSET View!Inner
  OBVIOUS
<1>6. heap.live \ none = heap.live
  OBVIOUS
<1>7. Adds(heap.live \ none) /\ none = {}
  BY <1>1, <1>6
<1>8. ValuesIn(heap', heap'.live)
        = [n \in (heap.live \ none) \cup X |-> IF n \in X THEN val[n] ELSE ValuesIn(heap, heap.live)[n]]
  BY <1>4, <1>6
<1> HIDE DEF val, none, X
<1>9. \E w \in [X -> Value \cup {NoValue}] :
        ValuesIn(heap', heap'.live)
          = [n \in (heap.live \ none) \cup X |-> IF n \in X THEN w[n] ELSE ValuesIn(heap, heap.live)[n]]
  BY <1>5, <1>8
<1> QED
  BY <1>2, <1>5, <1>7, <1>9 DEF View!Store, Adds, X

-----------------------------------------------------------------------------
(* What is shown of every call: it is a step of ConfigTree; if it fails it   *)
(* has only added; if it writes it has kept every node where it was.         *)
OnlyAdds ==
  /\ InTree \subseteq InTree'
  /\ \A n \in InTree : heap'.value[n] = heap.value[n] /\ Seqs!IsPrefix(Kids(n), Kids(n)')
  /\ \A n \in InTree' \ InTree : heap'.value[n] = NoValue

Keeps == \A n \in InTree : n \in InTree' /\ heap'.parent[n] = heap.parent[n]

Writers == {"Set", "SetMultiple", "Insert", "DefineNode"}

Sound ==
  /\ [View!Next]_(View!doc)
  /\ call'.err /\ ~Called("SetMultiple") => OnlyAdds
  /\ call'.of[1] \in Writers => Keeps

LEMMA PrefixIs ==
  ASSUME NEW s \in Seq(Node), NEW t \in Seq(Node), Len(s) <= Len(t), \A i \in 1 .. Len(s) : t[i] = s[i]
  PROVE  Seqs!IsPrefix(s, t)
<1>1. SubSeq(s, 1, Len(s)) = [i \in 1 .. Len(s) |-> s[i]] /\ SubSeq(t, 1, Len(s)) = [i \in 1 .. Len(s) |-> t[i]]
  OBVIOUS
<1>2. [i \in 1 .. Len(s) |-> s[i]] = [i \in 1 .. Len(s) |-> t[i]]
  OBVIOUS
<1> QED
  BY <1>1, <1>2 DEF Seqs!IsPrefix

LEMMA SproutKeeps ==
  ASSUME Tidy, NEW g, Shows(g), Sprouts(heap, g)
  PROVE  /\ Keeps
         /\ g.value = heap.value => OnlyAdds
<1>1. /\ heap.live \subseteq heap'.live /\ Additions \cap heap.used = {}
  BY SproutStep
<1>2. /\ heap \in Heaps /\ Shaped(heap) /\ Blank(heap) /\ heap.live \subseteq heap.used
      /\ heap.used \subseteq Node
  BY TidyIs
<1>3. /\ heap' \in Heaps /\ Shaped(heap') /\ heap'.live \subseteq heap'.used /\ heap'.used \subseteq Node
      /\ \A n \in heap'.used : /\ heap'.value[n] = g.value[n] /\ heap'.parent[n] = g.parent[n]
                               /\ heap'.len[n] = g.len[n]
                               /\ \A i \in 1 .. g.len[n] : Kid(heap', n, i) = Kid(g, n, i)
  BY DEF Shows, KeptOf, KeptAs, Heaps, Heap
<1>4. \A n \in heap.used : g.parent[n] = heap.parent[n]
  BY DEF Sprouts
<1>5. Keeps
  BY <1>1, <1>2, <1>3, <1>4 DEF Keeps, InTree
<1>6. ASSUME NEW n \in heap.live PROVE Seqs!IsPrefix(Kids(n), Kids(n)')
  <2>1. n \in Node /\ n \in heap'.used
    BY <1>1, <1>2, <1>3
  <2>2. /\ Kids(n) \in Seq(heap.used) /\ Len(Kids(n)) = heap.len[n]
        /\ \A i \in 1 .. heap.len[n] : Kids(n)[i] = Kid(heap, n, i)
    BY <1>2, <2>1, ChildrenAre DEF Heaps, Kids
  <2>3. /\ Kids(n)' \in Seq(heap'.used) /\ Len(Kids(n)') = heap'.len[n]
        /\ \A i \in 1 .. heap'.len[n] : Kids(n)'[i] = Kid(heap', n, i)
    BY <1>3, <2>1, ChildrenAre DEF Heaps, Kids
  <2>4. /\ heap.len[n] \in Nat /\ g.len[n] \in Nat /\ heap.len[n] <= g.len[n]
        /\ \A i \in 1 .. heap.len[n] : Kid(g, n, i) = Kid(heap, n, i)
    BY <1>2, <2>1 DEF Sprouts, Extended, Heaps, Heap
  <2>5. \A i \in 1 .. heap.len[n] : i \in 1 .. g.len[n]
    BY <2>4
  <2>6. /\ Len(Kids(n)) <= Len(Kids(n)')
        /\ \A i \in 1 .. Len(Kids(n)) : Kids(n)'[i] = Kids(n)[i]
    BY <1>3, <2>1, <2>2, <2>3, <2>4, <2>5
  <2>7. Kids(n) \in Seq(Node) /\ Kids(n)' \in Seq(Node)
    <3>1. \A T \in SUBSET Node : \A s \in Seq(T) : s \in Seq(Node)
      OBVIOUS
    <3> QED
      BY <1>2, <1>3, <2>2, <2>3, <3>1
  <2> QED
    BY <2>6, <2>7, PrefixIs
<1>7. ASSUME g.value = heap.value PROVE OnlyAdds
  <2>1. \A n \in heap.live : heap'.value[n] = heap.value[n]
    BY <1>1, <1>3, <1>7
  <2>2. \A n \in heap'.live \ heap.live : heap'.value[n] = NoValue
    BY <1>1, <1>2, <1>3, <1>7 DEF Blank, Additions
  <2> QED
    BY <1>1, <1>6, <2>1, <2>2 DEF OnlyAdds, InTree
<1> QED
  BY <1>5, <1>7

LEMMA StepOf ==
  ASSUME Tidy, NEW of, NEW g, NEW vs, NEW err, NEW ret, Return(of, g, vs, err, ret),
         Grown(heap, g), Bound(g.used, vs)
  PROVE  /\ Shows(g) /\ Sprouts(heap, g)
         /\ call'.of = of /\ call'.err = err
<1>1. g \in Heaps /\ Shaped(g)
  BY DEF Grown, Edited
<1>2. Shows(g)
  BY <1>1, Shown
<1>3. Sprouts(heap, g)
  BY <1>2, TidyIs, GrownIs DEF Shows
<1> QED
  BY <1>2, <1>3 DEF Return

LEMMA SameSound ==
  ASSUME Tidy, NEW of, NEW vs, NEW err, NEW ret, Return(of, heap, vs, err, ret), Bound(heap.used, vs)
  PROVE  Sound /\ UNCHANGED View!doc
<1>1. Grown(heap, heap)
  BY TidyIs, EditedSame
<1>2. Shows(heap) /\ Sprouts(heap, heap)
  BY <1>1, StepOf
<1>3. UNCHANGED View!doc
  BY <1>2, SameTree
<1> QED
  BY <1>2, <1>3, SproutKeeps DEF Sound

LEMMA StopSound ==
  ASSUME Tidy, NEW of, NEW g, NEW err, NEW ret, Return(of, g, vars, err, ret),
         Grown(heap, g), g.value = heap.value
  PROVE  Sound
<1>1. Bound(g.used, vars)
  BY TidyIs, BoundWider DEF Typed, Grown, Edited
<1>2. Shows(g) /\ Sprouts(heap, g)
  BY <1>1, StepOf
<1>3. View!Store
  BY <1>2, StopStep
<1> QED
  BY <1>2, <1>3, SproutKeeps DEF Sound, View!Next

LEMMA WriteSound ==
  ASSUME Tidy, NEW of, NEW g, NEW vs, NEW err, NEW ret, Return(of, g, vs, err, ret),
         Grown(heap, g), Bound(g.used, vs), NEW v \in Value, Revalued(heap, v, g),
         err = FALSE \/ of[1] = "SetMultiple"
  PROVE  Sound
<1>1. Shows(g) /\ Sprouts(heap, g) /\ call'.of = of /\ call'.err = err
  BY StepOf
<1>2. View!Write
  BY <1>1, WriteStep
<1> QED
  BY <1>1, <1>2, SproutKeeps DEF Sound, View!Next, Called

-----------------------------------------------------------------------------
(* The methods that read, write and bind. *)
LEMMA FailSound ==
  ASSUME Tidy, NEW of, NEW ret, Fail(of, ret)
  PROVE  Sound
BY SameSound, TidyIs DEF Fail, Typed

LEMMA ReadsSound ==
  ASSUME Tidy, NEW path, Get(path) \/ Exists(path) \/ Match(path) \/ GetLabel(path)
  PROVE  Sound
<1>1. \E of, err, ret : Return(of, heap, vars, err, ret)
  BY DEF Get, Exists, Match, GetLabel
<1> QED
  BY <1>1, SameSound, TidyIs DEF Typed

(* What createPath and the value set after it make of the heap. *)
LEMMA CreatedValue ==
  ASSUME NEW h \in Heaps, Shaped(h), NEW c, Grown(h, c), c.value = h.value,
         NEW d \in c.used, NEW v \in Value, NEW g, g = SetNodeValue(c, d, v)
  PROVE  Grown(h, g) /\ Revalued(h, v, g) /\ g.used = c.used
<1>1. c \in Heaps /\ Shaped(c)
  BY DEF Grown, Edited
<1>2. /\ Grown(c, g) /\ g.used = c.used
      /\ \A m \in Node : g.value[m] = IF m = d THEN v ELSE c.value[m]
  BY <1>1, ValueSet
<1>3. Grown(h, g)
  <2>1. Edited(h, c) /\ Edited(c, g)
    BY <1>2 DEF Grown
  <2> QED
    BY <1>2, <2>1, EditedTwice
<1> QED
  BY <1>2, <1>3 DEF Revalued

LEMMA SetSound ==
  ASSUME Tidy, NEW path, PathOK(path), MakesLabels(path[1].segs), NEW v \in Value, Set(path, v)
  PROVE  Sound
<1> DEFINE m == Matches(path)
           c == CreatePath(heap, path)
           of == <<"Set", path, v>>
<1>1. heap \in Heaps /\ Shaped(heap) /\ Bound(heap.used, vars) /\ Typed
  BY TidyIs DEF Typed
<1>2. m.ok \in BOOLEAN /\ m.nodes \in Seq(heap.used)
  BY <1>1, MatchesAre
<1>3. /\ Grown(heap, c.heap) /\ c.heap.value = heap.value
      /\ c.ok => c.node \in c.heap.used
  BY <1>1, CreatePathIs
<1> HIDE DEF m, c
<1>4. CASE c.ok /\ Return(of, SetNodeValue(c.heap, c.node, v), vars, FALSE, Nil)
  <2> DEFINE g == SetNodeValue(c.heap, c.node, v)
  <2>1. Grown(heap, g) /\ Revalued(heap, v, g)
    BY <1>1, <1>3, <1>4, CreatedValue
  <2>2. Return(of, g, vars, FALSE, Nil)
    BY <1>4
  <2> HIDE DEF g, of
  <2>3. Bound(g.used, vars)
    BY <1>1, <2>1, BoundWider DEF Grown, Edited
  <2> QED
    BY <2>1, <2>2, <2>3, WriteSound
<1>5. CASE Return(of, c.heap, vars, TRUE, Nil)
  BY <1>3, <1>5, StopSound
<1>6. CASE Len(m.nodes) = 1 /\ Return(of, SetNodeValue(heap, m.nodes[1], v), vars, FALSE, Nil)
  <2> DEFINE g == SetNodeValue(heap, m.nodes[1], v)
  <2>1. m.nodes[1] \in heap.used /\ Grown(heap, heap)
    BY <1>1, <1>2, <1>6, EditedSame
  <2>2. Grown(heap, g) /\ Revalued(heap, v, g) /\ g.used = heap.used
    BY <1>1, <2>1, CreatedValue
  <2>3. Return(of, g, vars, FALSE, Nil)
    BY <1>6
  <2> HIDE DEF g, of
  <2> QED
    BY <1>1, <2>2, <2>3, WriteSound
<1>7. CASE Fail(of, Nil)
  BY <1>7, FailSound
<1> QED
  BY <1>4, <1>5, <1>6, <1>7 DEF Set, m, c

LEMMA SetMultipleSound ==
  ASSUME Tidy, NEW base, PathOK(base), NEW sub, SegsOK(sub), MakesLabels(sub), NEW v \in Value,
         SetMultiple(base, sub, v)
  PROVE  Sound
<1> DEFINE m == Matches(base)
           r == SetEach(heap, m.nodes, sub, v)
           of == <<"SetMultiple", base, sub, v>>
           bad == ~r.ok
<1>1. heap \in Heaps /\ Shaped(heap) /\ Bound(heap.used, vars) /\ Typed
  BY TidyIs DEF Typed
<1>2. m.nodes \in Seq(heap.used)
  BY <1>1, MatchesAre
<1> HIDE DEF m
<1>3. r \in Setting(heap, v)
  BY <1>1, <1>2, SetEachIs
<1> HIDE DEF r
<1>4. Grown(heap, r.heap) /\ Revalued(heap, v, r.heap)
  BY <1>3 DEF Setting
<1>5. Bound(r.heap.used, vars)
  BY <1>1, <1>4, BoundWider DEF Grown, Edited
<1>6. CASE Return(of, r.heap, vars, bad, r.count)
  <2>1. of[1] = "SetMultiple"
    OBVIOUS
  <2> HIDE DEF bad, of
  <2> QED
    BY <1>4, <1>5, <1>6, <2>1, WriteSound
<1>7. CASE Fail(of, 0)
  BY <1>7, FailSound
<1> QED
  BY <1>6, <1>7 DEF SetMultiple, m, r

LEMMA DefineVariableSound ==
  ASSUME Tidy, NEW x, NEW expr, PathOK(expr), DefineVariable(x, expr)
  PROVE  Sound
<1> DEFINE m == Matches(expr)
           of == <<"DefineVariable", x, expr>>
<1>1. Bound(heap.used, vars) /\ Typed
  BY TidyIs DEF Typed
<1>2. m.nodes \in Seq(heap.used)
  BY <1>1, MatchesAre
<1> HIDE DEF m
<1>3. CASE Return(of, heap, Bind(x, m.nodes), FALSE, Len(m.nodes))
  BY <1>1, <1>2, <1>3, BindIs, SameSound
<1>4. CASE Fail(of, 0)
  BY <1>4, FailSound
<1> QED
  BY <1>3, <1>4 DEF DefineVariable, m

LEMMA DefineNodeSound ==
  ASSUME Tidy, NEW x, NEW expr, PathOK(expr), MakesLabels(expr[1].segs), NEW v \in Value,
         DefineNode(x, expr, v)
  PROVE  Sound
<1> DEFINE m == Matches(expr)
           c == CreatePath(heap, expr)
           g == SetNodeValue(c.heap, c.node, v)
           of == <<"DefineNode", x, expr, v>>
           old == [path |-> BuildPath(heap, m.nodes[1]), created |-> FALSE]
           new == [path |-> BuildPath(c.heap, c.node), created |-> TRUE]
<1>1. heap \in Heaps /\ Shaped(heap) /\ Bound(heap.used, vars) /\ Typed
  BY TidyIs DEF Typed
<1>2. m.nodes \in Seq(heap.used)
  BY <1>1, MatchesAre
<1>3. /\ Grown(heap, c.heap) /\ c.heap.value = heap.value
      /\ c.ok => c.node \in c.heap.used
  BY <1>1, CreatePathIs
<1> HIDE DEF m, c, old, new
<1>4. CASE Return(of, heap, Bind(x, m.nodes), FALSE, old)
  BY <1>1, <1>2, <1>4, BindIs, SameSound
<1>5. CASE c.ok /\ Return(of, g, Bind(x, <<c.node>>), FALSE, new)
  <2>1. Grown(heap, g) /\ Revalued(heap, v, g) /\ g.used = c.heap.used
    BY <1>1, <1>3, <1>5, CreatedValue
  <2> HIDE DEF g
  <2>2. Bound(g.used, vars)
    BY <1>1, <2>1, BoundWider DEF Grown, Edited
  <2>3. <<c.node>> \in Seq(g.used)
    BY <1>3, <1>5, <2>1, OneIs
  <2>4. Bound(g.used, Bind(x, <<c.node>>))
    BY <2>2, <2>3, BindIs
  <2> HIDE DEF of
  <2> QED
    BY <1>5, <2>1, <2>4, WriteSound
<1>6. CASE Return(of, c.heap, vars, TRUE, Nil)
  BY <1>3, <1>6, StopSound
<1>7. CASE Fail(of, Nil)
  BY <1>7, FailSound
<1> QED
  BY <1>4, <1>5, <1>6, <1>7 DEF DefineNode, m, c, old, new

-----------------------------------------------------------------------------
(* Insert. *)
LEMMA InsertStep ==
  ASSUME Tidy, NEW g, Shows(g), NEW n \in heap.live \ {Root}, NEW p, p = heap.parent[n],
         NEW pos \in 1 .. heap.len[p], Kid(heap, p, pos) = n,
         NEW i \in {pos - 1, pos}, NEW x, Opened(heap, p, i, x, g)
  PROVE  /\ View!Next
         /\ heap'.live = heap.live \cup {x}
<1> DEFINE h == heap
           T == heap.live
           U == heap'.live
           before == ~(i = pos)
           Inner == T \ {Root}
           ahead == {m \in Inner : <<m, n>> \in OrderIn(h, T) \/ (~before /\ m = n)}
           behind == {m \in Inner : ParentsIn(h, T)[m] = ParentsIn(h, T)[n]} \ ahead
           lab == [y \in {x} |-> g.label[y]]
<1>1. /\ h \in Heaps /\ Shaped(h) /\ ChildLinks(h, h.used) /\ IsTree(h, T) /\ ChildLinks(h, T)
      /\ T \subseteq h.used /\ h.used \subseteq Node /\ n \in T \ {Root} /\ Root \in T
  BY TidyIs
<1>2. p \in T /\ p \in Node
  BY <1>1, TreeLinks
<1>3. h.len[p] \in Nat /\ i \in 0 .. h.len[p] /\ p \in h.used
  BY <1>1, <1>2 DEF Heaps, Heap
<1>4. /\ g \in Heaps /\ Shaped(g) /\ IsTree(g, U) /\ ChildLinks(g, g.used)
      /\ U \subseteq g.used /\ ChildLinks(g, U)
  BY LinksWithin DEF Shows, Opened, IsTree
<1>5. /\ x \in Node /\ x \notin h.used /\ x # Root /\ x \notin T
      /\ g.parent[x] = p /\ g.label[x] \in Label /\ g.value[x] = NoValue
      /\ \A m \in T : g.parent[m] = h.parent[m] /\ g.label[m] = h.label[m] /\ g.value[m] = h.value[m]
  BY <1>1 DEF Opened
<1> HIDE DEF h, T, U
<1>6. U = T \cup {x}
  <2>1. IsTree(g, T \cup {x})
    BY <1>1, <1>2, <1>3, OpenedTree DEF h
  <2> QED
    BY <1>4, <2>1, OneTree
<1>7. /\ ParentsIn(heap', U) = ParentsIn(g, U) /\ OrderIn(heap', U) = OrderIn(g, U)
      /\ LabelsIn(heap', U) = LabelsIn(g, U) /\ ValuesIn(heap', U) = ValuesIn(g, U)
  BY <1>4, ShownView DEF U
<1>8. /\ OrderIn(g, U) = {e \in (U \ {Root}) \X (U \ {Root}) :
                            g.parent[e[1]] = g.parent[e[2]] /\ Before(g, e[1], e[2])}
      /\ OrderIn(h, T) = {e \in (T \ {Root}) \X (T \ {Root}) :
                            h.parent[e[1]] = h.parent[e[2]] /\ Before(h, e[1], e[2])}
  BY <1>1, <1>4, OrderIs
<1>9. p = h.parent[n] /\ pos \in 1 .. h.len[p] /\ Kid(h, p, pos) = n /\ Opened(h, p, i, x, g)
  BY DEF h
<1>10. ASSUME NEW u \in Inner, NEW v \in Inner, h.parent[u] = h.parent[v]
       PROVE  /\ Before(g, u, v) <=> Before(h, u, v)
              /\ h.parent[u] = p =>
                   /\ Before(g, u, x) <=> Before(h, u, n) \/ (i = pos /\ u = n)
                   /\ Before(g, x, u) <=> ~(Before(h, u, n) \/ (i = pos /\ u = n))
  <2>1. Lined(h, g, p, n, x, i, pos, u, v)
    BY <1>1, <1>9, <1>10, OpenedLine
  <2> QED
    BY <2>1 DEF Lined
<1>11. ~Before(g, x, x)
  BY <1>4, <1>5, <1>6, InLine
<1>12. \A m \in Inner : /\ m \in ahead <=> h.parent[m] = p /\ (Before(h, m, n) \/ (i = pos /\ m = n))
                        /\ m \in behind <=> h.parent[m] = p /\ ~(Before(h, m, n) \/ (i = pos /\ m = n))
  BY <1>1, <1>8, <1>9 DEF ParentsIn
<1>13. ahead \subseteq Inner /\ behind \subseteq Inner
  OBVIOUS
<1> HIDE DEF ahead, behind
<1>14. OrderIn(g, U) = OrderIn(h, T) \cup (ahead \X {x}) \cup ({x} \X behind)
  <2> DEFINE R == OrderIn(h, T) \cup (ahead \X {x}) \cup ({x} \X behind)
  <2>1. ASSUME NEW u \in U \ {Root}, NEW v \in U \ {Root}
        PROVE  <<u, v>> \in OrderIn(g, U) <=> <<u, v>> \in R
    <3>1. <<u, v>> \in OrderIn(g, U) <=> g.parent[u] = g.parent[v] /\ Before(g, u, v)
      BY <1>8
    <3>2. <<u, v>> \in R <=>
            \/ u \in Inner /\ v \in Inner /\ h.parent[u] = h.parent[v] /\ Before(h, u, v)
            \/ u \in ahead /\ v = x
            \/ u = x /\ v \in behind
      BY <1>8
    <3>3. CASE u \in Inner /\ v \in Inner
      BY <1>5, <1>10, <1>13, <3>1, <3>2, <3>3
    <3>4. CASE u \in Inner /\ v = x
      BY <1>5, <1>10, <1>12, <1>13, <3>1, <3>2, <3>4
    <3>5. CASE u = x /\ v \in Inner
      BY <1>5, <1>10, <1>12, <1>13, <3>1, <3>2, <3>5
    <3>6. CASE u = x /\ v = x
      BY <1>5, <1>11, <1>13, <3>1, <3>2, <3>6
    <3> QED
      BY <1>6, <3>3, <3>4, <3>5, <3>6
  <2>2. \A e \in OrderIn(g, U) : e \in (U \ {Root}) \X (U \ {Root})
    BY <1>8
  <2>3. \A e \in R : e \in (U \ {Root}) \X (U \ {Root})
    BY <1>5, <1>6, <1>8, <1>13
  <2> HIDE DEF R
  <2>4. OrderIn(g, U) = R
    BY <2>1, <2>2, <2>3
  <2> QED
    BY <2>4 DEF R
<1>15. ParentsIn(g, U) = [m \in Inner \cup {x} |-> IF m = x THEN ParentsIn(h, T)[n] ELSE ParentsIn(h, T)[m]]
  <2>1. U \ {Root} = Inner \cup {x}
    BY <1>5, <1>6
  <2> QED
    BY <1>1, <1>5, <1>9, <2>1 DEF ParentsIn
<1>16. lab \in [{x} -> Label]
       /\ LabelsIn(g, U) = [m \in (T \cup {x}) \ {Root} |-> IF m \in {x} THEN lab[m] ELSE LabelsIn(h, T)[m]]
  BY <1>5, <1>6 DEF LabelsIn
<1>17. ValuesIn(g, U) = [m \in T \cup {x} |-> IF m = x THEN NoValue ELSE ValuesIn(h, T)[m]]
  BY <1>5, <1>6 DEF ValuesIn
<1> HIDE DEF lab
<1>18. View!Labelled(T, {x})
  BY <1>6, <1>7, <1>16 DEF View!Labelled, h, T, U
<1>19. View!InsertBeside(n, x, before)
  BY <1>6, <1>7, <1>14, <1>15, <1>17, <1>18
    DEF View!InsertBeside, View!Inner, ahead, behind, h, T, U
<1>20. n \in View!Inner /\ x \in View!Free /\ before \in BOOLEAN
  BY <1>1, <1>5 DEF View!Inner, View!Free, T
<1> QED
  BY <1>6, <1>19, <1>20 DEF View!Next, T, U

(* Beside a node that has left the tree. *)
LEMMA InsertOutside ==
  ASSUME Tidy, NEW g, Shows(g), NEW p \in heap.used \ heap.live, NEW i, NEW x, Opened(heap, p, i, x, g)
  PROVE  UNCHANGED View!doc /\ heap'.live = heap.live
<1>1. heap.live \subseteq heap.used /\ heap.used \subseteq Node
  BY TidyIs
<1>2. heap.used \subseteq g.used
  BY DEF Opened
<1>3. \A m \in heap.live : m \in Node \ {p} /\ m \in heap.used
  BY <1>1
<1>4. \A m \in heap.live :
           /\ g.label[m] = heap.label[m] /\ g.value[m] = heap.value[m]
           /\ g.parent[m] = heap.parent[m] /\ g.arr[m] = heap.arr[m] /\ g.len[m] = heap.len[m]
           /\ \A j \in 1 .. heap.len[m] : Kid(g, m, j) = Kid(heap, m, j)
  BY <1>3 DEF Opened
<1> QED
  BY <1>2, <1>4, SameTree

LEMMA InsertAdds ==
  ASSUME Tidy, NEW of, NEW n \in heap.used, NEW label \in Label, NEW before,
         NEW p, p = heap.parent[n], p # Nil, NEW i, i = InsertIndex(n, before),
         ~InsertPanics(heap, p, i),
         Return(of, InsertChild(NewNode(heap, label), p, i, Fresh(heap)), vars, FALSE, Nil)
  PROVE  Sound
<1> DEFINE g == InsertChild(NewNode(heap, label), p, i, Fresh(heap))
           x == Fresh(heap)
           pos == IndexOf(heap, p, n)
<1>1. /\ heap \in Heaps /\ Shaped(heap) /\ Linked(heap) /\ Blank(heap) /\ Typed /\ ChildLinks(heap, heap.used)
      /\ IsTree(heap, heap.live) /\ heap.live \subseteq heap.used /\ heap.used \subseteq Node
      /\ Bound(heap.used, vars)
  BY TidyIs DEF Typed
<1>2. i \in Nat /\ heap.len[p] \in Nat /\ p \in heap.used
  BY <1>1, InsertIndexIs
<1>3. i \in 0 .. heap.len[p]
  BY <1>2, FitsIs
<1>4. Lost \notin g.used /\ call'.of = of /\ call'.err = FALSE
  BY DEF Return
<1>5. Edited(heap, g)
  BY <1>1, <1>2, <1>3, MadeIs, InsertedIs
<1>6. Opened(heap, p, i, x, g)
  BY <1>1, <1>2, <1>3, <1>4, OpenedIs
<1>7. Return(of, g, vars, FALSE, Nil)
  OBVIOUS
<1> HIDE DEF g, x
<1>8. Shows(g)
  <2>1. Bound(g.used, vars) /\ g \in Heaps /\ Shaped(g)
    BY <1>1, <1>5, BoundWider DEF Edited
  <2> QED
    BY <1>7, <2>1, Shown
<1>9. pos \in 1 .. heap.len[p] /\ Kid(heap, p, pos) = n
  <2>1. \/ pos = 0 /\ \A j \in 1 .. heap.len[p] : Kid(heap, p, j) # n
        \/ pos \in 1 .. heap.len[p] /\ Kid(heap, p, pos) = n
    BY <1>1, <1>2, IndexOfIs DEF Heaps
  <2>2. \E j \in 1 .. heap.len[p] : Kid(heap, p, j) = n
    BY <1>1 DEF Linked, ParentLinks
  <2> QED
    BY <2>1, <2>2
<1>10. i \in {pos - 1, pos}
  <2>1. i = (IF pos = 0 THEN 0 ELSE pos - 1) + (IF before THEN 0 ELSE 1)
    BY DEF InsertIndex
  <2> HIDE DEF pos
  <2> QED
    BY <1>2, <1>9, <2>1
<1>11. /\ heap.live \subseteq heap'.live /\ [View!Next]_(View!doc)
  <2>1. CASE p \notin heap.live
    BY <1>2, <1>6, <1>8, <2>1, InsertOutside
  <2>2. CASE p \in heap.live
    <3>1. n \in heap.live \ {Root}
      <4>1. n \in heap.live
        BY <1>1, <1>9, <2>2 DEF IsTree, Closed
      <4>2. n # Root
        BY <1>1 DEF ChildLinks
      <4> QED
        BY <4>1, <4>2
    <3> HIDE DEF pos
    <3> QED
      BY <1>6, <1>8, <1>9, <1>10, <3>1, InsertStep
  <2> QED
    BY <2>1, <2>2
<1>12. Keeps
  <2>1. \A m \in heap'.used : heap'.parent[m] = g.parent[m]
    BY <1>8 DEF Shows, KeptOf, KeptAs
  <2>2. heap'.live \subseteq heap'.used
    BY <1>8 DEF Shows
  <2>3. \A m \in heap.used : g.parent[m] = heap.parent[m]
    BY <1>6 DEF Opened
  <2> QED
    BY <1>1, <1>11, <2>1, <2>2, <2>3 DEF Keeps, InTree
<1> QED
  BY <1>4, <1>11, <1>12 DEF Sound

LEMMA InsertSound ==
  ASSUME Tidy, NEW path, PathOK(path), NEW label \in Label \cup {"", "*"}, NEW before,
         Insert(path, label, before)
  PROVE  Sound
<1> DEFINE m == Matches(path)
           n == m.nodes[1]
           p == heap.parent[n]
           i == InsertIndex(n, before)
           of == <<"Insert", path, label, before>>
<1>1. Typed /\ Linked(heap) /\ heap.live \subseteq heap.used
  BY TidyIs
<1>2. InsertValid(m, label) => n \in heap.used /\ p # Nil /\ label \in Label
  BY <1>1, InsertTarget
<1>3. CASE /\ InsertValid(m, label) /\ ~InsertPanics(heap, p, i)
           /\ Return(of, InsertChild(NewNode(heap, label), p, i, Fresh(heap)), vars, FALSE, Nil)
  <2> HIDE DEF of, m
  <2> QED
    BY <1>2, <1>3, InsertAdds
<1>4. CASE InsertValid(m, label) /\ InsertPanics(heap, p, i)
  <2>1. i \in Nat /\ heap.len[p] \in Nat /\ i <= heap.len[p]
    BY <1>1, <1>2, <1>4, InsertIndexIs
  <2>2. ~(i <= heap.len[p])
    BY <1>4, <2>1, FitsIs
  <2> QED
    BY <2>1, <2>2
<1>5. CASE Fail(of, Nil)
  BY <1>5, FailSound
<1> QED
  BY <1>3, <1>4, <1>5 DEF Insert

-----------------------------------------------------------------------------
(* Remove. *)
(* The conjuncts of Prune, for a tree U that is a part of the old one. *)
LEMMA PruneStep ==
  ASSUME Tidy, NEW g, Shows(g), NEW U, U = heap'.live, U \subseteq heap.live, ChildLinks(g, U),
         \A n \in U \ {Root} : g.parent[n] = heap.parent[n] /\ heap.parent[n] \in U,
         \A n \in U : g.label[n] = heap.label[n] /\ g.value[n] = heap.value[n],
         OrderIn(g, U) = {e \in OrderIn(heap, heap.live) : e[1] \in U /\ e[2] \in U}
  PROVE  View!Prune
<1> DEFINE h == heap
           T == heap.live
           gone == T \ U
           none == {}
           par == [x \in {} |-> Root]
<1>1. Root \in U
  BY DEF Shows, IsTree
<1>2. T \ gone = U /\ gone \in SUBSET View!Inner
  BY <1>1 DEF View!Inner
<1>3. /\ ParentsIn(heap', U) = ParentsIn(g, U) /\ OrderIn(heap', U) = OrderIn(g, U)
      /\ LabelsIn(heap', U) = LabelsIn(g, U) /\ ValuesIn(heap', U) = ValuesIn(g, U)
  BY ShownView
<1>4. \A n \in View!Inner : ParentsIn(h, T)[n] \in gone => n \in gone
  BY DEF View!Inner, ParentsIn
<1>5. ParentsIn(g, U) = [n \in (U \cup none) \ {Root} |-> IF n \in none THEN par[n] ELSE ParentsIn(h, T)[n]]
  BY DEF ParentsIn
<1>6. OrderIn(g, U) = {e \in OrderIn(h, T) : e[1] \in U /\ e[2] \in U}
                        \cup {e \in (U \ {Root}) \X none : ParentsIn(h, T)[e[1]] = par[e[2]]}
                        \cup {e \in none \X none : par[e[1]] = par[e[2]] /\ e[1] < e[2]}
  <2>1. {e \in (U \ {Root}) \X none : ParentsIn(h, T)[e[1]] = par[e[2]]} = {}
    OBVIOUS
  <2>2. {e \in none \X none : par[e[1]] = par[e[2]] /\ e[1] < e[2]} = {}
    OBVIOUS
  <2> QED
    BY <2>1, <2>2
<1>7. U = U \cup none
  OBVIOUS
<1> HIDE DEF par, none, gone
<1>8. View!Regrown(T \ gone, none, par)
  BY <1>2, <1>3, <1>5, <1>6, <1>7 DEF View!Regrown
<1>9. none = {} /\ par = [x \in {} |-> Root]
  BY DEF none, par
<1>10. View!Regrown(T \ gone, {}, [x \in {} |-> Root])
  BY <1>8, <1>9
<1>11. LabelsIn(g, U) = [n \in View!Inner \ gone |-> LabelsIn(h, T)[n]]
  <2>1. View!Inner \ gone = U \ {Root}
    BY <1>2 DEF View!Inner
  <2> QED
    BY <2>1 DEF LabelsIn
<1>12. ValuesIn(g, U) = [n \in T \ gone |-> ValuesIn(h, T)[n]]
  BY <1>2 DEF ValuesIn
<1> QED
  BY <1>2, <1>3, <1>4, <1>10, <1>11, <1>12 DEF View!Prune

LEMMA RemoveShows ==
  ASSUME Tidy, NEW of, NEW nodes \in Seq(heap.used), NEW r, r = RemoveEach(heap, nodes),
         Return(of, r.heap, vars, FALSE, r.count)
  PROVE  /\ View!Prune
         /\ call'.of = of /\ ~call'.err /\ call'.ret = r.count
         /\ r.count = Cardinality(Picked(heap, nodes, Len(nodes)))
         /\ heap'.live = heap.live \ Below(heap, Picked(heap, nodes, Len(nodes)))
<1> DEFINE h == heap
           g == r.heap
           D == Picked(heap, nodes, Len(nodes))
           U == heap'.live
<1>1. /\ h \in Heaps /\ Shaped(h) /\ Linked(h) /\ IsTree(h, h.live) /\ Bound(h.used, vars)
      /\ ChildLinks(h, h.used)
  BY TidyIs DEF Typed
<1>2. /\ g \in Heaps /\ Edited(h, g) /\ g.used = h.used /\ g.label = h.label /\ g.value = h.value
      /\ Thinned(h, D, g) /\ Linked(g) /\ r.count = Cardinality(D)
  BY <1>1, RemoveEachIs DEF Detaching, Removing
<1>3. Shaped(g) /\ Bound(g.used, vars) /\ ChildLinks(g, g.used)
  BY <1>1, <1>2 DEF Edited, Linked
<1>4. Return(of, g, vars, FALSE, r.count)
  OBVIOUS
<1>5. D \in SUBSET h.used /\ Root \notin D
  <2>1. \A j \in 1 .. Len(nodes) : nodes[j] \in h.used
    OBVIOUS
  <2> QED
    BY <1>1, <2>1 DEF Picked, ChildLinks
<1> HIDE DEF g, D
<1>6. Shows(g)
  BY <1>2, <1>3, <1>4, Shown
<1>7. IsTree(g, U) /\ U \in SUBSET g.used
  BY <1>6 DEF Shows, IsTree
<1> HIDE DEF U
<1>8. /\ U \subseteq h.live /\ U = h.live \ Below(h, D)
      /\ \A n \in U \ {Root} : g.parent[n] = h.parent[n] /\ h.parent[n] \in U
  BY <1>1, <1>2, <1>3, <1>5, <1>7, ThinnedTree
<1>9. OrderIn(g, U) = {e \in OrderIn(h, h.live) : e[1] \in U /\ e[2] \in U}
  BY <1>1, <1>2, <1>3, <1>7, ThinnedOrder
<1>10. ChildLinks(g, U)
  BY <1>3, <1>7, LinksWithin
<1>11. View!Prune
  BY <1>2, <1>6, <1>8, <1>9, <1>10, PruneStep DEF U
<1>12. call'.of = of /\ ~call'.err /\ call'.ret = r.count
  BY <1>4 DEF Return
<1> QED
  BY <1>2, <1>8, <1>11, <1>12 DEF U, D

LEMMA RemoveSound ==
  ASSUME Tidy, NEW path, PathOK(path), Remove(path)
  PROVE  Sound
<1> DEFINE m == Matches(path)
           r == RemoveEach(heap, m.nodes)
           of == <<"Remove", path>>
<1>1. m.nodes \in Seq(heap.used)
  BY TidyIs, MatchesAre
<1>2. CASE Return(of, r.heap, vars, FALSE, r.count)
  <2>1. of[1] = "Remove"
    OBVIOUS
  <2> HIDE DEF of, m
  <2>2. View!Prune /\ call'.of = of /\ ~call'.err
    BY <1>1, <1>2, RemoveShows
  <2> QED
    BY <2>1, <2>2 DEF Sound, View!Next, Writers
<1>3. CASE Fail(of, 0)
  BY <1>3, FailSound
<1> QED
  BY <1>2, <1>3 DEF Remove

-----------------------------------------------------------------------------
(* TextStore. *)
(* Store, of the nodes that went and those that came. *)
Storing(gone, X) ==
  /\ heap'.live = (heap.live \ gone) \cup X
  /\ gone = {} \/ \E d \in heap.live : View!HangsUnder(gone, d)
  /\ \E par \in [X -> (heap.live \ gone) \cup X] :
       View!Grounded(X, par) /\ View!Regrown(heap.live \ gone, X, par)
  /\ View!Labelled(heap.live \ gone, X)
  /\ \E val \in [X -> Value \cup {NoValue}] :
       ValuesIn(heap', heap'.live)
         = [n \in (heap.live \ gone) \cup X |-> IF n \in X THEN val[n] ELSE ValuesIn(heap, heap.live)[n]]

LEMMA StoreStep ==
  ASSUME Tidy, NEW g, Shows(g),
         NEW f \in Heaps, Shaped(f), ChildLinks(f, f.used), f.used = heap.used, Sprouts(f, g),
         NEW S, IsTree(f, S), S \subseteq heap.live,
         f.parent = heap.parent, f.label = heap.label,
         \A n \in S : g.value[n] = heap.value[n],
         OrderIn(f, S) = {e \in OrderIn(heap, heap.live) : e[1] \in S /\ e[2] \in S},
         S = heap.live \/ \E d \in heap.live : View!HangsUnder(heap.live \ S, d)
  PROVE  View!Store
<1> DEFINE h == heap
           T == heap.live
           U == heap'.live
           gone == T \ S
           X == U \ S
           par == [x \in X |-> g.parent[x]]
           lab == [x \in X |-> g.label[x]]
           val == [x \in X |-> g.value[x]]
<1>1. /\ T \subseteq h.used /\ h.used \subseteq Node /\ Root \in T /\ Root \in S
  BY TidyIs DEF IsTree
<1>2. /\ g \in Heaps /\ Shaped(g) /\ IsTree(g, U) /\ ChildLinks(g, U) /\ U \subseteq Node
  BY LinksWithin DEF Shows, Sprouts, IsTree, Heaps, Heap
<1> HIDE DEF h, T, U, X
<1>3. /\ S \subseteq U /\ X \cap f.used = {} /\ X \subseteq Node
      /\ \A x \in X : x # Root /\ g.parent[x] \in S \cup X /\ g.label[x] \in Label
      /\ \A R \in SUBSET X : R # {} => \E x \in R : g.parent[x] \notin R
      /\ \A n \in S : g.parent[n] = f.parent[n] /\ g.label[n] = f.label[n]
  <2>1. S \subseteq U /\ Grows(f, S, g, X)
    BY <1>2, GrownTree DEF X
  <2> QED
    BY <2>1 DEF Grows
<1>4. OrderIn(g, U) = Behind(f, S, g, X)
  BY <1>2, GrownOrder DEF X
<1>5. U = S \cup X /\ X \cap T = {} /\ T \ gone = S /\ f.parent = h.parent /\ f.label = h.label
      /\ U = (T \ gone) \cup X
  BY <1>1, <1>3 DEF X, h, T
<1>6. /\ ParentsIn(heap', U) = ParentsIn(g, U) /\ OrderIn(heap', U) = OrderIn(g, U)
      /\ LabelsIn(heap', U) = LabelsIn(g, U) /\ ValuesIn(heap', U) = ValuesIn(g, U)
  BY <1>2, ShownView DEF U
<1>7. par \in [X -> S \cup X] /\ lab \in [X -> Label] /\ val \in [X -> Value \cup {NoValue}]
  <2>1. \A x \in X : g.value[x] \in Value \cup {NoValue}
    BY <1>2, <1>3 DEF Heaps, Heap
  <2> QED
    BY <1>3, <2>1
<1>8. View!Grounded(X, par)
  BY <1>3 DEF View!Grounded
<1>9. ParentsIn(g, U) = [n \in (S \cup X) \ {Root} |-> IF n \in X THEN par[n] ELSE ParentsIn(h, T)[n]]
  <2>1. \A n \in S \ {Root} : ParentsIn(h, T)[n] = h.parent[n] /\ n \notin X
    BY <1>1, <1>5 DEF ParentsIn, h, T
  <2> QED
    BY <1>3, <1>5, <2>1 DEF ParentsIn
<1>10. OrderIn(g, U) = {e \in OrderIn(h, T) : e[1] \in S /\ e[2] \in S}
                          \cup {e \in (S \ {Root}) \X X : ParentsIn(h, T)[e[1]] = par[e[2]]}
                          \cup {e \in X \X X : par[e[1]] = par[e[2]] /\ e[1] < e[2]}
  <2>1. \A e \in (S \ {Root}) \X X : ParentsIn(h, T)[e[1]] = f.parent[e[1]] /\ par[e[2]] = g.parent[e[2]]
    BY <1>5 DEF ParentsIn, h, T
  <2>2. {e \in (S \ {Root}) \X X : ParentsIn(h, T)[e[1]] = par[e[2]]}
          = {e \in (S \ {Root}) \X X : f.parent[e[1]] = g.parent[e[2]]}
    BY <2>1
  <2>3. {e \in X \X X : par[e[1]] = par[e[2]] /\ e[1] < e[2]}
          = {e \in X \X X : g.parent[e[1]] = g.parent[e[2]] /\ e[1] < e[2]}
    OBVIOUS
  <2>4. OrderIn(f, S) = {e \in OrderIn(h, T) : e[1] \in S /\ e[2] \in S}
    BY DEF h, T
  <2> QED
    BY <1>4, <2>2, <2>3, <2>4 DEF Behind
<1>11. LabelsIn(g, U) = [n \in (S \cup X) \ {Root} |-> IF n \in X THEN lab[n] ELSE LabelsIn(h, T)[n]]
  <2>1. \A n \in S \ {Root} : LabelsIn(h, T)[n] = h.label[n] /\ n \notin X
    BY <1>1, <1>5 DEF LabelsIn, h, T
  <2> QED
    BY <1>3, <1>5, <2>1 DEF LabelsIn
<1>12. ValuesIn(g, U) = [n \in S \cup X |-> IF n \in X THEN val[n] ELSE ValuesIn(h, T)[n]]
  <2>1. \A n \in S : ValuesIn(h, T)[n] = h.value[n] /\ n \notin X /\ g.value[n] = h.value[n]
    BY <1>1, <1>5 DEF ValuesIn, h, T
  <2> QED
    BY <1>3, <1>5, <2>1 DEF ValuesIn
<1> HIDE DEF par, lab, val
<1>13. View!Regrown(S, X, par)
  BY <1>5, <1>6, <1>9, <1>10 DEF View!Regrown, h, T, U
<1>14. View!Labelled(S, X)
  BY <1>6, <1>7, <1>11 DEF View!Labelled, h, T, U
<1>15. X \in SUBSET View!Free /\ gone \in SUBSET View!Inner
  BY <1>1, <1>3, <1>5 DEF View!Free, View!Inner, T
<1>16. gone = {} \/ \E d \in T : View!HangsUnder(gone, d)
  BY DEF T
<1> HIDE DEF gone
<1>17. \E q \in [X -> (T \ gone) \cup X] : View!Grounded(X, q) /\ View!Regrown(T \ gone, X, q)
  <2>1. par \in [X -> (T \ gone) \cup X]
    BY <1>5, <1>7
  <2>2. View!Regrown(T \ gone, X, par)
    BY <1>5, <1>13
  <2> QED
    BY <1>8, <2>1, <2>2
<1>18. View!Labelled(T \ gone, X)
  BY <1>5, <1>14
<1>19. \E w \in [X -> Value \cup {NoValue}] :
         ValuesIn(heap', U) = [n \in (T \ gone) \cup X |-> IF n \in X THEN w[n] ELSE ValuesIn(h, T)[n]]
  <2>1. ValuesIn(heap', U) = [n \in (T \ gone) \cup X |-> IF n \in X THEN val[n] ELSE ValuesIn(h, T)[n]]
    BY <1>5, <1>6, <1>12
  <2> QED
    BY <1>7, <2>1
<1>20. Storing(gone, X)
  BY <1>5, <1>16, <1>17, <1>18, <1>19 DEF Storing, h, T, U
<1> QED
  <2>1. \E G \in SUBSET View!Inner, Y \in SUBSET View!Free : Storing(G, Y)
    BY <1>15, <1>20
  <2> QED
    BY <2>1 DEF View!Store, Storing

(* What createPath makes of its destination when it stands on a new node, or *)
(* emptied an old one.                                                       *)
LEMMA GraftedIs ==
  ASSUME NEW e \in Heaps, Shaped(e), NEW d \in e.used, NEW entries, EntriesOK(entries),
         NEW f, f = DropChildren(e, d), NEW g, g = Graft(e, d, entries)
  PROVE  /\ f \in Heaps /\ Shaped(f) /\ ChildrenDropped(e, d, f)
         /\ ChildLinks(e, e.used) => ChildLinks(f, f.used)
         /\ Grown(f, g) /\ (Lost \notin g.used => \A n \in f.used : g.value[n] = f.value[n])
<1>1. g = GraftLoop!Result(f, entries, d, 0)
  BY DEF Graft, Seqs!FoldLeft, Seqs!MapThenFoldSet, Seqs!Max, GraftLoop!Result, GraftLoop!IsLoop,
         GraftLoop!Greatest, GraftRound
<1>2. f \in Heaps /\ Shaped(f) /\ ChildrenDropped(e, d, f) /\ e.used \in SUBSET Node
      /\ (ChildLinks(e, e.used) => ChildLinks(f, e.used))
  <2>1. e.used \in SUBSET Node
    BY DEF Heaps, Heap
  <2> QED
    BY <2>1, DropChildrenIs DEF Heaps
<1>3. f.used = e.used
  BY <1>2 DEF ChildrenDropped
<1>4. g \in Grafting(f)
  BY <1>1, <1>2, <1>3, GraftGrows
<1> QED
  BY <1>2, <1>3, <1>4 DEF Grafting

LEMMA GraftSound ==
  ASSUME Tidy, NEW of, of[1] = "TextStore", NEW e \in Heaps, Grown(heap, e), e.value = heap.value,
         NEW d \in e.used, Lost \notin e.used => Landed(heap, Root, e, d),
         NEW entries, EntriesOK(entries),
         NEW g, g = Graft(e, d, entries), Return(of, g, vars, FALSE, Nil)
  PROVE  Sound
<1> DEFINE h == heap
           f == DropChildren(e, d)
<1>1. /\ h \in Heaps /\ Shaped(h) /\ ChildLinks(h, h.used) /\ IsTree(h, h.live) /\ Bound(h.used, vars)
      /\ h.used \subseteq Node /\ h.live \subseteq h.used /\ Root \in h.live
  BY TidyIs DEF Typed
<1>2. /\ Shaped(e) /\ h.used \subseteq e.used
  BY DEF Grown, Edited
<1>3. f = DropChildren(e, d)
  OBVIOUS
<1> HIDE DEF f
<1>4. /\ f \in Heaps /\ Shaped(f) /\ ChildrenDropped(e, d, f)
      /\ ChildLinks(e, e.used) => ChildLinks(f, f.used)
      /\ Grown(f, g) /\ (Lost \notin g.used => \A n \in f.used : g.value[n] = f.value[n])
  BY <1>2, <1>3, GraftedIs
<1>5. /\ f.used = e.used /\ f.label = e.label /\ f.value = e.value /\ f.parent = e.parent
      /\ f.len[d] = 0
      /\ \A m \in Node \ {d} : f.len[m] = e.len[m] /\ \A i : Kid(f, m, i) = Kid(e, m, i)
  BY <1>4 DEF ChildrenDropped
<1>6. g \in Heaps /\ Shaped(g) /\ e.used \subseteq g.used
  BY <1>4, <1>5 DEF Grown, Edited
<1>7. /\ Bound(g.used, vars)
  <2>1. h.used \subseteq g.used
    BY <1>2, <1>6
  <2> QED
    BY <1>1, <2>1, BoundWider
<1>8. Shows(g) /\ Lost \notin g.used /\ Lost \notin e.used /\ call'.of = of /\ ~call'.err
  <2>1. Shows(g) /\ Lost \notin g.used /\ call'.of = of /\ ~call'.err
    BY <1>6, <1>7, Shown DEF Return
  <2> QED
    BY <1>6, <2>1
<1>9. ChildLinks(e, e.used) /\ ChildLinks(f, f.used) /\ Extended(h, e) /\ Landed(h, Root, e, d)
      /\ \A n \in h.used : e.parent[n] = h.parent[n]
  BY <1>1, <1>4, <1>8 DEF Grown, Edited
<1>10. Sprouts(f, g)
  BY <1>4, <1>8, <1>9, GrownIs
<1>11. \A n \in h.live : g.value[n] = h.value[n]
  BY <1>1, <1>2, <1>4, <1>5, <1>8
<1>12. ASSUME d \in h.used PROVE View!Store
  <2>1. e = h
    BY <1>9, <1>12 DEF Landed
  <2>2. d \in h.live
    <3>1. Closed(e, h.live) /\ h.live \in SUBSET e.used
      BY <1>1, <2>1 DEF IsTree
    <3> QED
      BY <1>1, <1>9, <3>1 DEF Landed
  <2>3. PICK S : S = Below(f, {Root})
    OBVIOUS
  <2>4. IsTree(f, S)
    BY <1>4, <2>3, BelowIsTree
  <2>5. /\ f.used = h.used /\ f.parent = h.parent /\ f.label = h.label
        /\ S \subseteq h.live
        /\ \A n \in h.live \ {Root} : n \notin S <=> h.parent[n] \in (h.live \ S) \cup {d}
        /\ OrderIn(f, S) = {x \in OrderIn(h, h.live) : x[1] \in S /\ x[2] \in S}
        /\ d \in S
    BY <1>1, <1>3, <2>1, <2>2, <2>4, DroppedTree
  <2>6. View!HangsUnder(h.live \ S, d)
    BY <2>5 DEF View!HangsUnder, View!Inner, ParentsIn
  <2>7. \A n \in S : g.value[n] = h.value[n]
    BY <1>11, <2>5
  <2>8. S = heap.live \/ \E y \in heap.live : View!HangsUnder(heap.live \ S, y)
    BY <2>2, <2>6
  <2>9. /\ f \in Heaps /\ Shaped(f) /\ ChildLinks(f, f.used) /\ f.used = heap.used /\ Sprouts(f, g)
        /\ IsTree(f, S) /\ S \subseteq heap.live /\ f.parent = heap.parent /\ f.label = heap.label
        /\ \A n \in S : g.value[n] = heap.value[n]
    BY <1>4, <1>9, <1>10, <2>4, <2>5, <2>7
  <2>10. OrderIn(f, S) = {x \in OrderIn(heap, heap.live) : x[1] \in S /\ x[2] \in S}
    BY <2>5
  <2> QED
    BY <1>8, <2>8, <2>9, <2>10, StoreStep
<1>13. ASSUME d \notin h.used PROVE View!Store
  <2>1. e.len[d] = 0
    BY <1>9, <1>13 DEF Landed
  <2>2. \A m \in Node : f.len[m] = e.len[m]
    BY <1>5, <2>1
  <2>3. \A m \in Node : \A i \in 1 .. e.len[m] : Kid(f, m, i) = Kid(e, m, i)
    BY <1>5, <2>1
  <2>4. Extended(h, f)
    <3>1. \A m \in Node : /\ h.len[m] \in Nat /\ e.len[m] \in Nat
                          /\ \A i \in h.len[m] + 1 .. e.len[m] : i \in 1 .. e.len[m]
      BY <1>1 DEF Heaps, Heap
    <3>2. \A m \in Node : \A i \in 1 .. h.len[m] : i \in 1 .. e.len[m]
      BY <1>9, <3>1 DEF Extended
    <3>3. /\ \A m \in Node : h.len[m] <= f.len[m]
          /\ \A m \in Node : \A i \in 1 .. h.len[m] : Kid(f, m, i) = Kid(h, m, i)
      BY <1>9, <2>2, <2>3, <3>2 DEF Extended
    <3>4. \A m \in Node : \A i \in h.len[m] + 1 .. f.len[m] : Kid(f, m, i) \notin h.used
      BY <1>9, <2>2, <2>3, <3>1 DEF Extended
    <3>5. \A m \in Node : \A i, j \in h.len[m] + 1 .. f.len[m] : i < j => Kid(f, m, i) < Kid(f, m, j)
      BY <1>9, <2>2, <2>3, <3>1 DEF Extended
    <3>6. /\ \A n \in h.used : f.label[n] = h.label[n]
          /\ \A x \in f.used \ h.used : /\ f.label[x] \in Label
                                        /\ f.parent[x] \in h.used \/ f.parent[x] < x
                                        /\ \A y \in Node \ f.used : x < y
      BY <1>5, <1>9 DEF Extended
    <3> QED
      BY <3>3, <3>4, <3>5, <3>6 DEF Extended
  <2>5. Extended(h, g)
    <3>1. Extended(f, g) /\ \A n \in f.used : g.parent[n] = f.parent[n]
      BY <1>10 DEF Sprouts
    <3> QED
      BY <1>1, <1>2, <1>4, <1>5, <1>6, <2>4, <3>1, ExtendedTwice
  <2>6. Sprouts(h, g)
    <3>1. \A n \in h.used : g.parent[n] = h.parent[n]
      BY <1>2, <1>5, <1>9, <1>10 DEF Sprouts
    <3> QED
      BY <1>2, <1>5, <1>10, <2>5, <3>1 DEF Sprouts
  <2>7. OrderIn(h, h.live) = {x \in OrderIn(h, h.live) : x[1] \in h.live /\ x[2] \in h.live}
    BY DEF OrderIn
  <2> QED
    BY <1>1, <1>8, <1>11, <2>6, <2>7, StoreStep
<1>14. View!Store
  BY <1>12, <1>13
<1> QED
  BY <1>8, <1>14 DEF Sound, View!Next, Writers

LEMMA TextStoreSound ==
  ASSUME Tidy, NEW path, PathOK(path), MakesLabels(path[1].segs), NEW parsed, EntriesOK(parsed.entries),
         TextStore(path, parsed)
  PROVE  Sound
<1> DEFINE c == CreatePath(heap, path)
           g == Graft(c.heap, c.node, parsed.entries)
           of == <<"TextStore", path, parsed>>
<1>1. /\ c.heap \in Heaps /\ Grown(heap, c.heap) /\ c.heap.value = heap.value
      /\ c.ok => c.node \in c.heap.used
      /\ c.ok /\ Lost \notin c.heap.used => Landed(heap, Root, c.heap, c.node)
  BY TidyIs, CreatePathIs
<1>2. of[1] = "TextStore"
  OBVIOUS
<1> HIDE DEF c, of
<1>3. CASE c.ok /\ Return(of, g, vars, FALSE, Nil)
  BY <1>1, <1>2, <1>3, GraftSound
<1>4. CASE Return(of, c.heap, vars, TRUE, Nil)
  BY <1>1, <1>4, StopSound
<1>5. CASE Fail(of, Nil)
  BY <1>5, FailSound
<1> QED
  BY <1>3, <1>4, <1>5 DEF TextStore, c, of

(* Where Move may put the children: a node that is there, or one createPath  *)
(* made.                                                                     *)
Destination(e, d) ==
  /\ e \in Heaps /\ Linked(e) /\ Sprouts(heap, e) /\ e.value = heap.value
  /\ d \in e.used
  /\ IF d \in heap.used THEN e = heap ELSE Landed(heap, Root, e, d)

(* The nodes createPath made stand below the source with the destination, or *)
(* none of them does.                                                        *)
MadeFor(e, R, B, X, d) ==
  /\ heap.live \subseteq R /\ Grows(heap, heap.live, e, X)
  /\ OrderIn(e, R) = Behind(heap, heap.live, e, X)
  /\ d \notin B => X \cap B = {}
  /\ d \in B => X \subseteq B
  /\ d \notin R => X = {}
  /\ d \in X => \A n : ~Under(e, d, n)
  /\ d \in heap.used => X = {}
  /\ d \in R /\ d \notin heap.used => d \in X

LEMMA MadeForIs ==
  ASSUME Tidy, NEW e, NEW d, Destination(e, d), NEW R, IsTree(e, R),
         NEW s \in heap.live \ {Root}, NEW B, Subtree(e, R, s, B), NEW X, X = R \ heap.live
  PROVE  MadeFor(e, R, B, X, d)
<1> DEFINE h == heap
           T == heap.live
<1>1. /\ h \in Heaps /\ Shaped(h) /\ ChildLinks(h, h.used) /\ IsTree(h, T) /\ ChildLinks(h, T)
      /\ T \subseteq h.used /\ Root \in T
  BY TidyIs
<1>2. /\ e \in Heaps /\ Shaped(e) /\ Sprouts(h, e) /\ d \in e.used
      /\ R \subseteq e.used /\ Root \in R /\ Closed(e, R) /\ ChildLinks(e, e.used)
      /\ IF d \in h.used THEN e = h ELSE Landed(h, Root, e, d)
  BY DEF Destination, Sprouts, IsTree
<1>3. /\ B \subseteq R /\ Root \notin B
      /\ \A m \in B : \A n : Under(e, m, n) => n \in B
      /\ \A n \in B \ {s} : e.parent[n] \in B /\ Under(e, e.parent[n], n)
  BY DEF Subtree
<1> HIDE DEF h, T
<1>4. T \subseteq R /\ Grows(h, T, e, X)
  BY <1>1, <1>2, GrownTree DEF T
<1>5. OrderIn(e, R) = Behind(h, T, e, X)
  BY <1>1, <1>2, GrownOrder DEF T
<1>6. X \cap h.used = {} /\ \A m \in X : \A n : Under(e, m, n) => n \in X
  BY <1>4 DEF Grows
<1>7. ASSUME d \in h.used PROVE X = {}
  <2>1. R = T
    BY <1>1, <1>2, <1>7, OneTree
  <2> QED
    BY <2>1 DEF T
<1>8. ASSUME d \notin h.used
      PROVE  /\ d \in R
             /\ e.len[d] = 0
             /\ \A S \in SUBSET e.used : Closed(e, S) /\ ~(S \subseteq h.used) => d \in S
  BY <1>1, <1>2, <1>8 DEF Landed
<1>9. ASSUME d \notin B, NEW x \in X \cap B PROVE FALSE
  <2>1. d \notin h.used
    BY <1>7, <1>9
  <2>2. Closed(e, B) /\ B \in SUBSET e.used
    BY <1>2, <1>3, ClosedIs
  <2>3. ~(B \subseteq h.used)
    BY <1>6, <1>9
  <2> QED
    BY <1>8, <1>9, <2>1, <2>2, <2>3
<1>10. ASSUME d \in B, NEW x \in X \ B PROVE FALSE
  <2>1. d \notin h.used
    BY <1>7, <1>10
  <2>2. Closed(e, X \ B)
    <3> SUFFICES ASSUME NEW m \in X \ B, NEW n, Under(e, m, n) PROVE n \in X \ B
      BY ClosedIs
    <3>1. n \in X /\ e.parent[n] = m
      <4>1. m \in e.used
        BY <1>2
      <4> QED
        BY <1>2, <1>6, <4>1, UnderParent
    <3>2. n # s
      BY <1>1, <1>6, <3>1 DEF T
    <3> QED
      BY <1>3, <3>1, <3>2
  <2>3. X \ B \in SUBSET e.used /\ ~(X \ B \subseteq h.used)
    BY <1>2, <1>6, <1>10
  <2>4. d \in X \ B
    BY <1>8, <2>1, <2>2, <2>3
  <2> QED
    BY <1>10, <2>4
<1>11. d \notin h.used => d \in X /\ \A n : ~Under(e, d, n)
  <2> SUFFICES ASSUME d \notin h.used PROVE d \in X /\ \A n : ~Under(e, d, n)
    OBVIOUS
  <2>1. d \in R /\ e.len[d] = 0 /\ d \notin T
    BY <1>1, <1>8
  <2>2. \A n : ~Under(e, d, n)
    BY <2>1 DEF Under
  <2> QED
    BY <2>1, <2>2 DEF T
<1>12. d \in h.used => d \notin X
  BY <1>6
<1> QED
  BY <1>4, <1>5, <1>7, <1>8, <1>9, <1>10, <1>11, <1>12 DEF MadeFor, h, T

(* The destination is lost with the source: the subtree goes. *)
LEMMA MoveOutStep ==
  ASSUME Tidy, NEW e, NEW d, Destination(e, d), NEW R, IsTree(e, R),
         NEW s \in heap.live \ {Root}, NEW B, B = Below(e, {s}), d \notin R \ B,
         NEW g, g = Transfer(e, s, d), Shows(g)
  PROVE  View!Prune
<1> DEFINE h == heap
           T == heap.live
           X == R \ T
           f == RemoveChild(e, e.parent[s], s)
           S == Below(f, {Root})
<1>1. /\ h \in Heaps /\ Shaped(h) /\ IsTree(h, T) /\ ChildLinks(h, T) /\ h.used \subseteq Node
      /\ T \subseteq h.used /\ Root \in T
  BY TidyIs
<1>2. /\ e \in Heaps /\ Shaped(e) /\ Linked(e) /\ ChildLinks(e, e.used) /\ e.value = h.value
      /\ d \in e.used /\ R \subseteq e.used /\ e.used \subseteq Node
  BY DEF Destination, Sprouts, IsTree, Linked, Heaps, Heap
<1> HIDE DEF h, T, X, f, S
<1>3. T \subseteq R
  <2>1. Sprouts(h, e) /\ ChildLinks(h, h.used)
    BY TidyIs DEF Destination, h
  <2> QED
    BY <1>1, <2>1, GrownTree
<1>4. s \in R \ {Root} /\ s \in e.used /\ s # Root
  BY <1>2, <1>3 DEF T
<1>5. Subtree(e, R, s, B)
  BY <1>2, <1>4, SubtreeIs
<1>6. MadeFor(e, R, B, X, d)
  BY <1>5, MadeForIs DEF X, T
<1>7. X \subseteq B /\ OrderIn(e, R) = Behind(h, T, e, X) /\ Grows(h, T, e, X)
  BY <1>6 DEF MadeFor, h, T
<1>8. \A n \in T : e.parent[n] = h.parent[n] /\ e.label[n] = h.label[n]
  BY <1>7 DEF Grows
<1>9. e.parent[s] # Nil
  <2>1. e.parent[s] \in Node /\ Nil \notin Node
    <3>1. ChildLinks(e, R)
      BY <1>2, LinksWithin
    <3> QED
      BY <1>2, <1>4, <3>1, TreeLinks, Identities
  <2> QED
    BY <2>1
<1>10. /\ f \in Heaps /\ Shaped(f) /\ Linked(f) /\ f.used = e.used
       /\ f.label = e.label /\ f.value = e.value /\ Thinned(e, {s}, f)
       /\ g \in Heaps /\ Shaped(g) /\ g.used = e.used /\ g.label = e.label
       /\ TookOver(f, d, s, g)
  <2>1. f = RemoveChild(e, e.parent[s], s)
    BY DEF f
  <2>2. Transferred(e, s, d, f, g)
    BY <1>2, <1>4, <1>9, <2>1, TransferFields
  <2> QED
    BY <2>2 DEF Transferred
<1>11. IsTree(f, S)
  BY <1>10, BelowIsTree DEF S
<1>12. /\ S \subseteq R
       /\ \A n \in S \ {Root} : f.parent[n] = e.parent[n] /\ e.parent[n] \in S
       /\ S = R \ B
  <2>1. {s} \in SUBSET e.used /\ Root \notin {s}
    BY <1>4
  <2> QED
    BY <1>2, <1>10, <1>11, <2>1, ThinnedTree
<1>13. OrderIn(f, S) = {x \in OrderIn(e, R) : x[1] \in S /\ x[2] \in S}
  BY <1>2, <1>10, <1>11, ThinnedOrder
<1>14. s \in Node \ S /\ d \in Node \ S
  BY <1>2, <1>4, <1>5, <1>12 DEF Subtree
<1>15. /\ IsTree(g, S) /\ ChildLinks(g, S)
       /\ \A n \in S : g.parent[n] = f.parent[n] /\ g.value[n] = f.value[n]
       /\ OrderIn(g, S) = OrderIn(f, S)
  <2>1. ChildLinks(f, f.used)
    BY <1>10 DEF Linked
  <2> QED
    BY <1>10, <1>11, <1>14, <2>1, LostTree
<1>16. S = heap'.live
  BY <1>15, OneTree DEF Shows
<1>17. S \subseteq T
  BY <1>7, <1>12 DEF X
<1>18. \A n \in S \ {Root} : g.parent[n] = heap.parent[n] /\ heap.parent[n] \in S
  BY <1>8, <1>12, <1>15, <1>17 DEF h
<1>19. \A n \in S : g.label[n] = heap.label[n] /\ g.value[n] = heap.value[n]
  BY <1>2, <1>8, <1>10, <1>15, <1>17 DEF h
<1>20. OrderIn(g, S) = {x \in OrderIn(heap, heap.live) : x[1] \in S /\ x[2] \in S}
  <2>1. \A x \in Behind(h, T, e, X) : x[1] \in S /\ x[2] \in S => x \in OrderIn(h, T)
    BY <1>17 DEF Behind, X
  <2>2. OrderIn(h, T) \subseteq Behind(h, T, e, X)
    BY DEF Behind
  <2> HIDE DEF Behind
  <2> QED
    BY <1>7, <1>13, <1>15, <2>1, <2>2 DEF h, T
<1> QED
  BY <1>15, <1>16, <1>17, <1>18, <1>19, <1>20, PruneStep DEF T

(* It is not: Move. *)
Moving(s, d, gone, U, X) ==
  /\ View!HangsUnder(U, s)
  /\ d # s /\ d \notin U
  /\ d \in heap.live \cup X
  /\ X # {} => d \in X
  /\ IF d \in X THEN gone = {} ELSE View!HangsUnder(gone, d)
  /\ heap'.live = (((heap.live \ gone) \ {s}) \cup U) \cup X
  /\ \E par \in [X -> (heap.live \ (U \cup {s})) \cup X] :
       View!Grounded(X, par) /\ (\A x \in X : par[x] # d) /\ View!Rehung(s, d, U, X, par)
  /\ View!Labelled(heap'.live \ X, X)
  /\ ValuesIn(heap', heap'.live) = [n \in heap'.live |-> CASE n = d -> ValuesIn(heap, heap.live)[s]
                                                           [] n \in X \ {d} -> NoValue
                                                           [] OTHER -> ValuesIn(heap, heap.live)[n]]

LEMMA MoveInStep ==
  ASSUME Tidy, NEW e, NEW d, Destination(e, d), NEW R, IsTree(e, R),
         NEW s \in heap.live \ {Root}, NEW B, B = Below(e, {s}), d \in R \ B,
         NEW g, g = Transfer(e, s, d), Shows(g)
  PROVE  View!Move(s, d)
<1> DEFINE h == heap
           T == heap.live
           W == heap'.live
           X == R \ T
           U == B \ {s}
           k == DropChildren(e, d)
           S == Below(k, {Root})
           gone == T \ S
           par == [x \in X |-> e.parent[x]]
           lab == [x \in X |-> e.label[x]]
<1>1. /\ h \in Heaps /\ Shaped(h) /\ IsTree(h, T) /\ ChildLinks(h, T) /\ h.used \subseteq Node
      /\ T \subseteq h.used /\ Root \in T /\ Blank(h) /\ ChildLinks(h, h.used)
  BY TidyIs
<1>2. /\ e \in Heaps /\ Shaped(e) /\ Linked(e) /\ ChildLinks(e, e.used) /\ e.value = h.value
      /\ d \in e.used /\ R \subseteq e.used /\ e.used \subseteq Node /\ Sprouts(h, e)
      /\ Root \in R /\ ChildLinks(e, R)
  BY LinksWithin DEF Destination, Sprouts, IsTree, Linked, Heaps, Heap
<1>3. g \in Heaps /\ Shaped(g) /\ IsTree(g, W) /\ W = heap'.live
  BY DEF Shows
<1> HIDE DEF h, T, W, X, U, k, S, gone, par, lab
<1>4. T \subseteq R
  BY <1>1, <1>2, GrownTree
<1>5. s \in R \ {Root} /\ s \in e.used /\ s # Root /\ s \in T
  BY <1>2, <1>4 DEF T
<1>6. Subtree(e, R, s, B)
  BY <1>2, <1>5, SubtreeIs
<1>7. /\ B \subseteq R /\ s \in B /\ Root \notin B
      /\ \A n \in B \ {s} : e.parent[n] \in B
      /\ e.parent[s] \notin B
      /\ \A n \in R \ {Root} : e.parent[n] \in B => n \in B \ {s}
  BY <1>6 DEF Subtree
<1>8. MadeFor(e, R, B, X, d)
  BY <1>6, MadeForIs DEF X, T
<1>9. /\ Grows(h, T, e, X) /\ OrderIn(e, R) = Behind(h, T, e, X) /\ X \cap B = {}
      /\ (d \in X => \A n : ~Under(e, d, n)) /\ (d \in h.used => X = {})
      /\ (d \notin h.used => d \in X)
  BY <1>8 DEF MadeFor, h, T
<1>10. /\ X \cap h.used = {} /\ X \subseteq Node
       /\ \A x \in X : x # Root /\ e.parent[x] \in T \cup X /\ e.label[x] \in Label
       /\ \A Y \in SUBSET X : Y # {} => \E x \in Y : e.parent[x] \notin Y
       /\ \A n \in T : e.parent[n] = h.parent[n] /\ e.label[n] = h.label[n]
  BY <1>9 DEF Grows
<1>11. e.parent[s] # Nil
  BY <1>2, <1>5, TreeLinks, Identities
<1>12. g.label = e.label /\ \A n \in Node : g.value[n] = IF n = d THEN e.value[s] ELSE e.value[n]
  <2>1. PICK f : f = RemoveChild(e, e.parent[s], s)
    OBVIOUS
  <2>2. f.value = e.value /\ g.label = e.label /\ TookOver(f, d, s, g)
    <3>1. s \in e.used /\ s # Root /\ e.parent[s] # Nil /\ d \in e.used
      BY <1>2, <1>5, <1>11
    <3>2. Transferred(e, s, d, f, g)
      BY <1>2, <2>1, <3>1, TransferFields
    <3> QED
      BY <3>2 DEF Transferred
  <2> QED
    BY <2>2 DEF TookOver
<1>13. k \in Heaps /\ Shaped(k) /\ IsTree(k, S)
  <2>1. k \in Heaps /\ Shaped(k)
    BY <1>2, DropChildrenIs DEF Heaps, k
  <2> QED
    BY <2>1, BelowIsTree DEF S
<1>14. /\ S \subseteq R /\ d \in S
       /\ \A n \in R \ {Root} : n \notin S <=> e.parent[n] \in (R \ S) \cup {d}
  BY <1>2, <1>13, DroppedTree DEF k
<1>15. /\ W = (S \cup B) \ {s}
       /\ ChildLinks(g, W)
       /\ \A n \in W \ {Root} : /\ g.parent[n] = IF e.parent[n] = s THEN d ELSE e.parent[n]
                                /\ e.parent[n] # d
       /\ OrderIn(g, W) = {x \in OrderIn(e, R) : x[1] \in W /\ x[2] \in W}
  BY <1>2, <1>3, <1>5, <1>11, <1>13, MovedTree DEF k
<1>16. d \in X => S = R
  <2> SUFFICES ASSUME d \in X PROVE R \subseteq S
    BY <1>14
  <2>1. k.used = e.used /\ \A m \in Node : \A n : Under(k, m, n) <=> m # d /\ Under(e, m, n)
    <3>1. ChildrenDropped(e, d, k)
      BY <1>2, DropChildrenIs DEF Heaps, k
    <3> QED
      BY <3>1 DEF ChildrenDropped, Under
  <2>2. Closed(e, S)
    <3>1. \A m \in S : \A n : Under(k, m, n) => n \in S
      BY <1>13, ClosedIs DEF IsTree
    <3>2. \A m \in S : \A n : Under(e, m, n) => n \in S
      BY <1>2, <1>9, <1>14, <2>1, <3>1
    <3> QED
      BY <3>2, ClosedIs
  <2>3. S \in SUBSET e.used /\ Root \in S
    BY <1>13, <2>1 DEF IsTree
  <2> QED
    BY <2>2, <2>3 DEF IsTree
<1>17. /\ d \in X => gone = {} /\ S = R
       /\ d \notin X => X = {} /\ d \in T /\ R = T
  <2>1. d \notin X => X = {}
    BY <1>9
  <2>2. X = {} => R = T
    BY <1>4 DEF X
  <2> QED
    BY <1>4, <1>14, <1>16, <2>1, <2>2 DEF gone
<1>18. R = T \cup X /\ X \cap T = {} /\ X \subseteq S
  BY <1>4, <1>17 DEF X
<1>19. B \subseteq T /\ U \subseteq T \ {Root} /\ gone \subseteq T \ {Root} /\ Root \in S
  BY <1>7, <1>9, <1>13, <1>18 DEF IsTree, U, gone
<1>20. W = (((T \ gone) \ {s}) \cup U) \cup X /\ X \subseteq W /\ W \ X \subseteq T
  <2>1. S = (T \ gone) \cup X /\ X \cap B = {} /\ s \in B
    BY <1>7, <1>9, <1>14, <1>18 DEF gone
  <2> QED
    BY <1>15, <1>18, <1>19, <2>1 DEF U
<1>21. View!HangsUnder(U, s)
  <2>1. \A n \in T \ {Root} : n \in U <=> h.parent[n] \in U \cup {s}
    BY <1>4, <1>7, <1>10 DEF U
  <2>2. s \notin U
    BY DEF U
  <2> QED
    BY <2>1, <2>2 DEF View!HangsUnder, View!Inner, ParentsIn, h, T
<1>22. d \notin X => View!HangsUnder(gone, d)
  <2> SUFFICES ASSUME d \notin X PROVE View!HangsUnder(gone, d)
    OBVIOUS
  <2>1. \A n \in T \ {Root} : n \in gone <=> h.parent[n] \in gone \cup {d}
    BY <1>10, <1>14, <1>17 DEF gone
  <2>2. d \notin gone
    BY <1>14 DEF gone
  <2> QED
    BY <2>1, <2>2 DEF View!HangsUnder, View!Inner, ParentsIn, h, T
<1>23. par \in [X -> (T \ (U \cup {s})) \cup X] /\ lab \in [X -> Label] /\ \A x \in X : par[x] # d /\ par[x] # s
  <2>1. ASSUME NEW x \in X PROVE e.parent[x] \in (T \ (U \cup {s})) \cup X /\ e.parent[x] # d /\ e.parent[x] # s
    <3>1. x \in R \ {Root} /\ e.parent[x] \in T \cup X
      BY <1>10, <1>18
    <3>2. e.parent[x] \notin B
      BY <1>7, <1>9, <3>1
    <3>3. Under(e, e.parent[x], x)
      BY <1>2, <3>1, TreeLinks
    <3>4. d \in X
      BY <1>17
    <3> QED
      BY <1>7, <1>9, <3>1, <3>2, <3>3, <3>4 DEF U
  <2> QED
    BY <1>10, <2>1 DEF par, lab
<1>24. View!Grounded(X, par)
  BY <1>10 DEF View!Grounded, par
<1>25. /\ ParentsIn(heap', W) = ParentsIn(g, W) /\ OrderIn(heap', W) = OrderIn(g, W)
       /\ LabelsIn(heap', W) = LabelsIn(g, W) /\ ValuesIn(heap', W) = ValuesIn(g, W)
  BY <1>15, ShownView DEF W
<1>26. ParentsIn(g, W) = [n \in W \ {Root} |-> CASE n \in X -> par[n]
                                                [] n \in U /\ ParentsIn(h, T)[n] = s -> d
                                                [] OTHER -> ParentsIn(h, T)[n]]
  <2>1. ASSUME NEW n \in W \ {Root}
        PROVE  g.parent[n] = CASE n \in X -> par[n]
                               [] n \in U /\ ParentsIn(h, T)[n] = s -> d
                               [] OTHER -> ParentsIn(h, T)[n]
    <3>1. CASE n \in X
      <4>1. par[n] = e.parent[n] /\ par[n] # s
        BY <1>23, <3>1 DEF par
      <4>2. g.parent[n] = par[n]
        BY <1>15, <4>1
      <4>3. n \notin U
        BY <1>9, <3>1 DEF U
      <4> QED
        BY <3>1, <4>2, <4>3
    <3>2. CASE n \notin X
      <4>1. n \in T \ {Root} /\ n \in R \ {Root} /\ n # s
        BY <1>4, <1>15, <1>20, <2>1, <3>2
      <4>2. ParentsIn(h, T)[n] = h.parent[n] /\ e.parent[n] = h.parent[n]
        BY <1>10, <4>1 DEF ParentsIn
      <4>3. e.parent[n] = s => n \in U
        BY <1>7, <4>1 DEF U
      <4> QED
        BY <1>15, <2>1, <3>2, <4>2, <4>3
    <3> QED
      BY <3>1, <3>2
  <2> QED
    BY <2>1 DEF ParentsIn
<1>27. OrderIn(g, W) = {x \in OrderIn(h, T) : x[1] \in W /\ x[2] \in W}
                         \cup {x \in ((W \ X) \ {Root}) \X X : ParentsIn(h, T)[x[1]] = par[x[2]]}
                         \cup {x \in X \X X : par[x[1]] = par[x[2]] /\ x[1] < x[2]}
  <2>1. OrderIn(g, W) = {x \in Behind(h, T, e, X) : x[1] \in W /\ x[2] \in W}
    BY <1>9, <1>15
  <2>2. \A x \in ((W \ X) \ {Root}) \X X : ParentsIn(h, T)[x[1]] = h.parent[x[1]] /\ par[x[2]] = e.parent[x[2]]
    BY <1>20 DEF ParentsIn, par
  <2>3. {x \in ((W \ X) \ {Root}) \X X : ParentsIn(h, T)[x[1]] = par[x[2]]}
          = {x \in ((W \ X) \ {Root}) \X X : h.parent[x[1]] = e.parent[x[2]]}
    BY <2>2
  <2>4. {x \in X \X X : par[x[1]] = par[x[2]] /\ x[1] < x[2]}
          = {x \in X \X X : e.parent[x[1]] = e.parent[x[2]] /\ x[1] < x[2]}
    BY DEF par
  <2>5. {x \in {y \in (T \ {Root}) \X X : h.parent[y[1]] = e.parent[y[2]]} : x[1] \in W /\ x[2] \in W}
          = {x \in ((W \ X) \ {Root}) \X X : h.parent[x[1]] = e.parent[x[2]]}
    BY <1>18, <1>20
  <2>6. {x \in {y \in X \X X : e.parent[y[1]] = e.parent[y[2]] /\ y[1] < y[2]} : x[1] \in W /\ x[2] \in W}
          = {x \in X \X X : e.parent[x[1]] = e.parent[x[2]] /\ x[1] < x[2]}
    BY <1>20
  <2>7. {x \in Behind(h, T, e, X) : x[1] \in W /\ x[2] \in W}
          = {x \in OrderIn(h, T) : x[1] \in W /\ x[2] \in W}
              \cup {x \in {y \in (T \ {Root}) \X X : h.parent[y[1]] = e.parent[y[2]]} : x[1] \in W /\ x[2] \in W}
              \cup {x \in {y \in X \X X : e.parent[y[1]] = e.parent[y[2]] /\ y[1] < y[2]} : x[1] \in W /\ x[2] \in W}
    BY DEF Behind
  <2> QED
    BY <2>1, <2>3, <2>4, <2>5, <2>6, <2>7
<1>28. LabelsIn(g, W) = [n \in W \ {Root} |-> IF n \in X THEN lab[n] ELSE LabelsIn(h, T)[n]]
  <2>1. \A n \in W \ {Root} : g.label[n] = IF n \in X THEN lab[n] ELSE LabelsIn(h, T)[n]
    BY <1>10, <1>12, <1>20 DEF LabelsIn, lab
  <2> QED
    BY <2>1 DEF LabelsIn
<1>29. ValuesIn(g, W) = [n \in W |-> CASE n = d -> ValuesIn(h, T)[s]
                                      [] n \in X \ {d} -> NoValue
                                      [] OTHER -> ValuesIn(h, T)[n]]
  <2>1. ASSUME NEW n \in W
        PROVE  g.value[n] = CASE n = d -> ValuesIn(h, T)[s]
                              [] n \in X \ {d} -> NoValue
                              [] OTHER -> ValuesIn(h, T)[n]
    <3>1. n \in Node /\ ValuesIn(h, T)[s] = h.value[s]
      BY <1>2, <1>5, <1>18, <1>20, <2>1 DEF ValuesIn
    <3>2. CASE n = d
      BY <1>2, <1>12, <3>1, <3>2
    <3>3. CASE n \in X \ {d}
      BY <1>1, <1>2, <1>10, <1>12, <3>1, <3>3 DEF Blank
    <3>4. CASE n # d /\ n \notin X
      <4>1. ValuesIn(h, T)[n] = h.value[n]
        BY <1>20, <2>1, <3>4 DEF ValuesIn
      <4> QED
        BY <1>2, <1>12, <3>1, <3>4, <4>1
    <3> QED
      BY <3>2, <3>3, <3>4
  <2> QED
    BY <2>1 DEF ValuesIn
<1>30. View!Rehung(s, d, U, X, par)
  BY <1>25, <1>26, <1>27 DEF View!Rehung, h, T, W
<1>31. W = (W \ X) \cup X
  BY <1>20
<1>32. View!Labelled(W \ X, X)
  <2>1. LabelsIn(heap', W) = [n \in ((W \ X) \cup X) \ {Root} |-> IF n \in X THEN lab[n] ELSE LabelsIn(h, T)[n]]
    BY <1>25, <1>28, <1>31
  <2> QED
    BY <1>23, <2>1 DEF View!Labelled, h, T, W
<1>33. /\ d # s /\ d \notin U /\ d \in T \cup X /\ (X # {} => d \in X)
       /\ IF d \in X THEN gone = {} ELSE View!HangsUnder(gone, d)
  BY <1>7, <1>17, <1>18, <1>22 DEF U
<1>34. ValuesIn(heap', W) = [n \in W |-> CASE n = d -> ValuesIn(h, T)[s]
                                           [] n \in X \ {d} -> NoValue
                                           [] OTHER -> ValuesIn(h, T)[n]]
  BY <1>25, <1>29
<1>35. \E q \in [X -> (T \ (U \cup {s})) \cup X] :
         View!Grounded(X, q) /\ (\A x \in X : q[x] # d) /\ View!Rehung(s, d, U, X, q)
  BY <1>23, <1>24, <1>30
<1>36. Moving(s, d, gone, U, X)
  BY <1>20, <1>21, <1>32, <1>33, <1>34, <1>35 DEF Moving, h, T, W
<1>37. gone \in SUBSET View!Inner /\ U \in SUBSET View!Inner /\ X \in SUBSET View!Free
  BY <1>10, <1>18, <1>19 DEF View!Inner, View!Free, T
<1> QED
  <2>1. \E G \in SUBSET View!Inner, V \in SUBSET View!Inner, Y \in SUBSET View!Free : Moving(s, d, G, V, Y)
    BY <1>36, <1>37
  <2> QED
    BY <2>1 DEF View!Move, Moving

LEMMA MoveStep ==
  ASSUME Tidy, NEW e, NEW d, Destination(e, d), NEW s \in heap.live \ {Root},
         NEW g, g = Transfer(e, s, d), Shows(g)
  PROVE  View!Next
<1>1. PICK R, B : R = Below(e, {Root}) /\ B = Below(e, {s})
  OBVIOUS
<1>2. IsTree(e, R)
  BY <1>1, BelowIsTree DEF Destination, Sprouts
<1>3. CASE d \in R \ B
  <2>1. View!Move(s, d)
    BY <1>1, <1>2, <1>3, MoveInStep
  <2>2. s \in View!Inner /\ d \in Node
    BY <1>3, <1>2 DEF View!Inner, IsTree, Destination, Heaps, Heap
  <2> QED
    BY <2>1, <2>2 DEF View!Next
<1>4. CASE d \notin R \ B
  BY <1>1, <1>2, <1>4, MoveOutStep DEF View!Next
<1> QED
  BY <1>3, <1>4

(* What is shown of a call without a look at what it moved. *)
Sparing ==
  /\ call'.err /\ ~Called("SetMultiple") => OnlyAdds
  /\ call'.of[1] \in Writers => Keeps

(* A Move that succeeds takes its source from the tree.  (A variable may     *)
(* hold a source that has left it.)                                          *)
MovesWithin == Succeeded("Move") => MoveSource(Matches(call'.of[2])) \in InTree

LEMMA MoveDone ==
  ASSUME Tidy, NEW of, of[1] = "Move", NEW e, NEW d, Destination(e, d),
         NEW s \in heap.used, s # Root, heap.parent[s] # Nil,
         Return(of, Transfer(e, s, d), vars, FALSE, Nil)
  PROVE  /\ Sparing
         /\ s \in heap.live => Sound
         /\ call'.of = of /\ ~call'.err
<1>1. call'.of = of /\ ~call'.err
  BY DEF Return
<1>2. Sparing
  BY <1>1 DEF Sparing, Writers
<1>3. PICK g : g = Transfer(e, s, d)
  OBVIOUS
<1>4. /\ e \in Heaps /\ Shaped(e) /\ heap.used \subseteq e.used /\ d \in e.used /\ s \in e.used
      /\ e.parent[s] = heap.parent[s] /\ Linked(e)
  BY DEF Destination, Sprouts
<1>5. g \in Heaps /\ Shaped(g) /\ g.used = e.used
  BY <1>3, <1>4, TransferIs
<1>6. Shows(g)
  <2>1. Bound(heap.used, vars)
    BY TidyIs DEF Typed
  <2>2. Bound(g.used, vars)
    BY <1>4, <1>5, <2>1, BoundWider
  <2> QED
    BY <1>3, <1>5, <2>2, Shown
<1>7. s \in heap.live => View!Next
  BY <1>3, <1>6, MoveStep
<1> QED
  BY <1>1, <1>2, <1>7 DEF Sound, Sparing

LEMMA MoveSound ==
  ASSUME Tidy, NEW src, PathOK(src), NEW dst, PathOK(dst), MakesLabels(dst[1].segs), Move(src, dst)
  PROVE  /\ Sparing
         /\ MovesWithin => Sound
<1> DEFINE of == <<"Move", src, dst>>
           s == MoveSource(Matches(src))
           m == Matches(dst)
           c == CreatePath(heap, dst)
<1>1. /\ Typed /\ heap \in Heaps /\ Shaped(heap) /\ Linked(heap) /\ ChildLinks(heap, heap.used)
      /\ Bound(heap.used, vars)
  BY TidyIs DEF Typed
<1>2. m.nodes \in Seq(heap.used)
  BY <1>1, MatchesAre
<1>3. s # Nil => s \in heap.used /\ s # Root /\ heap.parent[s] # Nil
  <2>1. Matches(src).nodes \in Seq(heap.used)
    BY <1>1, MatchesAre
  <2> QED
    BY <2>1 DEF MoveSource
<1>4. /\ c.heap \in Heaps /\ Grown(heap, c.heap) /\ (c.ok => c.node \in c.heap.used)
      /\ c.heap.value = heap.value
      /\ c.ok /\ Lost \notin c.heap.used => Landed(heap, Root, c.heap, c.node)
  BY <1>1, CreatePathIs
<1>5. of[1] = "Move"
  OBVIOUS
<1>6. ASSUME call'.of = of, ~call'.err, s \in heap.live => Sound
      PROVE  MovesWithin => Sound
  BY <1>6 DEF MovesWithin, Succeeded, InTree
<1> HIDE DEF of, s, m, c
<1>7. CASE s # Nil /\ Len(m.nodes) = 1 /\ Return(of, Transfer(heap, s, m.nodes[1]), vars, FALSE, Nil)
  <2>1. m.nodes[1] \in heap.used
    BY <1>2, <1>7
  <2>2. Lost \notin heap.used
    <3>1. (RemoveChild(heap, heap.parent[s], s)).used = heap.used
      BY DEF RemoveChild
    <3>2. (Transfer(heap, s, m.nodes[1])).used = heap.used
      BY <3>1 DEF Transfer, TakeOver
    <3> QED
      BY <1>7, <3>2 DEF Return
  <2>3. Destination(heap, m.nodes[1])
    <3>1. Sprouts(heap, heap)
      BY <1>1, <2>2, EditedSame, GrownIs
    <3> QED
      BY <1>1, <2>1, <3>1 DEF Destination
  <2> QED
    BY <1>3, <1>5, <1>6, <1>7, <2>3, MoveDone
<1>8. CASE s # Nil /\ c.ok /\ Return(of, Transfer(c.heap, s, c.node), vars, FALSE, Nil)
  <2>1. Lost \notin c.heap.used
    <3>1. (RemoveChild(c.heap, c.heap.parent[s], s)).used = c.heap.used
      BY DEF RemoveChild
    <3>2. (Transfer(c.heap, s, c.node)).used = c.heap.used
      BY <3>1 DEF Transfer, TakeOver
    <3> QED
      BY <1>8, <3>2 DEF Return
  <2>2. Sprouts(heap, c.heap)
    BY <1>1, <1>4, <2>1, GrownIs
  <2>3. Linked(c.heap)
    <3>1. Left(c.heap, {}, {})
      BY <1>1, <1>4, <2>1, EditedLeft DEF Grown
    <3>2. c.heap.used \ {} = c.heap.used /\ c.heap.used \ ({} \cup {}) = c.heap.used
      OBVIOUS
    <3> QED
      BY <3>1, <3>2 DEF Left, Linked
  <2>4. Destination(c.heap, c.node)
    <3>1. IF c.node \in heap.used THEN c.heap = heap ELSE Landed(heap, Root, c.heap, c.node)
      <4>1. Landed(heap, Root, c.heap, c.node)
        BY <1>4, <1>8, <2>1
      <4>2. c.node \in heap.used => c.heap = heap
        BY <4>1 DEF Landed
      <4> QED
        BY <4>1, <4>2
    <3> QED
      BY <1>4, <1>8, <2>2, <2>3, <3>1 DEF Destination
  <2> QED
    BY <1>3, <1>5, <1>6, <1>8, <2>4, MoveDone
<1>9. CASE Return(of, c.heap, vars, TRUE, Nil)
  BY <1>4, <1>9, StopSound DEF Sound, Sparing
<1>10. CASE Fail(of, Nil)
  BY <1>10, FailSound DEF Sound, Sparing
<1> QED
  BY <1>7, <1>8, <1>9, <1>10 DEF Move, MoveTo, of, s, m, c

-----------------------------------------------------------------------------
(* Every call, from every state. *)
LEMMA NextSound ==
  ASSUME Tidy, Next
  PROVE  /\ Sparing
         /\ MovesWithin => Sound
<1>1. ASSUME NEW p \in ReadPaths, Get(p) \/ Exists(p) \/ Match(p) \/ GetLabel(p) PROVE Sound
  BY <1>1, ReadsSound
<1>2. ASSUME NEW p \in SetPaths, NEW v \in Value, Set(p, v) PROVE Sound
  BY <1>2, SetSound, InputAssumption
<1>3. ASSUME NEW c \in SubPairs, NEW v \in Value, SetMultiple(c[1], c[2], v) PROVE Sound
  BY <1>3, SetMultipleSound, InputAssumption
<1>4. ASSUME NEW c \in InsertCalls, Insert(c[1], c[2], c[3]) PROVE Sound
  BY <1>4, InsertSound, InputAssumption
<1>5. ASSUME NEW p \in RemovePaths, Remove(p) PROVE Sound
  BY <1>5, RemoveSound, InputAssumption
<1>6. ASSUME NEW c \in MovePairs, Move(c[1], c[2]) PROVE Sparing /\ (MovesWithin => Sound)
  BY <1>6, MoveSound, InputAssumption
<1>7. ASSUME NEW x \in VarName, NEW p \in BindPaths, DefineVariable(x, p) PROVE Sound
  BY <1>7, DefineVariableSound, InputAssumption
<1>8. ASSUME NEW x \in VarName, NEW p \in BindPaths, NEW v \in Value, DefineNode(x, p, v) PROVE Sound
  BY <1>8, DefineNodeSound, InputAssumption
<1>9. ASSUME NEW c \in StoreCalls, TextStore(c[1], c[2]) PROVE Sound
  BY <1>9, TextStoreSound, InputAssumption
<1>10. Sound => Sparing
  BY DEF Sound, Sparing
<1> QED
  BY <1>1, <1>2, <1>3, <1>4, <1>5, <1>6, <1>7, <1>8, <1>9, <1>10 DEF Next

LEMMA InitTidy ==
  ASSUME Init
  PROVE  Tidy /\ View!Init
<1>1. Agreeing
  BY InitTyped DEF Agreeing, Init
<1>2. heap = EmptyHeap /\ heap.live = {Root} /\ heap.used = {Root}
  BY DEF Init, EmptyHeap
<1>3. /\ \A n \in Node : heap.len[n] = 0 /\ heap.value[n] = NoValue
  BY DEF Init, EmptyHeap
<1>4. IsTree(heap, heap.live) /\ Blank(heap)
  <2>1. Root \in Node /\ Blank(heap)
    BY <1>3, Identities DEF Blank
  <2>2. Closed(heap, {Root})
    BY <1>3, <2>1 DEF Closed
  <2> QED
    BY <1>2, <2>1, <2>2 DEF IsTree
<1>5. View!Init
  <2>1. {Root} \ {Root} = {} /\ Root \in Node
    BY Identities
  <2>2. /\ ParentsIn(heap, {Root}) = [n \in {} |-> Root] /\ OrderIn(heap, {Root}) = {}
        /\ LabelsIn(heap, {Root}) = [n \in {} |-> Root] /\ ValuesIn(heap, {Root}) = [n \in {Root} |-> NoValue]
    BY <1>3, <2>1 DEF ParentsIn, OrderIn, LabelsIn, ValuesIn
  <2> QED
    BY <1>2, <2>2 DEF View!Init
<1> QED
  BY <1>1, <1>4, <1>5 DEF Tidy

LEMMA TidyKept ==
  ASSUME Tidy, [Next]_state, Agreeing'
  PROVE  Tidy'
<1>1. CASE UNCHANGED state
  BY <1>1 DEF state, Tidy, IsTree, Closed, Blank
<1>2. CASE Next
  <2>1. Effect
    BY <1>2, PanicNeedsStaleLinks DEF Tidy
  <2>2. PICK g : Outcome(g)
    BY <2>1 DEF Effect
  <2>3. g \in Heaps /\ Shaped(g) /\ Held(vars') \in SUBSET g.used /\ heap' = Collected(g, Held(vars'))
    BY <2>2, HeldIs DEF Outcome
  <2>4. IsTree(heap', heap'.live) /\ Blank(heap')
    BY <2>3, CollectedTree
  <2> QED
    BY <2>4 DEF Tidy, IsTree, Closed, Blank
<1> QED
  BY <1>1, <1>2

LEMMA TidyGarbage ==
  ASSUME Tidy, [Next]_state, [Discarded \cap heap'.used = {}]_state
  PROVE  Tidy'
BY AgreeingKept, TidyKept DEF Tidy

(* Writing never takes away: whatever Set, SetMultiple, Insert and           *)
(* DefineNode are called with, every node of the tree is still there         *)
(* afterwards, under the same parent, as long as no variable has kept a      *)
(* struct that Move or TextStore dropped.                                    *)
THEOREM WritesKeep ==
  Spec /\ DiscardedIsGarbage => WritesKeepNodes
<1>1. Init => Tidy
  BY InitTidy
<1>2. Tidy /\ [Next]_state /\ [Discarded \cap heap'.used = {}]_state => Tidy'
  BY TidyGarbage
<1>3. Tidy /\ [Next]_state
        => [call'.of[1] \in {"Set", "SetMultiple", "Insert", "DefineNode"}
              => \A n \in InTree : n \in InTree' /\ heap'.parent[n] = heap.parent[n]]_state
  BY NextSound DEF Sparing, Writers, Keeps
<1> QED
  BY <1>1, <1>2, <1>3, PTL DEF Spec, DiscardedIsGarbage, WritesKeepNodes

(* A call that fails has only added nodes without a value, behind those that *)
(* were there; nothing is gone and no value is written.  SetMultiple, which  *)
(* stops at the first base it cannot write below, is the exception.          *)
THEOREM FailuresAdd ==
  Spec /\ DiscardedIsGarbage => FailureOnlyAdds
<1>1. Init => Tidy
  BY InitTidy
<1>2. Tidy /\ [Next]_state /\ [Discarded \cap heap'.used = {}]_state => Tidy'
  BY TidyGarbage
<1>3. Tidy /\ [Next]_state
        => [call'.err /\ ~Called("SetMultiple")
              => /\ InTree \subseteq InTree'
                 /\ \A n \in InTree : /\ heap'.value[n] = heap.value[n]
                                      /\ Seqs!IsPrefix(Kids(n), Kids(n)')
                 /\ \A n \in InTree' \ InTree : heap'.value[n] = NoValue]_state
  BY NextSound DEF Sparing, OnlyAdds
<1> QED
  BY <1>1, <1>2, <1>3, PTL DEF Spec, DiscardedIsGarbage, FailureOnlyAdds

(* The methods of augeas.go edit an ordered tree: each call, whatever it     *)
(* does to Parent fields, slices and backing arrays, is one step of          *)
(* ConfigTree or changes nothing a caller sees, as long as what Move and     *)
(* TextStore drop is garbage and what Move moves is in the tree.             *)
THEOREM Refinement ==
  Spec /\ DiscardedIsGarbage /\ [][MovesWithin]_state => EditsTheTree
<1>1. Init => Tidy /\ View!Init
  BY InitTidy
<1>2. Tidy /\ [Next]_state /\ [Discarded \cap heap'.used = {}]_state => Tidy'
  BY TidyGarbage
<1>3. ASSUME Tidy, [Next]_state, [MovesWithin]_state PROVE [View!Next]_(View!doc)
  <2>1. CASE Next /\ MovesWithin
    BY <1>3, <2>1, NextSound DEF Sound
  <2>2. CASE UNCHANGED state
    BY <2>2 DEF state, View!doc, ParentsIn, OrderIn, LabelsIn, ValuesIn
  <2> QED
    BY <1>3, <2>1, <2>2
<1> QED
  BY <1>1, <1>2, <1>3, ViewIsTree, PTL DEF Spec, DiscardedIsGarbage, EditsTheTree, Tree!Spec

-----------------------------------------------------------------------------
(* A handle that binds no variable: nothing but the tree is in use, and what *)
(* a call discards is garbage.                                               *)
Bare == Tidy /\ vars = <<>> /\ heap.used = heap.live

LEMMA BareHeap ==
  ASSUME Agreeing, NEW g, Outcome(g), Held(vars') = {}
  PROVE  /\ Shows(g) \/ Lost \in g.used
         /\ IsTree(g, heap'.live) /\ ChildLinks(g, heap'.live) /\ heap'.used = heap'.live
<1>1. g \in Heaps /\ Shaped(g) /\ heap' = Collected(g, {}) /\ {} \in SUBSET g.used
  BY DEF Outcome
<1>2. /\ heap' \in Heaps /\ Shaped(heap') /\ KeptOf(g, heap') /\ heap'.live \subseteq heap'.used
      /\ IsTree(g, heap'.live) /\ IsTree(heap', heap'.live) /\ Blank(heap')
  BY <1>1, CollectedTree
<1>3. PICK X \in SUBSET Discarded : Left(g, X, Discarded)
  BY DEF Outcome, Agreeing
<1> DEFINE T == heap'.live
<1>4. /\ T \subseteq g.used \ X /\ ChildLinks(g, T) /\ T \in SUBSET g.used /\ Root \in T /\ Closed(g, T)
  <2>1. /\ g.used \ X \in SUBSET g.used /\ Root \in g.used \ X
        /\ ChildLinks(g, g.used \ X) /\ Closed(g, g.used \ X)
    BY <1>1, <1>3 DEF Left, Shaped
  <2>2. T \subseteq g.used \ X
    BY <1>2, <2>1 DEF IsTree
  <2> QED
    BY <1>2, <2>1, <2>2, LinksWithin DEF IsTree
<1>5. heap'.used \subseteq T
  <2>1. NoLabel \in Label \cup {NoLabel} /\ NoValue \in Value \cup {NoValue}
    OBVIOUS
  <2> QED
    BY <1>1, <1>4, <2>1, TreeOnlyIsKept DEF Heaps
<1> QED
  BY <1>1, <1>2, <1>4, <1>5 DEF Shows

LEMMA BareKept ==
  ASSUME VarName = {}, Bare, [Next]_state
  PROVE  Bare'
<1>1. Unbinding'
  <2>1. Unbinding
    BY DEF Bare, Tidy, Unbinding
  <2> QED
    BY <2>1, UnbindingKept
<1>2. Tidy'
  BY <1>1, TidyKept DEF Unbinding, Bare
<1>3. CASE Next
  <2>1. PICK g : Outcome(g)
    BY <1>3, PanicNeedsStaleLinks DEF Bare, Tidy, Effect
  <2>2. Held(vars') = {}
    BY <1>1 DEF Unbinding, Held
  <2>3. heap'.used = heap'.live
    BY <2>1, <2>2, BareHeap DEF Bare, Tidy
  <2> QED
    BY <1>1, <1>2, <2>3 DEF Bare, Unbinding
<1>4. CASE UNCHANGED state
  BY <1>1, <1>2, <1>4 DEF Bare, Unbinding, state
<1> QED
  BY <1>3, <1>4

(* What Move discards is not in the tree it leaves. *)
LEMMA MoveDrops ==
  ASSUME NEW e \in Heaps, Shaped(e), Linked(e), NEW s \in e.used, s # Root, e.parent[s] # Nil,
         NEW d \in e.used, NEW g, g = Transfer(e, s, d), NEW W, IsTree(g, W)
  PROVE  s \notin W /\ W \cap ChildrenOf(e, d) = {}
<1>1. PICK f : f = RemoveChild(e, e.parent[s], s)
  OBVIOUS
<1>2. Transferred(e, s, d, f, g)
  BY <1>1, TransferFields
<1>3. /\ f \in Heaps /\ Shaped(f) /\ ChildLinks(f, f.used) /\ f.used = e.used /\ Thinned(e, {s}, f)
      /\ g \in Heaps /\ Shaped(g) /\ g.used = e.used
      /\ ChildLinks(g, g.used \ {s}) /\ TookOver(f, d, s, g)
      /\ e.used \subseteq Node /\ e.parent[Root] = Nil /\ Nil \notin Node
  BY <1>2, Identities DEF Transferred, Linked, ChildLinks, Heaps, Heap
<1>4. s \notin W
  <2>1. Left(g, {s}, ChildrenOf(e, d))
    BY TransferIs
  <2>2. Closed(g, g.used \ {s}) /\ Root \in g.used \ {s}
    BY <1>3, <2>1 DEF Left, Shaped
  <2> QED
    BY <2>2 DEF IsTree
<1>5. ASSUME NEW n \in W, e.parent[n] = d PROVE FALSE
  <2>1. W \subseteq g.used \ {s} /\ ChildLinks(g, W) /\ d \in Node /\ n # Root /\ n \in Node /\ n # s
    BY <1>3, <1>4, <1>5, LinksWithin DEF IsTree
  <2>2. g.parent[n] \in W /\ Under(g, g.parent[n], n)
    BY <1>3, <1>5, <2>1, TreeLinks
  <2>3. f.parent[n] = d
    BY <1>3, <1>5, <2>1 DEF Thinned
  <2>4. g.parent[n] = IF Under(f, s, n) THEN d ELSE f.parent[n]
    BY <1>3, <2>1 DEF TookOver, Under
  <2>5. g.parent[n] = d
    BY <2>3, <2>4
  <2>6. Under(f, s, n)
    BY <1>3, <2>1, <2>2, <2>5, TookOverKids
  <2>7. d = s
    BY <1>3, <2>3, <2>6, UnderParent
  <2> QED
    BY <1>4, <2>2, <2>5, <2>7
<1> QED
  BY <1>4, <1>5 DEF ChildrenOf

(* Nor is what TextStore discards. *)
LEMMA StoreDrops ==
  ASSUME NEW e \in Heaps, Shaped(e), ChildLinks(e, e.used), NEW d \in e.used, NEW entries, EntriesOK(entries),
         NEW g, g = Graft(e, d, entries), Lost \notin g.used, NEW W, IsTree(g, W)
  PROVE  W \cap ChildrenOf(e, d) = {}
<1>1. PICK f : f = DropChildren(e, d)
  OBVIOUS
<1>2. /\ f \in Heaps /\ Shaped(f) /\ ChildrenDropped(e, d, f) /\ ChildLinks(f, f.used) /\ Grown(f, g)
  BY <1>1, GraftedIs
<1>3. f.used = e.used /\ f.parent = e.parent /\ f.len[d] = 0
  BY <1>2 DEF ChildrenDropped
<1>4. Sprouts(f, g)
  BY <1>2, GrownIs
<1>5. /\ g \in Heaps /\ Shaped(g) /\ ChildLinks(g, W) /\ W \subseteq g.used /\ g.used \subseteq Node
      /\ \A n \in f.used : g.parent[n] = f.parent[n]
  BY <1>4, LinksWithin DEF Sprouts, IsTree, Heaps, Heap
<1>6. ASSUME NEW n \in W, e.parent[n] = d PROVE FALSE
  <2>1. d \in Node /\ Nil \notin Node /\ n \in Node /\ e.parent[Root] = Nil
    BY <1>5, Identities DEF ChildLinks, Heaps, Heap
  <2>2. n \in f.used /\ n # Root
    BY <1>3, <1>6, <2>1, UnusedIsBare
  <2>3. Under(g, d, n)
    BY <1>3, <1>5, <1>6, <2>2, TreeLinks
  <2>4. Under(f, d, n)
    BY <1>2, <1>4, <2>1, <2>2, <2>3, OldKids
  <2> QED
    BY <1>3, <2>4 DEF Under
<1> QED
  BY <1>6 DEF ChildrenOf

(* The calls by the name they leave. *)
LEMMA Calls ==
  ASSUME Next
  PROVE  \/ call'.of[1] \in {"Get", "Exists", "Match", "Label", "DefineVariable", "DefineNode"}
         \/ \E p \in SetPaths, v \in Value : Set(p, v) /\ call'.of = <<"Set", p, v>>
         \/ \E c \in SubPairs, v \in Value :
              SetMultiple(c[1], c[2], v) /\ call'.of = <<"SetMultiple", c[1], c[2], v>>
         \/ \E c \in InsertCalls : Insert(c[1], c[2], c[3]) /\ call'.of = <<"Insert", c[1], c[2], c[3]>>
         \/ \E p \in RemovePaths : Remove(p) /\ call'.of = <<"Remove", p>>
         \/ \E c \in MovePairs : Move(c[1], c[2]) /\ call'.of = <<"Move", c[1], c[2]>>
         \/ \E c \in StoreCalls : TextStore(c[1], c[2]) /\ call'.of = <<"TextStore", c[1], c[2]>>
<1>1. ASSUME NEW of, NEW h, NEW vs, NEW err, NEW ret, Return(of, h, vs, err, ret) PROVE call'.of = of
  BY <1>1 DEF Return
<1>2. ASSUME NEW of, NEW ret, Fail(of, ret) PROVE call'.of = of
  BY <1>2, <1>1 DEF Fail
<1> DEFINE other == call'.of[1] \in {"Get", "Exists", "Match", "Label", "DefineVariable", "DefineNode"}
<1>4. ASSUME NEW p, Get(p) \/ Exists(p) \/ Match(p) \/ GetLabel(p) PROVE other
  <2>1. call'.of \in {<<"Get", p>>, <<"Exists", p>>, <<"Match", p>>, <<"Label", p>>}
    BY <1>4, <1>1 DEF Get, Exists, Match, GetLabel
  <2> QED
    BY <2>1
<1>5. ASSUME NEW p, NEW v, Set(p, v) PROVE call'.of = <<"Set", p, v>>
  BY <1>5, <1>1, <1>2 DEF Set
<1>6. ASSUME NEW p, NEW q, NEW v, SetMultiple(p, q, v) PROVE call'.of = <<"SetMultiple", p, q, v>>
  BY <1>6, <1>1, <1>2 DEF SetMultiple
<1>7. ASSUME NEW p, NEW l, NEW b, Insert(p, l, b) PROVE call'.of = <<"Insert", p, l, b>>
  <2> DEFINE of == <<"Insert", p, l, b>>
  <2>1. \/ \E g : Return(of, g, vars, FALSE, Nil)
        \/ call' = [of |-> of, err |-> TRUE, ret |-> Nil]
        \/ Fail(of, Nil)
    BY <1>7 DEF Insert
  <2> HIDE DEF of
  <2>2. ASSUME call' = [of |-> of, err |-> TRUE, ret |-> Nil] PROVE call'.of = of
    BY ONLY <2>2
  <2>3. call'.of = of
    BY <2>1, <2>2, <1>1, <1>2
  <2> QED
    BY <2>3 DEF of
<1>8. ASSUME NEW p, Remove(p) PROVE call'.of = <<"Remove", p>>
  BY <1>8, <1>1, <1>2 DEF Remove
<1>9. ASSUME NEW x, NEW p, DefineVariable(x, p) PROVE other
  <2>1. call'.of = <<"DefineVariable", x, p>>
    BY <1>9, <1>1, <1>2 DEF DefineVariable
  <2> QED
    BY <2>1
<1>10. ASSUME NEW x, NEW p, NEW v, DefineNode(x, p, v) PROVE other
  <2>1. call'.of = <<"DefineNode", x, p, v>>
    BY <1>10, <1>1, <1>2 DEF DefineNode
  <2> QED
    BY <2>1
<1>11. ASSUME NEW p, NEW q, Move(p, q) PROVE call'.of = <<"Move", p, q>>
  BY <1>11, <1>1, <1>2 DEF Move, MoveTo
<1>12. ASSUME NEW p, NEW q, TextStore(p, q) PROVE call'.of = <<"TextStore", p, q>>
  BY <1>12, <1>1, <1>2 DEF TextStore
<1> HIDE DEF other
<1>13. \/ other
       \/ \E p \in SetPaths, v \in Value : Set(p, v) /\ call'.of = <<"Set", p, v>>
       \/ \E c \in SubPairs, v \in Value :
            SetMultiple(c[1], c[2], v) /\ call'.of = <<"SetMultiple", c[1], c[2], v>>
       \/ \E c \in InsertCalls : Insert(c[1], c[2], c[3]) /\ call'.of = <<"Insert", c[1], c[2], c[3]>>
       \/ \E p \in RemovePaths : Remove(p) /\ call'.of = <<"Remove", p>>
       \/ \E c \in MovePairs : Move(c[1], c[2]) /\ call'.of = <<"Move", c[1], c[2]>>
       \/ \E c \in StoreCalls : TextStore(c[1], c[2]) /\ call'.of = <<"TextStore", c[1], c[2]>>
  BY <1>4, <1>5, <1>6, <1>7, <1>8, <1>9, <1>10, <1>11, <1>12 DEF Next
<1> QED
  BY <1>13 DEF other

LEMMA Taking ==
  ASSUME Next, call'.of[1] \in {"Remove", "Move", "TextStore", "SetMultiple"}
  PROVE  \/ \E p \in RemovePaths : Remove(p) /\ call'.of = <<"Remove", p>>
         \/ \E c \in MovePairs : Move(c[1], c[2]) /\ call'.of = <<"Move", c[1], c[2]>>
         \/ \E c \in StoreCalls : TextStore(c[1], c[2]) /\ call'.of = <<"TextStore", c[1], c[2]>>
         \/ \E c \in SubPairs, v \in Value :
              SetMultiple(c[1], c[2], v) /\ call'.of = <<"SetMultiple", c[1], c[2], v>>
<1>1. ASSUME NEW p, NEW v, call'.of = <<"Set", p, v>> PROVE FALSE
  BY <1>1
<1>2. ASSUME NEW p, NEW l, NEW b, call'.of = <<"Insert", p, l, b>> PROVE FALSE
  BY <1>2
<1> QED
  BY <1>1, <1>2, Calls

(* The calls that write to the nodes of a variable.                          *)
LEMMA Editing ==
  ASSUME Next, call'.of[1] \in {"Set", "SetMultiple", "Insert", "Remove"}
  PROVE  \/ \E p \in SetPaths, v \in Value : Set(p, v) /\ call'.of[2] = p
         \/ \E c \in SubPairs, v \in Value : SetMultiple(c[1], c[2], v) /\ call'.of[2] = c[1]
         \/ \E c \in InsertCalls : Insert(c[1], c[2], c[3]) /\ call'.of[2] = c[1]
         \/ \E p \in RemovePaths : Remove(p) /\ call'.of[2] = p
<1>1. ASSUME NEW p, NEW v, call'.of = <<"Set", p, v>> PROVE call'.of[2] = p
  BY <1>1
<1>2. ASSUME NEW p, NEW q, NEW v, call'.of = <<"SetMultiple", p, q, v>> PROVE call'.of[2] = p
  BY <1>2
<1>3. ASSUME NEW p, NEW l, NEW b, call'.of = <<"Insert", p, l, b>> PROVE call'.of[2] = p
  BY <1>3
<1>4. ASSUME NEW p, call'.of = <<"Remove", p>> PROVE call'.of[2] = p
  BY <1>4
<1>5. ASSUME NEW p, NEW q, call'.of \in {<<"Move", p, q>>, <<"TextStore", p, q>>} PROVE FALSE
  BY <1>5
<1>6. call'.of[1] \notin {"Get", "Exists", "Match", "Label", "DefineVariable", "DefineNode"}
  OBVIOUS
<1> QED
  BY <1>1, <1>2, <1>3, <1>4, <1>5, <1>6, Calls

(* Only Move and TextStore discard. *)
LEMMA Discarding ==
  ASSUME Next, Discarded # {}
  PROVE  \/ \E c \in MovePairs : Move(c[1], c[2]) /\ call'.of = <<"Move", c[1], c[2]>>
         \/ \E c \in StoreCalls : TextStore(c[1], c[2]) /\ call'.of = <<"TextStore", c[1], c[2]>>
<1>1. call'.of[1] \in {"Move", "TextStore"}
  BY DEF Discarded, Succeeded
<1>2. ASSUME NEW p, NEW q, NEW v, call'.of \in {<<"Remove", p>>, <<"SetMultiple", p, q, v>>} PROVE FALSE
  BY <1>1, <1>2
<1> QED
  BY <1>1, <1>2, Taking

LEMMA MoveLeavesNone ==
  ASSUME Bare, Bare', NEW src, PathOK(src), NEW dst, PathOK(dst), MakesLabels(dst[1].segs),
         Move(src, dst), Succeeded("Move")
  PROVE  /\ Discarded \cap heap'.used = {}
         /\ MoveSource(Matches(src)) \in heap.live
<1> DEFINE of == <<"Move", src, dst>>
           s == MoveSource(Matches(src))
           m == Matches(dst)
           c == CreatePath(heap, dst)
<1>1. /\ Typed /\ heap \in Heaps /\ Shaped(heap) /\ Linked(heap) /\ ChildLinks(heap, heap.used)
      /\ Bound(heap.used, vars) /\ heap.used = heap.live /\ heap'.used = heap'.live
  BY TidyIs DEF Bare, Typed
<1>2. m.nodes \in Seq(heap.used)
  BY <1>1, MatchesAre
<1>3. s # Nil => s \in heap.used /\ s # Root /\ heap.parent[s] # Nil
  <2>1. Matches(src).nodes \in Seq(heap.used)
    BY <1>1, MatchesAre
  <2> QED
    BY <2>1 DEF MoveSource
<1>4. c.heap \in Heaps /\ Grown(heap, c.heap) /\ (c.ok => c.node \in c.heap.used)
  BY <1>1, CreatePathIs
<1>5. ASSUME call' = [of |-> of, err |-> FALSE, ret |-> Nil]
      PROVE  Discarded = {s} \cup (IF Len(m.nodes) = 1 THEN ChildrenOf(heap, m.nodes[1])
                                   ELSE ChildrenOf(c.heap, c.node))
  <2>1. call'.of[1] = "Move" /\ call'.of[2] = src /\ call'.of[3] = dst /\ ~call'.err
    BY <1>5
  <2> QED
    BY <2>1 DEF Discarded, Succeeded, ChildrenOf
<1> HIDE DEF of, s, m, c
<1>6. ASSUME NEW g, NEW D, IsTree(g, heap'.live) => s \notin heap'.live /\ heap'.live \cap D = {},
             s # Nil, Discarded = {s} \cup D, Return(of, g, vars, FALSE, Nil),
             g \in Heaps, Shaped(g), Bound(g.used, vars)
      PROVE  Discarded \cap heap'.used = {} /\ s \in heap.live
  <2>1. IsTree(g, heap'.live)
    BY <1>6, Shown DEF Shows
  <2> QED
    BY <1>1, <1>3, <1>6, <2>1
<1>7. CASE s # Nil /\ Len(m.nodes) = 1 /\ Return(of, Transfer(heap, s, m.nodes[1]), vars, FALSE, Nil)
  <2>1. PICK g, d, D : g = Transfer(heap, s, d) /\ d = m.nodes[1] /\ D = ChildrenOf(heap, d)
    OBVIOUS
  <2>2. d \in heap.used
    BY <1>2, <1>7, <2>1
  <2>3. Discarded = {s} \cup D /\ Return(of, g, vars, FALSE, Nil)
    BY <1>5, <1>7, <2>1 DEF Return
  <2>4. g \in Heaps /\ Shaped(g) /\ g.used = heap.used
    BY <1>1, <1>3, <1>7, <2>1, <2>2, TransferIs
  <2>5. IsTree(g, heap'.live) => s \notin heap'.live /\ heap'.live \cap D = {}
    BY <1>1, <1>3, <1>7, <2>1, <2>2, MoveDrops
  <2>6. Bound(g.used, vars)
    BY <1>1, <2>4
  <2> QED
    BY <1>6, <1>7, <2>3, <2>4, <2>5, <2>6 DEF s
<1>8. CASE /\ s # Nil /\ Len(m.nodes) = 0 /\ c.ok
           /\ Return(of, Transfer(c.heap, s, c.node), vars, FALSE, Nil)
  <2>1. PICK e, g, d, D : /\ e = c.heap /\ g = Transfer(e, s, d) /\ d = c.node
                          /\ D = ChildrenOf(e, d)
    OBVIOUS
  <2>2. /\ d \in e.used /\ Shaped(e) /\ e \in Heaps /\ s \in e.used
        /\ heap.used \subseteq e.used /\ Grown(heap, e)
    BY <1>3, <1>4, <1>8, <2>1 DEF Grown, Edited
  <2>3. Discarded = {s} \cup D /\ Return(of, g, vars, FALSE, Nil)
    BY <1>5, <1>8, <2>1 DEF Return
  <2>4. Lost \notin e.used
    <3>1. (RemoveChild(e, e.parent[s], s)).used = e.used
      BY DEF RemoveChild
    <3>2. (Transfer(e, s, d)).used = e.used
      BY <3>1 DEF Transfer, TakeOver
    <3> QED
      BY <2>1, <2>3, <3>2 DEF Return
  <2>5. e.parent[s] # Nil /\ s # Root
    BY <1>3, <1>8, <2>2, <2>4 DEF Grown
  <2>6. Linked(e)
    <3>1. Left(e, {}, {})
      BY <1>1, <2>2, <2>4, EditedLeft DEF Grown
    <3>2. e.used \ {} = e.used /\ e.used \ ({} \cup {}) = e.used
      OBVIOUS
    <3> QED
      BY <3>1, <3>2 DEF Left, Linked
  <2>7. g \in Heaps /\ Shaped(g) /\ g.used = e.used
    <3>1. /\ e \in Heaps /\ Shaped(e) /\ s \in e.used /\ s # Root /\ e.parent[s] # Nil
          /\ d \in e.used /\ g = Transfer(e, s, d)
      BY <2>1, <2>2, <2>5
    <3> QED
      BY ONLY <3>1, TransferIs
  <2>8. IsTree(g, heap'.live) => s \notin heap'.live /\ heap'.live \cap D = {}
    BY <2>1, <2>2, <2>5, <2>6, MoveDrops
  <2>9. Bound(g.used, vars)
    BY <1>1, <2>2, <2>7, BoundWider
  <2> QED
    BY <1>6, <1>8, <2>3, <2>7, <2>8, <2>9 DEF s
<1>9. CASE Return(of, c.heap, vars, TRUE, Nil) \/ Fail(of, Nil)
  BY <1>9 DEF Return, Fail, Succeeded
<1> QED
  BY <1>7, <1>8, <1>9 DEF Move, MoveTo, of, s, m, c

LEMMA StoreLeavesNone ==
  ASSUME Bare, Bare', NEW path, PathOK(path), MakesLabels(path[1].segs),
         NEW parsed, EntriesOK(parsed.entries), TextStore(path, parsed), Succeeded("TextStore")
  PROVE  Discarded \cap heap'.used = {}
<1> DEFINE c == CreatePath(heap, path)
           of == <<"TextStore", path, parsed>>
<1>1. /\ Typed /\ heap \in Heaps /\ Shaped(heap) /\ ChildLinks(heap, heap.used)
      /\ Bound(heap.used, vars) /\ heap'.used = heap'.live
  BY TidyIs DEF Bare, Typed
<1>2. c.heap \in Heaps /\ Grown(heap, c.heap) /\ (c.ok => c.node \in c.heap.used)
  BY <1>1, CreatePathIs
<1>3. ASSUME call' = [of |-> of, err |-> FALSE, ret |-> Nil]
      PROVE  Discarded = ChildrenOf(c.heap, c.node)
  <2>1. call'.of[1] = "TextStore" /\ call'.of[2] = path /\ ~call'.err
    BY <1>3
  <2> QED
    BY <2>1 DEF Discarded, Succeeded, ChildrenOf
<1> HIDE DEF c, of
<1>4. CASE c.ok /\ Return(of, Graft(c.heap, c.node, parsed.entries), vars, FALSE, Nil)
  <2>1. PICK e, d, D, g : /\ e = c.heap /\ d = c.node /\ D = ChildrenOf(e, d)
                          /\ g = Graft(e, d, parsed.entries)
    OBVIOUS
  <2>2. Discarded = D /\ Return(of, g, vars, FALSE, Nil)
    BY <1>3, <1>4, <2>1 DEF Return
  <2>3. /\ d \in e.used /\ Shaped(e) /\ e \in Heaps
        /\ heap.used \subseteq e.used /\ Grown(heap, e)
    BY <1>2, <1>4, <2>1 DEF Grown, Edited
  <2>4. g \in Heaps /\ Shaped(g) /\ e.used \subseteq g.used /\ Lost \notin g.used
    BY <2>1, <2>2, <2>3, GraftIs DEF Return
  <2>5. ChildLinks(e, e.used)
    BY <1>1, <2>3, <2>4 DEF Grown, Edited
  <2>6. Bound(g.used, vars)
    BY <1>1, <2>3, <2>4, BoundWider
  <2>7. IsTree(g, heap'.live)
    BY <2>2, <2>4, <2>6, Shown DEF Shows
  <2>8. heap'.live \cap D = {}
    BY <2>1, <2>3, <2>4, <2>5, <2>7, StoreDrops
  <2> QED
    BY <1>1, <2>2, <2>8
<1>5. CASE Return(of, c.heap, vars, TRUE, Nil) \/ Fail(of, Nil)
  BY <1>5 DEF Return, Fail, Succeeded
<1> QED
  BY <1>4, <1>5 DEF TextStore, c, of

LEMMA BareDiscards ==
  ASSUME Bare, Bare', Next
  PROVE  Discarded \cap heap'.used = {} /\ MovesWithin
<1>1. Succeeded("Move") => Discarded # {}
  BY DEF Discarded
<1>2. CASE Discarded = {}
  BY <1>1, <1>2 DEF MovesWithin
<1>3. ASSUME NEW c \in MovePairs, Move(c[1], c[2]), call'.of = <<"Move", c[1], c[2]>>, Discarded # {}
      PROVE  Discarded \cap heap'.used = {} /\ MovesWithin
  <2>1. Succeeded("Move")
    BY <1>3 DEF Discarded, Succeeded
  <2>2. Discarded \cap heap'.used = {} /\ MoveSource(Matches(c[1])) \in heap.live
    BY <1>3, <2>1, InputAssumption, MoveLeavesNone
  <2>3. call'.of[2] = c[1]
    BY <1>3
  <2> QED
    BY <2>2, <2>3 DEF MovesWithin, InTree
<1>4. ASSUME NEW c \in StoreCalls, TextStore(c[1], c[2]), call'.of = <<"TextStore", c[1], c[2]>>,
             Discarded # {}
      PROVE  Discarded \cap heap'.used = {} /\ MovesWithin
  <2>1. Succeeded("TextStore") /\ ~Succeeded("Move")
    BY <1>4 DEF Discarded, Succeeded
  <2> QED
    BY <1>4, <2>1, InputAssumption, StoreLeavesNone DEF MovesWithin
<1> QED
  BY <1>2, <1>3, <1>4, Discarding

LEMMA InitBare ==
  ASSUME VarName = {}, Init
  PROVE  Bare
BY InitTidy DEF Init, EmptyHeap, Bare

(* Without variables nothing a call drops is reached again, and Move finds   *)
(* its source in the tree: the premises of the theorems above hold.          *)
THEOREM NothingHeld ==
  ASSUME VarName = {}
  PROVE  Spec => DiscardedIsGarbage /\ [][MovesWithin]_state
<1>1. Init => Bare
  BY InitBare
<1>2. Bare /\ [Next]_state => Bare'
  BY BareKept
<1>3. Bare /\ Bare' /\ [Next]_state => [Discarded \cap heap'.used = {} /\ MovesWithin]_state
  BY BareDiscards
<1> QED
  BY <1>1, <1>2, <1>3, PTL DEF Spec, DiscardedIsGarbage

(* A handle without variables implements ConfigTree without any premise:     *)
(* every sequence of calls edits the tree, writing keeps its nodes, and a    *)
(* call that fails only adds.                                                *)
THEOREM BareRefinement ==
  ASSUME VarName = {}
  PROVE  Spec => EditsTheTree /\ WritesKeepNodes /\ FailureOnlyAdds
BY NothingHeld, Refinement, WritesKeep, FailuresAdd, PTL

(* Remove takes away the nodes that match and what hangs below them, no more *)
(* and no less, and counts each node that matched once.                      *)
LEMMA RemoveExactly ==
  ASSUME Bare, NEW path, PathOK(path), Remove(path), Succeeded("Remove")
  PROVE  LET gone == Seqs!ToSet(Matches(call'.of[2]).nodes) \ {Root}
         IN  /\ InTree' = InTree \ Below(heap, gone)
             /\ call'.ret = Cardinality(gone)
<1> DEFINE m == Matches(path)
           r == RemoveEach(heap, m.nodes)
           of == <<"Remove", path>>
           D == Picked(heap, m.nodes, Len(m.nodes))
<1>1. m.nodes \in Seq(heap.used) /\ Tidy
  BY TidyIs, MatchesAre DEF Bare
<1>2. CASE Return(of, r.heap, vars, FALSE, r.count)
  <2>1. D = Seqs!ToSet(m.nodes) \ {Root}
    <3>1. /\ \A n \in heap.used \ {Root} : heap.parent[n] # Nil
          /\ heap.parent[Root] = Nil
      <4>1. IsTree(heap, heap.live) /\ ChildLinks(heap, heap.used) /\ heap.used = heap.live
        BY <1>1, TidyIs DEF Bare
      <4>2. \A n \in heap.live \ {Root} : heap.parent[n] \in heap.live
        BY <1>1, <4>1, TreeLinks DEF Tidy, Agreeing, Typed
      <4>3. Nil \notin heap.live
        BY <1>1, <4>1, Identities DEF Tidy, Agreeing, Typed, Heaps, Heap
      <4>4. heap.parent[Root] = Nil
        BY <4>1 DEF ChildLinks
      <4> QED
        BY <4>1, <4>2, <4>3, <4>4
    <3>2. \A i \in 1 .. Len(m.nodes) : m.nodes[i] \in heap.used
      BY <1>1
    <3>3. Seqs!ToSet(m.nodes) = {m.nodes[i] : i \in 1 .. Len(m.nodes)}
      BY <1>1 DEF Seqs!ToSet
    <3> HIDE DEF m
    <3> QED
      BY <3>1, <3>2, <3>3 DEF Picked
  <2> HIDE DEF m, D
  <2>2. /\ call'.of = of /\ call'.ret = r.count /\ r.count = Cardinality(D)
        /\ heap'.live = heap.live \ Below(heap, D)
    BY <1>1, <1>2, RemoveShows DEF D
  <2>3. call'.of[2] = path
    BY <2>2
  <2> QED
    BY <2>1, <2>2, <2>3 DEF InTree, m
<1>3. CASE Fail(of, 0)
  BY <1>3 DEF Fail, Return, Succeeded
<1> QED
  BY <1>2, <1>3 DEF Remove

(* On a handle without variables Remove takes exactly what matches, however  *)
(* the matched nodes lie in each other and in whatever order they come.      *)
THEOREM RemoveCorrect ==
  ASSUME VarName = {}
  PROVE  Spec => RemoveIsExact
<1>1. Init => Bare
  BY InitBare
<1>2. Bare /\ [Next]_state => Bare'
  BY BareKept
<1>3. ASSUME Bare, Next, Succeeded("Remove")
      PROVE  LET gone == Seqs!ToSet(Matches(call'.of[2]).nodes) \ {Root}
             IN  /\ InTree' = InTree \ Below(heap, gone)
                 /\ call'.ret = Cardinality(gone)
  <2>1. call'.of[1] = "Remove"
    BY <1>3 DEF Succeeded
  <2>2. ASSUME NEW c, NEW d, NEW v,
               call'.of \in {<<"Move", c, d>>, <<"TextStore", c, d>>, <<"SetMultiple", c, d, v>>}
        PROVE  FALSE
    BY <2>1, <2>2
  <2>3. PICK p \in RemovePaths : Remove(p)
    BY <1>3, <2>1, <2>2, Taking
  <2> QED
    BY <1>3, <2>3, RemoveExactly, InputAssumption
<1>4. Bare /\ [Next]_state
        => [Succeeded("Remove") =>
              LET gone == Seqs!ToSet(Matches(call'.of[2]).nodes) \ {Root}
              IN  /\ InTree' = InTree \ Below(heap, gone)
                  /\ call'.ret = Cardinality(gone)]_state
  BY <1>3
<1> QED
  BY <1>1, <1>2, <1>4, PTL DEF Spec, RemoveIsExact

-----------------------------------------------------------------------------
(* The text reported for a node of the tree, read again, names that node and *)
(* no other.                                                                 *)

(* The tokens of the texts written for the nodes of h. *)
Tokens(h) ==
  (UNION {Seqs!ToSet(Spell(h.label[m])) : m \in Node})
    \cup {Ch("/"), Ch("["), Ch("]")} \cup {Num(Index(h, m)[1]) : m \in Node}

Written(h, m) == <<Ch("/")>> \o Segment(h, m)

LEMMA SpellIs ==
  ASSUME NEW name
  PROVE  Spell(name) \in Seq(Seqs!ToSet(Spell(name)))
<1>1. CASE name \in DOMAIN Spelling
  BY <1>1, SpellingAssumption DEF Spell
<1>2. CASE name \notin DOMAIN Spelling /\ name = ""
  <2>1. Spell(name) = <<>>
    BY <1>2 DEF Spell
  <2> QED
    BY <2>1
<1>3. CASE name \notin DOMAIN Spelling /\ name # ""
  <2>1. Spell(name) = <<Ch(name)>>
    BY <1>3 DEF Spell
  <2>2. 1 \in DOMAIN <<Ch(name)>> /\ <<Ch(name)>>[1] = Ch(name)
    OBVIOUS
  <2>3. Ch(name) \in Seqs!ToSet(<<Ch(name)>>)
    BY <2>2 DEF Seqs!ToSet
  <2> QED
    BY <2>1, <2>3, OneIs
<1> QED
  BY <1>1, <1>2, <1>3

LEMMA JoinedIs ==
  ASSUME NEW W, NEW s \in Seq(W), NEW t \in Seq(W)
  PROVE  s \o t \in Seq(W)
OBVIOUS

LEMMA WrittenIs ==
  ASSUME NEW h, NEW m \in Node
  PROVE  Written(h, m) \in Seq(Tokens(h)) /\ Segment(h, m) \in Seq(Tokens(h))
<1>1. /\ Seqs!ToSet(Spell(h.label[m])) \subseteq Tokens(h) /\ Ch("/") \in Tokens(h)
      /\ Ch("[") \in Tokens(h) /\ Ch("]") \in Tokens(h) /\ Num(Index(h, m)[1]) \in Tokens(h)
  BY DEF Tokens
<1>2. Spell(h.label[m]) \in Seq(Tokens(h))
  <2>1. \A s, V, W : s \in Seq(V) /\ V \subseteq W => s \in Seq(W)
    OBVIOUS
  <2> QED
    BY <1>1, <2>1, SpellIs
<1>3. \A x, y, z \in Tokens(h) : <<x, y, z>> \in Seq(Tokens(h)) /\ <<x>> \in Seq(Tokens(h))
  OBVIOUS
<1>4. (IF Index(h, m)[2] > 1 THEN <<Ch("["), Num(Index(h, m)[1]), Ch("]")>> ELSE <<>>) \in Seq(Tokens(h))
  BY <1>1, <1>3
<1>5. Segment(h, m) \in Seq(Tokens(h))
  BY <1>2, <1>4, JoinedIs DEF Segment
<1>6. <<Ch("/")>> \in Seq(Tokens(h))
  BY <1>1, <1>3
<1>7. Written(h, m) \in Seq(Tokens(h))
  BY <1>5, <1>6, JoinedIs DEF Written
<1> QED
  BY <1>5, <1>7

(* The climb of buildPath. *)
Top(h, m) == m = Root \/ h.parent[m] = Nil

IsBuild(B, h) ==
  B = [k \in 0 .. Cardinality(Node) |->
         [m \in Node |-> IF k = 0 \/ Top(h, m) THEN <<>>
                         ELSE B[k - 1][h.parent[m]] \o Written(h, m)]]

Build(h) == CHOOSE B : IsBuild(B, h)

BuildRound(h, q, s, k) ==
  [m \in Node |-> IF Top(h, m) THEN <<>> ELSE s[h.parent[m]] \o Written(h, m)]
BuildRounds == INSTANCE Loops WITH Body <- BuildRound

LEMMA BuildIs ==
  ASSUME NEW h \in Heaps, Shaped(h)
  PROVE  IsBuild(Build(h), h)
<1> DEFINE N == Cardinality(Node)
           S == [Node -> Seq(Tokens(h))]
           base == [m \in Node |-> <<>>]
           R == BuildRounds!Rounds(base, N, h, 0)
<1>1. N \in Nat
  <2>1. h.used \in SUBSET Node
    BY DEF Heaps, Heap
  <2> QED
    BY <2>1, UsedMeasured
<1>2. base \in S
  OBVIOUS
<1>3. ASSUME NEW s \in S, NEW k PROVE BuildRound(h, 0, s, k) \in S
  <2>1. ASSUME NEW m \in Node, ~Top(h, m)
        PROVE  s[h.parent[m]] \o Written(h, m) \in Seq(Tokens(h))
    <3>1. h.parent[m] \in Node
      BY <2>1 DEF Heaps, Heap, Top
    <3>2. s[h.parent[m]] \in Seq(Tokens(h))
      BY <3>1
    <3>3. Written(h, m) \in Seq(Tokens(h))
      BY WrittenIs
    <3> QED
      BY <3>2, <3>3, JoinedIs
  <2>2. <<>> \in Seq(Tokens(h))
    OBVIOUS
  <2> QED
    BY <2>1, <2>2 DEF BuildRound
<1> HIDE DEF N, S, base
<1>4. R \in [0 .. N -> S] /\ BuildRounds!IsRounds(R, base, N, h, 0)
  <2>1. BuildRounds!StaysInRounds(S, N, h, 0)
    BY <1>3 DEF BuildRounds!StaysInRounds
  <2> QED
    BY <1>1, <1>2, <2>1, BuildRounds!RoundsStay
<1> HIDE DEF R
<1>5. ASSUME NEW k \in 0 .. N
      PROVE  R[k] = [m \in Node |-> IF k = 0 \/ Top(h, m) THEN <<>>
                                    ELSE R[k - 1][h.parent[m]] \o Written(h, m)]
  <2>1. R[k] = IF k = 0 THEN base ELSE BuildRound(h, 0, R[k - 1], k)
    BY <1>4 DEF BuildRounds!IsRounds
  <2>2. CASE k = 0
    BY <2>1, <2>2 DEF base
  <2>3. CASE k # 0
    BY <2>1, <2>3 DEF BuildRound
  <2> QED
    BY <2>2, <2>3
<1>6. R = [k \in 0 .. N |-> R[k]]
  BY <1>4
<1>7. IsBuild(R, h)
  BY <1>5, <1>6 DEF IsBuild, N
<1> QED
  BY <1>7 DEF Build

(* segs leads from the root to n and to no other node. *)
LeadsTo(h, segs, n) ==
  segs \in Seq(PlainSegs) /\ EvalSteps(h, <<Root>>, PlainSteps(segs)) = <<n>>

LEMMA LeadsToRoot ==
  ASSUME NEW h, Shaped(h)
  PROVE  LeadsTo(h, <<>>, Root)
<1>1. PlainSteps(<<>>) = <<>>
  <2>1. Len(<<>>) = 0 /\ 1 .. 0 = {}
    OBVIOUS
  <2>2. PlainSteps(<<>>) = [i \in {} |-> Step("child", <<>>[i])]
    BY <2>1 DEF PlainSteps
  <2> QED
    BY <2>2
<1> QED
  BY <1>1, EvalNothing DEF LeadsTo

LEMMA LeadsToChild ==
  ASSUME NEW h \in Heaps, Shaped(h), NEW T, ChildLinks(h, T), NEW m \in T, m \in Node, NEW c,
         Under(h, m, c), h.label[c] \in Nameable, NEW segs, LeadsTo(h, segs, m)
  PROVE  /\ LeadsTo(h, Append(segs, Place(h, c)), c) /\ Place(h, c) \in PlainSegs
         /\ Index(h, c)[1] \in Nat \ {0}
<1>1. h.parent[c] = m /\ h.label[c] # "*"
  BY UnderParent DEF Nameable
<1>2. Place(h, c) \in PlainSegs /\ Index(h, c)[1] \in Nat \ {0}
  <2> DEFINE same == Named(h, Children(h, m), h.label[c])
  <2>1. PICK spot \in 1 .. h.len[m] : Kid(h, m, spot) = c
    BY DEF Under
  <2>2. \A i \in 1 .. h.len[m] : Kid(h, m, i) = c => i = spot
    BY <2>1 DEF ChildLinks
  <2>3. same \in Seq(h.used) /\ \E pos \in 1 .. Len(same) : same[pos] = c /\ Index(h, c) = <<pos, Len(same)>>
    BY <1>1, <2>1, <2>2, CountedIs
  <2> HIDE DEF same
  <2>4. PICK pos \in 1 .. Len(same) : Index(h, c) = <<pos, Len(same)>>
    BY <2>3
  <2>5. pos \in Nat \ {0} /\ Index(h, c)[1] = pos
    BY <2>3, <2>4
  <2>6. <<>> \in Positions /\ <<[kind |-> "pos", n |-> pos]>> \in Positions
    BY <2>5 DEF Positions
  <2>7. Place(h, c) = Seg(h.label[c], IF Index(h, c)[2] > 1 THEN <<[kind |-> "pos", n |-> pos]>> ELSE <<>>)
    BY <2>5 DEF Place
  <2> QED
    BY <2>5, <2>6, <2>7 DEF PlainSegs
<1>3. segs \in Seq(PlainSegs) /\ EvalSteps(h, <<Root>>, PlainSteps(segs)) = <<m>>
  BY DEF LeadsTo
<1>4. EvalSteps(h, <<Root>>, PlainSteps(Append(segs, Place(h, c)))) = <<c>>
  <2>1. StepRound(h, 0, <<m>>, Step("child", Place(h, c))) = <<c>>
    BY <1>1, StepToChild
  <2> QED
    BY <1>2, <1>3, <2>1, EvalExtended
<1>5. Append(segs, Place(h, c)) \in Seq(PlainSegs)
  BY <1>2, <1>3
<1> QED
  BY <1>2, <1>4, <1>5 DEF LeadsTo

(* The nodes on the way from the root to n, n among them: Way for any tree.  *)
WayTo(h, T, n) == {m \in T \ {Root} : n \in Below(h, {m})}

WordsTo(h, T, n) == \A m \in WayTo(h, T, n) : OneWord(h.label[m])

LEMMA WayDown ==
  ASSUME NEW h \in Heaps, Shaped(h), NEW T \in SUBSET h.used, NEW m \in T, NEW c \in T, Under(h, m, c), c # Root
  PROVE  WayTo(h, T, m) \subseteq WayTo(h, T, c) /\ c \in WayTo(h, T, c)
<1>1. ASSUME NEW x \in T
      PROVE  x \in Below(h, {x}) /\ (m \in Below(h, {x}) => c \in Below(h, {x}))
  <2>1. {x} \in SUBSET h.used
    OBVIOUS
  <2>2. x \in Below(h, {x}) /\ Closed(h, Below(h, {x}))
    BY <2>1, BelowIs DEF Heaps
  <2> QED
    BY <2>2, ClosedIs
<1> QED
  BY <1>1 DEF WayTo

(* The text written for one segment is the one its label and position give.  *)
LEMMA SegmentWritten ==
  ASSUME NEW h, NEW c \in Node, OneWord(h.label[c])
  PROVE  Segment(h, c) = Piece(h.label[c], Index(h, c)) /\ Carries(Tokens(h), h.label[c], Index(h, c))
<1>1. Spell(h.label[c]) = <<Ch(h.label[c])>>
  BY WordSpelled
<1>2. Segment(h, c) = Piece(h.label[c], Index(h, c))
  BY <1>1 DEF Segment, Piece
<1>3. Ch(h.label[c]) \in Tokens(h)
  <2>1. Ch(h.label[c]) \in Seqs!ToSet(Spell(h.label[c]))
    <3>1. 1 \in DOMAIN <<Ch(h.label[c])>> /\ <<Ch(h.label[c])>>[1] = Ch(h.label[c])
      OBVIOUS
    <3> QED
      BY <1>1, <3>1 DEF Seqs!ToSet
  <2> QED
    BY <2>1 DEF Tokens
<1>4. Carries(Tokens(h), h.label[c], Index(h, c))
  BY <1>3 DEF Carries, Tokens
<1> QED
  BY <1>2, <1>4

LEMMA WordNameable ==
  ASSUME NEW h \in Heaps, NEW c \in Node, OneWord(h.label[c])
  PROVE  h.label[c] \in Nameable
<1>1. h.label[c] \in Label \cup {NoLabel}
  BY DEF Heaps, Heap
<1>2. "*" \in Mark /\ "." \in Mark /\ ".." \in Mark
  BY Zenon DEF Mark
<1> QED
  BY <1>1, <1>2, Zenon DEF OneWord, Nameable

(* What buildPath has climbed after j rounds from a node that k rounds of    *)
(* Below reach is read as segments that lead back to it, when j is no less   *)
(* than k.                                                                   *)
Back(h, t, c) == \E segs : LeadsTo(h, segs, c) /\ Reads(Tokens(h), t, segs)

LEMMA BackToChild ==
  ASSUME NEW h \in Heaps, Shaped(h), NEW T, ChildLinks(h, T), NEW m \in T, m \in Node, NEW c \in Node,
         Under(h, m, c), OneWord(h.label[c]), NEW t, Back(h, t, m)
  PROVE  Back(h, t \o Written(h, c), c)
<1>1. PICK segs : LeadsTo(h, segs, m) /\ Reads(Tokens(h), t, segs)
  BY DEF Back
<1>2. LeadsTo(h, Append(segs, Place(h, c)), c) /\ Place(h, c) \in PlainSegs /\ Index(h, c)[1] \in Nat \ {0}
  BY <1>1, LeadsToChild, WordNameable
<1>3. segs \in Seq(PlainSegs)
  BY <1>1 DEF LeadsTo
<1>4. Reads(Tokens(h), t \o Written(h, c), Append(segs, Place(h, c)))
  <2>1. Place(h, c) = Seg(h.label[c], IF Index(h, c)[2] > 1 THEN <<[kind |-> "pos", n |-> Index(h, c)[1]]>> ELSE <<>>)
    BY DEF Place
  <2>2. Written(h, c) = <<Ch("/")>> \o Piece(h.label[c], Index(h, c)) /\ Carries(Tokens(h), h.label[c], Index(h, c))
    BY SegmentWritten DEF Written
  <2> QED
    BY <1>1, <1>2, <1>3, <2>1, <2>2, ReadsFurther
<1> QED
  BY <1>2, <1>4 DEF Back

LEMMA BuildLeads ==
  ASSUME NEW h \in Heaps, Shaped(h), NEW T, IsTree(h, T), ChildLinks(h, T),
         NEW n \in T, WordsTo(h, T, n)
  PROVE  Back(h, Build(h)[Cardinality(Node)][n], n)
<1> DEFINE N == Cardinality(Node)
           u == Cardinality(h.used)
           B == Build(h)
           R == BelowRounds!Rounds({Root}, N, h, 0)
           Leads(k) == R[k] \subseteq T /\ \A c \in R[k] : WordsTo(h, T, c) => \A j \in k .. N : Back(h, B[j][c], c)
           I == {k \in Nat : k <= N => Leads(k)}
<1>1. h.used \in SUBSET Node /\ T \subseteq h.used /\ Root \in T /\ Closed(h, T)
  BY DEF Heaps, Heap, IsTree
<1>2. u \in 0 .. N /\ N \in Nat
  BY <1>1, UsedMeasured
<1>3. T = R[u]
  <2>1. IsTree(h, Below(h, {Root}))
    BY BelowIsTree
  <2>2. Below(h, {Root}) = R[u]
    BY DEF Below, BelowRounds!Rounds, BelowRounds!IsRounds, BelowRound
  <2> HIDE DEF R, u
  <2> QED
    BY <2>1, <2>2, OneTree
<1> HIDE DEF N, u, B, R
<1>4. \A X \in SUBSET T : \A c : c \in Offspring(h, X) <=> \E m \in X : Under(h, m, c)
  <2>1. ASSUME NEW X \in SUBSET T
        PROVE  \A c : c \in Offspring(h, X) <=> \E m \in X : \E i \in 1 .. h.len[m] : Kid(h, m, i) = c
    <3>1. X \in SUBSET Node
      BY <1>1
    <3> QED
      BY <3>1, OffspringIs DEF Heaps
  <2> QED
    BY <2>1 DEF Under
<1>5. R \in [0 .. N -> SUBSET T] /\ BelowRounds!IsRounds(R, {Root}, N, h, 0)
  <2>1. \A X \in SUBSET T : Offspring(h, X) \subseteq T
    BY <1>1, <1>4, ClosedIs
  <2>2. BelowRounds!StaysInRounds(SUBSET T, N, h, 0)
    BY <2>1 DEF BelowRounds!StaysInRounds, BelowRound
  <2>3. {Root} \in SUBSET T
    BY <1>1
  <2> QED
    BY <1>2, <2>2, <2>3, BelowRounds!RoundsStay DEF R
<1>6. R[0] = {Root} /\ \A k \in 1 .. N : R[k] = R[k - 1] \cup Offspring(h, R[k - 1])
  <2>1. 0 \in 0 .. N /\ \A k \in 1 .. N : k \in 0 .. N /\ k # 0
    BY <1>2
  <2> QED
    BY <1>5, <2>1 DEF BelowRounds!IsRounds, BelowRound
<1>7. \A k \in 0 .. N : \A m \in Node :
        B[k][m] = IF k = 0 \/ Top(h, m) THEN <<>> ELSE B[k - 1][h.parent[m]] \o Written(h, m)
  <2>1. IsBuild(B, h)
    BY BuildIs DEF B
  <2>2. ASSUME NEW k \in 0 .. N
        PROVE  B[k] = [m \in Node |-> IF k = 0 \/ Top(h, m) THEN <<>>
                                      ELSE B[k - 1][h.parent[m]] \o Written(h, m)]
    BY <2>1 DEF IsBuild, N
  <2> QED
    BY <2>2
<1>8. 0 \in I
  <2>1. Root \in Node /\ Top(h, Root)
    BY Identities DEF Top
  <2>2. \A j \in 0 .. N : B[j][Root] = <<>>
    BY <1>7, <2>1
  <2>3. Back(h, <<>>, Root)
    BY LeadsToRoot, ReadsNothing DEF Back
  <2> QED
    BY <1>1, <1>6, <2>2, <2>3
<1>9. ASSUME NEW k \in I PROVE k + 1 \in I
  <2>1. SUFFICES ASSUME k + 1 <= N PROVE Leads(k + 1)
    OBVIOUS
  <2>2. k \in Nat /\ k + 1 \in 1 .. N /\ (k + 1) - 1 = k /\ k \in 0 .. N /\ k + 1 \in 0 .. N
    BY <1>2, <2>1
  <2>3. Leads(k)
    BY <2>2
  <2>4. R[k + 1] = R[k] \cup Offspring(h, R[k]) /\ R[k + 1] \subseteq T
    BY <1>5, <1>6, <2>2
  <2> HIDE DEF I
  <2>5. ASSUME NEW c \in R[k + 1], WordsTo(h, T, c), NEW j \in (k + 1) .. N PROVE Back(h, B[j][c], c)
    <3>1. j \in k .. N /\ j - 1 \in k .. N /\ j \in 0 .. N /\ j # 0
      BY <1>2, <2>2
    <3>2. CASE c \in R[k]
      BY <2>3, <2>5, <3>1, <3>2
    <3>3. CASE c \notin R[k]
      <4>1. PICK m \in R[k] : Under(h, m, c)
        BY <1>4, <2>3, <2>4, <3>3
      <4>2. m \in T /\ c \in T /\ m \in Node /\ c \in Node
        BY <1>1, <2>3, <2>4, <4>1
      <4>3. h.parent[c] = m
        BY <4>1, <4>2, UnderParent
      <4>4. c # Root /\ ~Top(h, c)
        <5>1. h.parent[Root] = Nil /\ m # Nil
          BY <4>2, Identities DEF ChildLinks
        <5> QED
          BY <4>3, <5>1 DEF Top
      <4>5. WordsTo(h, T, m) /\ OneWord(h.label[c])
        <5>1. WayTo(h, T, m) \subseteq WayTo(h, T, c) /\ c \in WayTo(h, T, c)
          BY <1>1, <4>1, <4>2, <4>4, WayDown
        <5> QED
          BY <2>5, <5>1 DEF WordsTo
      <4>6. Back(h, B[j - 1][m], m)
        BY <2>3, <3>1, <4>5
      <4>7. Back(h, B[j - 1][m] \o Written(h, c), c)
        BY <4>1, <4>2, <4>5, <4>6, BackToChild
      <4>8. B[j][c] = B[j - 1][m] \o Written(h, c)
        BY <1>7, <3>1, <4>2, <4>3, <4>4
      <4> QED
        BY <4>7, <4>8
    <3> QED
      BY <3>2, <3>3
  <2> QED
    BY <2>4, <2>5
<1>10. I = Nat
  <2> HIDE DEF Leads
  <2> QED
    BY <1>8, <1>9, BelowRounds!InductiveSet
<1>11. Leads(u) /\ N \in u .. N
  <2>1. u \in I
    BY <1>2, <1>10
  <2> QED
    BY <1>2, <2>1
<1> QED
  BY <1>3, <1>11 DEF B, N

LEMMA EvalOfOne ==
  ASSUME NEW h \in Heaps, Shaped(h), NEW vs, NEW segs, NEW n \in h.used,
         ParseSteps(segs).ok = TRUE, EvalSteps(h, <<Root>>, ParseSteps(segs).steps) = <<n>>
  PROVE  Eval(h, vs, <<[lead |-> "/", segs |-> segs]>>) = [ok |-> TRUE, nodes |-> <<n>>]
<1> DEFINE alt == [lead |-> "/", segs |-> segs]
           r == [ok |-> TRUE, nodes |-> <<n>>]
<1>1. EvalOne(h, vs, alt) = r
  BY DEF EvalOne, EvalParsed
<1>2. Eval(h, vs, <<alt>>) = Union(<<r>>)
  <2> HIDE DEF alt, r
  <2>1. DOMAIN <<alt>> = 1 .. 1 /\ <<alt>>[1] = alt /\ <<r>> = [i \in 1 .. 1 |-> r]
    OBVIOUS
  <2>2. [i \in DOMAIN <<alt>> |-> EvalOne(h, vs, <<alt>>[i])] = <<r>>
    BY <1>1, <2>1
  <2> QED
    BY <2>2 DEF Eval
<1>3. Union(<<r>>) = [ok |-> TRUE, nodes |-> Dedup(Seqs!FlattenSeq(<<<<n>>>>))]
  <2>1. DOMAIN <<r>> = 1 .. 1 /\ <<r>>[1] = r /\ r.ok = TRUE /\ r.nodes = <<n>>
        /\ <<<<n>>>> = [i \in 1 .. 1 |-> <<n>>]
    OBVIOUS
  <2> HIDE DEF r
  <2>2. [i \in DOMAIN <<r>> |-> <<r>>[i].nodes] = <<<<n>>>>
    BY <2>1
  <2>3. \A i \in DOMAIN <<r>> : <<r>>[i].ok
    BY <2>1
  <2> QED
    BY <2>2, <2>3 DEF Union
<1>4. Seqs!FlattenSeq(<<<<n>>>>) = <<n>> /\ Dedup(<<n>>) = <<n>>
  BY OneOf
<1> QED
  BY <1>2, <1>3, <1>4

LEMMA PathNames ==
  ASSUME NEW h \in Heaps, Shaped(h), NEW T, IsTree(h, T), ChildLinks(h, T), NEW n \in T, WordsTo(h, T, n), NEW vs
  PROVE  Eval(h, vs, Read(BuildPath(h, n))) = [ok |-> TRUE, nodes |-> <<n>>]
<1> DEFINE text == Build(h)[Cardinality(Node)][n]
<1>1. BuildPath(h, n) = IF Top(h, n) THEN <<Ch("/")>> ELSE text
  BY DEF BuildPath, Build, IsBuild, Top, Written
<1>2. n \in h.used
  BY DEF IsTree
<1>3. CASE n = Root
  <2>1. Top(h, n)
    BY <1>3 DEF Top
  <2>2. EvalSteps(h, <<Root>>, ParseSteps(<<EmptySeg>>).steps) = <<n>>
    BY <1>3, RootParsed, EvalNothing
  <2>3. Read(BuildPath(h, n)) = <<[lead |-> "/", segs |-> <<EmptySeg>>]>>
    BY <1>1, <2>1, RootReads
  <2> QED
    BY <1>2, <2>2, <2>3, RootParsed, EvalOfOne
<1>4. CASE n # Root
  <2>1. ~Top(h, n)
    <3>1. h.parent[n] \in Node
      BY <1>4, TreeLinks
    <3> QED
      BY <1>4, <3>1, Identities DEF Top
  <2>2. Back(h, text, n)
    BY BuildLeads
  <2> HIDE DEF text
  <2>3. PICK segs : LeadsTo(h, segs, n) /\ Reads(Tokens(h), text, segs)
    BY <2>2 DEF Back
  <2>4. segs \in Seq(PlainSegs) /\ EvalSteps(h, <<Root>>, PlainSteps(segs)) = <<n>>
    BY <2>3 DEF LeadsTo
  <2>5. ParseSteps(segs).ok = TRUE /\ ParseSteps(segs).steps = PlainSteps(segs)
    BY <2>4, PlainSegsAre, PlainParsed
  <2>6. Len(segs) # 0
    <3>1. SUFFICES ASSUME Len(segs) = 0 PROVE FALSE
      OBVIOUS
    <3>2. PlainSteps(segs) = <<>>
      <4>1. 1 .. 0 = {}
        OBVIOUS
      <4>2. PlainSteps(segs) = [i \in {} |-> Step("child", segs[i])]
        BY <3>1, <4>1 DEF PlainSteps
      <4> QED
        BY <4>2
    <3>3. <<Root>> = <<n>>
      BY <2>4, <3>2, EvalNothing
    <3> QED
      BY <1>4, <3>3
  <2>7. Read(text) = <<[lead |-> "/", segs |-> segs]>>
    BY <2>3, <2>4, <2>6, ReadsBack
  <2> QED
    BY <1>1, <1>2, <2>1, <2>4, <2>5, <2>7, EvalOfOne
<1> QED
  BY <1>3, <1>4

LEMMA TidyNames ==
  ASSUME Tidy
  PROVE  PathRoundTrip
<1>1. /\ heap \in Heaps /\ Shaped(heap) /\ IsTree(heap, InTree) /\ ChildLinks(heap, InTree)
      /\ InTree \subseteq heap.used /\ heap.used \subseteq Node
  BY TidyIs DEF InTree
<1>2. ASSUME NEW n \in InTree, \A m \in Way(n) : OneWord(heap.label[m])
      PROVE  LeadsBack(n)
  <2>1. WordsTo(heap, InTree, n)
    BY <1>2 DEF WordsTo, WayTo, Way
  <2> QED
    BY <1>1, <2>1, PathNames DEF LeadsBack
<1> QED
  BY <1>2 DEF PathRoundTrip

(* Match reports paths that can be used, when every label on the way is one  *)
(* word: the text that buildPath joins for a node of the tree, cut again at  *)
(* its slashes, bars and brackets and evaluated, finds that node and no      *)
(* other, among however many siblings of its label, as long as no variable   *)
(* has kept a struct that Move or TextStore dropped.  For a label that holds *)
(* a mark, which Insert and lenses may give, MCOddLabel.cfg shows that       *)
(* no such thing holds.                                                      *)
THEOREM PathsName == Spec /\ DiscardedIsGarbage => []PathRoundTrip
<1>1. Init => Tidy
  BY InitTidy
<1>2. Tidy /\ [Next]_state /\ [Discarded \cap heap'.used = {}]_state => Tidy'
  BY TidyGarbage
<1>3. Tidy => PathRoundTrip
  BY TidyNames
<1> QED
  BY <1>1, <1>2, <1>3, PTL DEF Spec, DiscardedIsGarbage

(* A handle without variables needs no such premise. *)
THEOREM BarePathsName ==
  ASSUME VarName = {}
  PROVE  Spec => []PathRoundTrip
BY NothingHeld, PathsName, PTL

-----------------------------------------------------------------------------
(* What is found below a node stays found when the heap grows.               *)
LEMMA SproutHolds ==
  ASSUME NEW h \in Heaps, Shaped(h), NEW g, Sprouts(h, g)
  PROVE  Holds(h.used, h, g)
<1>1. h.used \subseteq g.used /\ h.used \subseteq Node
  BY DEF Sprouts, Heaps, Heap
<1>2. ASSUME NEW n \in h.used
      PROVE  /\ g.label[n] = h.label[n] /\ g.parent[n] = h.parent[n]
             /\ h.parent[n] # Nil => h.parent[n] \in h.used
  BY <1>1 DEF Sprouts, Extended, Shaped
<1>3. ASSUME NEW n \in h.used, NEW x, Under(h, n, x) PROVE x \in h.used /\ Under(g, n, x)
  BY <1>1, <1>3, UnderIs, OldKids
<1> QED
  BY <1>1, <1>2, <1>3 DEF Holds

LEMMA StillFound ==
  ASSUME NEW h \in Heaps, Shaped(h), NEW g \in Heaps, Shaped(g), NEW K, Holds(K, h, g), NEW b \in K,
         NEW sub, SegsOK(sub), Unconditional(sub)
  PROVE  AtSub(h, b, sub) \subseteq K \cap AtSub(g, b, sub)
<1>1. PICK n \in Nat : DOMAIN StepsAt(sub) = 1 .. n /\ \A k \in 1 .. n : Plain(StepsAt(sub)[k])
  BY UnconditionalSteps
<1> SUFFICES ASSUME NEW x \in AtSub(h, b, sub) PROVE x \in K /\ x \in AtSub(g, b, sub)
  OBVIOUS
<1>2. Listed(EvalSteps(h, <<b>>, StepsAt(sub)), x)
  BY AtSubIs
<1>3. x \in K /\ Listed(EvalSteps(g, <<b>>, StepsAt(sub)), x)
  BY <1>1, <1>2, EvalOn
<1> QED
  BY <1>3, AtSubIs

LEMMA FoundGrowing ==
  ASSUME NEW h \in Heaps, Shaped(h), NEW g, Sprouts(h, g), NEW b \in h.used,
         NEW sub, SegsOK(sub), Unconditional(sub)
  PROVE  AtSub(h, b, sub) \subseteq h.used \cap AtSub(g, b, sub)
<1>1. Holds(h.used, h, g)
  BY SproutHolds
<1> QED
  BY <1>1, StillFound DEF Sprouts

-----------------------------------------------------------------------------
(* The nodes that SetMultiple promises to cover below b, of a call that      *)
(* began with h, in a heap g it came to.                                     *)
CoversAt(h, b, sub, v, g) ==
  /\ \A n \in AtSub(h, b, sub) : g.value[n] = v
  /\ Downward(sub) => \E n \in AtSub(g, b, sub) : g.value[n] = v

LEMMA ValuesAll ==
  ASSUME NEW h \in Heaps, Shaped(h), NEW nodes \in Seq(h.used), NEW v \in Value
  PROVE  LET f == ValueLoop!Result(h, nodes, 0, v)
         IN  f \in Valuing(h, v) /\ \A i \in DOMAIN nodes : f.value[nodes[i]] = v
<1> DEFINE f == ValueLoop!Result(h, nodes, 0, v)
           l == Len(nodes)
           Q == [k \in 0 .. l |-> {g \in Valuing(h, v) : \A i \in 1 .. k : g.value[nodes[i]] = v}]
<1>1. l \in Nat /\ DOMAIN nodes = 1 .. l /\ \A k \in 1 .. l : nodes[k] \in h.used
  OBVIOUS
<1>2. ValueLoop!Stays(Valuing(h, v), h, nodes, 0, v)
  BY ValuesStay
<1>3. f \in Valuing(h, v)
  BY <1>2, ValueLoop!LoopKeeps
<1> HIDE DEF l, f
<1>4. h \in Q[0]
  BY <1>1, <1>2 DEF ValueLoop!Stays
<1>5. ASSUME NEW k \in 1 .. l, NEW g \in Valuing(h, v), g \in Q[k - 1]
      PROVE  ValueRound(0, v, g, nodes[k]) \in Q[k]
  <2> DEFINE e == ValueRound(0, v, g, nodes[k])
  <2>1. k \in 0 .. l /\ k - 1 \in 0 .. l /\ \A i \in 1 .. k : i \in 1 .. l /\ (i \in 1 .. (k - 1) \/ i = k)
    BY <1>1
  <2>2. e \in Valuing(h, v)
    BY <1>1, <1>2 DEF ValueLoop!Stays
  <2>3. \A i \in 1 .. (k - 1) : g.value[nodes[i]] = v
    BY <1>5, <2>1
  <2>4. \A m \in Node : e.value[m] = IF m = nodes[k] THEN v ELSE g.value[m]
    <3>1. g \in Heaps /\ Shaped(g) /\ nodes[k] \in g.used
      BY <1>1 DEF Valuing, Grown, Edited
    <3> QED
      BY <3>1, ValueSet DEF ValueRound
  <2>5. \A i \in 1 .. k : nodes[i] \in Node
    BY <1>1, <2>1 DEF Heaps, Heap
  <2> HIDE DEF e
  <2>6. \A i \in 1 .. k : e.value[nodes[i]] = v
    BY <2>1, <2>3, <2>4, <2>5
  <2> QED
    BY <2>1, <2>2, <2>6 DEF e
<1> HIDE DEF Q
<1>6. f \in Q[l]
  BY <1>1, <1>2, <1>4, <1>5, ValueLoop!LoopReaches DEF f
<1>7. \A i \in 1 .. l : f.value[nodes[i]] = v
  <2>1. l \in 0 .. l
    BY <1>1
  <2> QED
    BY <1>6, <2>1 DEF Q
<1> QED
  BY <1>1, <1>3, <1>7 DEF f

LEMMA SetAllHeap ==
  ASSUME NEW h \in Heaps, Shaped(h), NEW nodes \in Seq(h.used), NEW v \in Value,
         NEW acc \in [ok : BOOLEAN, heap : Heaps, count : Nat]
  PROVE  SetAll(acc, h, nodes, v).heap = ValueLoop!Result(h, nodes, 0, v)
<1>1. Seqs!FoldLeft(LAMBDA g, n : SetNodeValue(g, n, v), h, nodes) = ValueLoop!Result(h, nodes, 0, v)
  BY ValuesStay
<1> QED
  BY <1>1 DEF SetAll

(* Later rounds leave what earlier ones covered. *)
LEMMA CoversStill ==
  ASSUME NEW h \in Heaps, Shaped(h), NEW b \in h.used, NEW e, Sprouts(h, e), NEW g, Sprouts(e, g),
         NEW v, Revalued(e, v, g), NEW sub, SegsOK(sub), Unconditional(sub), CoversAt(h, b, sub, v, e)
  PROVE  CoversAt(h, b, sub, v, g)
<1>1. e \in Heaps /\ Shaped(e) /\ b \in e.used /\ h.used \subseteq Node /\ e.used \subseteq Node
  BY DEF Sprouts, Heaps, Heap
<1>2. AtSub(h, b, sub) \subseteq h.used
  BY FoundGrowing
<1>3. AtSub(e, b, sub) \subseteq e.used \cap AtSub(g, b, sub)
  BY <1>1, FoundGrowing
<1> QED
  BY <1>1, <1>2, <1>3 DEF CoversAt, Revalued

(* A round of SetMultiple covers the node it is about. *)
LEMMA CoversNow ==
  ASSUME NEW h \in Heaps, Shaped(h), NEW b \in h.used, NEW v \in Value,
         NEW sub, SegsOK(sub), MakesLabels(sub), Unconditional(sub),
         NEW acc \in Setting(h, v), acc.ok, Sprouts(h, acc.heap),
         NEW r, r = SettingRound(sub, v, acc, b), r.ok, Lost \notin r.heap.used
  PROVE  CoversAt(h, b, sub, v, r.heap) /\ Sprouts(acc.heap, r.heap) /\ Revalued(acc.heap, v, r.heap)
<1> DEFINE e == acc.heap
           found == EvalSteps(e, <<b>>, StepsAt(sub))
           c == CreateFrom(e, b, sub)
           set(g, nodes) == ValueLoop!Result(g, nodes, 0, v)
<1>1. /\ acc \in [ok : BOOLEAN, heap : Heaps, count : Nat]
      /\ e \in Heaps /\ Shaped(e) /\ b \in e.used /\ e.used \subseteq Node /\ ChildLinks(e, e.used)
  BY DEF Setting, Sprouts, Heaps, Heap
<1>2. found \in Seq(e.used) /\ \A x : x \in AtSub(e, b, sub) <=> Listed(found, x)
  <2>1. <<b>> \in Seq(e.used)
    BY <1>1, OneIs
  <2>2. Enclosed(e, e.used)
    BY <1>1 DEF Enclosed, Closed, ClosedUp, Shaped, Heaps, Heap
  <2> QED
    BY <1>1, <2>1, <2>2, StepsWithin, AtSubIs DEF StepsAt
<1>3. r = SetOne(acc, found, c, v)
  BY DEF SettingRound, StepsAt
<1>4. AtSub(h, b, sub) \subseteq AtSub(e, b, sub)
  BY FoundGrowing
<1>5. c \in Creating(e, b)
  BY <1>1, CreateFromIs DEF SegsOK
<1>6. CASE found # <<>>
  <2> DEFINE f == set(e, found)
  <2>1. r = SetAll(acc, e, found, v)
    BY <1>3, <1>6 DEF SetOne
  <2>2. r.heap = f
    BY <1>1, <1>2, <2>1, SetAllHeap
  <2>3. f \in Valuing(e, v) /\ \A i \in DOMAIN found : f.value[found[i]] = v
    BY <1>1, <1>2, ValuesAll
  <2> HIDE DEF f, found, e
  <2>4. Grown(e, f) /\ Revalued(e, v, f) /\ Lost \notin f.used
    BY <2>2, <2>3 DEF Valuing
  <2>5. Sprouts(e, f)
    BY <1>1, <2>4, GrownIs
  <2>6. \A n \in AtSub(e, b, sub) : f.value[n] = v
    BY <1>2, <2>3 DEF Listed
  <2>7. AtSub(e, b, sub) \subseteq AtSub(f, b, sub)
    BY <1>1, <2>5, FoundGrowing
  <2>8. \E n : n \in AtSub(e, b, sub)
    <3>1. 1 \in DOMAIN found
      BY <1>2, <1>6
    <3> QED
      BY <1>2, <3>1 DEF Listed
  <2> QED
    BY <1>4, <2>2, <2>4, <2>5, <2>6, <2>7, <2>8 DEF CoversAt, e
<1>7. CASE found = <<>> /\ c.ok
  <2> DEFINE f == set(c.heap, <<c.node>>)
  <2>1. r = SetAll(acc, c.heap, <<c.node>>, v)
    BY <1>3, <1>7 DEF SetOne
  <2>2. r.heap = f
    <3>1. c.heap \in Heaps /\ Shaped(c.heap) /\ c.node \in c.heap.used
      BY <1>1, <1>5 DEF Creating, Grown, Edited
    <3>2. <<c.node>> \in Seq(c.heap.used)
      BY <3>1, OneIs
    <3> QED
      BY <1>1, <2>1, <3>1, <3>2, SetAllHeap
  <2>3. /\ c.heap \in Heaps /\ Shaped(c.heap) /\ Grown(e, c.heap) /\ c.node \in c.heap.used /\ c.heap.value = e.value
        /\ b \in c.heap.used
    BY <1>1, <1>5 DEF Creating, Grown, Edited
  <2>4. f \in Valuing(c.heap, v) /\ f.value[c.node] = v
    <3>1. <<c.node>> \in Seq(c.heap.used)
      BY <2>3, OneIs
    <3>2. 1 \in DOMAIN <<c.node>> /\ <<c.node>>[1] = c.node
      OBVIOUS
    <3>3. f \in Valuing(c.heap, v) /\ \A i \in DOMAIN <<c.node>> : f.value[<<c.node>>[i]] = v
      BY <2>3, <3>1, ValuesAll
    <3> HIDE DEF f, c
    <3> QED
      BY <3>2, <3>3
  <2>5. \A x : x \notin AtSub(e, b, sub)
    <3>1. DOMAIN <<>> = {}
      OBVIOUS
    <3> QED
      BY <1>2, <1>7, <3>1 DEF Listed
  <2> HIDE DEF f, found, e
  <2>6. Grown(c.heap, f) /\ Revalued(c.heap, v, f) /\ Lost \notin f.used /\ f.used = c.heap.used
    BY <2>2, <2>4 DEF Valuing
  <2>7. Sprouts(e, c.heap)
    BY <1>1, <2>3, <2>6, GrownIs
  <2>8. Sprouts(c.heap, f)
    BY <2>3, <2>6, <2>7, GrownIs DEF Sprouts
  <2>9. Sprouts(e, f)
    <3>1. Edited(e, c.heap) /\ Edited(c.heap, f)
      BY <2>3, <2>6 DEF Grown
    <3>2. Grown(e, f)
      BY <1>1, <2>3, <2>6, <3>1, EditedTwice
    <3> QED
      BY <1>1, <2>6, <3>2, GrownIs
  <2>10. Revalued(e, v, f)
    BY <2>3, <2>6 DEF Revalued
  <2>11. ASSUME Downward(sub) PROVE c.node \in AtSub(f, b, sub)
    <3>1. Listed(EvalSteps(c.heap, <<b>>, StepsAt(sub)), c.node)
      BY <1>1, <1>7, <2>6, <2>11, CreateFound DEF StepsAt, e
    <3>2. c.node \in AtSub(c.heap, b, sub)
      BY <3>1, AtSubIs
    <3> QED
      BY <2>3, <2>8, <3>2, FoundGrowing
  <2> QED
    BY <1>4, <2>2, <2>4, <2>5, <2>9, <2>10, <2>11 DEF CoversAt, e
<1>8. CASE found = <<>> /\ ~c.ok
  <2>1. r = [acc EXCEPT !.ok = FALSE, !.heap = c.heap]
    BY <1>3, <1>8 DEF SetOne
  <2>2. ~r.ok
    BY <1>1, <2>1
  <2> QED
    BY <2>2
<1> QED
  BY <1>6, <1>7, <1>8

(* A round takes nothing out of use. *)
LEMMA RoundGrows ==
  ASSUME NEW h \in Heaps, Shaped(h), NEW b \in h.used, NEW v \in Value,
         NEW sub, SegsOK(sub), MakesLabels(sub),
         NEW acc \in Setting(h, v), acc.ok, NEW r, r = SettingRound(sub, v, acc, b), r.ok
  PROVE  acc.heap.used \subseteq r.heap.used
<1> DEFINE e == acc.heap
           found == EvalSteps(e, <<b>>, StepsAt(sub))
           c == CreateFrom(e, b, sub)
<1>1. /\ acc \in [ok : BOOLEAN, heap : Heaps, count : Nat]
      /\ e \in Heaps /\ Shaped(e) /\ b \in e.used /\ e.used \subseteq Node
  BY DEF Setting, Grown, Edited, Heaps, Heap
<1>2. found \in Seq(e.used)
  <2>1. <<b>> \in Seq(e.used)
    BY <1>1, OneIs
  <2>2. Enclosed(e, e.used)
    BY <1>1 DEF Enclosed, Closed, ClosedUp, Shaped, Heaps, Heap
  <2> QED
    BY <1>1, <2>1, <2>2, StepsWithin DEF StepsAt
<1>3. r = SetOne(acc, found, c, v)
  BY DEF SettingRound, StepsAt
<1>4. /\ c.heap \in Heaps /\ Shaped(c.heap) /\ e.used \subseteq c.heap.used /\ c.node \in c.heap.used
  <2>1. c \in Creating(e, b)
    BY <1>1, CreateFromIs DEF SegsOK
  <2> QED
    BY <2>1 DEF Creating, Grown, Edited
<1>5. ASSUME NEW g \in Heaps, Shaped(g), NEW nodes \in Seq(g.used), r = SetAll(acc, g, nodes, v)
      PROVE  r.heap.used = g.used
  <2>1. r.heap = ValueLoop!Result(g, nodes, 0, v)
    BY <1>1, <1>5, SetAllHeap
  <2>2. ValueLoop!Result(g, nodes, 0, v) \in Valuing(g, v)
    BY <1>5, ValuesAll
  <2> QED
    BY <2>1, <2>2 DEF Valuing
<1>6. CASE found # <<>>
  <2>1. r = SetAll(acc, e, found, v)
    BY <1>3, <1>6 DEF SetOne
  <2>2. r.heap.used = e.used
    BY <1>1, <1>2, <1>5, <2>1
  <2> QED
    BY <2>2
<1>7. CASE found = <<>> /\ c.ok
  <2>1. r = SetAll(acc, c.heap, <<c.node>>, v)
    BY <1>3, <1>7 DEF SetOne
  <2>2. <<c.node>> \in Seq(c.heap.used)
    BY <1>4, OneIs
  <2>3. r.heap.used = c.heap.used
    BY <1>4, <1>5, <2>1, <2>2
  <2> QED
    BY <1>4, <2>3
<1>8. CASE found = <<>> /\ ~c.ok
  <2>1. r = [acc EXCEPT !.ok = FALSE, !.heap = c.heap]
    BY <1>3, <1>8 DEF SetOne
  <2>2. ~r.ok
    BY <1>1, <2>1
  <2> QED
    BY <2>2
<1> QED
  BY <1>6, <1>7, <1>8

(* SetMultiple covers every base. *)
LEMMA SetEachCovers ==
  ASSUME NEW h \in Heaps, Shaped(h), ChildLinks(h, h.used), NEW bases \in Seq(h.used), NEW v \in Value,
         NEW sub, SegsOK(sub), MakesLabels(sub), Unconditional(sub),
         NEW r, r = SetEach(h, bases, sub, v), r.ok, Lost \notin r.heap.used
  PROVE  Sprouts(h, r.heap) /\ \A i \in DOMAIN bases : CoversAt(h, bases[i], sub, v, r.heap)
<1> DEFINE start == [ok |-> TRUE, heap |-> h, count |-> 0]
           l == Len(bases)
           Done(acc, k) == \A i \in 1 .. k : CoversAt(h, bases[i], sub, v, acc.heap)
           Q == [k \in 0 .. l |-> {acc \in Setting(h, v) : acc.ok /\ Lost \notin acc.heap.used => Done(acc, k)}]
<1>1. l \in Nat /\ DOMAIN bases = 1 .. l /\ \A k \in 1 .. l : bases[k] \in h.used
  OBVIOUS
<1>2. r = SettingLoop!Result(start, bases, sub, v) /\ SettingLoop!Stays(Setting(h, v), start, bases, sub, v)
  BY SetEachStays
<1>3. r \in Setting(h, v)
  BY SetEachIs
<1> HIDE DEF l, start
<1>4. start \in Q[0]
  <2>1. start \in Setting(h, v)
    BY <1>2 DEF SettingLoop!Stays
  <2> QED
    BY <1>1, <2>1
<1>5. ASSUME NEW k \in 1 .. l, NEW acc \in Setting(h, v), acc \in Q[k - 1]
      PROVE  SettingRound(sub, v, acc, bases[k]) \in Q[k]
  <2> DEFINE e == SettingRound(sub, v, acc, bases[k])
             b == bases[k]
  <2>1. k \in 0 .. l /\ k - 1 \in 0 .. l /\ \A i \in 1 .. k : i \in 1 .. l /\ (i \in 1 .. (k - 1) \/ i = k)
    BY <1>1
  <2>2. e \in Setting(h, v) /\ b \in h.used
    BY <1>1, <1>2 DEF SettingLoop!Stays
  <2>3. acc.ok /\ Lost \notin acc.heap.used => Done(acc, k - 1)
    BY <1>5, <2>1
  <2> HIDE DEF Done
  <2>4. ASSUME e.ok, Lost \notin e.heap.used PROVE Done(e, k)
    <3>1. acc.ok
      <4>1. CASE ~acc.ok
        BY <2>4, <4>1 DEF SettingRound
      <4> QED
        BY <4>1
    <3> HIDE DEF e, b
    <3>2. acc.heap.used \subseteq e.heap.used
      BY <2>2, <2>4, <3>1, RoundGrows DEF e, b
    <3>3. Lost \notin acc.heap.used /\ Grown(h, acc.heap)
      BY <2>4, <3>2 DEF Setting
    <3>4. Sprouts(h, acc.heap)
      BY <3>3, GrownIs
    <3>5. /\ CoversAt(h, b, sub, v, e.heap) /\ Sprouts(acc.heap, e.heap) /\ Revalued(acc.heap, v, e.heap)
      BY <2>2, <2>4, <3>1, <3>4, CoversNow DEF e, b
    <3>6. ASSUME NEW i \in 1 .. (k - 1) PROVE CoversAt(h, bases[i], sub, v, e.heap)
      <4>1. bases[i] \in h.used
        BY <1>1, <2>1
      <4>2. CoversAt(h, bases[i], sub, v, acc.heap)
        BY <2>3, <3>1, <3>3, <3>6 DEF Done
      <4> QED
        BY <3>4, <3>5, <4>1, <4>2, CoversStill
    <3> QED
      BY <2>1, <3>5, <3>6 DEF Done, b
  <2> HIDE DEF e
  <2> QED
    BY <2>1, <2>2, <2>4 DEF e
<1> HIDE DEF Q
<1>6. SettingLoop!Result(start, bases, sub, v) \in Q[l]
  BY <1>1, <1>2, <1>4, <1>5, SettingLoop!LoopReaches
<1>7. \A i \in 1 .. l : CoversAt(h, bases[i], sub, v, r.heap)
  <2>1. l \in 0 .. l
    BY <1>1
  <2> QED
    BY <1>2, <1>6, <2>1 DEF Q
<1>8. Sprouts(h, r.heap)
  BY <1>3, GrownIs DEF Setting
<1> QED
  BY <1>1, <1>7, <1>8

(* What the collector keeps of the nodes a call began with. *)
LEMMA KeptEnclosed ==
  ASSUME NEW h \in Heaps, Shaped(h), NEW g, Sprouts(h, g), NEW f \in Heaps, Shaped(f), KeptOf(g, f)
  PROVE  Enclosed(h, h.used \cap f.used)
<1> DEFINE K == h.used \cap f.used
<1>1. /\ h.used \subseteq Node /\ \A n \in h.used : h.len[n] \in Nat /\ g.len[n] \in Nat /\ h.len[n] <= g.len[n]
      /\ \A n \in h.used : g.parent[n] = h.parent[n] /\ \A i \in 1 .. h.len[n] : Kid(g, n, i) = Kid(h, n, i)
  BY DEF Sprouts, Extended, Heaps, Heap
<1>2. \A n \in h.used : \A i \in 1 .. h.len[n] : Kid(h, n, i) \in h.used
  BY <1>1 DEF Shaped
<1>3. \A n \in h.used : h.parent[n] # Nil => h.parent[n] \in h.used
  BY <1>1 DEF Shaped
<1>4. \A n \in h.used : \A i \in 1 .. h.len[n] : i \in 1 .. g.len[n]
  BY <1>1
<1>5. Closed(h, K)
  BY <1>1, <1>2, <1>4 DEF Closed, KeptOf
<1>6. ClosedUp(h, K)
  BY <1>1, <1>3 DEF ClosedUp, KeptOf
<1> QED
  BY <1>5, <1>6 DEF Enclosed

LEMMA KeptHolds ==
  ASSUME NEW g \in Heaps, Shaped(g), NEW f \in Heaps, KeptOf(g, f)
  PROVE  Holds(f.used, g, f)
<1>1. /\ f.used \subseteq g.used
      /\ \A n \in f.used : /\ f.label[n] = g.label[n] /\ f.parent[n] = g.parent[n] /\ f.len[n] = g.len[n]
                           /\ g.parent[n] # Nil => g.parent[n] \in f.used
                           /\ \A i \in 1 .. g.len[n] : Kid(f, n, i) = Kid(g, n, i) /\ Kid(g, n, i) \in f.used
  BY DEF KeptOf, KeptAs, Closed, ClosedUp
<1>2. \A n \in f.used : \A x : Under(g, n, x) => x \in f.used /\ Under(f, n, x)
  BY <1>1 DEF Under
<1> QED
  BY <1>1, <1>2 DEF Holds

LEMMA SetMultipleExactly ==
  ASSUME Tidy, NEW base, PathOK(base), NEW sub, SegsOK(sub), MakesLabels(sub), NEW v \in Value,
         SetMultiple(base, sub, v), ~call'.err, Unconditional(sub)
  PROVE  /\ call'.of = <<"SetMultiple", base, sub, v>>
         /\ \A b \in Seqs!ToSet(Matches(base).nodes) : CoversAt(heap, b, sub, v, heap')
<1> DEFINE m == Matches(base)
           r == SetEach(heap, m.nodes, sub, v)
           of == <<"SetMultiple", base, sub, v>>
           K == heap.used \cap heap'.used
<1>1. /\ heap \in Heaps /\ Shaped(heap) /\ Bound(heap.used, vars) /\ Typed
      /\ ChildLinks(heap, heap.used) /\ Root \in heap.used /\ heap.used \subseteq Node
  BY TidyIs DEF Typed
<1>2. m.nodes \in Seq(heap.used)
  BY <1>1, MatchesAre
<1>a. m = Eval(heap, vars, base)
  BY DEF Matches
<1> HIDE DEF m
<1>3. r \in Setting(heap, v)
  BY <1>1, <1>2, SetEachIs
<1>4. Return(of, r.heap, vars, ~r.ok, r.count)
  <2>1. ASSUME Fail(of, 0) PROVE FALSE
    BY <2>1 DEF Fail, Return
  <2> HIDE DEF r, of
  <2> QED
    BY <2>1 DEF SetMultiple, m, r, of
<1>5. r.ok /\ Lost \notin r.heap.used /\ call'.of = of /\ heap' = Collected(r.heap, Held(vars))
  <2>1. call' = [of |-> of, err |-> ~r.ok, ret |-> r.count] /\ Lost \notin r.heap.used
        /\ heap' = Collected(r.heap, Held(vars))
    BY <1>4 DEF Return
  <2>2. r.ok \in BOOLEAN
    BY <1>3 DEF Setting
  <2> HIDE DEF r, of
  <2> QED
    BY <2>1, <2>2
<1>6. Sprouts(heap, r.heap) /\ \A i \in DOMAIN m.nodes : CoversAt(heap, m.nodes[i], sub, v, r.heap)
  BY <1>1, <1>2, <1>5, SetEachCovers
<1> HIDE DEF r, of
<1>7. Held(vars) \subseteq heap'.used /\ heap' \in Heaps /\ Shaped(heap') /\ KeptOf(r.heap, heap')
      /\ Held(vars) \subseteq heap.used
  <2>1. Held(vars) \in SUBSET heap.used
    BY <1>1, HeldIs
  <2>2. Held(vars) \in SUBSET r.heap.used /\ r.heap \in Heaps /\ Shaped(r.heap)
    BY <1>6, <2>1 DEF Sprouts
  <2> QED
    BY <1>5, <2>1, <2>2, CollectedHeap
<1>8. Enclosed(heap, K) /\ Root \in K
  BY <1>1, <1>6, <1>7, KeptEnclosed DEF KeptOf
<1>9. Bound(K, vars)
  BY <1>1, <1>7, BoundWithin
<1>10. m.nodes \in Seq(K)
  <2>1. LeadsWithin(K, vars, base)
    BY <1>8, <1>9 DEF LeadsWithin, Bound
  <2>2. Answered(K, Eval(heap, vars, base))
    BY <1>1, <1>8, <2>1, EvalWithin
  <2> QED
    BY <1>a, <2>2 DEF Answered
<1>11. ASSUME NEW i \in DOMAIN m.nodes PROVE CoversAt(heap, m.nodes[i], sub, v, heap')
  <2> DEFINE b == m.nodes[i]
             g == r.heap
  <2>1. b \in K /\ b \in heap.used /\ b \in heap'.used
    BY <1>10
  <2>2. CoversAt(heap, b, sub, v, g)
    BY <1>6
  <2>3. g \in Heaps /\ Shaped(g) /\ heap' \in Heaps /\ Shaped(heap') /\ KeptOf(g, heap')
    BY <1>6, <1>7 DEF Sprouts
  <2> HIDE DEF b, g, K
  <2>4. AtSub(heap, b, sub) \subseteq K
    <3>1. <<b>> \in Seq(K)
      BY <2>1, OneIs
    <3>2. EvalSteps(heap, <<b>>, ParseSteps(sub).steps) \in Seq(K)
      BY <1>1, <1>8, <3>1, StepsWithin
    <3>3. \A x : x \in AtSub(heap, b, sub) <=> Listed(EvalSteps(heap, <<b>>, StepsAt(sub)), x)
      BY AtSubIs
    <3> QED
      BY <3>2, <3>3 DEF StepsAt, Listed
  <2>5. \A n \in heap'.used : heap'.value[n] = g.value[n]
    BY <2>3 DEF KeptOf, KeptAs
  <2>6. AtSub(g, b, sub) \subseteq heap'.used \cap AtSub(heap', b, sub)
    BY <2>1, <2>3, KeptHolds, StillFound
  <2> QED
    BY <2>2, <2>4, <2>5, <2>6 DEF CoversAt, b, K
<1> QED
  BY <1>5, <1>11 DEF of, m, Seqs!ToSet

(* When SetMultiple returns no error every base is covered: what was at sub  *)
(* below it carries the value, and something at sub below it does, as long   *)
(* as sub can be created and no struct that Move or TextStore dropped is     *)
(* still held.                                                               *)
THEOREM SetMultipleCorrect ==
  Spec /\ DiscardedIsGarbage => SetMultipleCovers
<1>1. Init => Tidy
  BY InitTidy
<1>2. Tidy /\ [Next]_state /\ [Discarded \cap heap'.used = {}]_state => Tidy'
  BY TidyGarbage
<1>3. ASSUME Tidy, Next, Succeeded("SetMultiple"), Unconditional(call'.of[3])
      PROVE  \A b \in Seqs!ToSet(Matches(call'.of[2]).nodes) :
               /\ \A n \in AtSub(heap, b, call'.of[3]) : heap'.value[n] = call'.of[4]
               /\ Downward(call'.of[3])
                    => \E n \in AtSub(heap', b, call'.of[3]) : heap'.value[n] = call'.of[4]
  <2>1. call'.of[1] = "SetMultiple" /\ ~call'.err
    BY <1>3 DEF Succeeded
  <2>2. ASSUME NEW c, NEW d, call'.of \in {<<"Remove", c>>, <<"Move", c, d>>, <<"TextStore", c, d>>}
        PROVE  FALSE
    BY <2>1, <2>2
  <2>3. PICK c \in SubPairs, v \in Value : SetMultiple(c[1], c[2], v) /\ call'.of = <<"SetMultiple", c[1], c[2], v>>
    BY <1>3, <2>1, <2>2, Taking
  <2>4. PathOK(c[1]) /\ SegsOK(c[2]) /\ MakesLabels(c[2])
    BY <2>3, InputAssumption
  <2>5. call'.of[2] = c[1] /\ call'.of[3] = c[2] /\ call'.of[4] = v
    BY <2>3
  <2>6. \A b \in Seqs!ToSet(Matches(c[1]).nodes) : CoversAt(heap, b, c[2], v, heap')
    BY <1>3, <2>1, <2>3, <2>4, <2>5, SetMultipleExactly
  <2> QED
    BY <2>5, <2>6 DEF CoversAt
<1>4. Tidy /\ [Next]_state
        => [Succeeded("SetMultiple") /\ Unconditional(call'.of[3]) =>
              \A b \in Seqs!ToSet(Matches(call'.of[2]).nodes) :
                /\ \A n \in AtSub(heap, b, call'.of[3]) : heap'.value[n] = call'.of[4]
                /\ Downward(call'.of[3])
                     => \E n \in AtSub(heap', b, call'.of[3]) : heap'.value[n] = call'.of[4]]_state
  BY <1>3
<1> QED
  BY <1>1, <1>2, <1>4, PTL DEF Spec, DiscardedIsGarbage, SetMultipleCovers

-----------------------------------------------------------------------------
(* What Move leaves of the subtree below its source.                         *)
AncestorRound(h, q, T, k) == T \cup ({h.parent[m] : m \in T} \ {Nil})
AncestorRounds == INSTANCE Loops WITH Body <- AncestorRound

(* isDescendant says no: no climb from n comes by anc.                       *)
LEMMA NoAncestor ==
  ASSUME NEW h \in Heaps, Shaped(h), NEW n \in h.used, NEW anc, ~IsDescendant(h, n, anc)
  PROVE  \E A \in SUBSET h.used : ClosedUp(h, A) /\ (h.parent[n] # Nil => h.parent[n] \in A) /\ anc \notin A
<1> DEFINE N == Cardinality(Node)
           u == Cardinality(h.used)
           S == {h.parent[n]} \ {Nil}
           A == AncestorRounds!Rounds(S, N, h, 0)[u]
<1>1. h.used \in SUBSET Node /\ S \in SUBSET h.used
  BY DEF Heaps, Heap, Shaped
<1>2. anc \notin A
  BY DEF IsDescendant, AncestorRounds!Rounds, AncestorRounds!IsRounds, AncestorRound
<1>3. AncestorRounds!Measured(h.used, u) /\ u \in 0 .. N /\ N \in Nat
  BY <1>1, UsedMeasured DEF AncestorRounds!Measured, BelowRounds!Measured
<1>4. AncestorRounds!Grows(h.used, S, N, h, 0)
  <2>1. \A T \in SUBSET h.used : {h.parent[m] : m \in T} \ {Nil} \subseteq h.used
    BY <1>1 DEF Shaped
  <2> QED
    BY <1>1, <2>1 DEF AncestorRounds!Grows, AncestorRound
<1> HIDE DEF N, u, S, A
<1>5. AncestorRounds!Settled(A, h.used, S, h, 0)
  BY <1>3, <1>4, AncestorRounds!RoundsSettle DEF A
<1>6. A \in SUBSET h.used /\ S \subseteq A /\ A \cup ({h.parent[m] : m \in A} \ {Nil}) = A
  BY <1>5 DEF AncestorRounds!Settled, AncestorRound
<1>7. ClosedUp(h, A)
  BY <1>6 DEF ClosedUp
<1> QED
  BY <1>2, <1>6, <1>7 DEF S

LEMMA NotBelow ==
  ASSUME NEW h \in Heaps, Shaped(h), ChildLinks(h, h.used), NEW s \in h.used, NEW d \in h.used,
         d # s, ~IsDescendant(h, d, s)
  PROVE  d \notin Below(h, {s})
<1> DEFINE B == Below(h, {s})
<1>1. PICK A \in SUBSET h.used : ClosedUp(h, A) /\ (h.parent[d] # Nil => h.parent[d] \in A) /\ s \notin A
  BY NoAncestor
<1>2. /\ B \in SUBSET h.used /\ {s} \subseteq B /\ Closed(h, B)
      /\ \A R \in SUBSET h.used : {s} \subseteq R /\ Closed(h, R) => B \subseteq R
  BY BelowIs DEF Heaps
<1> HIDE DEF B
<1>3. Closed(h, B \ (A \cup {d}))
  <2> SUFFICES ASSUME NEW m \in B \ (A \cup {d}), NEW n, Under(h, m, n) PROVE n \in B \ (A \cup {d})
    BY ClosedIs
  <2>1. n \in B /\ h.parent[n] = m /\ m # Nil
    <3>1. m \in h.used /\ m \in Node
      BY <1>2 DEF Heaps, Heap
    <3> QED
      BY <1>2, <3>1, ClosedIs, UnderParent, Identities
  <2> QED
    BY <1>1, <2>1 DEF ClosedUp
<1>4. B \subseteq B \ (A \cup {d})
  BY <1>1, <1>2, <1>3
<1> QED
  BY <1>4 DEF B

KidsKept(h, g, n) == g.len[n] = h.len[n] /\ \A i \in 1 .. h.len[n] : Kid(g, n, i) = Kid(h, n, i)

LEMMA SameChildren ==
  ASSUME NEW h \in Heaps, Shaped(h), NEW g \in Heaps, Shaped(g), NEW n \in Node, KidsKept(h, g, n)
  PROVE  Children(g, n) = Children(h, n)
<1>1. ASSUME NEW f \in Heaps, Shaped(f) PROVE Children(f, n) = [i \in 1 .. f.len[n] |-> Kid(f, n, i)]
  <2>1. /\ Children(f, n) \in Seq(f.used) /\ DOMAIN Children(f, n) = 1 .. f.len[n]
        /\ \A i \in 1 .. f.len[n] : Children(f, n)[i] = Kid(f, n, i)
    BY <1>1, ChildrenAre DEF Heaps
  <2>2. Children(f, n) = [i \in DOMAIN Children(f, n) |-> Children(f, n)[i]]
    BY <2>1
  <2> QED
    BY <2>1, <2>2
<1> QED
  BY <1>1 DEF KidsKept

LEMMA KidsRemoved ==
  ASSUME NEW e \in Heaps, Shaped(e), ChildLinks(e, e.used), NEW s \in e.used, e.parent[s] # Nil,
         NEW f, f = RemoveChild(e, e.parent[s], s), NEW m \in e.used, m # e.parent[s]
  PROVE  KidsKept(e, f, m)
<1> DEFINE p == e.parent[s]
<1>1. p \in e.used /\ m \in Node /\ p \in Node
  BY DEF Shaped, Heaps, Heap
<1>2. f = e \/ ChildRemoved(e, p, s, IndexOf(e, p, s), f)
  BY <1>1, RemoveChildIs DEF Heaps
<1>3. CASE f = e
  BY <1>3 DEF KidsKept
<1>4. CASE ChildRemoved(e, p, s, IndexOf(e, p, s), f)
  <2>1. f.len[m] = e.len[m] /\ (e.arr[m] # e.arr[p] => \A i : Kid(f, m, i) = Kid(e, m, i))
    BY <1>1, <1>4 DEF ChildRemoved
  <2>2. e.arr[m] = e.arr[p] => e.len[m] = 0
    <3>1. e.arr[m] = e.arr[p] => e.arr[m] = Nil
      BY <1>1 DEF ChildLinks
    <3>2. e.arr[m] = Nil => e.len[m] = 0
      BY <1>1 DEF Shaped, Heaps, Heap
    <3> QED
      BY <3>1, <3>2
  <2> QED
    BY <2>1, <2>2 DEF KidsKept
<1> QED
  BY <1>2, <1>3, <1>4

(* Nothing new hangs in it. *)
LEMMA SubtreeGrown ==
  ASSUME NEW h \in Heaps, Shaped(h), ChildLinks(h, h.used), NEW e, Sprouts(h, e), NEW s \in h.used,
         NEW B, B = Below(e, {s}), B \subseteq h.used
  PROVE  Below(h, {s}) \subseteq B /\ \A n \in B : KidsKept(h, e, n)
<1>1. /\ e \in Heaps /\ Shaped(e) /\ ChildLinks(e, e.used) /\ h.used \subseteq e.used
      /\ h.used \subseteq Node /\ {s} \in SUBSET e.used /\ {s} \in SUBSET h.used
  BY DEF Sprouts, Heaps, Heap
<1>2. s \in B /\ \A m \in B : \A n : Under(e, m, n) => n \in B
  BY <1>1, BelowLinks
<1>3. Below(h, {s}) \subseteq B
  <2>1. Closed(h, B)
    <3> SUFFICES ASSUME NEW m \in B, NEW n, Under(h, m, n) PROVE n \in B
      BY ClosedIs
    <3>1. m \in Node /\ n \in h.used
      BY <1>1, UnderIs
    <3> QED
      BY <1>2, <3>1, OldKids
  <2>2. \A R \in SUBSET h.used : {s} \subseteq R /\ Closed(h, R) => Below(h, {s}) \subseteq R
    BY <1>1, BelowIs DEF Heaps
  <2> QED
    BY <1>2, <2>1, <2>2
<1>4. ASSUME NEW n \in B PROVE KidsKept(h, e, n)
  <2>1. /\ h.len[n] \in Nat /\ e.len[n] \in Nat /\ h.len[n] <= e.len[n]
        /\ \A i \in 1 .. h.len[n] : Kid(e, n, i) = Kid(h, n, i)
        /\ \A i \in h.len[n] + 1 .. e.len[n] : Kid(e, n, i) \notin h.used
    BY <1>1 DEF Sprouts, Extended, Heaps, Heap
  <2>2. e.len[n] = h.len[n]
    <3> SUFFICES ASSUME h.len[n] < e.len[n] PROVE FALSE
      BY <2>1
    <3>1. e.len[n] \in 1 .. e.len[n] /\ e.len[n] \in h.len[n] + 1 .. e.len[n]
      BY <2>1
    <3>2. Under(e, n, Kid(e, n, e.len[n]))
      BY <3>1 DEF Under
    <3> QED
      BY <1>2, <2>1, <3>1, <3>2
  <2> QED
    BY <2>1, <2>2 DEF KidsKept
<1> QED
  BY <1>3, <1>4

LEMMA SubtreeMoved ==
  ASSUME Tidy, NEW e, NEW d, Destination(e, d), NEW s \in heap.live \ {Root},
         d \notin Below(e, {s}), d \in heap.used => d \in heap.live,
         NEW g, g = Transfer(e, s, d), Shows(g)
  PROVE  \A n \in Below(heap, {s}) \ {s} :
           /\ n \in heap'.live /\ heap'.label[n] = heap.label[n] /\ heap'.value[n] = heap.value[n]
           /\ Children(heap', n) = Children(heap, n)
<1> DEFINE h == heap
           R == Below(e, {Root})
           B == Below(e, {s})
           X == R \ heap.live
           k == DropChildren(e, d)
           S == Below(k, {Root})
           f == RemoveChild(e, e.parent[s], s)
<1>1. /\ h \in Heaps /\ Shaped(h) /\ ChildLinks(h, h.used) /\ h.used \subseteq Node /\ h.live \subseteq h.used
      /\ IsTree(h, h.live) /\ s \in h.used /\ s # Root
  BY TidyIs
<1>2. /\ e \in Heaps /\ Shaped(e) /\ Linked(e) /\ ChildLinks(e, e.used) /\ Sprouts(h, e) /\ e.value = h.value
      /\ d \in e.used /\ h.used \subseteq e.used /\ e.used \subseteq Node /\ s \in e.used
      /\ e.parent[s] = h.parent[s] /\ \A n \in h.used : e.label[n] = h.label[n]
      /\ d \notin h.used => Landed(h, Root, e, d)
      /\ d \in h.used => e = h
  BY <1>1 DEF Destination, Sprouts, Extended, Linked, Heaps, Heap
<1> HIDE DEF h, R, B, X, k, S, f
<1>3. IsTree(e, R) /\ h.live \subseteq R
  <2>1. IsTree(e, R)
    BY <1>2, BelowIsTree DEF R
  <2>2. IsTree(h, h.live) /\ ChildLinks(h, h.used) /\ Sprouts(h, e)
    BY <1>1, <1>2
  <2>3. h.live \subseteq R
    BY <1>1, <2>1, <2>2, GrownTree
  <2> QED
    BY <2>1, <2>3
<1>4. s \in R \ {Root}
  BY <1>1, <1>3 DEF h
<1>5. Subtree(e, R, s, B)
  BY <1>2, <1>3, <1>4, SubtreeIs DEF B
<1>6. d \in R \ B
  <2>1. CASE d \in h.used
    BY <1>3, <2>1 DEF B, h
  <2>2. CASE d \notin h.used
    <3>1. R \in SUBSET e.used /\ Closed(e, R) /\ Root \in R
      BY <1>3 DEF IsTree
    <3>2. Landed(h, Root, e, d)
      BY <1>2, <2>2
    <3>3. d \in R
      BY <1>1, <3>1, <3>2 DEF Landed
    <3> QED
      BY <3>3 DEF B
  <2> QED
    BY <2>1, <2>2
<1>7. B \subseteq h.live
  <2>1. MadeFor(e, R, B, X, d)
    BY <1>3, <1>5, MadeForIs DEF X
  <2>2. X \cap B = {}
    BY <1>6, <2>1 DEF MadeFor
  <2> QED
    BY <1>5, <2>2 DEF Subtree, X, h
<1>8. Below(h, {s}) \subseteq B /\ \A n \in B : KidsKept(h, e, n)
  BY <1>1, <1>2, <1>7, SubtreeGrown DEF B
<1>9. e.parent[s] # Nil /\ e.parent[s] \notin B
  <2>1. h.parent[s] \in h.live /\ Nil \notin Node
    BY <1>1, LinksWithin, TreeLinks, Identities DEF h
  <2> QED
    BY <1>1, <1>2, <1>5, <2>1 DEF Subtree
<1>10. Transferred(e, s, d, f, g)
  BY <1>1, <1>2, <1>9, TransferFields DEF f
<1>11. k \in Heaps /\ Shaped(k)
  BY <1>2, DropChildrenIs DEF k, Heaps
<1>12. heap'.live = (S \cup B) \ {s}
  <2>1. IsTree(k, S) /\ IsTree(g, heap'.live)
    BY <1>11, BelowIsTree DEF S, Shows
  <2> QED
    BY <1>2, <1>3, <1>4, <1>6, <1>9, <2>1, MovedTree DEF B, k
<1>13. ASSUME NEW n \in B \ {s}
       PROVE  /\ n \in heap'.live /\ heap'.label[n] = h.label[n] /\ heap'.value[n] = h.value[n]
              /\ Children(heap', n) = Children(h, n)
  <2>1. n \in heap'.live /\ n \in heap'.used /\ n \in h.used /\ n \in Node /\ n # d /\ n \in e.used
    BY <1>1, <1>2, <1>6, <1>7, <1>12, <1>13 DEF Shows
  <2>2. f.label = e.label /\ f.value = e.value /\ g.label = e.label /\ g.value[n] = f.value[n] /\ KidsKept(f, g, n)
    BY <1>10, <2>1 DEF Transferred, TookOver, KidsKept
  <2>3. KidsKept(e, f, n) /\ KidsKept(h, e, n)
    BY <1>2, <1>8, <1>9, <1>13, <2>1, KidsRemoved DEF f
  <2>4. heap'.label[n] = g.label[n] /\ heap'.value[n] = g.value[n] /\ KidsKept(g, heap', n)
    BY <2>1 DEF Shows, KeptOf, KeptAs, KidsKept
  <2>5. KidsKept(h, heap', n)
    BY <2>2, <2>3, <2>4 DEF KidsKept
  <2>6. Children(heap', n) = Children(h, n)
    BY <1>1, <2>1, <2>5, SameChildren DEF Shows
  <2> QED
    BY <1>2, <2>1, <2>2, <2>4, <2>6
<1> QED
  BY <1>8, <1>13 DEF h

(* What a Move that succeeds finds at its destination is in the tree (a      *)
(* variable may hold a node that is not), and what createPath makes for it   *)
(* is not below the source: Move refuses a destination there only when it    *)
(* finds one.                                                                *)
FindsWithin ==
  LET m == Matches(call'.of[3])
  IN  Succeeded("Move") /\ Len(m.nodes) = 1 => m.nodes[1] \in InTree

CreatesOutside ==
  LET s == MoveSource(Matches(call'.of[2]))
      m == Matches(call'.of[3])
      c == CreatePath(heap, call'.of[3])
  IN  Succeeded("Move") /\ Len(m.nodes) # 1 => c.node \notin Below(c.heap, {s})

LEMMA SubtreeKept ==
  ASSUME Tidy, NEW src, PathOK(src), NEW dst, PathOK(dst), MakesLabels(dst[1].segs), Move(src, dst),
         call'.of = <<"Move", src, dst>>, ~call'.err, MovesWithin, FindsWithin, CreatesOutside
  PROVE  LET s == MoveSource(Matches(call'.of[2]))
         IN  \A n \in Below(heap, {s}) \ {s} :
               /\ n \in InTree'
               /\ heap'.label[n] = heap.label[n]
               /\ heap'.value[n] = heap.value[n]
               /\ Kids(n)' = Kids(n)
<1> DEFINE of == <<"Move", src, dst>>
           s == MoveSource(Matches(src))
           m == Matches(dst)
           c == CreatePath(heap, dst)
<1>1. /\ Typed /\ heap \in Heaps /\ Shaped(heap) /\ Linked(heap) /\ ChildLinks(heap, heap.used)
      /\ Bound(heap.used, vars) /\ heap.live \subseteq heap.used
  BY TidyIs DEF Typed
<1>2. m.nodes \in Seq(heap.used)
  BY <1>1, MatchesAre
<1>3. call'.of[1] = "Move" /\ call'.of[2] = src /\ call'.of[3] = dst
  OBVIOUS
<1>4. /\ s \in heap.live
      /\ IF Len(m.nodes) = 1 THEN m.nodes[1] \in heap.live ELSE c.node \notin Below(c.heap, {s})
  BY <1>3 DEF MovesWithin, FindsWithin, CreatesOutside, Succeeded, InTree
<1>5. s # Nil => s \in heap.used /\ s # Root /\ heap.parent[s] # Nil
  <2>1. Matches(src).nodes \in Seq(heap.used)
    BY <1>1, MatchesAre
  <2> QED
    BY <2>1 DEF MoveSource
<1>6. /\ c.heap \in Heaps /\ Grown(heap, c.heap) /\ (c.ok => c.node \in c.heap.used)
      /\ c.heap.value = heap.value
      /\ c.ok /\ Lost \notin c.heap.used => Landed(heap, Root, c.heap, c.node)
  BY <1>1, CreatePathIs
<1> HIDE DEF of, s, m, c
<1>7. ASSUME NEW e, NEW d, Destination(e, d), s # Nil, d \notin Below(e, {s}), d \in heap.used => d \in heap.live,
             Return(of, Transfer(e, s, d), vars, FALSE, Nil)
      PROVE  \A n \in Below(heap, {s}) \ {s} :
               /\ n \in InTree'
               /\ heap'.label[n] = heap.label[n]
               /\ heap'.value[n] = heap.value[n]
               /\ Kids(n)' = Kids(n)
  <2>1. PICK g : g = Transfer(e, s, d)
    OBVIOUS
  <2>2. /\ e \in Heaps /\ Shaped(e) /\ heap.used \subseteq e.used /\ d \in e.used /\ s \in e.used
        /\ e.parent[s] = heap.parent[s] /\ Linked(e) /\ s \in heap.live \ {Root}
    BY <1>4, <1>5, <1>7 DEF Destination, Sprouts
  <2>3. g \in Heaps /\ Shaped(g) /\ g.used = e.used
    BY <1>5, <1>7, <2>1, <2>2, TransferIs
  <2>4. Bound(g.used, vars)
    BY <1>1, <2>2, <2>3, BoundWider
  <2>5. Shows(g)
    BY <1>7, <2>1, <2>3, <2>4, Shown
  <2>6. \A n \in Below(heap, {s}) \ {s} :
           /\ n \in heap'.live /\ heap'.label[n] = heap.label[n] /\ heap'.value[n] = heap.value[n]
           /\ Children(heap', n) = Children(heap, n)
    BY <1>7, <2>1, <2>2, <2>5, SubtreeMoved
  <2> QED
    BY <2>6 DEF InTree, Kids
<1>8. CASE /\ s # Nil /\ Len(m.nodes) = 1 /\ m.nodes[1] # s /\ ~IsDescendant(heap, m.nodes[1], s)
           /\ Return(of, Transfer(heap, s, m.nodes[1]), vars, FALSE, Nil)
  <2>1. m.nodes[1] \in heap.used
    BY <1>2, <1>8
  <2>2. Lost \notin heap.used
    <3>1. (RemoveChild(heap, heap.parent[s], s)).used = heap.used
      BY DEF RemoveChild
    <3>2. (Transfer(heap, s, m.nodes[1])).used = heap.used
      BY <3>1 DEF Transfer, TakeOver
    <3> QED
      BY <1>8, <3>2 DEF Return
  <2>3. Destination(heap, m.nodes[1])
    <3>1. Sprouts(heap, heap)
      BY <1>1, <2>2, EditedSame, GrownIs
    <3> QED
      BY <1>1, <2>1, <3>1 DEF Destination
  <2>4. m.nodes[1] \notin Below(heap, {s})
    BY <1>1, <1>5, <1>8, <2>1, NotBelow
  <2> QED
    BY <1>3, <1>4, <1>7, <1>8, <2>3, <2>4 DEF s
<1>9. CASE s # Nil /\ Len(m.nodes) = 0 /\ c.ok /\ Return(of, Transfer(c.heap, s, c.node), vars, FALSE, Nil)
  <2>1. Lost \notin c.heap.used
    <3>1. (RemoveChild(c.heap, c.heap.parent[s], s)).used = c.heap.used
      BY DEF RemoveChild
    <3>2. (Transfer(c.heap, s, c.node)).used = c.heap.used
      BY <3>1 DEF Transfer, TakeOver
    <3> QED
      BY <1>9, <3>2 DEF Return
  <2>2. Sprouts(heap, c.heap)
    BY <1>1, <1>6, <2>1, GrownIs
  <2>3. Linked(c.heap)
    <3>1. Left(c.heap, {}, {})
      BY <1>1, <1>6, <2>1, EditedLeft DEF Grown
    <3>2. c.heap.used \ {} = c.heap.used /\ c.heap.used \ ({} \cup {}) = c.heap.used
      OBVIOUS
    <3> QED
      BY <3>1, <3>2 DEF Left, Linked
  <2>4. Landed(heap, Root, c.heap, c.node)
    BY <1>6, <1>9, <2>1
  <2>5. c.node \in heap.used => c.heap = heap
    BY <2>4 DEF Landed
  <2>6. Destination(c.heap, c.node)
    BY <1>6, <1>9, <2>2, <2>3, <2>4, <2>5 DEF Destination
  <2>7. c.node \in heap.used => c.node \in heap.live
    <3>1. IsTree(heap, heap.live)
      BY TidyIs
    <3> QED
      BY <1>1, <2>4, <2>5, <3>1 DEF Landed, IsTree
  <2>8. c.node \notin Below(c.heap, {s})
    BY <1>4, <1>9
  <2> QED
    BY <1>3, <1>7, <1>9, <2>6, <2>7, <2>8 DEF s
<1>10. CASE Return(of, c.heap, vars, TRUE, Nil)
  <2>1. call'.err
    BY <1>10 DEF Return
  <2> QED
    BY <2>1
<1>11. CASE Fail(of, Nil)
  <2>1. call'.err
    BY <1>11 DEF Fail, Return
  <2> QED
    BY <2>1
<1> QED
  BY <1>8, <1>9, <1>10, <1>11 DEF Move, MoveTo, of, s, m, c

(* A Move that succeeds loses nothing below its source, wherever it puts it, *)
(* as long as createPath does not make the destination below the source      *)
(* (move_inside: it can).  Source and destination are in the tree, and what  *)
(* Move and TextStore drop is garbage, unless a variable says otherwise.     *)
THEOREM MoveCorrect ==
  Spec /\ DiscardedIsGarbage /\ [][MovesWithin /\ FindsWithin /\ CreatesOutside]_state => MoveKeepsSubtree
<1>1. Init => Tidy
  BY InitTidy
<1>2. Tidy /\ [Next]_state /\ [Discarded \cap heap'.used = {}]_state => Tidy'
  BY TidyGarbage
<1>3. ASSUME Tidy, Next, MovesWithin, FindsWithin, CreatesOutside, Succeeded("Move")
      PROVE  LET s == MoveSource(Matches(call'.of[2]))
             IN  \A n \in Below(heap, {s}) \ {s} :
                   /\ n \in InTree'
                   /\ heap'.label[n] = heap.label[n]
                   /\ heap'.value[n] = heap.value[n]
                   /\ Kids(n)' = Kids(n)
  <2>1. call'.of[1] = "Move" /\ ~call'.err
    BY <1>3 DEF Succeeded
  <2>2. ASSUME NEW c, NEW d, NEW v,
               call'.of \in {<<"Remove", c>>, <<"TextStore", c, d>>, <<"SetMultiple", c, d, v>>}
        PROVE  FALSE
    BY <2>1, <2>2
  <2>3. PICK c \in MovePairs : Move(c[1], c[2]) /\ call'.of = <<"Move", c[1], c[2]>>
    BY <1>3, <2>1, <2>2, Taking
  <2>4. PathOK(c[1]) /\ PathOK(c[2]) /\ MakesLabels(c[2][1].segs)
    BY <2>3, InputAssumption
  <2> QED
    BY <1>3, <2>1, <2>3, <2>4, SubtreeKept
<1>4. Tidy /\ [Next]_state /\ [MovesWithin /\ FindsWithin /\ CreatesOutside]_state
        => [Succeeded("Move") =>
              LET s == MoveSource(Matches(call'.of[2]))
              IN  \A n \in Below(heap, {s}) \ {s} :
                    /\ n \in InTree'
                    /\ heap'.label[n] = heap.label[n]
                    /\ heap'.value[n] = heap.value[n]
                    /\ Kids(n)' = Kids(n)]_state
  BY <1>3
<1> QED
  BY <1>1, <1>2, <1>4, PTL DEF Spec, DiscardedIsGarbage, MoveKeepsSubtree

-----------------------------------------------------------------------------
(* On a handle without variables SetMultiple covers every base, always.      *)
THEOREM BareSetMultiple ==
  ASSUME VarName = {}
  PROVE  Spec => SetMultipleCovers
BY NothingHeld, SetMultipleCorrect, PTL

(* And of Move's premises one is left: the destinations createPath makes,    *)
(* which Move does not look at.                                              *)
THEOREM BareMove ==
  ASSUME VarName = {}
  PROVE  Spec /\ [][CreatesOutside]_state => MoveKeepsSubtree
<1>1. Init => Bare
  BY InitBare
<1>2. Bare /\ [Next]_state => Bare'
  BY BareKept
<1>3. Bare /\ Bare' /\ [Next]_state => [FindsWithin]_state
  <2> SUFFICES ASSUME Bare, Next, Succeeded("Move"), Len(Matches(call'.of[3]).nodes) = 1
               PROVE  Matches(call'.of[3]).nodes[1] \in InTree
    BY DEF FindsWithin
  <2>1. call'.of[1] = "Move"
    BY DEF Succeeded
  <2>2. ASSUME NEW c, NEW d, NEW v,
               call'.of \in {<<"Remove", c>>, <<"TextStore", c, d>>, <<"SetMultiple", c, d, v>>}
        PROVE  FALSE
    BY <2>1, <2>2
  <2>3. PICK c \in MovePairs : call'.of = <<"Move", c[1], c[2]>>
    BY <2>1, <2>2, Taking
  <2>4. call'.of[3] = c[2] /\ PathOK(c[2])
    <3>1. PathOK(c[2])
      BY InputAssumption
    <3>2. call'.of[3] = c[2]
      BY <2>3
    <3> QED
      BY <3>1, <3>2
  <2>5. Typed /\ heap.used = heap.live
    BY TidyIs DEF Bare
  <2>6. Matches(c[2]).nodes \in Seq(heap.used)
    BY <2>4, <2>5, MatchesAre
  <2> QED
    BY <2>4, <2>5, <2>6 DEF InTree
<1>4. Spec => [][FindsWithin]_state
  BY <1>1, <1>2, <1>3, PTL DEF Spec
<1>5. [][MovesWithin]_state /\ [][FindsWithin]_state /\ [][CreatesOutside]_state
        => [][MovesWithin /\ FindsWithin /\ CreatesOutside]_state
  BY PTL
<1> QED
  BY <1>4, <1>5, NothingHeld, MoveCorrect, PTL

-----------------------------------------------------------------------------
(* Calls on a variable whose nodes have left the tree.  g has the nodes T of *)
(* h as they were.                                                           *)
Apart(h, T, g) ==
  /\ g \in Heaps /\ Shaped(g) /\ Linked(g) /\ h.used \subseteq g.used
  /\ \A n \in T : g.value[n] = h.value[n] /\ g.parent[n] = h.parent[n] /\ KidsKept(h, g, n)

LEMMA ApartTwice ==
  ASSUME NEW h, NEW T, NEW e, Apart(h, T, e), NEW g, Apart(e, T, g)
  PROVE  Apart(h, T, g)
BY DEF Apart, KidsKept

(* No link leads into T from outside or out of it.                           *)
LEMMA OutsideEnclosed ==
  ASSUME NEW h \in Heaps, Shaped(h), NEW T, Enclosed(h, T), NEW g, Apart(h, T, g)
  PROVE  Enclosed(g, g.used \ T)
<1>1. /\ T \subseteq h.used /\ T \subseteq g.used /\ g.used \subseteq Node /\ Linked(g)
  BY DEF Enclosed, Apart, Heaps, Heap
<1>2. \A n \in T : \A i \in 1 .. g.len[n] : Kid(g, n, i) \in T
  BY DEF Enclosed, Closed, Apart, KidsKept
<1>3. \A n \in T : g.parent[n] # Nil => g.parent[n] \in T
  BY DEF Enclosed, ClosedUp, Apart
<1>4. \A n \in g.used : \A i \in 1 .. g.len[n] : g.parent[Kid(g, n, i)] = n /\ Kid(g, n, i) \in g.used /\ n # Nil
  BY <1>1, Identities DEF Linked, ChildLinks, Apart, Shaped
<1>5. \A n \in g.used : g.parent[n] # Nil => /\ g.parent[n] \in g.used
                                             /\ \E i \in 1 .. g.len[g.parent[n]] : Kid(g, g.parent[n], i) = n
  BY <1>1 DEF Linked, ParentLinks, Apart, Shaped
<1>6. Closed(g, g.used \ T)
  BY <1>3, <1>4 DEF Closed
<1>7. ClosedUp(g, g.used \ T)
  BY <1>2, <1>5 DEF ClosedUp
<1> QED
  BY <1>6, <1>7 DEF Enclosed

LEMMA ApartValue ==
  ASSUME NEW T, NEW e, Apart(e, T, e), T \subseteq e.used, NEW n \in e.used \ T, NEW v \in Value
  PROVE  Apart(e, T, SetNodeValue(e, n, v))
<1> DEFINE g == SetNodeValue(e, n, v)
<1>1. e \in Heaps /\ Shaped(e) /\ Linked(e) /\ n \in Node /\ T \subseteq Node
  BY DEF Apart, Heaps, Heap
<1>2. /\ g.used = e.used /\ g.parent = e.parent /\ g.arr = e.arr /\ g.len = e.len /\ g.array = e.array
  BY <1>1 DEF SetNodeValue, Heaps, Heap
<1>3. g \in Heaps /\ Shaped(g) /\ \A m \in Node : g.value[m] = IF m = n THEN v ELSE e.value[m]
  BY <1>1, ValueSet DEF Grown, Edited
<1> HIDE DEF g
<1>4. Linked(g)
  BY <1>1, <1>2 DEF Linked, ChildLinks, ParentLinks, Kid
<1>5. \A m \in T : KidsKept(e, g, m)
  BY <1>2 DEF KidsKept, Kid
<1>6. Apart(e, T, g)
  BY <1>1, <1>2, <1>3, <1>4, <1>5 DEF Apart
<1> QED
  BY <1>6 DEF g

LEMMA ApartAdded ==
  ASSUME NEW T, NEW e, Apart(e, T, e), T \subseteq e.used, NEW n \in e.used \ T, NEW l \in Label,
         NEW g, g = AppendChild(NewNode(e, l), n, Fresh(e)), Lost \notin g.used
  PROVE  Apart(e, T, g) /\ Fresh(e) \in g.used \ T
<1> DEFINE x == Fresh(e)
           f == NewNode(e, l)
<1>1. e \in Heaps /\ Shaped(e) /\ Linked(e) /\ ChildLinks(e, e.used) /\ n \in e.used /\ e.used \subseteq Node
  BY DEF Apart, Heaps, Heap, Linked
<1>2. Made(e, f) /\ f.value = e.value
  BY <1>1, MadeIs
<1> HIDE DEF f
<1>3. /\ Grown(e, g) /\ x \in g.used /\ g.used = e.used \cup {x} /\ g.value = f.value
      /\ \E i \in 1 .. g.len[n] : Kid(g, n, i) = x
      /\ x \notin e.used
  BY <1>1, <1>2, AddedIs DEF f
<1> HIDE DEF x
<1>4. /\ g \in Heaps /\ Shaped(g) /\ ChildLinks(g, g.used) /\ LinksKept(e, g) /\ Extended(e, g)
      /\ \A m \in e.used : g.parent[m] = e.parent[m]
  BY <1>1, <1>3 DEF Grown, Edited
<1>5. Linked(g)
  <2>1. g.used = e.used \cup (g.used \ e.used)
    BY <1>3
  <2> QED
    BY <1>1, <1>4, <2>1 DEF Linked, LinksKept
<1>6. ASSUME NEW m \in T PROVE KidsKept(e, g, m)
  <2>1. /\ m \in e.used /\ m \in Node /\ e.len[m] \in Nat /\ g.len[m] \in Nat /\ e.len[m] <= g.len[m] /\ m # n
        /\ \A i \in 1 .. e.len[m] : Kid(g, m, i) = Kid(e, m, i)
        /\ \A i \in e.len[m] + 1 .. g.len[m] : Kid(g, m, i) \notin e.used
    BY <1>1, <1>4, <1>6 DEF Extended, Heaps, Heap
  <2>2. g.parent[x] = n
    BY <1>1, <1>3, <1>4 DEF ChildLinks
  <2>3. g.len[m] = e.len[m]
    <3> SUFFICES ASSUME e.len[m] < g.len[m] PROVE FALSE
      BY <2>1
    <3>1. g.len[m] \in 1 .. g.len[m] /\ g.len[m] \in e.len[m] + 1 .. g.len[m]
      BY <2>1
    <3>2. Kid(g, m, g.len[m]) = x
      BY <1>3, <1>4, <2>1, <3>1 DEF Shaped
    <3>3. g.parent[x] = m
      BY <1>3, <1>4, <2>1, <3>1, <3>2 DEF ChildLinks
    <3> QED
      BY <2>1, <2>2, <3>3
  <2> QED
    BY <2>1, <2>3 DEF KidsKept
<1>7. x \notin T
  BY <1>3
<1>8. \A m \in T : g.value[m] = e.value[m] /\ g.parent[m] = e.parent[m]
  BY <1>2, <1>3, <1>4
<1>9. Apart(e, T, g)
  BY <1>3, <1>4, <1>5, <1>6, <1>8 DEF Apart
<1> QED
  BY <1>3, <1>7, <1>9 DEF x

LEMMA ApartRemoved ==
  ASSUME NEW T, NEW e, Apart(e, T, e), Enclosed(e, T), NEW c \in e.used \ T, e.parent[c] # Nil,
         NEW g, g = RemoveChild(e, e.parent[c], c)
  PROVE  Apart(e, T, g)
<1>1. e \in Heaps /\ Shaped(e) /\ Linked(e) /\ ChildLinks(e, e.used) /\ T \subseteq e.used /\ e.used \subseteq Node
  BY DEF Apart, Heaps, Heap, Linked, Enclosed
<1>2. e.parent[c] \notin T
  BY <1>1, OutsideEnclosed DEF Enclosed, ClosedUp
<1>3. /\ Thinned(e, {c}, g) /\ g.value = e.value /\ g.used = e.used
  BY <1>1, RemovedIs
<1>4. /\ g \in Heaps /\ Shaped(g) /\ ChildLinks(g, g.used)
      /\ \A K \in SUBSET e.used : ParentLinks(e, K) => ParentLinks(g, K)
  BY <1>1, RemoveChildLinks DEF Heaps
<1>5. Linked(g)
  <2>1. e.used \in SUBSET e.used
    OBVIOUS
  <2> QED
    BY <1>1, <1>3, <1>4, <2>1 DEF Linked
<1>6. \A m \in T : KidsKept(e, g, m)
  BY <1>1, <1>2, KidsRemoved
<1>7. \A m \in T : g.parent[m] = e.parent[m]
  BY <1>1, <1>3 DEF Thinned
<1> QED
  BY <1>3, <1>4, <1>5, <1>6, <1>7 DEF Apart

(* The loops of the writing methods, from outside T.                         *)
LEMMA ApartSame ==
  ASSUME NEW h, NEW T, NEW e, Apart(h, T, e)
  PROVE  Apart(e, T, e)
BY DEF Apart, KidsKept

LEMMA ApartEnclosed ==
  ASSUME NEW h \in Heaps, Shaped(h), NEW T, Enclosed(h, T), NEW e, Apart(h, T, e)
  PROVE  /\ e \in Heaps /\ Shaped(e) /\ T \subseteq e.used /\ Enclosed(e, T) /\ Apart(e, T, e)
         /\ Enclosed(e, e.used \ T)
BY ApartSame, OutsideEnclosed DEF Apart, KidsKept, Enclosed, Closed, ClosedUp

LEMMA ValuesApart ==
  ASSUME NEW h \in Heaps, Shaped(h), NEW T, Enclosed(h, T), NEW e, Apart(h, T, e),
         NEW nodes \in Seq(e.used \ T), NEW v \in Value
  PROVE  Apart(h, T, ValueLoop!Result(e, nodes, 0, v)) /\ ValueLoop!Result(e, nodes, 0, v).used = e.used
<1> DEFINE S == {g \in Valuing(e, v) : Apart(h, T, g)}
<1>1. e \in Heaps /\ Shaped(e) /\ nodes \in Seq(e.used)
  BY DEF Apart
<1>2. ValueLoop!Stays(Valuing(e, v), e, nodes, 0, v)
  BY <1>1, ValuesStay
<1>3. ASSUME NEW g \in S, NEW k \in DOMAIN nodes PROVE ValueRound(0, v, g, nodes[k]) \in S
  <2>1. ValueRound(0, v, g, nodes[k]) \in Valuing(e, v)
    BY <1>2 DEF ValueLoop!Stays
  <2>2. nodes[k] \in g.used \ T
    BY DEF Valuing
  <2>3. Apart(g, T, g) /\ T \subseteq g.used
    BY ApartEnclosed
  <2>4. Apart(g, T, SetNodeValue(g, nodes[k], v))
    BY <2>2, <2>3, ApartValue
  <2>5. Apart(h, T, ValueRound(0, v, g, nodes[k]))
    BY <2>4, ApartTwice DEF ValueRound
  <2> QED
    BY <2>1, <2>5
<1>4. ValueLoop!Stays(S, e, nodes, 0, v)
  BY <1>2, <1>3 DEF ValueLoop!Stays
<1>5. ValueLoop!Result(e, nodes, 0, v) \in S
  BY <1>4, ValueLoop!LoopKeeps
<1> QED
  BY <1>5 DEF Valuing

LEMMA CreatesApart ==
  ASSUME NEW h \in Heaps, Shaped(h), NEW T, Enclosed(h, T), NEW e, Apart(h, T, e),
         NEW b \in e.used \ T, NEW segs, IsSeq(segs), MakesLabels(segs),
         NEW c, c = CreateFrom(e, b, segs), Lost \notin c.heap.used
  PROVE  Apart(h, T, c.heap) /\ c.node \in c.heap.used \ T
<1> DEFINE start == [ok |-> TRUE, heap |-> e, node |-> b]
           Fine(acc) == Lost \notin acc.heap.used => Apart(h, T, acc.heap) /\ acc.node \in acc.heap.used \ T
           S == {acc \in Creating(e, b) : Fine(acc)}
<1>1. e \in Heaps /\ Shaped(e) /\ b \in e.used
  BY DEF Apart
<1>2. c = CreateLoop!Result(start, segs, 0, 0) /\ CreateLoop!Stays(Creating(e, b), start, segs, 0, 0)
  BY <1>1, CreateStays
<1>3. ASSUME NEW acc \in S, NEW k \in DOMAIN segs PROVE CreateRound(0, 0, acc, segs[k]) \in S
  <2> DEFINE seg == segs[k]
             next == FirstChild(acc.heap, acc.node, seg.name)
             new == Fresh(acc.heap)
             g == AppendChild(NewNode(acc.heap, seg.name), acc.node, new)
             r == CreateRound(0, 0, acc, seg)
  <2>1. r \in Creating(e, b)
    BY <1>2 DEF CreateLoop!Stays
  <2>2. /\ acc \in [ok : BOOLEAN, heap : Heaps, node : Node] /\ acc.heap \in Heaps /\ Shaped(acc.heap)
        /\ acc.node \in acc.heap.used /\ acc.node \in Node
    BY DEF Creating, Grown, Edited
  <2>3. CASE ~acc.ok \/ ~Creatable(seg)
    <3>1. r = [acc EXCEPT !.ok = FALSE]
      BY <2>3 DEF CreateRound
    <3>2. r.heap = acc.heap /\ r.node = acc.node
      BY <2>2, <3>1
    <3> QED
      BY <2>1, <3>2
  <2>4. CASE ~(~acc.ok \/ ~Creatable(seg)) /\ next # Nil
    <3>1. r = [acc EXCEPT !.node = next]
      BY <2>4 DEF CreateRound
    <3>2. r.heap = acc.heap /\ r.node = next
      BY <2>2, <3>1
    <3>3. \E i \in 1 .. acc.heap.len[acc.node] : Kid(acc.heap, acc.node, i) = next
      BY <2>2, <2>4, FirstChildIs DEF Heaps
    <3>4. ASSUME Lost \notin acc.heap.used PROVE Apart(h, T, acc.heap) /\ next \in acc.heap.used \ T
      <4>1. Apart(h, T, acc.heap) /\ acc.node \in acc.heap.used \ T
        BY <3>4
      <4>2. Closed(acc.heap, acc.heap.used \ T)
        BY <4>1, ApartEnclosed DEF Enclosed
      <4> QED
        BY <3>3, <4>1, <4>2 DEF Closed
    <3> QED
      BY <2>1, <3>2, <3>4
  <2>5. CASE ~(~acc.ok \/ ~Creatable(seg)) /\ next = Nil
    <3>1. r = [acc EXCEPT !.heap = g, !.node = new]
      BY <2>5 DEF CreateRound
    <3>2. r.heap = g /\ r.node = new
      BY <2>2, <3>1
    <3>3. seg.name \in Label
      BY <2>5 DEF MakesLabels
    <3>4. ASSUME Lost \notin g.used PROVE Apart(h, T, g) /\ new \in g.used \ T
      <4>1. Made(acc.heap, NewNode(acc.heap, seg.name))
        BY <2>2, <3>3, MadeIs
      <4>2. g.used = acc.heap.used \cup {new}
        BY <2>2, <4>1, AddedIs
      <4>3. Apart(h, T, acc.heap) /\ acc.node \in acc.heap.used \ T
        BY <3>4, <4>2
      <4>4. Apart(acc.heap, T, acc.heap) /\ T \subseteq acc.heap.used
        BY <4>3, ApartEnclosed
      <4>5. Apart(acc.heap, T, g) /\ new \in g.used \ T
        BY <3>3, <3>4, <4>3, <4>4, ApartAdded
      <4> QED
        BY <4>3, <4>5, ApartTwice
    <3> QED
      BY <2>1, <3>2, <3>4
  <2> QED
    BY <2>3, <2>4, <2>5
<1>4. CreateLoop!Stays(S, start, segs, 0, 0)
  <2>1. start \in S
    BY <1>2 DEF CreateLoop!Stays
  <2> HIDE DEF start
  <2> QED
    BY <1>2, <1>3, <2>1 DEF CreateLoop!Stays
<1>5. c \in S
  <2> HIDE DEF start, S
  <2> QED
    BY <1>2, <1>4, CreateLoop!LoopKeeps
<1> QED
  BY <1>5

LEMMA SettingApart ==
  ASSUME NEW h \in Heaps, Shaped(h), NEW T, Enclosed(h, T), NEW v \in Value,
         NEW sub, SegsOK(sub), MakesLabels(sub), NEW acc \in Setting(h, v), NEW b \in h.used \ T,
         Lost \notin acc.heap.used => Apart(h, T, acc.heap),
         NEW r, r = SettingRound(sub, v, acc, b), Lost \notin r.heap.used
  PROVE  Apart(h, T, r.heap)
<1> DEFINE e == acc.heap
           found == EvalSteps(e, <<b>>, ParseSteps(sub).steps)
           c == CreateFrom(e, b, sub)
<1>1. /\ acc \in [ok : BOOLEAN, heap : Heaps, count : Nat]
      /\ e \in Heaps /\ Shaped(e) /\ b \in e.used
  BY DEF Setting, Grown, Edited
<1>2. found \in Seq(e.used)
  <2>1. <<b>> \in Seq(e.used)
    BY <1>1, OneIs
  <2>2. Enclosed(e, e.used)
    BY <1>1 DEF Enclosed, Closed, ClosedUp, Shaped, Heaps, Heap
  <2> QED
    BY <1>1, <2>1, <2>2, StepsWithin
<1>3. /\ c.heap \in Heaps /\ Shaped(c.heap) /\ e.used \subseteq c.heap.used /\ c.node \in c.heap.used
  <2>1. c \in Creating(e, b)
    BY <1>1, CreateFromIs DEF SegsOK
  <2> QED
    BY <2>1 DEF Creating, Grown, Edited
<1>4. ASSUME Apart(h, T, e) PROVE found \in Seq(e.used \ T)
  <2>1. Enclosed(e, e.used \ T)
    BY <1>4, ApartEnclosed
  <2>2. <<b>> \in Seq(e.used \ T)
    BY <1>1, OneIs
  <2> QED
    BY <1>1, <2>1, <2>2, StepsWithin
<1>5. ASSUME Apart(h, T, e), Lost \notin c.heap.used
      PROVE  Apart(h, T, c.heap) /\ c.node \in c.heap.used \ T
  BY <1>1, <1>5, CreatesApart DEF SegsOK
<1> HIDE DEF found, c
<1>6. ASSUME NEW g \in Heaps, Shaped(g), NEW nodes \in Seq(g.used), r = SetAll(acc, g, nodes, v)
      PROVE  r.heap = ValueLoop!Result(g, nodes, 0, v) /\ r.heap.used = g.used
  <2>1. r.heap = ValueLoop!Result(g, nodes, 0, v)
    BY <1>1, <1>6, SetAllHeap
  <2>2. ValueLoop!Result(g, nodes, 0, v) \in Valuing(g, v)
    BY <1>6, ValuesAll
  <2> QED
    BY <2>1, <2>2 DEF Valuing
<1>7. CASE ~acc.ok
  BY <1>7 DEF SettingRound
<1>8. CASE acc.ok /\ found # <<>>
  <2>1. r = SetAll(acc, e, found, v)
    BY <1>8 DEF SettingRound, SetOne, found
  <2>2. r.heap = ValueLoop!Result(e, found, 0, v) /\ r.heap.used = e.used
    BY <1>1, <1>2, <1>6, <2>1
  <2>3. Apart(h, T, e)
    BY <2>2
  <2> QED
    BY <1>4, <2>2, <2>3, ValuesApart
<1>9. CASE acc.ok /\ found = <<>> /\ c.ok
  <2>1. r = SetAll(acc, c.heap, <<c.node>>, v)
    BY <1>9 DEF SettingRound, SetOne, found, c
  <2>2. <<c.node>> \in Seq(c.heap.used)
    BY <1>3, OneIs
  <2>3. r.heap = ValueLoop!Result(c.heap, <<c.node>>, 0, v) /\ r.heap.used = c.heap.used
    BY <1>3, <1>6, <2>1, <2>2
  <2>4. Apart(h, T, e) /\ Lost \notin c.heap.used
    BY <1>3, <2>3
  <2>5. Apart(h, T, c.heap) /\ c.node \in c.heap.used \ T
    BY <1>5, <2>4
  <2>6. <<c.node>> \in Seq(c.heap.used \ T)
    BY <2>5, OneIs
  <2> DEFINE f == c.heap
             nodes == <<c.node>>
  <2>7. /\ Apart(h, T, f) /\ nodes \in Seq(f.used \ T)
        /\ r.heap = ValueLoop!Result(f, nodes, 0, v)
    BY <2>3, <2>5, <2>6
  <2> HIDE DEF f, nodes
  <2> QED
    BY <2>7, ValuesApart
<1>10. CASE acc.ok /\ found = <<>> /\ ~c.ok
  <2>1. r = [acc EXCEPT !.ok = FALSE, !.heap = c.heap]
    BY <1>10 DEF SettingRound, SetOne, found, c
  <2>2. r.heap = c.heap
    BY <1>1, <2>1
  <2>3. Apart(h, T, e) /\ Lost \notin c.heap.used
    BY <1>3, <2>2
  <2> QED
    BY <1>5, <2>2, <2>3
<1> QED
  BY <1>7, <1>8, <1>9, <1>10

LEMMA SetEachApart ==
  ASSUME NEW h \in Heaps, Shaped(h), NEW T, Enclosed(h, T), Apart(h, T, h), NEW v \in Value,
         NEW sub, SegsOK(sub), MakesLabels(sub), NEW bases \in Seq(h.used \ T),
         NEW r, r = SetEach(h, bases, sub, v), Lost \notin r.heap.used
  PROVE  Apart(h, T, r.heap)
<1> DEFINE start == [ok |-> TRUE, heap |-> h, count |-> 0]
           S == {acc \in Setting(h, v) : Lost \notin acc.heap.used => Apart(h, T, acc.heap)}
<1>1. bases \in Seq(h.used)
  OBVIOUS
<1>2. r = SettingLoop!Result(start, bases, sub, v) /\ SettingLoop!Stays(Setting(h, v), start, bases, sub, v)
  BY <1>1, SetEachStays
<1>3. ASSUME NEW acc \in S, NEW k \in DOMAIN bases PROVE SettingRound(sub, v, acc, bases[k]) \in S
  <2>1. SettingRound(sub, v, acc, bases[k]) \in Setting(h, v)
    BY <1>2 DEF SettingLoop!Stays
  <2>2. bases[k] \in h.used \ T
    OBVIOUS
  <2> QED
    BY <2>1, <2>2, SettingApart
<1>4. SettingLoop!Stays(S, start, bases, sub, v)
  <2>1. start \in S
    BY <1>2 DEF SettingLoop!Stays
  <2> HIDE DEF start
  <2> QED
    BY <1>2, <1>3, <2>1 DEF SettingLoop!Stays
<1>5. r \in S
  <2> HIDE DEF start, S
  <2> QED
    BY <1>2, <1>4, SettingLoop!LoopKeeps
<1> QED
  BY <1>5

LEMMA RemovesApart ==
  ASSUME NEW h \in Heaps, Shaped(h), NEW T, Enclosed(h, T), Apart(h, T, h), NEW nodes \in Seq(h.used \ T)
  PROVE  Apart(h, T, RemoveEach(h, nodes).heap)
<1> DEFINE start == [heap |-> h, count |-> 0]
           S == {acc \in Removing(h) : Apart(h, T, acc.heap)}
<1>1. nodes \in Seq(h.used)
  OBVIOUS
<1>2. /\ RemoveEach(h, nodes) = RemovingLoop!Result(start, nodes, 0, 0)
      /\ RemovingLoop!Stays(Removing(h), start, nodes, 0, 0)
  BY <1>1, RemoveEachStays
<1>3. ASSUME NEW acc \in S, NEW k \in DOMAIN nodes PROVE RemovingRound(0, 0, acc, nodes[k]) \in S
  <2> DEFINE c == nodes[k]
             e == acc.heap
             g == RemoveChild(e, e.parent[c], c)
             r == RemovingRound(0, 0, acc, c)
  <2>1. r \in Removing(h)
    BY <1>2 DEF RemovingLoop!Stays
  <2>2. c \in h.used \ T /\ e.used = h.used
    BY DEF Removing
  <2>3. Apart(e, T, e) /\ Enclosed(e, T)
    BY ApartEnclosed
  <2> HIDE DEF c
  <2>4. ASSUME e.parent[c] # Nil PROVE Apart(h, T, g)
    BY <2>2, <2>3, <2>4, ApartRemoved, ApartTwice
  <2>5. r = acc \/ (e.parent[c] # Nil /\ r.heap = g)
    BY DEF RemovingRound
  <2>6. Apart(h, T, r.heap)
    BY <2>4, <2>5
  <2> QED
    BY <2>1, <2>6 DEF c
<1>4. RemovingLoop!Stays(S, start, nodes, 0, 0)
  <2>1. start \in S
    BY <1>2 DEF RemovingLoop!Stays
  <2> HIDE DEF start
  <2> QED
    BY <1>2, <1>3, <2>1 DEF RemovingLoop!Stays
<1>5. RemovingLoop!Result(start, nodes, 0, 0) \in S
  <2> HIDE DEF start, S
  <2> QED
    BY <1>2, <1>4, RemovingLoop!LoopKeeps
<1> QED
  BY <1>2, <1>5

(* The tree is what it was. *)
TreeStays == /\ InTree' = InTree
             /\ \A n \in InTree : Kids(n)' = Kids(n) /\ heap'.value[n] = heap.value[n]

LEMMA TreeApart ==
  ASSUME Tidy
  PROVE  Enclosed(heap, heap.live) /\ Apart(heap, heap.live, heap) /\ Enclosed(heap, heap.used \ heap.live)
<1>1. /\ heap \in Heaps /\ Shaped(heap) /\ Linked(heap) /\ IsTree(heap, heap.live)
      /\ heap.live \subseteq heap.used /\ ChildLinks(heap, heap.live)
  BY TidyIs
<1>2. ClosedUp(heap, heap.live)
  <2> SUFFICES ASSUME NEW n \in heap.live, heap.parent[n] # Nil PROVE heap.parent[n] \in heap.live
    BY DEF ClosedUp
  <2>1. n # Root
    BY <1>1 DEF ChildLinks
  <2> QED
    BY <1>1, <2>1, TreeLinks
<1>3. Enclosed(heap, heap.live)
  BY <1>1, <1>2 DEF Enclosed, IsTree
<1>4. Apart(heap, heap.live, heap)
  BY <1>1 DEF Apart, KidsKept
<1> QED
  BY <1>1, <1>3, <1>4, OutsideEnclosed

LEMMA ApartStays ==
  ASSUME Tidy, NEW g, Shows(g), Apart(heap, heap.live, g)
  PROVE  TreeStays
<1> DEFINE h == heap
           T == heap.live
<1>1. /\ h \in Heaps /\ Shaped(h) /\ IsTree(h, T) /\ T \subseteq h.used /\ Root \in T /\ h.used \subseteq Node
  BY TidyIs
<1>2. /\ g \in Heaps /\ Shaped(g) /\ IsTree(g, heap'.live) /\ h.used \subseteq g.used
      /\ heap' \in Heaps /\ Shaped(heap') /\ KeptOf(g, heap') /\ heap'.live \subseteq heap'.used
      /\ \A n \in T : g.value[n] = h.value[n] /\ KidsKept(h, g, n)
  BY DEF Shows, Apart
<1> HIDE DEF h, T
<1>3. IsTree(g, T)
  <2>1. Closed(g, T)
    BY <1>1, <1>2 DEF Closed, IsTree, KidsKept
  <2>2. ASSUME NEW S \in SUBSET g.used, Root \in S, Closed(g, S) PROVE T \subseteq S
    <3>1. Closed(h, S \cap T)
      BY <1>1, <1>2, <2>2 DEF Closed, IsTree, KidsKept
    <3>2. S \cap T \in SUBSET h.used /\ Root \in S \cap T
      BY <1>1, <2>2
    <3> QED
      BY <1>1, <3>1, <3>2 DEF IsTree
  <2> QED
    BY <1>1, <1>2, <2>1, <2>2 DEF IsTree
<1>4. heap'.live = T
  BY <1>2, <1>3, OneTree
<1>5. ASSUME NEW n \in T
      PROVE  Children(heap', n) = Children(h, n) /\ heap'.value[n] = h.value[n]
  <2>1. n \in heap'.used /\ n \in Node
    BY <1>1, <1>2, <1>4
  <2>2. heap'.value[n] = g.value[n] /\ KidsKept(g, heap', n)
    BY <1>2, <2>1 DEF KeptOf, KeptAs, KidsKept
  <2>3. KidsKept(h, heap', n)
    BY <1>2, <2>2 DEF KidsKept
  <2> QED
    BY <1>1, <1>2, <2>1, <2>2, <2>3, SameChildren
<1> QED
  BY <1>4, <1>5 DEF TreeStays, InTree, Kids, h, T

LEMMA ReturnApart ==
  ASSUME Tidy, NEW of, NEW g, NEW err, NEW ret, Return(of, g, vars, err, ret), Apart(heap, heap.live, g)
  PROVE  TreeStays
<1>1. g \in Heaps /\ Shaped(g) /\ heap.used \subseteq g.used
  BY DEF Apart
<1>2. Bound(g.used, vars)
  BY <1>1, TidyIs, BoundWider DEF Typed
<1>3. Shows(g)
  BY <1>1, <1>2, Shown
<1> QED
  BY <1>3, ApartStays

LEMMA FailApart ==
  ASSUME Tidy, NEW of, NEW ret, Fail(of, ret)
  PROVE  TreeStays
BY TreeApart, ReturnApart DEF Fail

(* What a path on such variables matches is outside the tree.                *)
LEMMA MatchesOutside ==
  ASSUME Tidy, NEW path, PathOK(path), \A i \in DOMAIN path : OnDetached(path[i])
  PROVE  Matches(path).nodes \in Seq(heap.used \ heap.live) /\ path[1].lead # "/"
<1> DEFINE K == heap.used \ heap.live
<1>1. heap \in Heaps /\ Shaped(heap) /\ Bound(heap.used, vars)
  BY TidyIs DEF Typed
<1>2. LeadsWithin(K, vars, path)
  <2> SUFFICES ASSUME NEW i \in DOMAIN path PROVE path[i].lead \notin {"/", ""} /\ vars[path[i].lead] \in Seq(K)
    BY DEF LeadsWithin
  <2> DEFINE s == vars[path[i].lead]
  <2>1. path[i].lead \in DOMAIN vars \ {"/", ""} /\ Seqs!ToSet(s) \subseteq K
    BY DEF OnDetached, Detached, InTree
  <2>2. s \in Seq(heap.used)
    BY <1>1, <2>1 DEF Bound
  <2> HIDE DEF s
  <2>3. \A j \in DOMAIN s : s[j] \in K
    BY <2>1 DEF Seqs!ToSet
  <2>4. s \in Seq(K)
    BY <2>2, <2>3
  <2> QED
    BY <2>1, <2>4 DEF s
<1>3. Answered(K, Eval(heap, vars, path))
  BY <1>1, <1>2, TreeApart, EvalWithin
<1>4. path[1].lead # "/"
  <2>1. 1 \in DOMAIN path
    BY DEF PathOK, IsSeq
  <2> QED
    BY <2>1 DEF OnDetached
<1> QED
  BY <1>3, <1>4 DEF Answered, Matches

LEMMA SetStaysOut ==
  ASSUME Tidy, NEW path, PathOK(path), NEW v \in Value, \A i \in DOMAIN path : OnDetached(path[i]), Set(path, v)
  PROVE  TreeStays
<1> DEFINE m == Matches(path)
           of == <<"Set", path, v>>
<1>1. m.nodes \in Seq(heap.used \ heap.live) /\ path[1].lead # "/"
  BY MatchesOutside
<1>2. Apart(heap, heap.live, heap) /\ heap.live \subseteq heap.used
  BY TreeApart, TidyIs
<1>3. CreatePath(heap, path).ok = FALSE /\ CreatePath(heap, path).heap = heap
  BY <1>1 DEF CreatePath
<1> HIDE DEF m, of
<1>4. CASE Return(of, heap, vars, TRUE, Nil)
  BY <1>2, <1>4, ReturnApart
<1>5. CASE Len(m.nodes) = 1 /\ Return(of, SetNodeValue(heap, m.nodes[1], v), vars, FALSE, Nil)
  <2>1. m.nodes[1] \in heap.used \ heap.live
    BY <1>1, <1>5, SingleIs
  <2>2. Apart(heap, heap.live, SetNodeValue(heap, m.nodes[1], v))
    BY <1>2, <2>1, ApartValue
  <2> QED
    BY <1>5, <2>2, ReturnApart
<1>6. CASE Fail(of, Nil)
  BY <1>6, FailApart
<1> QED
  BY <1>3, <1>4, <1>5, <1>6 DEF Set, m, of

LEMMA SetMultipleStaysOut ==
  ASSUME Tidy, NEW base, PathOK(base), NEW sub, SegsOK(sub), MakesLabels(sub), NEW v \in Value,
         \A i \in DOMAIN base : OnDetached(base[i]), SetMultiple(base, sub, v)
  PROVE  TreeStays
<1> DEFINE m == Matches(base)
           r == SetEach(heap, m.nodes, sub, v)
           of == <<"SetMultiple", base, sub, v>>
<1>1. m.nodes \in Seq(heap.used \ heap.live)
  BY MatchesOutside
<1>2. heap \in Heaps /\ Shaped(heap) /\ Enclosed(heap, heap.live) /\ Apart(heap, heap.live, heap)
  BY TreeApart, TidyIs
<1>3. Lost \notin r.heap.used => Apart(heap, heap.live, r.heap)
  <2> HIDE DEF m
  <2> QED
    BY <1>1, <1>2, SetEachApart
<1>4. Return(of, r.heap, vars, ~r.ok, r.count) \/ Fail(of, 0)
  BY DEF SetMultiple
<1> HIDE DEF r, of
<1>5. CASE Return(of, r.heap, vars, ~r.ok, r.count)
  <2>1. Lost \notin r.heap.used
    BY <1>5 DEF Return
  <2> QED
    BY <1>3, <1>5, <2>1, ReturnApart
<1> QED
  BY <1>4, <1>5, FailApart

LEMMA InsertStaysOut ==
  ASSUME Tidy, NEW path, PathOK(path), NEW label \in Label \cup {"", "*"}, NEW before,
         \A i \in DOMAIN path : OnDetached(path[i]), Insert(path, label, before)
  PROVE  TreeStays
<1> DEFINE m == Matches(path)
           n == m.nodes[1]
           p == heap.parent[n]
           i == InsertIndex(n, before)
           x == Fresh(heap)
           g == InsertChild(NewNode(heap, label), p, i, x)
           of == <<"Insert", path, label, before>>
           T == heap.live
<1>1. /\ Typed /\ heap \in Heaps /\ Shaped(heap) /\ Linked(heap) /\ ChildLinks(heap, heap.used) /\ Blank(heap)
      /\ T \subseteq heap.used /\ heap.used \subseteq Node
  BY TidyIs
<1>2. m.nodes \in Seq(heap.used \ T)
  BY MatchesOutside
<1>3. CASE InsertValid(m, label) /\ ~InsertPanics(heap, p, i) /\ Return(of, g, vars, FALSE, Nil)
  <2>1. n \in heap.used /\ p # Nil /\ label \in Label
    BY <1>1, <1>3, InsertTarget
  <2>2. n \in heap.used \ T
    <3> HIDE DEF m, T
    <3> QED
      BY <1>2, <1>3, SingleIs DEF InsertValid
  <2>3. p \in heap.used \ T
    BY <2>1, <2>2, TreeApart DEF Enclosed, ClosedUp
  <2> HIDE DEF n
  <2>4. i \in Nat /\ heap.len[p] \in Nat /\ p \in heap.used
    BY <1>1, <2>1, InsertIndexIs
  <2>5. i \in 0 .. heap.len[p]
    BY <1>3, <2>4, FitsIs
  <2>6. Lost \notin g.used
    BY <1>3 DEF Return
  <2>7. Edited(heap, g)
    BY <1>1, <2>1, <2>4, <2>5, MadeIs, InsertedIs
  <2>8. Opened(heap, p, i, x, g)
    BY <1>1, <2>1, <2>4, <2>5, <2>6, OpenedIs
  <2> HIDE DEF g, x, i, p
  <2>9. Linked(g)
    <3>1. g.used = heap.used \cup (g.used \ heap.used) /\ heap.used \in SUBSET heap.used
      BY <2>7 DEF Edited
    <3>2. ChildLinks(g, g.used) /\ LinksKept(heap, g)
      BY <1>1, <2>6, <2>7 DEF Edited
    <3> QED
      BY <1>1, <3>1, <3>2 DEF Linked, LinksKept
  <2>10. \A k \in T : k \in Node \ {p} /\ k \in heap.used
    BY <1>1, <2>3
  <2>11. Apart(heap, T, g)
    BY <2>8, <2>9, <2>10 DEF Opened, Apart, KidsKept
  <2> HIDE DEF T, of
  <2> QED
    BY <1>3, <2>11, ReturnApart DEF T
<1>4. CASE UNCHANGED heap
  BY <1>4 DEF TreeStays, InTree, Kids
<1>5. CASE Fail(of, Nil)
  <2> HIDE DEF of
  <2> QED
    BY <1>5, FailApart
<1> QED
  BY <1>3, <1>4, <1>5 DEF Insert

LEMMA RemoveStaysOut ==
  ASSUME Tidy, NEW path, PathOK(path), \A i \in DOMAIN path : OnDetached(path[i]), Remove(path)
  PROVE  TreeStays
<1> DEFINE m == Matches(path)
           r == RemoveEach(heap, m.nodes)
           of == <<"Remove", path>>
<1>1. m.nodes \in Seq(heap.used \ heap.live)
  BY MatchesOutside
<1>2. heap \in Heaps /\ Shaped(heap) /\ Enclosed(heap, heap.live) /\ Apart(heap, heap.live, heap)
  BY TreeApart, TidyIs
<1>3. Apart(heap, heap.live, r.heap)
  <2> HIDE DEF m
  <2> QED
    BY <1>1, <1>2, RemovesApart
<1>4. Return(of, r.heap, vars, FALSE, r.count) \/ Fail(of, 0)
  BY DEF Remove
<1> HIDE DEF r, of
<1> QED
  BY <1>3, <1>4, ReturnApart, FailApart

(* Set, SetMultiple, Insert and Remove, called on variables whose nodes have *)
(* all left the tree, leave the tree alone, as long as no struct that Move   *)
(* or TextStore dropped is still held.                                       *)
THEOREM DetachedCorrect ==
  Spec /\ DiscardedIsGarbage => DetachedEditsStayOut
<1>1. Init => Tidy
  BY InitTidy
<1>2. Tidy /\ [Next]_state /\ [Discarded \cap heap'.used = {}]_state => Tidy'
  BY TidyGarbage
<1>3. ASSUME Tidy, Next, call'.of[1] \in {"Set", "SetMultiple", "Insert", "Remove"},
             \A i \in DOMAIN call'.of[2] : OnDetached(call'.of[2][i])
      PROVE  TreeStays
  <2>1. CASE \E p \in SetPaths, v \in Value : Set(p, v) /\ call'.of[2] = p
    BY <1>3, <2>1, InputAssumption, SetStaysOut
  <2>2. CASE \E c \in SubPairs, v \in Value : SetMultiple(c[1], c[2], v) /\ call'.of[2] = c[1]
    BY <1>3, <2>2, InputAssumption, SetMultipleStaysOut
  <2>3. CASE \E c \in InsertCalls : Insert(c[1], c[2], c[3]) /\ call'.of[2] = c[1]
    BY <1>3, <2>3, InputAssumption, InsertStaysOut
  <2>4. CASE \E p \in RemovePaths : Remove(p) /\ call'.of[2] = p
    BY <1>3, <2>4, InputAssumption, RemoveStaysOut
  <2> QED
    BY <1>3, <2>1, <2>2, <2>3, <2>4, Editing
<1>4. Tidy /\ [Next]_state
        => [(/\ call'.of[1] \in {"Set", "SetMultiple", "Insert", "Remove"}
             /\ \A i \in DOMAIN call'.of[2] : OnDetached(call'.of[2][i]))
              => /\ InTree' = InTree
                 /\ \A n \in InTree : Kids(n)' = Kids(n) /\ heap'.value[n] = heap.value[n]]_state
  BY <1>3 DEF TreeStays
<1> QED
  BY <1>1, <1>2, <1>4, PTL DEF Spec, DiscardedIsGarbage, DetachedEditsStayOut
=============================================================================
