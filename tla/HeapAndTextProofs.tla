--------------------------- MODULE HeapAndTextProofs ---------------------------
(***************************************************************************)
(* What the calls of node.go and the slices below them do to any heap: the *)
(* types of its fields, the agreement of Parent with Children, and what    *)
(* Go's collector keeps; and that eval reads the text buildPath writes as  *)
(* the segments it was written from.                                       *)
(***************************************************************************)
EXTENDS PathText, FiniteSetTheorems, TLAPS
LOCAL INSTANCE FiniteSetsExt
LOCAL INSTANCE SequencesExt

(* One round of Below.  What Loops proves about numbers comes with it.       *)
BelowRound(h, q, T, k) == T \cup Offspring(h, T)
BelowRounds == INSTANCE Loops WITH Body <- BelowRound

(* The i-th child of n. *)
Kid(h, n, i) == h.array[h.arr[n]][i]

(* The heaps over labels L and values V. *)
Heap(L, V) ==
  [ used   : SUBSET Node,
    live   : SUBSET Node,
    label  : [Node -> L],
    value  : [Node -> V],
    parent : [Node -> Node \cup {Nil}],
    arr    : [Node -> Array \cup {Nil}],
    len    : [Node -> Nat],
    array  : [Array \cup {Nil} -> Seq(Node \cup {Nil})] ]

(* Every reference leads to an allocated node, every header fits its array.  *)
Shaped(h) ==
  /\ Root \in h.used
  /\ h.array[Nil] = <<>>
  /\ \A n \in Node : h.parent[n] \in h.used \cup {Nil}
  /\ \A n \in Node : h.len[n] <= Len(h.array[h.arr[n]])
  /\ \A n \in Node : \A i \in 1 .. h.len[n] : Kid(h, n, i) \in h.used
  /\ \A n \in Node \ h.used : h.arr[n] = Nil /\ h.parent[n] = Nil

(* A child of a node of K is listed once, by the node its Parent names; the  *)
(* root has no parent; no two nodes of K share an array.                     *)
ChildLinks(h, K) ==
  /\ h.parent[Root] = Nil
  /\ \A n \in K : \A i \in 1 .. h.len[n] : h.parent[Kid(h, n, i)] = n
  /\ \A n \in K : \A i, j \in 1 .. h.len[n] : Kid(h, n, i) = Kid(h, n, j) => i = j
  /\ \A m, n \in K : h.arr[m] = h.arr[n] /\ h.arr[m] # Nil => m = n

(* A node of K that has a parent is listed by it. *)
ParentLinks(h, K) ==
  \A n \in K : h.parent[n] # Nil => \E i \in 1 .. h.len[h.parent[n]] : Kid(h, h.parent[n], i) = n

(* T is closed when the children of its members are members. *)
Closed(h, T) == \A n \in T : \A i \in 1 .. h.len[n] : Kid(h, n, i) \in T

ClosedUp(h, T) == \A n \in T : h.parent[n] # Nil => h.parent[n] \in T

-----------------------------------------------------------------------------
LEMMA Identities ==
  /\ Lost \in Node /\ Root \in Node /\ Lost # Root /\ Nil \notin Node /\ Nil \notin Array
  /\ Lost \in Nat /\ Node \subseteq Nat /\ \A n \in Node : n <= Lost
BY HeapAssumption DEF Lost, Node, Root, Nil, Array

(* n.Children as a sequence. *)
LEMMA ChildrenAre ==
  ASSUME NEW L, NEW V, NEW h \in Heap(L, V), Shaped(h), NEW n \in Node
  PROVE  /\ Children(h, n) \in Seq(h.used)
         /\ Len(Children(h, n)) = h.len[n]
         /\ DOMAIN Children(h, n) = 1 .. h.len[n]
         /\ \A i \in 1 .. h.len[n] : Children(h, n)[i] = Kid(h, n, i)
<1> DEFINE s == h.array[h.arr[n]]
           k == h.len[n]
<1>1. s \in Seq(Node \cup {Nil}) /\ k \in Nat /\ k <= Len(s)
  BY DEF Heap, Shaped
<1>2. Children(h, n) = [i \in 1 .. k |-> s[i]]
  <2> HIDE DEF s, k
  <2>1. SubSeq(s, 1, k) = [i \in 1 .. k |-> s[i]]
    BY <1>1
  <2> QED
    BY <2>1 DEF s, k, Children
<1>3. \A i \in 1 .. k : s[i] \in h.used
  BY DEF Shaped, Kid
<1> HIDE DEF s, k
<1>4. Children(h, n) \in Seq(h.used) /\ Len(Children(h, n)) = k /\ DOMAIN Children(h, n) = 1 .. k
  BY <1>1, <1>2, <1>3
<1>5. \A i \in 1 .. k : Children(h, n)[i] = s[i]
  BY <1>2
<1> QED
  BY <1>4, <1>5 DEF s, k, Kid

-----------------------------------------------------------------------------
(* Allocation.  While Lost is not handed out a fresh node is a new one.      *)
LEMMA FreshIs ==
  ASSUME NEW h, h.used \in SUBSET Node
  PROVE  /\ Fresh(h) \in Node
         /\ Fresh(h) # Lost => Fresh(h) \notin h.used
         /\ \A y \in Node \ h.used : Fresh(h) <= y
<1> DEFINE T == (Node \ h.used) \cup {Lost}
<1>1. T \in SUBSET Nat /\ T # {} /\ T \subseteq Node
  BY Identities
<1>2. PICK x \in T : \A y \in T : x <= y
  BY <1>1, BelowRounds!LeastNatural
<1>3. Min(T) \in T /\ \A y \in T : Min(T) <= y
  <2> HIDE DEF T
  <2> QED
    BY <1>2 DEF Min
<1> QED
  BY <1>1, <1>3 DEF Fresh

(* There are more arrays than nodes. *)
LEMMA FreshArrayIs ==
  ASSUME NEW L, NEW V, NEW h \in Heap(L, V)
  PROVE  /\ FreshArray(h) \in Array
         /\ \A n \in h.used : h.arr[n] # FreshArray(h)
<1> DEFINE T == Array \ {h.arr[n] : n \in h.used}
<1>1. h.used \in SUBSET Node /\ Lost \in Nat
  BY Identities DEF Heap
<1>2. IsFiniteSet(Node) /\ Cardinality(Node) = Lost
  BY <1>1, FS_Interval DEF Node
<1>3. IsFiniteSet(Array) /\ Cardinality(Array) = Lost + 1
  BY <1>1, FS_Interval DEF Array
<1>4. IsFiniteSet(h.used) /\ Cardinality(h.used) <= Lost /\ Cardinality(h.used) \in Nat
  BY <1>1, <1>2, FS_Subset, FS_CardinalityType
<1>5. T # {}
  <2> SUFFICES ASSUME \A a \in Array : \E n \in h.used : h.arr[n] = a PROVE FALSE
    OBVIOUS
  <2> DEFINE f == [a \in Array |-> CHOOSE n \in h.used : h.arr[n] = a]
  <2>1. \A a \in Array : f[a] \in h.used /\ h.arr[f[a]] = a
    OBVIOUS
  <2>2. f \in [Array -> h.used]
    BY <2>1
  <2>3. \E a, b \in Array : a # b /\ f[a] = f[b]
    <3> HIDE DEF f
    <3>1. Cardinality(h.used) < Cardinality(Array)
      BY <1>1, <1>3, <1>4
    <3> QED
      BY <1>3, <1>4, <2>2, <3>1, FS_PigeonHole
  <2> HIDE DEF f
  <2> QED
    BY <2>1, <2>3
<1>6. T \in SUBSET Nat
  BY <1>1 DEF Array
<1>7. PICK x \in T : \A y \in T : x <= y
  BY <1>5, <1>6, BelowRounds!LeastNatural
<1>8. Min(T) \in T
  <2> HIDE DEF T
  <2> QED
    BY <1>7 DEF Min
<1> QED
  BY <1>8 DEF FreshArray

LEMMA HeapByFields ==
  ASSUME NEW L, NEW V, NEW h \in Heap(L, V), NEW g,
         g = [used |-> g.used, live |-> g.live, label |-> g.label, value |-> g.value,
              parent |-> g.parent, arr |-> g.arr, len |-> g.len, array |-> g.array],
         g.used \in SUBSET Node, g.live = h.live, g.label = h.label, g.value = h.value,
         g.parent \in [Node -> Node \cup {Nil}], g.arr \in [Node -> Array \cup {Nil}],
         g.len \in [Node -> Nat], g.array \in [Array \cup {Nil} -> Seq(Node \cup {Nil})]
  PROVE  g \in Heap(L, V)
BY DEF Heap

LEMMA NewNodeIs ==
  ASSUME NEW L, NEW V, NEW h \in Heap(L, V), Shaped(h), NEW l \in L, NEW g, g = NewNode(h, l)
  PROVE  /\ g \in Heap(L, V) /\ Shaped(g)
         /\ Fresh(h) \in Node /\ g.used = h.used \cup {Fresh(h)}
         /\ \A n \in Node : g.parent[n] = h.parent[n] /\ g.value[n] = h.value[n]
                            /\ g.len[n] = h.len[n] /\ g.arr[n] = h.arr[n]
         /\ \A n \in Node : \A i : Kid(g, n, i) = Kid(h, n, i)
<1>1. Fresh(h) \in Node
  BY FreshIs DEF Heap
<1>2. g \in Heap(L, V)
  BY <1>1 DEF NewNode, Heap
<1>3. /\ g.used = h.used \cup {Fresh(h)} /\ g.parent = h.parent /\ g.value = h.value
      /\ g.len = h.len /\ g.arr = h.arr /\ g.array = h.array
  BY DEF NewNode, Heap
<1>4. Shaped(g)
  BY <1>3 DEF Shaped, Kid
<1> QED
  BY <1>1, <1>2, <1>3, <1>4 DEF Kid

LEMMA NewNodeFields ==
  ASSUME NEW L, NEW V, NEW h \in Heap(L, V), NEW l \in L, NEW g, g = NewNode(h, l)
  PROVE  /\ g.value = h.value
         /\ \A n \in Node : g.label[n] = IF n = Fresh(h) THEN l ELSE h.label[n]
BY DEF NewNode, Heap

(* A new node is linked to nothing: the links of the others stay right.      *)
LEMMA NewNodeLinks ==
  ASSUME NEW L, NEW V, NEW h \in Heap(L, V), Shaped(h), NEW l \in L, NEW g, g = NewNode(h, l),
         Lost \notin g.used, ChildLinks(h, h.used)
  PROVE  /\ Fresh(h) \notin h.used /\ Fresh(h) # Root /\ g.parent[Fresh(h)] = Nil
         /\ ChildLinks(g, g.used)
         /\ \A K \in SUBSET Node : ParentLinks(h, K) => ParentLinks(g, K \cup {Fresh(h)})
<1> DEFINE f == Fresh(h)
<1>1. /\ f \in Node /\ g.used = h.used \cup {f} /\ g \in Heap(L, V)
      /\ \A n \in Node : g.parent[n] = h.parent[n] /\ g.len[n] = h.len[n] /\ g.arr[n] = h.arr[n]
      /\ \A n \in Node : \A i : Kid(g, n, i) = Kid(h, n, i)
  BY NewNodeIs
<1>2. f \notin h.used /\ f # Root
  <2>1. h.used \in SUBSET Node /\ Root \in h.used
    BY DEF Shaped, Heap
  <2>2. f # Lost
    BY <1>1
  <2> QED
    BY <2>1, <2>2, FreshIs
<1>3. h.parent[f] = Nil /\ h.arr[f] = Nil
  BY <1>1, <1>2 DEF Shaped
<1>4. h.len[f] = 0
  <2>1. h.len[f] \in Nat /\ h.len[f] <= Len(<<>>)
    BY <1>1, <1>3 DEF Shaped, Heap
  <2> QED
    BY <2>1
<1>5. h.used \subseteq Node /\ Root \in Node
  BY Identities DEF Heap
<1> HIDE DEF f
<1>6. \A n \in h.used : \A i \in 1 .. h.len[n] : Kid(h, n, i) \in Node
  BY <1>5 DEF Shaped
<1>7. ChildLinks(g, g.used)
  BY <1>1, <1>2, <1>3, <1>4, <1>5, <1>6 DEF ChildLinks
<1>8. ASSUME NEW K \in SUBSET Node, ParentLinks(h, K) PROVE ParentLinks(g, K \cup {f})
  <2>1. ASSUME NEW n \in K, g.parent[n] # Nil
        PROVE  \E i \in 1 .. g.len[g.parent[n]] : Kid(g, g.parent[n], i) = n
    <3>1. n \in Node /\ h.parent[n] = g.parent[n] /\ h.parent[n] \in Node
      BY <1>1, <2>1 DEF Heap
    <3> QED
      BY <1>1, <1>8, <2>1, <3>1 DEF ParentLinks
  <2> QED
    BY <1>1, <1>3, <2>1 DEF ParentLinks
<1> QED
  BY <1>1, <1>2, <1>3, <1>7, <1>8 DEF f

LEMMA SetNodeValueIs ==
  ASSUME NEW L, NEW V, NEW h \in Heap(L, V), Shaped(h), NEW n \in Node, NEW v \in V,
         NEW g, g = SetNodeValue(h, n, v)
  PROVE  /\ g \in Heap(L, V) /\ Shaped(g) /\ g.used = h.used
         /\ \A K : (ChildLinks(h, K) => ChildLinks(g, K)) /\ (ParentLinks(h, K) => ParentLinks(g, K))
<1>1. g \in Heap(L, V)
  BY DEF SetNodeValue, Heap
<1>2. /\ g.used = h.used /\ g.parent = h.parent /\ g.len = h.len /\ g.arr = h.arr
      /\ g.array = h.array
  BY DEF SetNodeValue, Heap
<1> QED
  BY <1>1, <1>2 DEF Shaped, ChildLinks, ParentLinks, Kid

-----------------------------------------------------------------------------
(* append: the header of n grows by one slot, which holds c; the array is    *)
(* the one it had or one no node has.                                        *)
Appended(h, n, c, g) ==
  /\ g.used = h.used /\ g.parent = h.parent
  /\ g.label = h.label /\ g.value = h.value /\ g.live = h.live
  /\ g.len = [h.len EXCEPT ![n] = h.len[n] + 1]
  /\ \A m \in Node \ {n} : g.arr[m] = h.arr[m]
  /\ g.arr[n] \in Array /\ (g.arr[n] # h.arr[n] => \A m \in h.used : h.arr[m] # g.arr[n])
  /\ \A a \in Array \cup {Nil} : a # g.arr[n] => g.array[a] = h.array[a]
  /\ h.len[n] + 1 <= Len(g.array[g.arr[n]])
  /\ \A i \in 1 .. h.len[n] : g.array[g.arr[n]][i] = Kid(h, n, i)
  /\ g.array[g.arr[n]][h.len[n] + 1] = c
  /\ g.arr[n] = h.arr[n] =>
       /\ Len(g.array[g.arr[n]]) = Len(h.array[h.arr[n]])
       /\ \A i \in 1 .. Len(h.array[h.arr[n]]) :
            i # h.len[n] + 1 => g.array[g.arr[n]][i] = h.array[h.arr[n]][i]

LEMMA Append1Is ==
  ASSUME NEW L, NEW V, NEW h \in Heap(L, V), Shaped(h), NEW n \in h.used, NEW c \in h.used \cup {Nil},
         NEW g, g = Append1(h, n, c)
  PROVE  g \in Heap(L, V) /\ Appended(h, n, c, g)
<1> DEFINE a == h.arr[n]
           k == h.len[n]
           f == FreshArray(h)
           cap == IF k = 0 THEN 1 ELSE 2 * k
           new == [i \in 1 .. cap |-> CASE i <= k    -> h.array[a][i]
                                        [] i = k + 1 -> c
                                        [] OTHER     -> Nil]
<1>1. /\ n \in Node /\ h.used \in SUBSET Node /\ c \in Node \cup {Nil}
      /\ k \in Nat /\ a \in Array \cup {Nil} /\ k <= Len(h.array[a])
      /\ h.array[a] \in Seq(Node \cup {Nil})
  BY DEF Heap, Shaped
<1>2. f \in Array /\ \A m \in h.used : h.arr[m] # f
  BY FreshArrayIs
<1>3. Nil \notin Array /\ h.array[Nil] = <<>>
  BY Identities DEF Shaped
<1>4. \A i \in 1 .. k : h.array[a][i] = Kid(h, n, i) /\ h.array[a][i] \in Node \cup {Nil}
  BY <1>1 DEF Kid
<1>5. CASE k < Len(h.array[a])
  <2>1. g = [h EXCEPT !.array[a][k + 1] = c, !.len[n] = k + 1]
    BY <1>5 DEF Append1
  <2>2. a # Nil
    BY <1>1, <1>3, <1>5
  <2> DEFINE s == [h.array[a] EXCEPT ![k + 1] = c]
  <2>3. /\ s \in Seq(Node \cup {Nil}) /\ Len(s) = Len(h.array[a]) /\ s[k + 1] = c
        /\ \A i \in 1 .. Len(h.array[a]) : i # k + 1 => s[i] = h.array[a][i]
    BY <1>1, <1>5
  <2> HIDE DEF a, k, s
  <2>4. /\ g.used = h.used /\ g.parent = h.parent /\ g.label = h.label /\ g.value = h.value
        /\ g.live = h.live /\ g.arr = h.arr
        /\ g.len = [h.len EXCEPT ![n] = k + 1]
        /\ g.array = [h.array EXCEPT ![a] = s]
    BY <2>1 DEF Heap, s
  <2>5. g \in Heap(L, V)
    <3>1. g = [used |-> g.used, live |-> g.live, label |-> g.label, value |-> g.value,
               parent |-> g.parent, arr |-> g.arr, len |-> g.len, array |-> g.array]
      BY <2>1 DEF Heap
    <3>2. g.used \in SUBSET Node /\ g.parent \in [Node -> Node \cup {Nil}]
      BY <1>1, <2>3, <2>4 DEF Heap
    <3>3. g.arr \in [Node -> Array \cup {Nil}]
      BY <1>1, <2>3, <2>4 DEF Heap
    <3>4. g.len \in [Node -> Nat]
      BY <1>1, <2>3, <2>4 DEF Heap
    <3>5. g.array \in [Array \cup {Nil} -> Seq(Node \cup {Nil})]
      BY <1>1, <2>3, <2>4 DEF Heap
    <3> QED
      BY <2>4, <3>1, <3>2, <3>3, <3>4, <3>5, HeapByFields
  <2>6. g.array[a] = s /\ \A b \in Array \cup {Nil} : b # a => g.array[b] = h.array[b]
    BY <1>1, <2>4 DEF Heap
  <2> QED
    <3>1. g.arr[n] = a /\ a \in Array /\ \A m \in Node : g.arr[m] = h.arr[m]
      BY <1>1, <2>2, <2>4 DEF a
    <3>2. k + 1 <= Len(s) /\ \A i \in 1 .. k : s[i] = Kid(h, n, i)
      BY <1>1, <1>4, <1>5, <2>3
    <3> QED
      BY <2>3, <2>4, <2>5, <2>6, <3>1, <3>2 DEF a, k, Appended
<1>6. CASE ~(k < Len(h.array[a]))
  <2>1. g = [h EXCEPT !.array[f] = new, !.arr[n] = f, !.len[n] = k + 1]
    BY <1>6 DEF Append1
  <2>2. /\ new \in Seq(Node \cup {Nil}) /\ Len(new) = cap /\ k + 1 <= cap /\ new[k + 1] = c
        /\ \A i \in 1 .. k : new[i] = h.array[a][i]
    <3>1. cap \in Nat /\ k + 1 <= cap
      BY <1>1
    <3>2. \A i \in 1 .. k : new[i] = h.array[a][i]
      BY <1>1, <3>1
    <3>3. new[k + 1] = c
      BY <1>1, <3>1
    <3>4. \A i \in 1 .. cap : i > k + 1 => new[i] = Nil
      BY <1>1, <3>1
    <3>5. ASSUME NEW i \in 1 .. cap PROVE new[i] \in Node \cup {Nil}
      <4>1. i \in 1 .. k \/ i = k + 1 \/ i > k + 1
        BY <1>1, <3>1
      <4> QED
        BY <1>1, <1>4, <3>2, <3>3, <3>4, <4>1
    <3>6. DOMAIN new = 1 .. cap /\ new = [i \in 1 .. cap |-> new[i]]
      OBVIOUS
    <3> HIDE DEF new, cap
    <3>7. new \in [1 .. cap -> Node \cup {Nil}]
      BY <3>5, <3>6
    <3>8. new \in Seq(Node \cup {Nil}) /\ Len(new) = cap
      BY <3>1, <3>7
    <3> QED
      BY <3>1, <3>2, <3>3, <3>8
  <2> HIDE DEF a, k, f, cap, new
  <2>3. /\ g.used = h.used /\ g.parent = h.parent /\ g.label = h.label /\ g.value = h.value
        /\ g.live = h.live
        /\ g.arr = [h.arr EXCEPT ![n] = f]
        /\ g.len = [h.len EXCEPT ![n] = k + 1]
        /\ g.array = [h.array EXCEPT ![f] = new]
    BY <2>1 DEF Heap
  <2>4. g \in Heap(L, V)
    <3>1. g = [used |-> g.used, live |-> g.live, label |-> g.label, value |-> g.value,
               parent |-> g.parent, arr |-> g.arr, len |-> g.len, array |-> g.array]
      BY <2>1 DEF Heap
    <3>2. g.used \in SUBSET Node /\ g.parent \in [Node -> Node \cup {Nil}]
      BY <1>1, <1>2, <2>2, <2>3 DEF Heap
    <3>3. g.arr \in [Node -> Array \cup {Nil}]
      BY <1>1, <1>2, <2>2, <2>3 DEF Heap
    <3>4. g.len \in [Node -> Nat]
      BY <1>1, <1>2, <2>2, <2>3 DEF Heap
    <3>5. g.array \in [Array \cup {Nil} -> Seq(Node \cup {Nil})]
      BY <1>1, <1>2, <2>2, <2>3 DEF Heap
    <3> QED
      BY <2>3, <3>1, <3>2, <3>3, <3>4, <3>5, HeapByFields
  <2>5. g.array[f] = new /\ \A b \in Array \cup {Nil} : b # f => g.array[b] = h.array[b]
    BY <1>2, <2>3 DEF Heap
  <2>6. g.arr[n] = f /\ (\A m \in Node \ {n} : g.arr[m] = h.arr[m]) /\ f # h.arr[n]
    BY <1>1, <1>2, <2>3 DEF Heap
  <2> QED
    <3>1. g.arr[n] \in Array /\ \A m \in h.used : h.arr[m] # g.arr[n]
      BY <1>2, <2>6
    <3>2. k + 1 <= Len(new) /\ \A i \in 1 .. k : new[i] = Kid(h, n, i)
      BY <1>4, <2>2
    <3> QED
      BY <2>2, <2>3, <2>4, <2>5, <2>6, <3>1, <3>2 DEF a, k, Appended
<1> QED
  BY <1>5, <1>6

(* A Parent field set to an allocated node or to none. *)
ParentSet(h, c, p, g) ==
  /\ g.used = h.used /\ g.live = h.live /\ g.label = h.label /\ g.value = h.value
  /\ g.arr = h.arr /\ g.len = h.len /\ g.array = h.array
  /\ \A m \in Node : g.parent[m] = IF m = c THEN p ELSE h.parent[m]

LEMMA SetParentIs ==
  ASSUME NEW L, NEW V, NEW h \in Heap(L, V), Shaped(h), NEW c \in h.used, NEW p \in h.used \cup {Nil},
         NEW g, g = [h EXCEPT !.parent[c] = p]
  PROVE  g \in Heap(L, V) /\ Shaped(g) /\ ParentSet(h, c, p, g)
<1>1. h.used \in SUBSET Node /\ c \in Node /\ p \in Node \cup {Nil}
  BY DEF Heap
<1>2. g \in Heap(L, V)
  BY <1>1 DEF Heap
<1>3. /\ g.used = h.used /\ g.live = h.live /\ g.label = h.label /\ g.value = h.value
      /\ g.arr = h.arr /\ g.len = h.len /\ g.array = h.array
      /\ g.parent = [h.parent EXCEPT ![c] = p]
  BY DEF Heap
<1>4. \A m \in Node : g.parent[m] = IF m = c THEN p ELSE h.parent[m]
  BY <1>1, <1>3 DEF Heap
<1>5. Shaped(g)
  BY <1>1, <1>3, <1>4 DEF Shaped, Kid
<1> QED
  BY <1>2, <1>3, <1>4, <1>5 DEF ParentSet

(* What making c the child of n behind its first idx children does to the    *)
(* links, and to no others.                                                  *)
ChildInserted(h, n, idx, c, g) ==
  /\ g.used = h.used /\ g.label = h.label /\ g.value = h.value
  /\ \A m \in Node : g.parent[m] = IF m = c THEN n ELSE h.parent[m]
  /\ \A m \in Node : g.len[m] = IF m = n THEN h.len[n] + 1 ELSE h.len[m]
  /\ \A i \in 1 .. h.len[n] + 1 :
       Kid(g, n, i) = IF i <= idx THEN Kid(h, n, i)
                      ELSE IF i = idx + 1 THEN c ELSE Kid(h, n, i - 1)
  /\ \A m \in Node \ {n} : g.arr[m] = h.arr[m]
  /\ g.arr[n] \in Array /\ (g.arr[n] # h.arr[n] => \A m \in h.used : h.arr[m] # g.arr[n])
  /\ \A m \in Node \ {n} : h.arr[m] # g.arr[n] => \A i : Kid(g, m, i) = Kid(h, m, i)

LEMMA AppendChildIs ==
  ASSUME NEW L, NEW V, NEW h \in Heap(L, V), Shaped(h), NEW n \in h.used, NEW c \in h.used,
         NEW g, g = AppendChild(h, n, c)
  PROVE  g \in Heap(L, V) /\ Shaped(g) /\ ChildInserted(h, n, h.len[n], c, g)
<1> DEFINE e == [h EXCEPT !.parent[c] = n]
<1>0. e \in Heap(L, V) /\ Shaped(e) /\ ParentSet(h, c, n, e)
  BY SetParentIs
<1>1. /\ e \in Heap(L, V) /\ Shaped(e) /\ e.used = h.used /\ e.live = h.live
      /\ e.label = h.label /\ e.value = h.value
      /\ e.arr = h.arr /\ e.len = h.len /\ e.array = h.array
      /\ \A m \in Node : e.parent[m] = IF m = c THEN n ELSE h.parent[m]
  <2> HIDE DEF e
  <2> QED
    BY <1>0 DEF ParentSet
<1>2. g = Append1(e, n, c)
  BY DEF AppendChild
<1> HIDE DEF e
<1>3. \A m \in Node : \A i : Kid(e, m, i) = Kid(h, m, i)
  BY <1>1 DEF Kid
<1>4. /\ g \in Heap(L, V) /\ g.used = e.used /\ g.parent = e.parent
      /\ g.label = e.label /\ g.value = e.value
      /\ g.len = [e.len EXCEPT ![n] = e.len[n] + 1]
      /\ \A m \in Node \ {n} : g.arr[m] = e.arr[m]
      /\ g.arr[n] \in Array /\ (g.arr[n] # e.arr[n] => \A m \in e.used : e.arr[m] # g.arr[n])
      /\ \A a \in Array \cup {Nil} : a # g.arr[n] => g.array[a] = e.array[a]
      /\ e.len[n] + 1 <= Len(g.array[g.arr[n]])
      /\ \A i \in 1 .. e.len[n] : g.array[g.arr[n]][i] = Kid(e, n, i)
      /\ g.array[g.arr[n]][e.len[n] + 1] = c
      /\ g.arr[n] = e.arr[n] =>
           /\ Len(g.array[g.arr[n]]) = Len(e.array[e.arr[n]])
           /\ \A i \in 1 .. Len(e.array[e.arr[n]]) :
                i # e.len[n] + 1 => g.array[g.arr[n]][i] = e.array[e.arr[n]][i]
  <2>1. n \in e.used /\ c \in e.used \cup {Nil}
    BY <1>1
  <2>2. g \in Heap(L, V) /\ Appended(e, n, c, g)
    BY <1>1, <1>2, <2>1, Append1Is
  <2> QED
    BY <2>2 DEF Appended
<1>5. n \in Node /\ h.used \in SUBSET Node /\ Nil \notin Array
  BY Identities DEF Heap
<1>6. \A m \in Node : e.arr[m] \in Array \cup {Nil} /\ e.len[m] \in Nat /\ e.len[m] <= Len(e.array[e.arr[m]])
  BY <1>1 DEF Shaped, Heap
<1>7. \A m \in Node \ {n} : e.arr[m] # g.arr[n] => \A i : Kid(g, m, i) = Kid(e, m, i)
  BY <1>4, <1>6 DEF Kid
<1>8. \A i \in 1 .. e.len[n] : Kid(g, n, i) = Kid(e, n, i)
  BY <1>4 DEF Kid
<1>9. Kid(g, n, e.len[n] + 1) = c
  BY <1>4 DEF Kid
<1>10. Shaped(g)
  <2>1. Root \in g.used /\ g.array[Nil] = <<>> /\ \A m \in Node : g.parent[m] \in g.used \cup {Nil}
    BY <1>1, <1>4, <1>5 DEF Shaped
  <2>2. \A m \in Node \ g.used : g.arr[m] = Nil /\ g.parent[m] = Nil
    BY <1>1, <1>4, <1>5 DEF Shaped
  <2>3. ASSUME NEW m \in Node
        PROVE  /\ g.len[m] <= Len(g.array[g.arr[m]])
               /\ \A i \in 1 .. g.len[m] : Kid(g, m, i) \in g.used
    <3>1. \A i \in 1 .. e.len[m] : Kid(e, m, i) \in g.used
      BY <1>1, <1>4 DEF Shaped
    <3>2. CASE m = n
      <4>1. g.len[n] = e.len[n] + 1
        BY <1>1, <1>4, <1>5 DEF Heap
      <4>2. ASSUME NEW i \in 1 .. g.len[n] PROVE Kid(g, n, i) \in g.used
        <5>1. i \in 1 .. e.len[n] \/ i = e.len[n] + 1
          BY <1>5, <1>6, <4>1
        <5> QED
          BY <1>1, <1>4, <1>8, <1>9, <3>1, <3>2, <5>1
      <4> QED
        BY <1>4, <3>2, <4>1, <4>2
    <3>3. CASE m # n
      <4>1. g.len[m] = e.len[m] /\ g.arr[m] = e.arr[m]
        BY <1>1, <1>4, <3>3 DEF Heap
      <4>2. CASE e.arr[m] # g.arr[n]
        <5>1. g.array[e.arr[m]] = e.array[e.arr[m]]
          BY <1>4, <1>6, <4>2
        <5> QED
          BY <1>6, <1>7, <3>1, <3>3, <4>1, <4>2, <5>1
      <4>3. CASE e.arr[m] = g.arr[n]
        <5>1. m \in e.used
          BY <1>1, <1>4, <1>5, <4>3 DEF Shaped
        <5>2. g.arr[n] = e.arr[n]
          BY <1>4, <4>3, <5>1
        <5>3. Len(g.array[g.arr[m]]) = Len(e.array[e.arr[m]])
          BY <1>4, <4>1, <4>3, <5>2
        <5>4. ASSUME NEW i \in 1 .. e.len[m] PROVE Kid(g, m, i) \in g.used
          <6>1. i \in 1 .. Len(e.array[e.arr[n]])
            <7>1. e.array[e.arr[m]] \in Seq(Node \cup {Nil})
              BY <1>1, <1>6 DEF Heap
            <7>2. Len(e.array[e.arr[m]]) \in Nat
              BY <7>1
            <7> QED
              BY <1>6, <4>3, <5>2, <7>2
          <6>2. CASE i = e.len[n] + 1
            BY <1>1, <1>4, <4>1, <4>3, <6>2 DEF Kid
          <6>3. CASE i # e.len[n] + 1
            <7>1. Kid(g, m, i) = Kid(e, m, i)
              BY <1>4, <4>1, <4>3, <5>2, <6>1, <6>3 DEF Kid
            <7> QED
              BY <3>1, <7>1
          <6> QED
            BY <6>2, <6>3
        <5> QED
          BY <1>6, <4>1, <5>3, <5>4
      <4> QED
        BY <4>2, <4>3
    <3> QED
      BY <3>2, <3>3
  <2> QED
    BY <2>1, <2>2, <2>3 DEF Shaped
<1>11. \A m \in Node : g.len[m] = IF m = n THEN h.len[n] + 1 ELSE h.len[m]
  BY <1>1, <1>4 DEF Heap
<1>12. \A i \in 1 .. h.len[n] + 1 : i <= h.len[n] \/ i = h.len[n] + 1
  BY <1>1, <1>5, <1>6
<1>13. \A i \in 1 .. h.len[n] + 1 :
         Kid(g, n, i) = IF i <= h.len[n] THEN Kid(h, n, i)
                        ELSE IF i = h.len[n] + 1 THEN c ELSE Kid(h, n, i - 1)
  BY <1>1, <1>3, <1>5, <1>6, <1>8, <1>9, <1>12
<1> QED
  BY <1>1, <1>3, <1>4, <1>5, <1>7, <1>10, <1>11, <1>13 DEF ChildInserted

(* Giving a place to a child that has no parent keeps the links right. *)
THEOREM ChildInsertedLinks ==
  ASSUME NEW L, NEW V, NEW h \in Heap(L, V), Shaped(h), NEW n \in h.used, NEW c \in h.used,
         h.parent[c] = Nil, c # Root, ChildLinks(h, h.used),
         NEW idx \in 0 .. h.len[n], NEW g, ChildInserted(h, n, idx, c, g)
  PROVE  /\ ChildLinks(g, g.used)
         /\ \A K \in SUBSET Node : ParentLinks(h, K) => ParentLinks(g, K \cup {c})
<1>1. /\ h.used \in SUBSET Node /\ n \in Node /\ c \in Node /\ Root \in Node
      /\ Nil \notin Node /\ Nil \notin Array
  BY Identities DEF Heap
<1>2. (\A m \in Node : h.len[m] \in Nat) /\ idx \in Nat
  BY <1>1 DEF Heap
<1>3. /\ g.used = h.used
      /\ \A m \in Node : g.parent[m] = IF m = c THEN n ELSE h.parent[m]
      /\ \A m \in Node : g.len[m] = IF m = n THEN h.len[n] + 1 ELSE h.len[m]
      /\ \A i \in 1 .. h.len[n] + 1 :
           Kid(g, n, i) = IF i <= idx THEN Kid(h, n, i)
                          ELSE IF i = idx + 1 THEN c ELSE Kid(h, n, i - 1)
      /\ \A m \in Node \ {n} : g.arr[m] = h.arr[m]
      /\ g.arr[n] \in Array /\ (g.arr[n] # h.arr[n] => \A m \in h.used : h.arr[m] # g.arr[n])
  BY DEF ChildInserted
<1>4. \A m \in h.used \ {n} : h.arr[m] # g.arr[n]
  BY <1>1, <1>3 DEF ChildLinks
<1>5. \A m \in h.used \ {n} : \A i : Kid(g, m, i) = Kid(h, m, i)
  BY <1>1, <1>4 DEF ChildInserted
<1>6. \A m \in h.used : \A i \in 1 .. h.len[m] : Kid(h, m, i) \in h.used /\ h.parent[Kid(h, m, i)] = m
                                                 /\ Kid(h, m, i) # c
  BY <1>1 DEF Shaped, ChildLinks
<1> DEFINE was(m, i) == IF m = n /\ i > idx THEN i - 1 ELSE i
<1>7. ASSUME NEW m \in h.used, NEW i \in 1 .. g.len[m]
      PROVE  \/ was(m, i) \in 1 .. h.len[m] /\ Kid(g, m, i) = Kid(h, m, was(m, i))
                /\ ~(m = n /\ i = idx + 1)
             \/ m = n /\ i = idx + 1 /\ Kid(g, m, i) = c
  <2>1. CASE m = n
    <3>1. i \in 1 .. h.len[n] + 1
      BY <1>1, <1>3, <2>1
    <3>2. i <= idx => was(m, i) \in 1 .. h.len[n] /\ Kid(g, m, i) = Kid(h, n, was(m, i))
      BY <1>1, <1>2, <1>3, <2>1, <3>1
    <3>3. i > idx + 1 => was(m, i) \in 1 .. h.len[n] /\ Kid(g, m, i) = Kid(h, n, was(m, i))
      BY <1>1, <1>2, <1>3, <2>1, <3>1
    <3>4. i = idx + 1 => Kid(g, m, i) = c
      BY <1>1, <1>2, <1>3, <2>1, <3>1
    <3>5. i <= idx \/ i = idx + 1 \/ i > idx + 1
      BY <1>2, <3>1
    <3> HIDE DEF was
    <3> QED
      BY <1>2, <2>1, <3>2, <3>3, <3>4, <3>5
  <2>2. CASE m # n
    BY <1>1, <1>3, <1>5, <2>2
  <2> QED
    BY <2>1, <2>2
<1>8. ASSUME NEW m \in h.used, NEW i \in 1 .. g.len[m], NEW j \in 1 .. g.len[m],
             was(m, i) = was(m, j), ~(m = n /\ i = idx + 1), ~(m = n /\ j = idx + 1)
      PROVE  i = j
  <2>1. g.len[m] \in Nat
    BY <1>1, <1>2, <1>3
  <2> QED
    BY <1>2, <1>8, <2>1
<1> HIDE DEF was
<1>9. ASSUME NEW m \in h.used, NEW i \in 1 .. g.len[m]
      PROVE  g.parent[Kid(g, m, i)] = m
  BY <1>1, <1>3, <1>6, <1>7
<1>10. ASSUME NEW m \in h.used, NEW i \in 1 .. g.len[m], NEW j \in 1 .. g.len[m],
              Kid(g, m, i) = Kid(g, m, j)
       PROVE  i = j
  <2>1. CASE Kid(g, m, i) = c
    <3>1. ~(was(m, i) \in 1 .. h.len[m] /\ Kid(g, m, i) = Kid(h, m, was(m, i)))
      BY <1>6, <2>1
    <3>2. ~(was(m, j) \in 1 .. h.len[m] /\ Kid(g, m, j) = Kid(h, m, was(m, j)))
      BY <1>6, <1>10, <2>1
    <3>3. i = idx + 1 /\ j = idx + 1
      BY <1>7, <3>1, <3>2
    <3> QED
      BY <3>3
  <2>2. CASE Kid(g, m, i) # c
    <3>1. /\ was(m, i) \in 1 .. h.len[m] /\ was(m, j) \in 1 .. h.len[m]
          /\ Kid(h, m, was(m, i)) = Kid(h, m, was(m, j))
          /\ ~(m = n /\ i = idx + 1) /\ ~(m = n /\ j = idx + 1)
      BY <1>7, <1>10, <2>2
    <3>2. was(m, i) = was(m, j)
      BY <3>1 DEF ChildLinks
    <3> QED
      BY <1>8, <3>1, <3>2
  <2> QED
    BY <2>1, <2>2
<1>11. \A m, k \in g.used : g.arr[m] = g.arr[k] /\ g.arr[m] # Nil => m = k
  BY <1>1, <1>3, <1>4 DEF ChildLinks
<1>12. ChildLinks(g, g.used)
  BY <1>1, <1>3, <1>9, <1>10, <1>11 DEF ChildLinks
<1>13. ASSUME NEW K \in SUBSET Node, ParentLinks(h, K)
       PROVE  ParentLinks(g, K \cup {c})
  <2>1. ASSUME NEW m \in K \cup {c}, g.parent[m] # Nil
        PROVE  \E i \in 1 .. g.len[g.parent[m]] : Kid(g, g.parent[m], i) = m
    <3>1. CASE m = c
      <4>1. g.parent[m] = n /\ idx + 1 \in 1 .. g.len[n] /\ g.len[n] = h.len[n] + 1
        BY <1>1, <1>2, <1>3, <3>1
      <4>2. Kid(g, n, idx + 1) = c
        BY <1>2, <1>3, <4>1
      <4> QED
        BY <3>1, <4>1, <4>2
    <3>2. CASE m # c
      <4>1. m \in K /\ g.parent[m] = h.parent[m] /\ h.parent[m] \in h.used
        BY <1>1, <1>3, <2>1, <3>2 DEF Shaped
      <4>2. PICK i \in 1 .. h.len[h.parent[m]] : Kid(h, h.parent[m], i) = m
        BY <1>13, <2>1, <4>1 DEF ParentLinks
      <4>3. CASE h.parent[m] = n
        <5> DEFINE j == IF i <= idx THEN i ELSE i + 1
        <5>1. g.len[n] = h.len[n] + 1 /\ j \in 1 .. h.len[n] + 1
          BY <1>1, <1>2, <1>3, <4>2, <4>3
        <5>2. Kid(g, n, j) = Kid(h, n, i)
          <6>1. CASE i <= idx
            BY <1>2, <1>3, <5>1, <6>1
          <6>2. CASE i > idx
            <7>1. j = i + 1 /\ ~(j <= idx) /\ j # idx + 1 /\ j - 1 = i
              BY <1>2, <4>2, <6>2
            <7> QED
              BY <1>3, <5>1, <7>1
          <6> QED
            BY <1>2, <4>2, <6>1, <6>2
        <5> HIDE DEF j
        <5> QED
          BY <4>1, <4>2, <4>3, <5>1, <5>2
      <4>4. CASE h.parent[m] # n
        BY <1>1, <1>2, <1>3, <1>5, <4>1, <4>2, <4>4
      <4> QED
        BY <4>3, <4>4
    <3> QED
      BY <3>1, <3>2
  <2> QED
    BY <2>1 DEF ParentLinks
<1> QED
  BY <1>12, <1>13

LEMMA InsertChildIs ==
  ASSUME NEW L, NEW V, NEW h \in Heap(L, V), Shaped(h), NEW n \in h.used, NEW c \in h.used,
         NEW idx \in 0 .. h.len[n], NEW g, g = InsertChild(h, n, idx, c)
  PROVE  g \in Heap(L, V) /\ Shaped(g) /\ ChildInserted(h, n, idx, c, g)
<1> DEFINE e == [h EXCEPT !.parent[c] = n]
           f == Append1(e, n, Nil)
           old == f.array[f.arr[n]]
           k == h.len[n]
           new == [j \in DOMAIN old |-> CASE j = idx + 1                   -> c
                                          [] idx + 1 < j /\ j <= f.len[n]  -> old[j - 1]
                                          [] OTHER                         -> old[j]]
<1>1. e \in Heap(L, V) /\ Shaped(e) /\ ParentSet(h, c, n, e)
  BY SetParentIs
<1>2. g = [f EXCEPT !.array[f.arr[n]] = new]
  BY DEF InsertChild
<1>3. /\ h.used \in SUBSET Node /\ n \in Node /\ c \in Node /\ Nil \notin Array /\ k \in Nat
      /\ idx \in Nat /\ idx <= k
  <2>1. h.used \in SUBSET Node /\ n \in Node /\ c \in Node /\ Nil \notin Array /\ k \in Nat
    BY Identities DEF Heap
  <2> QED
    BY <2>1
<1> HIDE DEF e
<1>4. f \in Heap(L, V) /\ Appended(e, n, Nil, f)
  <2>1. n \in e.used
    BY <1>1 DEF ParentSet
  <2> QED
    BY <1>1, <2>1, Append1Is
<1> HIDE DEF f
<1>5. /\ e.used = h.used /\ e.live = h.live /\ e.label = h.label /\ e.value = h.value
      /\ e.arr = h.arr /\ e.len = h.len /\ e.array = h.array
      /\ \A m \in Node : e.parent[m] = IF m = c THEN n ELSE h.parent[m]
  BY <1>1 DEF ParentSet
<1>6. \A m \in Node : \A i : Kid(e, m, i) = Kid(h, m, i)
  BY <1>5 DEF Kid
<1>7. /\ f.used = e.used /\ f.parent = e.parent /\ f.label = e.label /\ f.value = e.value
      /\ f.live = e.live
      /\ f.len = [e.len EXCEPT ![n] = e.len[n] + 1]
      /\ \A m \in Node \ {n} : f.arr[m] = e.arr[m]
      /\ f.arr[n] \in Array /\ (f.arr[n] # e.arr[n] => \A m \in e.used : e.arr[m] # f.arr[n])
      /\ \A a \in Array \cup {Nil} : a # f.arr[n] => f.array[a] = e.array[a]
      /\ e.len[n] + 1 <= Len(f.array[f.arr[n]])
      /\ \A i \in 1 .. e.len[n] : f.array[f.arr[n]][i] = Kid(e, n, i)
      /\ f.arr[n] = e.arr[n] =>
           /\ Len(f.array[f.arr[n]]) = Len(e.array[e.arr[n]])
           /\ \A i \in 1 .. Len(e.array[e.arr[n]]) :
                i # e.len[n] + 1 => f.array[f.arr[n]][i] = e.array[e.arr[n]][i]
  BY <1>4 DEF Appended
<1>8. \A m \in Node : f.len[m] = IF m = n THEN k + 1 ELSE h.len[m]
  BY <1>1, <1>3, <1>5, <1>7 DEF Heap
<1>9. old \in Seq(Node \cup {Nil}) /\ Len(old) \in Nat /\ DOMAIN old = 1 .. Len(old) /\ k + 1 <= Len(old)
  <2>1. old \in Seq(Node \cup {Nil})
    BY <1>4, <1>7 DEF Heap
  <2>2. k + 1 <= Len(old)
    BY <1>5, <1>7
  <2> HIDE DEF old
  <2> QED
    BY <2>1, <2>2
<1>10. \A i \in 1 .. k : old[i] = Kid(h, n, i) /\ Kid(h, n, i) \in h.used
  BY <1>3, <1>5, <1>6, <1>7 DEF Shaped
<1> HIDE DEF old
<1>11. \A j \in 1 .. Len(old) : old[j] \in Node \cup {Nil}
  BY <1>9
<1>12. \A j \in 1 .. Len(old) :
         new[j] = IF j = idx + 1 THEN c
                  ELSE IF idx + 1 < j /\ j <= k + 1 THEN old[j - 1] ELSE old[j]
  BY <1>3, <1>8, <1>9
<1>13. new \in Seq(Node \cup {Nil}) /\ Len(new) = Len(old)
  <2>1. DOMAIN new = 1 .. Len(old)
    BY <1>9
  <2>2. \A j \in 1 .. Len(old) : idx + 1 < j => j - 1 \in 1 .. Len(old)
    BY <1>3, <1>9
  <2>3. \A j \in 1 .. Len(old) : new[j] \in Node \cup {Nil}
    BY <1>3, <1>11, <1>12, <2>2
  <2>4. new = [j \in 1 .. Len(old) |-> new[j]]
    BY <2>1
  <2> HIDE DEF new
  <2>5. new \in [1 .. Len(old) -> Node \cup {Nil}]
    BY <2>3, <2>4
  <2> QED
    BY <1>9, <2>5
<1>14. \A i \in 1 .. k + 1 :
         new[i] = IF i <= idx THEN Kid(h, n, i)
                  ELSE IF i = idx + 1 THEN c ELSE Kid(h, n, i - 1)
  <2>1. ASSUME NEW i \in 1 .. k + 1
        PROVE  new[i] = IF i <= idx THEN Kid(h, n, i)
                        ELSE IF i = idx + 1 THEN c ELSE Kid(h, n, i - 1)
    <3>1. i \in 1 .. Len(old)
      BY <1>3, <1>9
    <3>2. i <= idx => i \in 1 .. k /\ i # idx + 1 /\ ~(idx + 1 < i)
      BY <1>3
    <3>3. i > idx + 1 => i - 1 \in 1 .. k /\ i # idx + 1 /\ ~(i <= idx) /\ i <= k + 1
      BY <1>3
    <3>4. i <= idx \/ i = idx + 1 \/ i > idx + 1
      BY <1>3
    <3>5. i = idx + 1 => ~(i <= idx)
      BY <1>3
    <3> HIDE DEF new, k
    <3> QED
      BY <1>10, <1>12, <3>1, <3>2, <3>3, <3>4, <3>5
  <2> QED
    BY <2>1
<1>15. \A i \in 1 .. k + 1 : new[i] \in h.used
  <2>1. \A i \in 1 .. k + 1 : (i <= idx => i \in 1 .. k) /\ (~(i <= idx) /\ i # idx + 1 => i - 1 \in 1 .. k)
    BY <1>3
  <2> HIDE DEF new, k
  <2> QED
    BY <1>10, <1>14, <2>1
<1> HIDE DEF new, k
<1>16. /\ g.used = h.used /\ g.live = f.live /\ g.label = h.label /\ g.value = h.value
       /\ g.parent = e.parent /\ g.len = f.len /\ g.arr = f.arr
       /\ g.array = [f.array EXCEPT ![f.arr[n]] = new]
  BY <1>2, <1>4, <1>5, <1>7 DEF Heap
<1>17. f.arr[n] \in Array \cup {Nil} /\ \A m \in Node : f.arr[m] \in Array \cup {Nil}
  BY <1>3, <1>4 DEF Heap
<1>18. g \in Heap(L, V)
  <2>1. g = [used |-> g.used, live |-> g.live, label |-> g.label, value |-> g.value,
             parent |-> g.parent, arr |-> g.arr, len |-> g.len, array |-> g.array]
    BY <1>2, <1>4 DEF Heap
  <2>2. g.used \in SUBSET Node /\ g.parent \in [Node -> Node \cup {Nil}]
    BY <1>1, <1>3, <1>16 DEF Heap
  <2>3. g.arr \in [Node -> Array \cup {Nil}] /\ g.len \in [Node -> Nat]
    BY <1>4, <1>16 DEF Heap
  <2>4. g.array \in [Array \cup {Nil} -> Seq(Node \cup {Nil})]
    BY <1>4, <1>13, <1>16, <1>17 DEF Heap
  <2>5. g.live = f.live /\ g.label = f.label /\ g.value = f.value
    BY <1>5, <1>7, <1>16
  <2> QED
    BY <1>4, <2>1, <2>2, <2>3, <2>4, <2>5, HeapByFields
<1>19. g.array[f.arr[n]] = new /\ \A a \in Array \cup {Nil} : a # f.arr[n] => g.array[a] = h.array[a]
  <2>1. f.array \in [Array \cup {Nil} -> Seq(Node \cup {Nil})]
    BY <1>4 DEF Heap
  <2> QED
    BY <1>5, <1>7, <1>16, <1>17, <2>1
<1>20. \A m \in Node \ {n} : /\ g.arr[m] = h.arr[m] /\ g.len[m] = h.len[m]
                             /\ h.arr[m] \in Array \cup {Nil}
                             /\ (h.arr[m] # g.arr[n] => \A i : Kid(g, m, i) = Kid(h, m, i))
  <2>1. \A m \in Node \ {n} : g.arr[m] = h.arr[m] /\ g.len[m] = h.len[m] /\ h.arr[m] \in Array \cup {Nil}
    BY <1>5, <1>7, <1>8, <1>16 DEF Heap
  <2> QED
    BY <1>16, <1>19, <2>1 DEF Kid
<1>21. ChildInserted(h, n, idx, c, g)
  <2>1. /\ \A m \in Node : g.parent[m] = IF m = c THEN n ELSE h.parent[m]
        /\ \A m \in Node : g.len[m] = IF m = n THEN h.len[n] + 1 ELSE h.len[m]
    BY <1>5, <1>8, <1>16 DEF k
  <2>2. \A i : Kid(g, n, i) = new[i]
    BY <1>16, <1>19 DEF Kid
  <2>3. \A i \in 1 .. h.len[n] + 1 :
          Kid(g, n, i) = IF i <= idx THEN Kid(h, n, i)
                         ELSE IF i = idx + 1 THEN c ELSE Kid(h, n, i - 1)
    BY <1>14, <2>2 DEF k
  <2>4. g.arr[n] \in Array /\ (g.arr[n] # h.arr[n] => \A m \in h.used : h.arr[m] # g.arr[n])
    BY <1>5, <1>7, <1>16
  <2> QED
    BY <1>16, <1>20, <2>1, <2>3, <2>4 DEF ChildInserted
<1>22. Shaped(g)
  <2>1. Root \in g.used /\ g.array[Nil] = <<>> /\ \A m \in Node : g.parent[m] \in g.used \cup {Nil}
    BY <1>1, <1>3, <1>5, <1>7, <1>16, <1>19 DEF Shaped
  <2>2. \A m \in Node \ g.used : g.arr[m] = Nil /\ g.parent[m] = Nil
    <3>1. \A m \in Node \ g.used : m # n /\ e.arr[m] = Nil /\ e.parent[m] = Nil
      BY <1>1, <1>3, <1>5, <1>16 DEF Shaped
    <3> QED
      BY <1>7, <1>16, <3>1
  <2>3. ASSUME NEW m \in Node
        PROVE  /\ g.len[m] <= Len(g.array[g.arr[m]])
               /\ \A i \in 1 .. g.len[m] : Kid(g, m, i) \in g.used
    <3>1. CASE m = n
      <4>1. g.len[n] = k + 1 /\ g.array[g.arr[n]] = new /\ \A i : Kid(g, n, i) = new[i]
        BY <1>3, <1>8, <1>16, <1>19 DEF Kid
      <4> QED
        BY <1>9, <1>13, <1>15, <1>16, <3>1, <4>1
    <3>2. CASE m # n /\ h.arr[m] # g.arr[n]
      <4>1. g.array[g.arr[m]] = h.array[h.arr[m]]
        BY <1>16, <1>19, <1>20, <3>2
      <4> QED
        BY <1>16, <1>20, <3>2, <4>1 DEF Shaped
    <3>3. CASE m # n /\ h.arr[m] = g.arr[n]
      <4>1. m \in h.used
        <5>1. SUFFICES ASSUME m \notin h.used PROVE FALSE
          OBVIOUS
        <5>2. h.arr[m] = Nil
          BY <5>1 DEF Shaped
        <5> QED
          BY <1>3, <1>7, <1>16, <3>3, <5>2
      <4>2. f.arr[n] = e.arr[n] /\ h.arr[m] = h.arr[n]
        BY <1>5, <1>7, <1>16, <3>3, <4>1
      <4>3. /\ g.len[m] = h.len[m] /\ g.array[g.arr[m]] = new
            /\ h.len[m] <= Len(h.array[h.arr[n]]) /\ Len(h.array[h.arr[n]]) = Len(old)
            /\ h.len[m] \in Nat
            /\ \A i \in 1 .. Len(old) : i # k + 1 => old[i] = h.array[h.arr[n]][i]
        <5>1. g.len[m] = h.len[m] /\ g.array[g.arr[m]] = new /\ h.len[m] \in Nat
          BY <1>16, <1>19, <1>20, <3>3 DEF Heap
        <5>2. h.len[m] <= Len(h.array[h.arr[n]])
          BY <4>2 DEF Shaped
        <5> QED
          BY <1>5, <1>7, <4>2, <5>1, <5>2 DEF old, k
      <4>4. ASSUME NEW i \in 1 .. h.len[m] PROVE new[i] \in h.used
        <5>1. i \in 1 .. Len(old)
          BY <1>9, <4>3
        <5>2. CASE i <= k + 1
          BY <1>3, <1>15, <5>2
        <5>3. CASE i > k + 1
          <6>1. new[i] = old[i] /\ old[i] = h.array[h.arr[n]][i]
            BY <1>3, <1>12, <4>3, <5>1, <5>3
          <6>2. Kid(h, m, i) \in h.used
            BY DEF Shaped
          <6> QED
            BY <4>2, <6>1, <6>2 DEF Kid
        <5> QED
          BY <1>3, <5>2, <5>3
      <4>5. \A i : Kid(g, m, i) = new[i]
        BY <4>3 DEF Kid
      <4> QED
        BY <1>13, <1>16, <4>3, <4>4, <4>5
    <3> QED
      BY <3>1, <3>2, <3>3
  <2> QED
    BY <2>1, <2>2, <2>3 DEF Shaped
<1> QED
  BY <1>18, <1>21, <1>22

-----------------------------------------------------------------------------
(* IndexOf finds a child that is listed. *)
LEMMA IndexOfIs ==
  ASSUME NEW L, NEW V, NEW h \in Heap(L, V), Shaped(h), NEW n \in Node, NEW c
  PROVE  \/ IndexOf(h, n, c) = 0 /\ \A i \in 1 .. h.len[n] : Kid(h, n, i) # c
         \/ IndexOf(h, n, c) \in 1 .. h.len[n] /\ Kid(h, n, IndexOf(h, n, c)) = c
<1> DEFINE I == {i \in 1 .. Len(Children(h, n)) : Children(h, n)[i] = c}
<1>1. /\ Len(Children(h, n)) = h.len[n] /\ h.len[n] \in Nat
      /\ \A i \in 1 .. h.len[n] : Children(h, n)[i] = Kid(h, n, i)
  <2>1. h.len[n] \in Nat
    BY DEF Heap
  <2> QED
    BY <2>1, ChildrenAre
<1>2. IndexOf(h, n, c) = IF I # {} THEN Min(I) ELSE 0
  BY DEF IndexOf, SelectInSeq
<1>3. I \in SUBSET Nat
  OBVIOUS
<1>4. I # {} => Min(I) \in I
  <2> SUFFICES ASSUME I # {} PROVE Min(I) \in I
    OBVIOUS
  <2>1. PICK x \in I : \A y \in I : x <= y
    BY <1>3, BelowRounds!LeastNatural
  <2> HIDE DEF I
  <2> QED
    BY <2>1 DEF Min
<1>5. \A i : i \in I <=> i \in 1 .. h.len[n] /\ Kid(h, n, i) = c
  BY <1>1
<1> HIDE DEF I
<1> QED
  BY <1>2, <1>4, <1>5

(* findChild returns a child with the label, or none. *)
LEMMA FirstChildIs ==
  ASSUME NEW L, NEW V, NEW h \in Heap(L, V), Shaped(h), NEW n \in Node, NEW label
  PROVE  /\ FirstChild(h, n, label) \in h.used \cup {Nil}
         /\ FirstChild(h, n, label) # Nil => /\ h.label[FirstChild(h, n, label)] = label
                                             /\ \E i \in 1 .. h.len[n] : Kid(h, n, i) = FirstChild(h, n, label)
<1> DEFINE I == {i \in 1 .. Len(Children(h, n)) : h.label[Children(h, n)[i]] = label}
           pos == SelectInSeq(Children(h, n), LAMBDA c : h.label[c] = label)
<1>1. /\ Len(Children(h, n)) = h.len[n] /\ h.len[n] \in Nat
      /\ \A i \in 1 .. h.len[n] : Children(h, n)[i] \in h.used /\ Children(h, n)[i] = Kid(h, n, i)
  <2>1. h.len[n] \in Nat
    BY DEF Heap
  <2> QED
    BY <2>1, ChildrenAre
<1>2. pos = IF I # {} THEN Min(I) ELSE 0
  BY DEF SelectInSeq
<1>3. I \in SUBSET Nat
  OBVIOUS
<1>4. I # {} => Min(I) \in I
  <2> SUFFICES ASSUME I # {} PROVE Min(I) \in I
    OBVIOUS
  <2>1. PICK x \in I : \A y \in I : x <= y
    BY <1>3, BelowRounds!LeastNatural
  <2> HIDE DEF I
  <2> QED
    BY <2>1 DEF Min
<1>5. pos # 0 => pos \in 1 .. h.len[n] /\ h.label[Children(h, n)[pos]] = label
  BY <1>1, <1>2, <1>4
<1>6. FirstChild(h, n, label) = IF pos = 0 THEN Nil ELSE Children(h, n)[pos]
  BY DEF FirstChild
<1> HIDE DEF pos
<1> QED
  BY <1>1, <1>5, <1>6

(* index counts the children of the node's parent. *)
CountRound(h, n, acc, k) ==
  IF h.label[Children(h, h.parent[n])[k]] # h.label[n] THEN acc
  ELSE <<IF Children(h, h.parent[n])[k] = n THEN acc[2] + 1 ELSE acc[1], acc[2] + 1>>
CountRounds == INSTANCE Loops WITH Body <- CountRound

LEMMA IndexIs ==
  ASSUME NEW h, NEW n, h.parent[n] # Nil
  PROVE  Index(h, n) = LET l == Len(Children(h, h.parent[n]))
                       IN  CountRounds!Rounds(<<0, 0>>, l, h, n)[l]
BY DEF Index, CountRounds!Rounds, CountRounds!IsRounds, CountRound

(* What removeChild does to the links when c is the child at pos. *)
ChildRemoved(h, n, c, pos, g) ==
  /\ g.used = h.used /\ g.label = h.label /\ g.value = h.value /\ g.arr = h.arr
  /\ pos \in 1 .. h.len[n] /\ Kid(h, n, pos) = c
  /\ \A m \in Node : g.parent[m] = IF m = c THEN Nil ELSE h.parent[m]
  /\ \A m \in Node : g.len[m] = IF m = n THEN h.len[n] - 1 ELSE h.len[m]
  /\ \A i \in 1 .. h.len[n] - 1 : Kid(g, n, i) = IF i < pos THEN Kid(h, n, i) ELSE Kid(h, n, i + 1)
  /\ \A m \in Node : h.arr[m] # h.arr[n] => \A i : Kid(g, m, i) = Kid(h, m, i)

(* It leaves the heap alone when c is not among n's children.  An array may  *)
(* be shared: the slots of the others still hold allocated nodes.            *)
LEMMA RemoveChildIs ==
  ASSUME NEW L, NEW V, NEW h \in Heap(L, V), Shaped(h), NEW n \in h.used, NEW c \in h.used,
         NEW g, g = RemoveChild(h, n, c)
  PROVE  /\ g \in Heap(L, V) /\ Shaped(g)
         /\ \/ g = h /\ IndexOf(h, n, c) = 0
            \/ ChildRemoved(h, n, c, IndexOf(h, n, c), g)
<1> DEFINE a == h.arr[n]
           k == h.len[n]
           pos == IndexOf(h, n, c)
           old == h.array[a]
           new == [j \in DOMAIN old |-> IF pos <= j /\ j < k THEN old[j + 1] ELSE old[j]]
<1>1. /\ n \in Node /\ c \in Node /\ h.used \in SUBSET Node
      /\ a \in Array \cup {Nil} /\ k \in Nat /\ k <= Len(old) /\ old \in Seq(Node \cup {Nil})
  BY DEF Heap, Shaped
<1>2. CASE pos = 0
  BY <1>2 DEF RemoveChild
<1>3. CASE pos # 0
  <2>1. pos \in 1 .. k /\ Kid(h, n, pos) = c
    BY <1>1, <1>3, IndexOfIs
  <2>2. g = [h EXCEPT !.array[a] = new, !.len[n] = k - 1, !.parent[c] = Nil]
    BY <1>3 DEF RemoveChild
  <2>3. Len(old) \in Nat /\ DOMAIN old = 1 .. Len(old) /\ \A j \in 1 .. Len(old) : old[j] \in Node \cup {Nil}
    <3> HIDE DEF old
    <3> QED
      BY <1>1
  <2>4. \A j \in 1 .. Len(old) : j < k => j + 1 \in 1 .. Len(old)
    BY <1>1, <2>3
  <2>5. new \in Seq(Node \cup {Nil}) /\ Len(new) = Len(old)
    <3> HIDE DEF old, k, pos
    <3>1. new \in [1 .. Len(old) -> Node \cup {Nil}]
      BY <2>3, <2>4
    <3> HIDE DEF new
    <3> QED
      BY <2>3, <3>1
  <2>6. \A j \in 1 .. Len(old) : new[j] = IF pos <= j /\ j < k THEN old[j + 1] ELSE old[j]
    BY <2>3
  <2>7. \A j \in 1 .. k : old[j] \in h.used
    BY <1>1 DEF Shaped, Kid
  <2>8. k - 1 \in Nat
    BY <1>1, <2>1
  <2> HIDE DEF a, k, pos, old, new
  <2>9. /\ g.used = h.used /\ g.live = h.live /\ g.label = h.label /\ g.value = h.value
        /\ g.arr = h.arr
        /\ g.parent = [h.parent EXCEPT ![c] = Nil]
        /\ g.len = [h.len EXCEPT ![n] = k - 1]
        /\ g.array = [h.array EXCEPT ![a] = new]
    BY <2>2 DEF Heap
  <2>10. g \in Heap(L, V)
    <3>1. g = [used |-> g.used, live |-> g.live, label |-> g.label, value |-> g.value,
               parent |-> g.parent, arr |-> g.arr, len |-> g.len, array |-> g.array]
      BY <2>2 DEF Heap
    <3>2. g.used \in SUBSET Node /\ g.arr \in [Node -> Array \cup {Nil}]
      BY <1>1, <2>9 DEF Heap
    <3>3. g.parent \in [Node -> Node \cup {Nil}]
      BY <1>1, <2>9 DEF Heap
    <3>4. g.len \in [Node -> Nat]
      BY <1>1, <2>8, <2>9 DEF Heap
    <3>5. g.array \in [Array \cup {Nil} -> Seq(Node \cup {Nil})]
      BY <1>1, <2>5, <2>9 DEF Heap
    <3> QED
      BY <2>9, <3>1, <3>2, <3>3, <3>4, <3>5, HeapByFields
  <2>11. \A m \in Node : /\ g.parent[m] = IF m = c THEN Nil ELSE h.parent[m]
                         /\ g.len[m] = IF m = n THEN k - 1 ELSE h.len[m]
    BY <1>1, <2>9 DEF Heap
  <2>12. g.array[a] = new /\ \A b \in Array \cup {Nil} : b # a => g.array[b] = h.array[b]
    BY <1>1, <2>9 DEF Heap
  <2>13. \A m \in Node : h.arr[m] \in Array \cup {Nil} /\ h.len[m] \in Nat
    BY DEF Heap
  <2>14. \A m \in Node : h.arr[m] # a => \A i : Kid(g, m, i) = Kid(h, m, i)
    BY <2>9, <2>12, <2>13 DEF Kid
  <2>15. \A m \in Node : h.arr[m] = a => \A i : Kid(g, m, i) = new[i] /\ Kid(h, m, i) = old[i]
    BY <2>9, <2>12 DEF Kid, old
  <2>16. ChildRemoved(h, n, c, pos, g)
    <3>1. \A i \in 1 .. k - 1 : new[i] = IF i < pos THEN old[i] ELSE old[i + 1]
      BY <1>1, <2>1, <2>3, <2>6
    <3>2. \A i \in 1 .. k - 1 : Kid(g, n, i) = IF i < pos THEN Kid(h, n, i) ELSE Kid(h, n, i + 1)
      BY <1>1, <2>15, <3>1 DEF a
    <3> QED
      BY <2>1, <2>9, <2>11, <2>14, <3>2 DEF ChildRemoved, k, a
  <2>17. Shaped(g)
    <3>1. Root \in g.used /\ (\A m \in Node : g.parent[m] \in g.used \cup {Nil})
      BY <2>9, <2>11 DEF Shaped
    <3>2. a # Nil
      <4>1. SUFFICES ASSUME a = Nil PROVE FALSE
        OBVIOUS
      <4>2. old = <<>>
        BY <4>1 DEF Shaped, old
      <4> QED
        BY <1>1, <2>1, <4>2
    <3>3. g.array[Nil] = <<>>
      BY <2>12, <3>2 DEF Shaped
    <3>4. \A m \in Node \ g.used : g.arr[m] = Nil /\ g.parent[m] = Nil
      BY <2>9, <2>11 DEF Shaped
    <3>5. ASSUME NEW m \in Node
          PROVE  /\ g.len[m] <= h.len[m] /\ g.len[m] \in Nat
                 /\ g.len[m] <= Len(g.array[g.arr[m]])
      <4>1. g.len[m] <= h.len[m] /\ g.len[m] \in Nat
        BY <2>8, <2>11, <2>13 DEF k
      <4>2. h.len[m] <= Len(h.array[h.arr[m]])
        BY DEF Shaped
      <4>3. Len(g.array[g.arr[m]]) = Len(h.array[h.arr[m]])
        BY <2>5, <2>9, <2>12, <2>13 DEF old
      <4>4. h.array[h.arr[m]] \in Seq(Node \cup {Nil})
        BY <2>13 DEF Heap
      <4>5. Len(h.array[h.arr[m]]) \in Nat
        BY <4>4
      <4> QED
        BY <2>13, <4>1, <4>2, <4>3, <4>5
    <3>6. ASSUME NEW m \in Node, NEW i \in 1 .. g.len[m] PROVE Kid(g, m, i) \in g.used
      <4>1. i \in 1 .. h.len[m]
        BY <2>13, <3>5
      <4>2. Kid(h, m, i) \in h.used /\ h.len[m] <= Len(h.array[h.arr[m]])
        BY <4>1 DEF Shaped
      <4>3. CASE h.arr[m] # a
        BY <2>9, <2>14, <4>2, <4>3
      <4>4. CASE h.arr[m] = a
        <5>1. i \in 1 .. Len(old)
          BY <2>3, <2>13, <4>1, <4>2, <4>4 DEF old
        <5>2. CASE pos <= i /\ i < k
          <6>1. i + 1 \in 1 .. k
            BY <1>1, <2>1, <5>2
          <6> QED
            BY <2>6, <2>7, <2>9, <2>15, <4>4, <5>1, <5>2, <6>1
        <5>3. CASE ~(pos <= i /\ i < k)
          BY <2>6, <2>9, <2>15, <4>2, <4>4, <5>1, <5>3
        <5> QED
          BY <5>2, <5>3
      <4> QED
        BY <4>3, <4>4
    <3> QED
      BY <3>1, <3>3, <3>4, <3>5, <3>6 DEF Shaped
  <2> QED
    BY <2>10, <2>16, <2>17 DEF pos
<1> QED
  BY <1>2, <1>3

(* Detaching a node by its Parent keeps the links right, and leaves it       *)
(* listed by nobody.                                                         *)
THEOREM RemoveChildLinks ==
  ASSUME NEW L, NEW V, NEW h \in Heap(L, V), Shaped(h), NEW c \in h.used, h.parent[c] # Nil,
         ChildLinks(h, h.used), NEW g, g = RemoveChild(h, h.parent[c], c)
  PROVE  /\ g \in Heap(L, V) /\ Shaped(g) /\ g.used = h.used
         /\ ChildLinks(g, g.used)
         /\ \A m \in g.used : \A i \in 1 .. g.len[m] : Kid(g, m, i) # c
         /\ \A K \in SUBSET h.used : ParentLinks(h, K) => ParentLinks(g, K)
<1> DEFINE n == h.parent[c]
           pos == IndexOf(h, n, c)
<1>1. /\ h.used \in SUBSET Node /\ c \in Node /\ n \in h.used /\ n \in Node /\ Root \in Node
      /\ Nil \notin Node /\ c # Root
  BY Identities DEF Heap, Shaped, ChildLinks
<1>2. \A m \in Node : h.len[m] \in Nat
  BY DEF Heap
<1>3. /\ g \in Heap(L, V) /\ Shaped(g)
      /\ (g = h /\ pos = 0) \/ ChildRemoved(h, n, c, pos, g)
  BY <1>1, RemoveChildIs
<1>4. \A m \in h.used : \A i \in 1 .. h.len[m] :
        /\ Kid(h, m, i) \in h.used /\ h.parent[Kid(h, m, i)] = m
        /\ Kid(h, m, i) = c => m = n
  BY <1>1 DEF Shaped, ChildLinks
<1>5. CASE g = h /\ pos = 0
  <2>1. \A i \in 1 .. h.len[n] : Kid(h, n, i) # c
    BY <1>1, <1>5, IndexOfIs
  <2> QED
    BY <1>3, <1>4, <1>5, <2>1
<1>6. CASE ChildRemoved(h, n, c, pos, g)
  <2> HIDE DEF n, pos
  <2>1. /\ g.used = h.used /\ g.arr = h.arr
        /\ pos \in 1 .. h.len[n] /\ Kid(h, n, pos) = c
        /\ \A m \in Node : g.parent[m] = IF m = c THEN Nil ELSE h.parent[m]
        /\ \A m \in Node : g.len[m] = IF m = n THEN h.len[n] - 1 ELSE h.len[m]
        /\ \A i \in 1 .. h.len[n] - 1 : Kid(g, n, i) = IF i < pos THEN Kid(h, n, i) ELSE Kid(h, n, i + 1)
    BY <1>6 DEF ChildRemoved
  <2>2. h.arr[n] # Nil
    <3>1. h.len[n] <= Len(h.array[h.arr[n]]) /\ h.array[Nil] = <<>>
      BY <1>1 DEF Shaped
    <3>2. Len(<<>>) = 0
      OBVIOUS
    <3> QED
      BY <1>1, <1>2, <2>1, <3>1, <3>2
  <2>3. \A m \in h.used \ {n} : \A i : Kid(g, m, i) = Kid(h, m, i)
    <3>1. \A m \in h.used \ {n} : h.arr[m] # h.arr[n]
      BY <1>1, <2>2 DEF ChildLinks
    <3> QED
      BY <1>1, <1>6, <3>1 DEF ChildRemoved
  <2>4. \A i, j \in 1 .. h.len[n] : Kid(h, n, i) = Kid(h, n, j) => i = j
    BY <1>1 DEF ChildLinks
  <2> DEFINE was(m, i) == IF m = n /\ i >= pos THEN i + 1 ELSE i
  <2>5. ASSUME NEW m \in h.used, NEW i \in 1 .. g.len[m]
        PROVE  /\ was(m, i) \in 1 .. h.len[m]
               /\ Kid(g, m, i) = Kid(h, m, was(m, i))
               /\ Kid(g, m, i) # c
    <3>1. CASE m = n
      <4>1. i \in 1 .. h.len[n] - 1
        BY <1>1, <2>1, <3>1
      <4>2. was(m, i) \in 1 .. h.len[n] /\ was(m, i) # pos
        BY <1>1, <1>2, <2>1, <3>1, <4>1
      <4>3. Kid(g, m, i) = Kid(h, m, was(m, i))
        BY <1>1, <1>2, <2>1, <3>1, <4>1
      <4>4. Kid(h, n, was(m, i)) # c
        BY <2>1, <2>4, <4>2
      <4> QED
        BY <3>1, <4>2, <4>3, <4>4
    <3>2. CASE m # n
      <4>1. was(m, i) = i /\ i \in 1 .. h.len[m] /\ Kid(g, m, i) = Kid(h, m, i)
        BY <1>1, <2>1, <2>3, <3>2
      <4> QED
        BY <1>4, <3>2, <4>1
    <3> QED
      BY <3>1, <3>2
  <2>6. ASSUME NEW m \in h.used, NEW i \in 1 .. g.len[m], NEW j \in 1 .. g.len[m],
               was(m, i) = was(m, j)
        PROVE  i = j
    BY <1>1, <1>2, <2>1, <2>6
  <2> HIDE DEF was
  <2>7. \A m \in h.used : \A i \in 1 .. g.len[m] : g.parent[Kid(g, m, i)] = m
    BY <1>1, <1>4, <2>1, <2>5
  <2>8. ASSUME NEW m \in h.used, NEW i \in 1 .. g.len[m], NEW j \in 1 .. g.len[m],
               Kid(g, m, i) = Kid(g, m, j)
        PROVE  i = j
    <3>1. was(m, i) = was(m, j)
      BY <2>5, <2>8 DEF ChildLinks
    <3> QED
      BY <2>6, <3>1
  <2>9. ChildLinks(g, g.used)
    <3>1. g.parent[Root] = Nil
      BY <1>1, <2>1 DEF ChildLinks
    <3>2. \A x, y \in g.used : g.arr[x] = g.arr[y] /\ g.arr[x] # Nil => x = y
      BY <2>1 DEF ChildLinks
    <3> QED
      BY <2>1, <2>7, <2>8, <3>1, <3>2 DEF ChildLinks
  <2>10. ASSUME NEW K \in SUBSET h.used, ParentLinks(h, K)
         PROVE  ParentLinks(g, K)
    <3>1. ASSUME NEW m \in K, g.parent[m] # Nil
          PROVE  \E i \in 1 .. g.len[g.parent[m]] : Kid(g, g.parent[m], i) = m
      <4>1. m # c /\ g.parent[m] = h.parent[m] /\ h.parent[m] \in h.used
        BY <1>1, <2>1, <3>1 DEF Shaped
      <4>2. PICK i \in 1 .. h.len[h.parent[m]] : Kid(h, h.parent[m], i) = m
        BY <2>10, <3>1, <4>1 DEF ParentLinks
      <4>3. CASE h.parent[m] = n
        <5>1. i # pos
          BY <2>1, <4>1, <4>2, <4>3
        <5>2. CASE i < pos
          <6>1. i \in 1 .. g.len[n] /\ Kid(g, n, i) = Kid(h, n, i)
            BY <1>1, <1>2, <2>1, <4>2, <4>3, <5>2
          <6> QED
            BY <4>1, <4>2, <4>3, <6>1
        <5>3. CASE i > pos
          <6>1. /\ i - 1 \in 1 .. h.len[n] - 1 /\ ~(i - 1 < pos) /\ (i - 1) + 1 = i
                /\ g.len[n] = h.len[n] - 1
            BY <1>1, <1>2, <2>1, <4>2, <4>3, <5>3
          <6>2. Kid(g, n, i - 1) = Kid(h, n, i)
            BY <2>1, <6>1
          <6> QED
            BY <4>1, <4>2, <4>3, <6>1, <6>2
        <5> QED
          BY <1>1, <1>2, <2>1, <5>1, <5>2, <5>3
      <4>4. CASE h.parent[m] # n
        BY <1>1, <2>1, <2>3, <4>1, <4>2, <4>4
      <4> QED
        BY <4>3, <4>4
    <3> QED
      BY <3>1 DEF ParentLinks
  <2> QED
    BY <1>3, <2>1, <2>5, <2>9, <2>10
<1> QED
  BY <1>3, <1>5, <1>6

-----------------------------------------------------------------------------
(* n.Children = nil: the nodes that were listed keep their Parent. *)
ChildrenDropped(h, n, g) ==
  /\ g.used = h.used /\ g.label = h.label /\ g.value = h.value /\ g.parent = h.parent
  /\ g.len[n] = 0 /\ g.arr[n] = Nil
  /\ \A m \in Node \ {n} : g.len[m] = h.len[m] /\ g.arr[m] = h.arr[m]
                           /\ \A i : Kid(g, m, i) = Kid(h, m, i)

LEMMA DropChildrenIs ==
  ASSUME NEW L, NEW V, NEW h \in Heap(L, V), Shaped(h), NEW n \in h.used,
         NEW g, g = DropChildren(h, n)
  PROVE  /\ g \in Heap(L, V) /\ Shaped(g) /\ ChildrenDropped(h, n, g)
         /\ \A K \in SUBSET Node : ChildLinks(h, K) => ChildLinks(g, K)
         /\ \A K \in SUBSET Node :
              ParentLinks(h, K) /\ (\A m \in K : h.parent[m] # n) => ParentLinks(g, K)
<1>1. n \in Node /\ h.used \in SUBSET Node
  BY DEF Heap
<1>2. g \in Heap(L, V)
  BY DEF DropChildren, Heap
<1>3. /\ g.used = h.used /\ g.label = h.label /\ g.value = h.value /\ g.parent = h.parent
      /\ g.array = h.array
      /\ g.arr = [h.arr EXCEPT ![n] = Nil] /\ g.len = [h.len EXCEPT ![n] = 0]
  BY DEF DropChildren, Heap
<1>4. /\ g.len[n] = 0 /\ g.arr[n] = Nil
      /\ \A m \in Node \ {n} : g.len[m] = h.len[m] /\ g.arr[m] = h.arr[m]
  BY <1>1, <1>3 DEF Heap
<1>5. \A m \in Node \ {n} : \A i : Kid(g, m, i) = Kid(h, m, i)
  BY <1>3, <1>4 DEF Kid
<1>6. ChildrenDropped(h, n, g)
  BY <1>3, <1>4, <1>5 DEF ChildrenDropped
<1>7. Shaped(g)
  <2>1. h.array[Nil] = <<>> /\ Len(<<>>) = 0
    BY DEF Shaped
  <2>2. \A m \in Node : g.len[m] <= Len(g.array[g.arr[m]])
    BY <1>3, <1>4, <2>1 DEF Shaped
  <2>3. \A m \in Node : \A i \in 1 .. g.len[m] : Kid(g, m, i) \in g.used
    <3>1. 1 .. g.len[n] = {}
      BY <1>4
    <3> QED
      BY <1>3, <1>4, <1>5, <3>1 DEF Shaped
  <2>4. \A m \in Node \ g.used : g.arr[m] = Nil /\ g.parent[m] = Nil
    BY <1>1, <1>3, <1>4 DEF Shaped
  <2> QED
    BY <1>3, <2>1, <2>2, <2>3, <2>4 DEF Shaped
<1>8. 1 .. g.len[n] = {}
  BY <1>4
<1>9. ASSUME NEW K \in SUBSET Node, ChildLinks(h, K) PROVE ChildLinks(g, K)
  <2>1. /\ g.parent[Root] = Nil
        /\ \A m \in K : \A i \in 1 .. g.len[m] : g.parent[Kid(g, m, i)] = m
        /\ \A m \in K : \A i, j \in 1 .. g.len[m] : Kid(g, m, i) = Kid(g, m, j) => i = j
    BY <1>3, <1>4, <1>5, <1>8, <1>9 DEF ChildLinks
  <2>2. \A m, k \in K : g.arr[m] = g.arr[k] /\ g.arr[m] # Nil => m = k
    BY <1>4, <1>9 DEF ChildLinks
  <2> QED
    BY <2>1, <2>2 DEF ChildLinks
<1>10. ASSUME NEW K \in SUBSET Node, ParentLinks(h, K), \A m \in K : h.parent[m] # n
       PROVE  ParentLinks(g, K)
  <2>1. ASSUME NEW m \in K, g.parent[m] # Nil
        PROVE  \E i \in 1 .. g.len[g.parent[m]] : Kid(g, g.parent[m], i) = m
    <3>1. h.parent[m] # Nil /\ g.parent[m] = h.parent[m] /\ h.parent[m] \in Node \ {n}
      BY <1>3, <1>10, <2>1 DEF Heap
    <3>2. PICK i \in 1 .. h.len[h.parent[m]] : Kid(h, h.parent[m], i) = m
      BY <1>10, <3>1 DEF ParentLinks
    <3> QED
      BY <1>4, <1>5, <3>1, <3>2
  <2> QED
    BY <2>1 DEF ParentLinks
<1> QED
  BY <1>2, <1>6, <1>7, <1>9, <1>10

(* No node lists s. *)
Unlisted(h, s) == \A m \in h.used : \A i \in 1 .. h.len[m] : Kid(h, m, i) # s

(* The fields of g, which is h after d took over the children of s.          *)
TookOver(h, d, s, g) ==
  /\ \A m \in Node : /\ g.value[m] = IF m = d THEN h.value[s] ELSE h.value[m]
                     /\ g.arr[m] = IF m = d THEN h.arr[s] ELSE h.arr[m]
                     /\ g.len[m] = IF m = d THEN h.len[s] ELSE h.len[m]
                     /\ \A i : Kid(g, m, i) = IF m = d THEN Kid(h, s, i) ELSE Kid(h, m, i)
  /\ \A c \in Node :
       g.parent[c] = IF \E i \in 1 .. h.len[s] : Kid(h, s, i) = c THEN d ELSE h.parent[c]

(* And its links. *)
TakenOver(h, d, s, g) ==
  /\ ChildLinks(g, g.used \ {s}) /\ Closed(g, g.used \ {s})
  /\ \A K \in SUBSET (h.used \ {s}) :
       ParentLinks(h, h.used) /\ (\A m \in K : h.parent[m] # d) => ParentLinks(g, K)

(* d takes over the children of s, whose own header stays: what is right of  *)
(* the links of the others stays right, s and the nodes d had listed left    *)
(* out.                                                                      *)
LEMMA TakeOverIs ==
  ASSUME NEW L, NEW V, NEW h \in Heap(L, V), Shaped(h), NEW d \in h.used, NEW s \in h.used,
         NEW g, g = TakeOver(h, d, s)
  PROVE  /\ g \in Heap(L, V) /\ Shaped(g) /\ g.used = h.used /\ g.label = h.label
         /\ TookOver(h, d, s, g)
         /\ ChildLinks(h, h.used) /\ Unlisted(h, s) => TakenOver(h, d, s, g)
<1> DEFINE mine(c) == \E i \in 1 .. h.len[s] : Kid(h, s, i) = c
           up == [c \in Node |-> IF Contains(Children(h, s), c) THEN d ELSE h.parent[c]]
<1>1. d \in Node /\ s \in Node /\ h.used \in SUBSET Node /\ Root \in Node /\ Nil \notin Node
  BY Identities DEF Heap
<1>2. \A c \in Node : Contains(Children(h, s), c) <=> mine(c)
  <2>1. /\ Len(Children(h, s)) = h.len[s]
        /\ \A i \in 1 .. h.len[s] : Children(h, s)[i] = Kid(h, s, i)
    BY <1>1, ChildrenAre
  <2> QED
    BY <2>1 DEF Contains
<1>3. g = [h EXCEPT !.value[d] = h.value[s], !.arr[d] = h.arr[s], !.len[d] = h.len[s],
                    !.parent = up]
  BY DEF TakeOver
<1>4. \A c \in Node : up[c] = IF mine(c) THEN d ELSE h.parent[c]
  BY <1>2
<1>5. up \in [Node -> Node \cup {Nil}]
  <2>1. \A c \in Node : up[c] \in Node \cup {Nil}
    BY <1>1, <1>4 DEF Heap
  <2> QED
    BY <2>1
<1> HIDE DEF up
<1>6. /\ g.used = h.used /\ g.live = h.live /\ g.label = h.label /\ g.parent = up /\ g.array = h.array
      /\ g.value = [h.value EXCEPT ![d] = h.value[s]]
      /\ g.arr = [h.arr EXCEPT ![d] = h.arr[s]]
      /\ g.len = [h.len EXCEPT ![d] = h.len[s]]
  BY <1>3 DEF Heap
<1>7. g \in Heap(L, V)
  <2>1. g = [used |-> g.used, live |-> g.live, label |-> g.label, value |-> g.value,
             parent |-> g.parent, arr |-> g.arr, len |-> g.len, array |-> g.array]
    BY <1>3 DEF Heap
  <2>2. g.value \in [Node -> V] /\ g.arr \in [Node -> Array \cup {Nil}] /\ g.len \in [Node -> Nat]
    BY <1>1, <1>6 DEF Heap
  <2>3. /\ g.used \in SUBSET Node /\ g.live \in SUBSET Node /\ g.label \in [Node -> L]
        /\ g.array \in [Array \cup {Nil} -> Seq(Node \cup {Nil})]
        /\ g.parent \in [Node -> Node \cup {Nil}]
    BY <1>5, <1>6 DEF Heap
  <2> QED
    BY <2>1, <2>2, <2>3 DEF Heap
<1>8. /\ g.arr[d] = h.arr[s] /\ g.len[d] = h.len[s]
      /\ \A m \in Node \ {d} : g.arr[m] = h.arr[m] /\ g.len[m] = h.len[m]
      /\ \A m \in Node : g.value[m] = IF m = d THEN h.value[s] ELSE h.value[m]
  BY <1>1, <1>6 DEF Heap
<1>9. (\A i : Kid(g, d, i) = Kid(h, s, i)) /\ \A m \in Node \ {d} : \A i : Kid(g, m, i) = Kid(h, m, i)
  BY <1>6, <1>8 DEF Kid
<1>10. Shaped(g)
  <2>1. Root \in g.used /\ g.array[Nil] = <<>> /\ \A m \in Node : g.parent[m] \in g.used \cup {Nil}
    BY <1>1, <1>4, <1>6 DEF Shaped
  <2>2. \A m \in Node : g.len[m] <= Len(g.array[g.arr[m]])
    BY <1>1, <1>6, <1>8 DEF Shaped
  <2>3. \A m \in Node : \A i \in 1 .. g.len[m] : Kid(g, m, i) \in g.used
    BY <1>1, <1>6, <1>8, <1>9 DEF Shaped
  <2>4. \A m \in Node \ g.used : g.arr[m] = Nil /\ g.parent[m] = Nil
    <3>1. ASSUME NEW m \in Node \ g.used PROVE ~mine(m) /\ m # d
      BY <1>1, <1>6 DEF Shaped
    <3> QED
      BY <1>1, <1>4, <1>6, <1>8, <3>1 DEF Shaped
  <2> QED
    BY <2>1, <2>2, <2>3, <2>4 DEF Shaped
<1>11. ASSUME ChildLinks(h, h.used),
              \A m \in h.used : \A i \in 1 .. h.len[m] : Kid(h, m, i) # s
       PROVE  TakenOver(h, d, s, g)
  <2>1. \A m \in h.used : \A i \in 1 .. h.len[m] :
          Kid(h, m, i) \in Node /\ h.parent[Kid(h, m, i)] = m
    BY <1>1, <1>11 DEF Shaped, ChildLinks
  <2>2. \A c \in Node : mine(c) => h.parent[c] = s
    BY <2>1
  <2>3. ChildLinks(g, g.used \ {s})
    <3>1. g.parent[Root] = Nil
      BY <1>1, <1>4, <1>6, <1>11, <2>2 DEF ChildLinks
    <3>2. ASSUME NEW m \in g.used \ {s}, NEW i \in 1 .. g.len[m] PROVE g.parent[Kid(g, m, i)] = m
      <4>1. CASE m = d
        <5>1. Kid(g, m, i) \in Node /\ mine(Kid(g, m, i))
          BY <1>8, <1>9, <2>1, <4>1
        <5> QED
          BY <1>4, <1>6, <4>1, <5>1
      <4>2. CASE m # d
        <5>1. /\ i \in 1 .. h.len[m] /\ Kid(g, m, i) = Kid(h, m, i) /\ m \in h.used
          BY <1>1, <1>6, <1>8, <1>9, <4>2
        <5>2. Kid(h, m, i) \in Node /\ h.parent[Kid(h, m, i)] = m /\ m # s
          BY <2>1, <5>1
        <5> QED
          BY <1>4, <1>6, <2>2, <5>1, <5>2
      <4> QED
        BY <4>1, <4>2
    <3>3. \A m \in g.used \ {s} : \A i, j \in 1 .. g.len[m] : Kid(g, m, i) = Kid(g, m, j) => i = j
      BY <1>1, <1>6, <1>8, <1>9, <1>11 DEF ChildLinks
    <3>4. \A m, k \in g.used \ {s} : g.arr[m] = g.arr[k] /\ g.arr[m] # Nil => m = k
      BY <1>1, <1>6, <1>8, <1>11 DEF ChildLinks
    <3> QED
      BY <3>1, <3>2, <3>3, <3>4 DEF ChildLinks
  <2>4. ASSUME NEW K \in SUBSET (h.used \ {s}), ParentLinks(h, h.used), \A m \in K : h.parent[m] # d
        PROVE  ParentLinks(g, K)
    <3>1. ASSUME NEW m \in K, g.parent[m] # Nil
          PROVE  \E i \in 1 .. g.len[g.parent[m]] : Kid(g, g.parent[m], i) = m
      <4>1. m \in Node /\ m \in h.used /\ h.parent[m] # d
        BY <1>1, <2>4
      <4>2. CASE mine(m)
        <5>1. g.parent[m] = d
          BY <1>4, <1>6, <4>1, <4>2
        <5>2. PICK i \in 1 .. h.len[s] : Kid(h, s, i) = m
          BY <4>2
        <5> QED
          BY <1>8, <1>9, <5>1, <5>2
      <4>3. CASE ~mine(m)
        <5>1. g.parent[m] = h.parent[m] /\ h.parent[m] # Nil /\ h.parent[m] \in Node \ {d}
          BY <1>4, <1>6, <3>1, <4>1, <4>3 DEF Heap
        <5>2. PICK i \in 1 .. h.len[h.parent[m]] : Kid(h, h.parent[m], i) = m
          BY <2>4, <4>1, <5>1 DEF ParentLinks
        <5> QED
          BY <1>8, <1>9, <5>1, <5>2
      <4> QED
        BY <4>2, <4>3
    <3> QED
      BY <3>1 DEF ParentLinks
  <2>5. Closed(g, g.used \ {s})
    BY <1>1, <1>6, <1>8, <1>9, <1>11 DEF Closed, Shaped
  <2> QED
    BY <2>3, <2>4, <2>5 DEF TakenOver
<1>12. TookOver(h, d, s, g)
  <2>1. \A m \in Node : \A i : Kid(g, m, i) = IF m = d THEN Kid(h, s, i) ELSE Kid(h, m, i)
    BY <1>1, <1>9
  <2>2. \A c \in Node : g.parent[c] = IF mine(c) THEN d ELSE h.parent[c]
    BY <1>4, <1>6
  <2> QED
    BY <1>1, <1>8, <2>1, <2>2 DEF TookOver
<1> QED
  BY <1>6, <1>7, <1>10, <1>11, <1>12 DEF Unlisted

-----------------------------------------------------------------------------
(* Reachability. *)
LEMMA OffspringIs ==
  ASSUME NEW L, NEW V, NEW h \in Heap(L, V), Shaped(h), NEW T \in SUBSET Node
  PROVE  \A c : c \in Offspring(h, T) <=> \E n \in T : \E i \in 1 .. h.len[n] : Kid(h, n, i) = c
<1>1. \A n \in T : /\ Len(Children(h, n)) = h.len[n] /\ DOMAIN Children(h, n) = 1 .. h.len[n]
                   /\ \A i \in 1 .. h.len[n] : Children(h, n)[i] = Kid(h, n, i)
  BY ChildrenAre
<1>2. \A n \in T : \A c : c \in ToSet(Children(h, n)) <=> \E i \in 1 .. h.len[n] : Kid(h, n, i) = c
  BY <1>1 DEF ToSet
<1> QED
  BY <1>2 DEF Offspring

LEMMA UsedMeasured ==
  ASSUME NEW h, h.used \in SUBSET Node
  PROVE  /\ BelowRounds!Measured(h.used, Cardinality(h.used))
         /\ Cardinality(h.used) \in 0 .. Cardinality(Node) /\ Cardinality(Node) \in Nat
<1> DEFINE u == Cardinality(h.used)
           size == [S \in SUBSET h.used |-> Cardinality(S)]
<1>1. IsFiniteSet(Node) /\ IsFiniteSet(h.used) /\ u \in 0 .. Cardinality(Node) /\ Cardinality(Node) \in Nat
  <2>1. IsFiniteSet(Node)
    BY Identities, FS_Interval DEF Node
  <2>2. IsFiniteSet(h.used) /\ u <= Cardinality(Node)
    BY <2>1, FS_Subset
  <2> QED
    BY <2>1, <2>2, FS_CardinalityType
<1>2. ASSUME NEW S \in SUBSET h.used
      PROVE  IsFiniteSet(S) /\ Cardinality(S) \in 0 .. u
  <2>1. IsFiniteSet(S) /\ Cardinality(S) <= u
    BY <1>1, FS_Subset
  <2>2. Cardinality(S) \in Nat /\ u \in Nat
    BY <1>1, <2>1, FS_CardinalityType
  <2> QED
    BY <2>1, <2>2
<1>3. ASSUME NEW S \in SUBSET h.used, NEW T \in SUBSET h.used, S \subseteq T, S # T
      PROVE  size[S] < size[T]
  <2>1. S \in SUBSET T
    BY <1>3
  <2>2. Cardinality(S) <= Cardinality(T) /\ Cardinality(S) # Cardinality(T)
    BY <1>2, <1>3, <2>1, FS_Subset
  <2> QED
    BY <1>2, <2>2
<1>4. size \in [SUBSET h.used -> 0 .. u]
  BY <1>2
<1> HIDE DEF size, u
<1> QED
  BY <1>1, <1>3, <1>4 DEF BelowRounds!Measured, u
(* Below(h, S) is the least closed set with S in it. *)
LEMMA BelowIs ==
  ASSUME NEW L, NEW V, NEW h \in Heap(L, V), Shaped(h), NEW S \in SUBSET h.used
  PROVE  /\ Below(h, S) \in SUBSET h.used /\ S \subseteq Below(h, S) /\ Closed(h, Below(h, S))
         /\ \A T \in SUBSET h.used : S \subseteq T /\ Closed(h, T) => Below(h, S) \subseteq T
<1> DEFINE N == Cardinality(Node)
           u == Cardinality(h.used)
           W == Below(h, S)
<1>1. h.used \in SUBSET Node
  BY DEF Heap
<1>2. W = BelowRounds!Rounds(S, N, h, 0)[u]
  BY DEF Below, BelowRounds!Rounds, BelowRounds!IsRounds, BelowRound
<1>3. BelowRounds!Measured(h.used, u) /\ u \in 0 .. N /\ N \in Nat
  BY <1>1, UsedMeasured
<1>4. \A T \in SUBSET h.used : \A c :
        c \in Offspring(h, T) <=> \E n \in T : \E i \in 1 .. h.len[n] : Kid(h, n, i) = c
  <2>1. \A T \in SUBSET h.used : T \in SUBSET Node
    BY <1>1
  <2> QED
    BY <2>1, OffspringIs
<1>5. BelowRounds!Grows(h.used, S, N, h, 0)
  <2>1. \A T \in SUBSET h.used : Offspring(h, T) \subseteq h.used
    BY <1>1, <1>4 DEF Shaped
  <2> QED
    BY <2>1 DEF BelowRounds!Grows, BelowRound
<1> HIDE DEF N, u, W
<1>6. BelowRounds!Settled(W, h.used, S, h, 0)
  BY <1>2, <1>3, <1>5, BelowRounds!RoundsSettle
<1>7. W \in SUBSET h.used /\ S \subseteq W /\ W \cup Offspring(h, W) = W
  BY <1>6 DEF BelowRounds!Settled, BelowRound
<1>8. Closed(h, W)
  BY <1>4, <1>7 DEF Closed
<1>9. ASSUME NEW T \in SUBSET h.used, S \subseteq T, Closed(h, T) PROVE W \subseteq T
  <2>1. BelowRounds!Keeps(T, S, N, h, 0)
    <3>1. \A X \in SUBSET T : Offspring(h, X) \subseteq T
      BY <1>4, <1>9 DEF Closed
    <3> QED
      BY <1>9, <3>1 DEF BelowRounds!Keeps, BelowRound
  <2>2. BelowRounds!Within(W, T)
    BY <1>2, <1>3, <2>1, BelowRounds!RoundsWithin
  <2> QED
    BY <2>2 DEF BelowRounds!Within
<1> QED
  BY <1>7, <1>8, <1>9 DEF W

TouchRound(h, q, T, k) == T \cup Offspring(h, T) \cup ({h.parent[n] : n \in T} \ {Nil})
TouchRounds == INSTANCE Loops WITH Body <- TouchRound

(* Touchable(h, S) is the least set with S in it that the links of its       *)
(* members, the one up and those down, do not lead out of.                   *)
LEMMA TouchableIs ==
  ASSUME NEW L, NEW V, NEW h \in Heap(L, V), Shaped(h), NEW S \in SUBSET h.used
  PROVE  /\ Touchable(h, S) \in SUBSET h.used /\ S \subseteq Touchable(h, S)
         /\ Closed(h, Touchable(h, S)) /\ ClosedUp(h, Touchable(h, S))
         /\ \A T \in SUBSET h.used :
              S \subseteq T /\ Closed(h, T) /\ ClosedUp(h, T) => Touchable(h, S) \subseteq T
<1> DEFINE N == Cardinality(Node)
           u == Cardinality(h.used)
           W == Touchable(h, S)
<1>1. h.used \in SUBSET Node
  BY DEF Heap
<1>2. W = TouchRounds!Rounds(S, N, h, 0)[u]
  BY DEF Touchable, TouchRounds!Rounds, TouchRounds!IsRounds, TouchRound
<1>3. TouchRounds!Measured(h.used, u) /\ u \in 0 .. N /\ N \in Nat
  BY <1>1, UsedMeasured DEF TouchRounds!Measured, BelowRounds!Measured
<1>4. \A T \in SUBSET h.used : \A c :
        c \in Offspring(h, T) <=> \E n \in T : \E i \in 1 .. h.len[n] : Kid(h, n, i) = c
  <2>1. \A T \in SUBSET h.used : T \in SUBSET Node
    BY <1>1
  <2> QED
    BY <2>1, OffspringIs
<1>5. TouchRounds!Grows(h.used, S, N, h, 0)
  <2>1. \A T \in SUBSET h.used : Offspring(h, T) \subseteq h.used
    BY <1>1, <1>4 DEF Shaped
  <2>2. \A T \in SUBSET h.used : {h.parent[n] : n \in T} \ {Nil} \subseteq h.used
    BY <1>1 DEF Shaped
  <2> QED
    BY <2>1, <2>2 DEF TouchRounds!Grows, TouchRound
<1> HIDE DEF N, u, W
<1>6. TouchRounds!Settled(W, h.used, S, h, 0)
  BY <1>2, <1>3, <1>5, TouchRounds!RoundsSettle
<1>7. /\ W \in SUBSET h.used /\ S \subseteq W
      /\ W \cup Offspring(h, W) \cup ({h.parent[n] : n \in W} \ {Nil}) = W
  BY <1>6 DEF TouchRounds!Settled, TouchRound
<1>8. Closed(h, W) /\ ClosedUp(h, W)
  BY <1>4, <1>7 DEF Closed, ClosedUp
<1>9. ASSUME NEW T \in SUBSET h.used, S \subseteq T, Closed(h, T), ClosedUp(h, T) PROVE W \subseteq T
  <2>1. TouchRounds!Keeps(T, S, N, h, 0)
    <3>1. \A X \in SUBSET T : Offspring(h, X) \subseteq T
      BY <1>4, <1>9 DEF Closed
    <3>2. \A X \in SUBSET T : {h.parent[n] : n \in X} \ {Nil} \subseteq T
      BY <1>9 DEF ClosedUp
    <3> QED
      BY <1>9, <3>1, <3>2 DEF TouchRounds!Keeps, TouchRound
  <2>2. TouchRounds!Within(W, T)
    BY <1>2, <1>3, <2>1, TouchRounds!RoundsWithin
  <2> QED
    BY <2>2 DEF TouchRounds!Within
<1> QED
  BY <1>7, <1>8, <1>9 DEF W

LEMMA BelowIsTouchable ==
  ASSUME NEW L, NEW V, NEW h \in Heap(L, V), Shaped(h), NEW S \in SUBSET h.used, NEW T \in SUBSET h.used,
         S \subseteq T
  PROVE  Below(h, S) \subseteq Touchable(h, T)
BY BelowIs, TouchableIs

-----------------------------------------------------------------------------
(* Go's collector. *)
LEMMA MaxIs ==
  ASSUME NEW n \in Nat, NEW T \in SUBSET (0 .. n), T # {}
  PROVE  Max(T) \in T /\ \A y \in T : y <= Max(T)
<1> DEFINE D == {n - x : x \in T}
<1>1. D \in SUBSET Nat /\ D # {}
  <2>1. ASSUME NEW x \in T PROVE n - x \in Nat
    <3>1. x \in 0 .. n
      OBVIOUS
    <3> QED
      BY <3>1
  <2> QED
    BY <2>1
<1>2. PICK d \in D : \A y \in D : d <= y
  BY <1>1, BelowRounds!LeastNatural
<1>3. PICK x \in T : d = n - x
  BY <1>2
<1>4. \A y \in T : x >= y
  <2>1. ASSUME NEW y \in T PROVE x >= y
    <3>1. x \in 0 .. n /\ y \in 0 .. n /\ n - x <= n - y
      BY <1>2, <1>3
    <3> QED
      BY <3>1
  <2> QED
    BY <2>1
<1>5. Max(T) \in T /\ \A y \in T : Max(T) >= y
  BY <1>4 DEF Max
<1>6. \A y \in T : y \in 0 .. n
  OBVIOUS
<1> QED
  BY <1>5, <1>6

(* What is kept is kept as it was. *)
KeptAs(h, keep, g) ==
  /\ g.used = keep
  /\ \A n \in keep : /\ g.label[n] = h.label[n] /\ g.value[n] = h.value[n]
                     /\ g.parent[n] = h.parent[n] /\ g.arr[n] = h.arr[n] /\ g.len[n] = h.len[n]
                     /\ \A i \in 1 .. h.len[n] : Kid(g, n, i) = Kid(h, n, i)

LEMMA KeptIs ==
  ASSUME NEW L, NoLabel \in L, NEW V, NoValue \in V, NEW h \in Heap(L, V), Shaped(h),
         NEW keep \in SUBSET h.used, Root \in keep, Closed(h, keep), ClosedUp(h, keep),
         NEW live \in SUBSET keep, NEW g, g = Kept(h, keep, live)
  PROVE  /\ g \in Heap(L, V) /\ Shaped(g) /\ g.live = live /\ KeptAs(h, keep, g)
<1> DEFINE only(f, none) == [n \in Node |-> IF n \in keep THEN f[n] ELSE none]
           lens(a) == {0} \cup {h.len[n] : n \in {m \in keep : h.arr[m] = a}}
           longest(a) == Max({0} \cup {h.len[n] : n \in {m \in keep : h.arr[m] = a}})
           headed == {h.arr[n] : n \in keep} \ {Nil}
           cut(a) == [i \in DOMAIN h.array[a] |-> IF i <= longest(a) THEN h.array[a][i] ELSE Nil]
           arrays == [a \in Array \cup {Nil} |->
                       IF a \in headed
                       THEN [i \in DOMAIN h.array[a] |->
                               IF i <= longest(a) THEN h.array[a][i] ELSE Nil]
                       ELSE <<>>]
<1>1. /\ g = [used |-> keep, live |-> live, label |-> only(h.label, NoLabel),
              value |-> only(h.value, NoValue), parent |-> only(h.parent, Nil),
              arr |-> only(h.arr, Nil), len |-> only(h.len, 0), array |-> arrays]
  BY DEF Kept
<1> HIDE DEF arrays
<1>2. keep \in SUBSET Node /\ live \in SUBSET Node /\ Nil \notin Array /\ Nil \notin Node
  BY Identities DEF Heap
<1>3. /\ g.used = keep /\ g.live = live /\ g.array = arrays
      /\ g.label = only(h.label, NoLabel) /\ g.value = only(h.value, NoValue)
      /\ g.parent = only(h.parent, Nil) /\ g.arr = only(h.arr, Nil) /\ g.len = only(h.len, 0)
  BY <1>1
<1>4. \A n \in keep : /\ g.label[n] = h.label[n] /\ g.value[n] = h.value[n]
                      /\ g.parent[n] = h.parent[n] /\ g.arr[n] = h.arr[n] /\ g.len[n] = h.len[n]
  BY <1>2, <1>3
<1>5. \A n \in Node \ keep : /\ g.label[n] = NoLabel /\ g.value[n] = NoValue
                             /\ g.parent[n] = Nil /\ g.arr[n] = Nil /\ g.len[n] = 0
  BY <1>3
<1>6. /\ g.label \in [Node -> L] /\ g.value \in [Node -> V] /\ g.parent \in [Node -> Node \cup {Nil}]
      /\ g.arr \in [Node -> Array \cup {Nil}] /\ g.len \in [Node -> Nat]
  BY <1>3 DEF Heap
<1>7. headed \in SUBSET Array
  BY <1>2 DEF Heap
<1>8. \A n \in keep : n \in Node /\ h.len[n] \in Nat /\ h.len[n] <= Len(h.array[h.arr[n]])
  BY <1>2 DEF Heap, Shaped
<1>9. ASSUME NEW a \in headed
      PROVE  /\ cut(a) \in Seq(Node \cup {Nil}) /\ Len(cut(a)) = Len(h.array[a])
             /\ \A n \in keep : h.arr[n] = a => \A i \in 1 .. h.len[n] : cut(a)[i] = h.array[a][i]
  <2> DEFINE s == h.array[a]
  <2>1. s \in Seq(Node \cup {Nil})
    BY <1>7 DEF Heap
  <2>2. Len(s) \in Nat /\ DOMAIN s = 1 .. Len(s) /\ \A i \in 1 .. Len(s) : s[i] \in Node \cup {Nil}
    <3> HIDE DEF s
    <3> QED
      BY <2>1
  <2>3. lens(a) \in SUBSET (0 .. Len(s)) /\ lens(a) # {}
    <3>1. \A n \in keep : h.arr[n] = a => h.len[n] \in 0 .. Len(s)
      BY <1>8, <2>2
    <3> QED
      BY <2>2, <3>1
  <2>4. longest(a) \in 0 .. Len(s) /\ \A x \in lens(a) : x <= longest(a)
    <3> HIDE DEF lens
    <3>1. Max(lens(a)) \in lens(a) /\ \A x \in lens(a) : x <= Max(lens(a))
      BY <2>2, <2>3, MaxIs
    <3> QED
      BY <2>3, <3>1 DEF lens
  <2>5. \A n \in keep : h.arr[n] = a => h.len[n] <= longest(a)
    BY <2>4
  <2> HIDE DEF lens, longest
  <2>6. DOMAIN cut(a) = 1 .. Len(s) /\ \A i \in 1 .. Len(s) : cut(a)[i] = IF i <= longest(a) THEN s[i] ELSE Nil
    BY <2>2
  <2>7. cut(a) \in [1 .. Len(s) -> Node \cup {Nil}]
    BY <2>2
  <2>8. \A n \in keep : h.arr[n] = a => \A i \in 1 .. h.len[n] : i \in 1 .. Len(s) /\ i <= longest(a)
    <3>1. ASSUME NEW n \in keep, h.arr[n] = a, NEW i \in 1 .. h.len[n]
          PROVE  i \in 1 .. Len(s) /\ i <= longest(a)
      <4>1. h.len[n] \in Nat /\ h.len[n] <= longest(a) /\ longest(a) \in 0 .. Len(s)
        BY <1>8, <2>4, <2>5, <3>1
      <4> HIDE DEF s
      <4> QED
        BY <2>2, <4>1
    <3> QED
      BY <3>1
  <2>9. \A n \in keep : h.arr[n] = a => \A i \in 1 .. h.len[n] : cut(a)[i] = s[i]
    BY <2>6, <2>8
  <2> HIDE DEF cut
  <2>10. cut(a) \in Seq(Node \cup {Nil}) /\ Len(cut(a)) = Len(s)
    <3> HIDE DEF s
    <3> QED
      BY <2>2, <2>6, <2>7
  <2> QED
    BY <2>9, <2>10
<1>10. \A a \in headed : g.array[a] = cut(a)
  BY <1>3, <1>7 DEF arrays
<1>11. \A a \in Array \cup {Nil} : a \notin headed => g.array[a] = <<>>
  BY <1>3 DEF arrays
<1>12. DOMAIN g.array = Array \cup {Nil} /\ g.array = [a \in Array \cup {Nil} |-> g.array[a]]
  BY <1>3 DEF arrays
<1>13. Nil \notin headed
  OBVIOUS
<1>14. \A n \in keep : h.arr[n] # Nil => h.arr[n] \in headed
  OBVIOUS
<1> HIDE DEF headed, longest, lens, cut
<1>15. g.array \in [Array \cup {Nil} -> Seq(Node \cup {Nil})]
  <2>1. <<>> \in Seq(Node \cup {Nil})
    OBVIOUS
  <2>2. \A a \in Array \cup {Nil} : g.array[a] \in Seq(Node \cup {Nil})
    BY <1>9, <1>10, <1>11, <2>1
  <2> QED
    BY <1>12, <2>2
<1>16. g \in Heap(L, V)
  <2>1. g = [used |-> g.used, live |-> g.live, label |-> g.label, value |-> g.value,
             parent |-> g.parent, arr |-> g.arr, len |-> g.len, array |-> g.array]
    BY <1>1, <1>3
  <2> QED
    BY <1>2, <1>3, <1>6, <1>15, <2>1 DEF Heap
<1>17. h.array[Nil] = <<>> /\ Len(<<>>) = 0
  BY DEF Shaped
<1>18. \A n \in keep : h.arr[n] = Nil => h.len[n] = 0
  BY <1>8, <1>17
<1>19. \A n \in keep : \A i \in 1 .. h.len[n] : Kid(g, n, i) = Kid(h, n, i)
  <2>1. ASSUME NEW n \in keep, NEW i \in 1 .. h.len[n] PROVE Kid(g, n, i) = Kid(h, n, i)
    <3>1. h.arr[n] # Nil
      BY <1>18, <2>1
    <3>2. h.arr[n] \in headed
      BY <1>14, <3>1
    <3>3. g.array[h.arr[n]] = cut(h.arr[n]) /\ cut(h.arr[n])[i] = h.array[h.arr[n]][i]
      BY <1>9, <1>10, <3>2
    <3> QED
      BY <1>4, <3>3 DEF Kid
  <2> QED
    BY <2>1
<1>20. KeptAs(h, keep, g)
  BY <1>3, <1>4, <1>19 DEF KeptAs
<1>21. Shaped(g)
  <2>1. Root \in g.used /\ g.array[Nil] = <<>>
    BY <1>3, <1>11, <1>13
  <2>2. \A n \in Node : g.parent[n] \in g.used \cup {Nil}
    BY <1>3, <1>4, <1>5 DEF ClosedUp
  <2>3. \A n \in Node : g.len[n] <= Len(g.array[g.arr[n]])
    <3>1. ASSUME NEW n \in keep PROVE g.len[n] <= Len(g.array[g.arr[n]])
      <4>1. CASE h.arr[n] = Nil
        BY <1>4, <1>17, <1>18, <2>1, <4>1
      <4>2. CASE h.arr[n] # Nil
        BY <1>4, <1>8, <1>9, <1>10, <1>14, <4>2
      <4> QED
        BY <4>1, <4>2
    <3>2. ASSUME NEW n \in Node \ keep PROVE g.len[n] <= Len(g.array[g.arr[n]])
      BY <1>5, <1>17, <2>1, <3>2
    <3> QED
      BY <3>1, <3>2
  <2>4. \A n \in Node : \A i \in 1 .. g.len[n] : Kid(g, n, i) \in g.used
    <3>1. 1 .. 0 = {}
      OBVIOUS
    <3>2. \A n \in keep : \A i \in 1 .. g.len[n] : Kid(g, n, i) \in g.used
      <4>1. g.used = keep
        BY <1>3
      <4>2. ASSUME NEW n \in keep, NEW i \in 1 .. g.len[n] PROVE Kid(g, n, i) \in g.used
        <5>1. i \in 1 .. h.len[n]
          BY <1>4
        <5>2. Kid(h, n, i) \in keep
          BY <5>1 DEF Closed
        <5> QED
          BY <1>19, <4>1, <5>1, <5>2
      <4> QED
        BY <4>2
    <3> QED
      BY <1>5, <3>1, <3>2
  <2> QED
    BY <1>3, <1>5, <2>1, <2>2, <2>3, <2>4 DEF Shaped
<1> QED
  BY <1>3, <1>16, <1>20, <1>21

(* The collector keeps what the links of the kept nodes are. *)
LEMMA KeptLinks ==
  ASSUME NEW h, NEW keep, NEW g, KeptAs(h, keep, g), h.parent[Root] = Nil, Root \in keep
  PROVE  /\ Closed(h, keep) /\ ChildLinks(h, keep) => ChildLinks(g, g.used)
         /\ Closed(h, keep) /\ ClosedUp(h, keep) /\ ParentLinks(h, keep) => ParentLinks(g, g.used)
<1>1. ASSUME ChildLinks(h, keep), Closed(h, keep) PROVE ChildLinks(g, g.used)
  BY <1>1 DEF ChildLinks, Closed, KeptAs
<1> QED
  BY <1>1 DEF ParentLinks, Closed, ClosedUp, KeptAs

LEMMA CollectedIs ==
  ASSUME NEW L, NoLabel \in L, NEW V, NoValue \in V, NEW h \in Heap(L, V), Shaped(h),
         NEW held \in SUBSET h.used, NEW g, g = Collected(h, held)
  PROVE  /\ g \in Heap(L, V) /\ Shaped(g) /\ g.live \subseteq g.used
         /\ held \subseteq g.used /\ g.used \in SUBSET h.used
         /\ KeptAs(h, g.used, g) /\ g.live = Below(h, {Root})
         /\ Root \in g.live /\ Closed(h, g.used) /\ ClosedUp(h, g.used) /\ Closed(h, g.live)
<1> DEFINE S == {Root} \cup held
           keep == Touchable(h, S)
           live == Below(h, {Root})
<1>1. S \in SUBSET h.used /\ {Root} \in SUBSET h.used /\ {Root} \subseteq S
  BY DEF Shaped
<1>2. keep \in SUBSET h.used /\ S \subseteq keep /\ Closed(h, keep) /\ ClosedUp(h, keep)
  <2> HIDE DEF S
  <2> QED
    BY <1>1, TouchableIs
<1>3. live \subseteq keep
  <2> HIDE DEF S
  <2> QED
    BY <1>1, BelowIsTouchable
<1>4. live \in SUBSET h.used /\ {Root} \subseteq live /\ Closed(h, live)
  BY <1>1, BelowIs
<1>5. g = Kept(h, keep, live)
  BY DEF Collected
<1>6. Root \in keep /\ held \subseteq keep /\ live \in SUBSET keep
  BY <1>2, <1>3
<1> HIDE DEF keep, live
<1>7. g \in Heap(L, V) /\ Shaped(g) /\ g.live = live /\ KeptAs(h, keep, g)
  BY <1>2, <1>5, <1>6, KeptIs
<1>8. g.used = keep
  BY <1>7 DEF KeptAs
<1> QED
  BY <1>2, <1>4, <1>6, <1>7, <1>8 DEF live

(* Nothing but the tree is kept when no variable holds anything, and the     *)
(* tree's nodes are all listed by their parents.  K is what is right of the  *)
(* heap before: the tree does not lead out of it.                            *)
THEOREM TreeOnlyIsKept ==
  ASSUME NEW L, NoLabel \in L, NEW V, NoValue \in V, NEW h \in Heap(L, V), Shaped(h),
         NEW K \in SUBSET h.used, Root \in K, ChildLinks(h, K), Closed(h, K),
         NEW g, g = Collected(h, {})
  PROVE  g.used = g.live /\ g.used \subseteq K /\ ParentLinks(h, g.used)
<1> DEFINE live == Below(h, {Root})
           listed == {n \in live : n = Root \/ \E m \in live : \E i \in 1 .. h.len[m] : Kid(h, m, i) = n}
<1>1. {Root} \in SUBSET h.used
  BY DEF Shaped
<1>2. /\ live \in SUBSET h.used /\ Root \in live /\ Closed(h, live)
      /\ \A T \in SUBSET h.used : Root \in T /\ Closed(h, T) => live \subseteq T
  BY <1>1, BelowIs
<1> HIDE DEF live
<1>3. live \subseteq K
  BY <1>2
<1>4. live \subseteq listed
  <2>1. listed \in SUBSET h.used /\ Root \in listed
    BY <1>2
  <2>2. Closed(h, listed)
    BY <1>2 DEF Closed
  <2> HIDE DEF listed
  <2> QED
    BY <1>2, <2>1, <2>2
<1>5. ASSUME NEW n \in live, n # Root
      PROVE  /\ h.parent[n] \in live
             /\ \E i \in 1 .. h.len[h.parent[n]] : Kid(h, h.parent[n], i) = n
  <2>1. PICK m \in live : \E i \in 1 .. h.len[m] : Kid(h, m, i) = n
    BY <1>4, <1>5
  <2>2. h.parent[n] = m
    BY <1>3, <2>1 DEF ChildLinks
  <2> QED
    BY <2>1, <2>2
<1>6. h.parent[Root] = Nil
  BY DEF ChildLinks
<1>7. ClosedUp(h, live) /\ ParentLinks(h, live)
  BY <1>5, <1>6 DEF ClosedUp, ParentLinks
<1>8. Touchable(h, {Root} \cup {}) \subseteq live
  <2>1. {Root} \cup {} \in SUBSET h.used /\ {Root} \cup {} \subseteq live
    BY <1>1, <1>2
  <2> QED
    BY <1>2, <1>7, <2>1, TouchableIs
<1>9. g.live = live /\ g.live \subseteq g.used
  <2>1. {} \in SUBSET h.used
    OBVIOUS
  <2> QED
    BY <2>1, CollectedIs DEF live
<1>10. g.used = Touchable(h, {Root} \cup {})
  BY DEF Collected, Kept
<1> QED
  BY <1>3, <1>7, <1>8, <1>9, <1>10

-----------------------------------------------------------------------------
(* The texts of paths.  splitTop and parseStep go over a text token by token *)
(* and keep a state; a text over W keeps them to states over W.              *)
ScanRound(sep, q, s, x) == Scan(sep, s, x)
ScanLoop == INSTANCE Loops WITH Body <- ScanRound

ReadRound(p, q, s, x) == ReadToken(s, x)
ReadLoop == INSTANCE Loops WITH Body <- ReadRound

(* splitTop, outside of quotes: what it has cut off, the piece it is in and  *)
(* the brackets open around it.                                              *)
Inside(out, piece, depth) == [out |-> out, piece |-> piece, quoted |-> FALSE, depth |-> depth]

ScanStates(W) == [out : Seq(Seq(W)), piece : Seq(W), quoted : BOOLEAN, depth : Int]

LEMMA ScanStays ==
  ASSUME NEW W, NEW s \in ScanStates(W), NEW x \in W, NEW sep
  PROVE  Scan(sep, s, x) \in ScanStates(W)
<1>1. s.out \in Seq(Seq(W)) /\ s.piece \in Seq(W) /\ s.quoted \in BOOLEAN /\ s.depth \in Int
  BY DEF ScanStates
<1>2. Append(s.out, s.piece) \in Seq(Seq(W)) /\ <<>> \in Seq(W) /\ Append(s.piece, x) \in Seq(W)
  BY <1>1
<1>3. CASE x = sep /\ ~s.quoted /\ s.depth = 0
  <2>1. Scan(sep, s, x) = [s EXCEPT !.out = Append(@, s.piece), !.piece = <<>>]
    BY <1>3 DEF Scan
  <2> QED
    BY <1>1, <1>2, <2>1 DEF ScanStates
<1>4. CASE ~(x = sep /\ ~s.quoted /\ s.depth = 0)
  <2> DEFINE q == IF x = Ch("'") THEN ~s.quoted ELSE s.quoted
             d == IF s.quoted THEN s.depth ELSE IF x = Ch("[") THEN s.depth + 1
                  ELSE IF x = Ch("]") THEN s.depth - 1 ELSE s.depth
  <2>1. Scan(sep, s, x) = [s EXCEPT !.piece = Append(@, x), !.quoted = q, !.depth = d]
    BY <1>4 DEF Scan
  <2>2. q \in BOOLEAN
    BY <1>1, Zenon
  <2>3. d \in Int
    <3>1. s.depth + 1 \in Int /\ s.depth - 1 \in Int
      BY <1>1
    <3> QED
      BY <1>1, <3>1, Zenon
  <2> HIDE DEF q, d
  <2> QED
    BY <1>1, <1>2, <2>1, <2>2, <2>3 DEF ScanStates
<1> QED
  BY <1>3, <1>4

LEMMA ScanNone ==
  ASSUME NEW sep
  PROVE  Scanned(<<>>, sep) = Inside(<<>>, <<>>, 0)
<1> DEFINE base == Inside(<<>>, <<>>, 0)
<1>1. Scanned(<<>>, sep) = ScanLoop!Result(base, <<>>, sep, 0)
  BY DEF Scanned, Inside, Seqs!FoldLeft, Seqs!MapThenFoldSet, Seqs!Max, ScanLoop!Result, ScanLoop!IsLoop,
         ScanLoop!Greatest, ScanRound
<1> HIDE DEF base
<1>2. DOMAIN <<>> = 1 .. 0 /\ 1 .. 0 = {} /\ 0 \in Nat
  OBVIOUS
<1>3. ScanLoop!Stays({base}, base, <<>>, sep, 0)
  BY <1>2 DEF ScanLoop!Stays
<1>4. ScanLoop!Result(base, <<>>, sep, 0) \in {base}
  BY <1>3, ScanLoop!LoopKeeps
<1> QED
  BY <1>1, <1>4 DEF base

LEMMA ScanOn ==
  ASSUME NEW W, NEW t \in Seq(W), NEW x \in W, NEW sep
  PROVE  Scanned(Append(t, x), sep) = Scan(sep, Scanned(t, sep), x)
<1> DEFINE base == Inside(<<>>, <<>>, 0)
           u == Append(t, x)
           n == Len(t)
<1>1. /\ Scanned(t, sep) = ScanLoop!Result(base, t, sep, 0)
      /\ Scanned(u, sep) = ScanLoop!Result(base, u, sep, 0)
  BY DEF Scanned, Inside, Seqs!FoldLeft, Seqs!MapThenFoldSet, Seqs!Max, ScanLoop!Result, ScanLoop!IsLoop,
         ScanLoop!Greatest, ScanRound
<1>2. /\ n \in Nat /\ DOMAIN t = 1 .. n /\ DOMAIN u = 1 .. (n + 1)
      /\ \A k \in 1 .. n : u[k] = t[k]
      /\ u[n + 1] = x /\ \A k \in 1 .. (n + 1) : u[k] \in W
  OBVIOUS
<1>3. base \in ScanStates(W)
  <2>1. <<>> \in Seq(Seq(W)) /\ <<>> \in Seq(W)
    OBVIOUS
  <2> QED
    BY <2>1 DEF ScanStates, Inside
<1> HIDE DEF base, u, n
<1>4. ScanLoop!Stays(ScanStates(W), base, u, sep, 0)
  <2>1. \A s \in ScanStates(W) : \A k \in DOMAIN u : ScanRound(sep, 0, s, u[k]) \in ScanStates(W)
    BY <1>2, ScanStays DEF ScanRound
  <2>2. n + 1 \in Nat
    BY <1>2
  <2> QED
    BY <1>2, <1>3, <2>1, <2>2 DEF ScanLoop!Stays
<1>5. ScanLoop!Result(base, u, sep, 0) = ScanRound(sep, 0, ScanLoop!Result(base, t, sep, 0), u[n + 1])
  BY <1>2, <1>4, ScanLoop!LoopExtends
<1> QED
  BY <1>1, <1>2, <1>5 DEF ScanRound, u

LEMMA ScanCuts ==
  ASSUME NEW sep, NEW out, NEW piece
  PROVE  Scan(sep, Inside(out, piece, 0), sep) = Inside(Append(out, piece), <<>>, 0)
BY DEF Scan, Inside

LEMMA ScanGoesOn ==
  ASSUME NEW sep, NEW out, NEW piece, NEW d \in Int, NEW x, x # Ch("'"), x # sep \/ d # 0
  PROVE  Scan(sep, Inside(out, piece, d), x) =
           Inside(out, Append(piece, x), IF x = Ch("[") THEN d + 1 ELSE IF x = Ch("]") THEN d - 1 ELSE d)
<1> DEFINE s == Inside(out, piece, d)
<1>1. s.out = out /\ s.piece = piece /\ s.quoted = FALSE /\ s.depth = d
  BY DEF Inside
<1>2. ~(x = sep /\ ~s.quoted /\ s.depth = 0)
  BY <1>1
<1>3. Scan(sep, s, x) = [s EXCEPT !.piece = Append(piece, x), !.quoted = FALSE,
                                  !.depth = IF x = Ch("[") THEN d + 1 ELSE IF x = Ch("]") THEN d - 1 ELSE d]
  <2> HIDE DEF s
  <2> QED
    BY <1>1, <1>2 DEF Scan
<1> QED
  BY <1>3 DEF Inside

(* The marks are told apart from each other, from words and from numbers.    *)
LEMMA Distinct ==
  /\ \A c, d : Ch(c) = Ch(d) => c = d
  /\ \A c, k : Ch(c) # Num(k)
<1>1. \A c, d : Ch(c) = Ch(d) => c = d
  <2>1. \A c : Ch(c).ch = c
    BY DEF Ch
  <2> QED
    BY <2>1
<1>2. \A c, k : Ch(c) # Num(k)
  <2>1. \A c : DOMAIN Ch(c) = {"ch"}
    BY DEF Ch
  <2>2. \A k : DOMAIN Num(k) = {"num"}
    BY DEF Num
  <2>3. {"ch"} # {"num"}
    OBVIOUS
  <2> QED
    BY <2>1, <2>2, <2>3
<1> QED
  BY <1>1, <1>2

(* What segment writes for a label of one word: q is its position and the    *)
(* number of siblings that have it.                                          *)
Piece(l, q) == <<Ch(l)>> \o (IF q[2] > 1 THEN <<Ch("["), Num(q[1]), Ch("]")>> ELSE <<>>)

Carries(W, l, q) == {Ch("/"), Ch("["), Ch("]"), Ch(l), Num(q[1])} \subseteq W

LEMMA WordSpelled ==
  ASSUME NEW l, OneWord(l)
  PROVE  Spell(l) = <<Ch(l)>>
<1>1. l \notin DOMAIN Spelling \cup {""}
  BY Zenon DEF OneWord
<1> QED
  BY <1>1, Zenon DEF Spell

LEMMA WordIsNoMark ==
  ASSUME NEW l, OneWord(l)
  PROVE  \A c \in Mark : Ch(l) # Ch(c)
BY Distinct, Zenon DEF OneWord

LEMMA AppendJoined ==
  ASSUME NEW W, NEW s \in Seq(W), NEW u \in Seq(W), NEW x \in W
  PROVE  s \o Append(u, x) = Append(s \o u, x) /\ s \o u \in Seq(W)
<1> DEFINE v == s \o Append(u, x)
           w == Append(s \o u, x)
<1>1. /\ Len(s) \in Nat /\ Len(u) \in Nat /\ s \o u \in Seq(W) /\ Append(u, x) \in Seq(W)
      /\ v \in Seq(W) /\ w \in Seq(W)
  OBVIOUS
<1>2. Len(v) = Len(s) + Len(u) + 1 /\ Len(w) = Len(v)
  BY <1>1
<1>3. ASSUME NEW i \in 1 .. Len(v) PROVE v[i] = w[i]
  <2>1. CASE i <= Len(s)
    BY <1>1, <1>2, <2>1
  <2>2. CASE i > Len(s) /\ i <= Len(s) + Len(u)
    BY <1>1, <1>2, <2>2
  <2>3. CASE i = Len(s) + Len(u) + 1
    BY <1>1, <1>2, <2>3
  <2> QED
    BY <1>1, <1>2, <2>1, <2>2, <2>3
<1> HIDE DEF v, w
<1>4. v = [i \in 1 .. Len(v) |-> v[i]] /\ w = [i \in 1 .. Len(w) |-> w[i]]
  BY <1>1
<1>5. v = w
  BY <1>2, <1>3, <1>4
<1> QED
  BY <1>1, <1>5 DEF v, w

(* Short sequences joined, token by token. *)
Unrolls(t, a, b, c, d, e) ==
  /\ t \o (<<a>> \o (<<b>> \o <<>>)) = Append(Append(t, a), b)
  /\ t \o (<<a>> \o (<<b>> \o <<c, d, e>>)) = Append(Append(Append(Append(Append(t, a), b), c), d), e)
  /\ <<b>> \o <<>> = Append(<<>>, b)
  /\ <<b>> \o <<c, d, e>> = Append(Append(Append(Append(<<>>, b), c), d), e)

LEMMA Unrolled ==
  ASSUME NEW W, NEW t \in Seq(W), NEW a \in W, NEW b \in W, NEW c \in W, NEW d \in W, NEW e \in W
  PROVE  Unrolls(t, a, b, c, d, e)
<1>1. <<b>> = Append(<<>>, b) /\ <<a>> = Append(<<>>, a) /\ <<a, b>> = Append(<<a>>, b)
  OBVIOUS
<1>2. <<c, d, e>> = Append(Append(Append(<<>>, c), d), e)
  OBVIOUS
<1>3. <<>> \in Seq(W) /\ <<a>> \in Seq(W) /\ <<b>> \in Seq(W) /\ <<a, b>> \in Seq(W)
  OBVIOUS
<1>4. \A s \in Seq(W) : s \o <<>> = s
  OBVIOUS
<1>5. \A s \in Seq(W) : \A x \in W : Append(s, x) \in Seq(W)
  OBVIOUS
<1>6. \A s \in Seq(W) : s \o <<c, d, e>> = Append(Append(Append(s, c), d), e)
  BY <1>2, <1>3, <1>4, <1>5, AppendJoined
<1>7. <<b>> \o <<>> = Append(<<>>, b) /\ <<b>> \o <<c, d, e>> = Append(Append(Append(Append(<<>>, b), c), d), e)
  BY <1>1, <1>3, <1>4, <1>6
<1>8. \A s \in Seq(W) : s \o <<a>> = Append(s, a)
  BY <1>1, <1>3, <1>4, AppendJoined
<1>9. \A s \in Seq(W) : s \o Append(<<a>>, b) = Append(Append(s, a), b)
  BY <1>3, <1>8, AppendJoined
<1>10. t \o (<<a>> \o (<<b>> \o <<>>)) = Append(Append(t, a), b)
  <2>1. <<a>> \o Append(<<>>, b) = Append(<<a>>, b)
    BY <1>3, <1>4, AppendJoined
  <2> QED
    BY <1>7, <1>9, <2>1
<1>11. t \o (<<a>> \o (<<b>> \o <<c, d, e>>)) = Append(Append(Append(Append(Append(t, a), b), c), d), e)
  <2> DEFINE p == Append(<<a>>, b)
             p1 == Append(p, c)
             p2 == Append(p1, d)
  <2>1. p \in Seq(W) /\ p1 \in Seq(W) /\ p2 \in Seq(W)
    BY <1>3, <1>5
  <2>2. <<a>> \o (<<b>> \o <<c, d, e>>) = Append(p2, e)
    <3>1. <<a>> \o Append(<<>>, b) = p
      BY <1>3, <1>4, AppendJoined
    <3>2. Append(<<>>, b) \in Seq(W) /\ Append(Append(<<>>, b), c) \in Seq(W)
          /\ Append(Append(Append(<<>>, b), c), d) \in Seq(W)
      BY <1>3, <1>5
    <3>3. <<a>> \o Append(Append(<<>>, b), c) = p1
      BY <1>3, <3>1, <3>2, AppendJoined
    <3>4. <<a>> \o Append(Append(Append(<<>>, b), c), d) = p2
      BY <1>3, <3>2, <3>3, AppendJoined
    <3>5. <<a>> \o Append(Append(Append(Append(<<>>, b), c), d), e) = Append(p2, e)
      BY <1>3, <3>2, <3>4, AppendJoined
    <3> QED
      BY <1>7, <3>5
  <2>3. t \o p = Append(Append(t, a), b)
    BY <1>9
  <2> HIDE DEF p, p1, p2
  <2>4. t \o p1 = Append(t \o p, c)
    BY <2>1, AppendJoined DEF p1
  <2>5. t \o p2 = Append(t \o p1, d)
    BY <2>1, AppendJoined DEF p2
  <2>6. t \o Append(p2, e) = Append(t \o p2, e)
    BY <2>1, AppendJoined
  <2> QED
    BY <2>2, <2>3, <2>4, <2>5, <2>6
<1> QED
  BY <1>7, <1>10, <1>11 DEF Unrolls

LEMMA MarksDiffer ==
  /\ \A c, d \in {"/", "[", "]", "|", "'", " "} : c # d => Ch(c) # Ch(d)
  /\ "/" # "[" /\ "/" # "]" /\ "/" # "|" /\ "/" # "'" /\ "/" # " "
  /\ "[" # "]" /\ "[" # "|" /\ "[" # "'" /\ "[" # " " /\ "]" # "|" /\ "]" # "'" /\ "]" # " "
<1>1. \A c, d \in {"/", "[", "]", "|", "'", " "} : c # d => Ch(c) # Ch(d)
  BY Distinct
<1> QED
  BY <1>1

(* splitTop on a segment appended to a text: at bars it goes on, at slashes  *)
(* it cuts.                                                                  *)
LEMMA SegmentScanned ==
  ASSUME NEW W, NEW t \in Seq(W), NEW l, NEW q, OneWord(l), Carries(W, l, q), NEW out, NEW piece \in Seq(W),
         NEW sep \in {Ch("|"), Ch("/")}, Scanned(t, sep) = Inside(out, piece, 0)
  PROVE  Scanned(t \o (<<Ch("/")>> \o Piece(l, q)), sep) =
           IF sep = Ch("/") THEN Inside(Append(out, piece), Piece(l, q), 0)
           ELSE Inside(out, piece \o (<<Ch("/")>> \o Piece(l, q)), 0)
<1> DEFINE a == Ch("/")
           b == Ch(l)
           c == Ch("[")
           d == Num(q[1])
           e == Ch("]")
           t1 == Append(t, a)
           t2 == Append(t1, b)
           t3 == Append(t2, c)
           t4 == Append(t3, d)
           p0 == IF sep = a THEN <<>> ELSE Append(piece, a)
           o0 == IF sep = a THEN Append(out, piece) ELSE out
           p2 == Append(p0, b)
           p3 == Append(p2, c)
           p4 == Append(p3, d)
<1>1. a \in W /\ b \in W /\ c \in W /\ d \in W /\ e \in W
  BY DEF Carries
<1>2. /\ a # Ch("'") /\ b # Ch("'") /\ c # Ch("'") /\ d # Ch("'") /\ e # Ch("'")
      /\ a # c /\ a # e /\ b # c /\ b # e /\ d # c /\ d # e /\ c # e
      /\ b # sep /\ c # sep
  <2>1. "'" \in Mark /\ "[" \in Mark /\ "]" \in Mark /\ "/" \in Mark /\ "|" \in Mark
    BY DEF Mark
  <2>2. b # Ch("'") /\ b # c /\ b # e /\ b # Ch("/") /\ b # Ch("|")
    BY <2>1, WordIsNoMark
  <2>3. c # Ch("/") /\ c # Ch("|")
    BY MarksDiffer
  <2>4. a # Ch("'") /\ c # Ch("'") /\ e # Ch("'") /\ a # c /\ a # e /\ c # e
    BY MarksDiffer
  <2>5. d # Ch("'") /\ d # c /\ d # e
    BY Distinct
  <2> QED
    BY <2>2, <2>3, <2>4, <2>5
<1> HIDE DEF a, b, c, d, e
<1>11. ASSUME NEW s \in Seq(W)
       PROVE  /\ s \o (<<a>> \o (<<b>> \o <<>>)) = Append(Append(s, a), b)
              /\ s \o (<<a>> \o (<<b>> \o <<c, d, e>>)) = Append(Append(Append(Append(Append(s, a), b), c), d), e)
              /\ <<b>> \o <<>> = Append(<<>>, b)
              /\ <<b>> \o <<c, d, e>> = Append(Append(Append(Append(<<>>, b), c), d), e)
  <2>1. Unrolls(s, a, b, c, d, e)
    BY <1>1, Unrolled
  <2> QED
    BY <2>1 DEF Unrolls
<1>3. t1 \in Seq(W) /\ t2 \in Seq(W) /\ t3 \in Seq(W) /\ t4 \in Seq(W)
  BY <1>1
<1>4. Scanned(t1, sep) = Inside(o0, p0, 0)
  <2>1. Scanned(t1, sep) = Scan(sep, Inside(out, piece, 0), a)
    BY <1>1, ScanOn
  <2>2. CASE sep = a
    BY <2>1, <2>2, ScanCuts
  <2>3. CASE sep # a
    BY <1>2, <2>1, <2>3, ScanGoesOn DEF c, e
  <2> QED
    BY <2>2, <2>3
<1> HIDE DEF t1, p0, o0
<1>5. Scanned(t2, sep) = Inside(o0, p2, 0)
  BY <1>1, <1>2, <1>3, <1>4, ScanOn, ScanGoesOn DEF c, e
<1> HIDE DEF t2, p2
<1>6. Scanned(t3, sep) = Inside(o0, p3, 1)
  BY <1>1, <1>2, <1>3, <1>5, ScanOn, ScanGoesOn DEF c
<1> HIDE DEF t3, p3
<1>7. Scanned(t4, sep) = Inside(o0, p4, 1)
  BY <1>1, <1>2, <1>3, <1>6, ScanOn, ScanGoesOn DEF c, e
<1> HIDE DEF t4, p4
<1>8. Scanned(Append(t4, e), sep) = Inside(o0, Append(p4, e), 0)
  BY <1>1, <1>2, <1>3, <1>7, ScanOn, ScanGoesOn DEF c, e
<1>9. CASE q[2] > 1
  <2>1. Piece(l, q) = <<b>> \o <<c, d, e>>
    BY <1>9 DEF Piece, b, c, d, e
  <2>2. t \o (<<a>> \o Piece(l, q)) = Append(t4, e)
    BY <1>11, <2>1 DEF t1, t2, t3, t4
  <2>3. CASE sep = a
    <3>1. Append(p4, e) = Piece(l, q)
      BY <1>11, <2>1, <2>3 DEF p0, p2, p3, p4
    <3> QED
      BY <1>8, <2>2, <2>3, <3>1 DEF o0, a
  <2>4. CASE sep # a
    <3>1. Append(p4, e) = piece \o (<<a>> \o Piece(l, q))
      BY <1>11, <2>1, <2>4 DEF p0, p2, p3, p4
    <3> QED
      BY <1>8, <2>2, <2>4, <3>1 DEF o0, a
  <2> QED
    BY <2>3, <2>4
<1>10. CASE ~(q[2] > 1)
  <2>1. Piece(l, q) = <<b>> \o <<>>
    BY <1>10 DEF Piece, b
  <2>2. t \o (<<a>> \o Piece(l, q)) = t2
    BY <1>11, <2>1 DEF t1, t2
  <2>3. CASE sep = a
    <3>1. p2 = Piece(l, q)
      BY <1>11, <2>1, <2>3 DEF p0, p2
    <3> QED
      BY <1>5, <2>2, <2>3, <3>1 DEF o0, a
  <2>4. CASE sep # a
    <3>1. p2 = piece \o (<<a>> \o Piece(l, q))
      BY <1>11, <2>1, <2>4 DEF p0, p2
    <3> QED
      BY <1>5, <2>2, <2>4, <3>1 DEF o0, a
  <2> QED
    BY <2>3, <2>4
<1> QED
  BY <1>9, <1>10

(* TrimSpace takes nothing from a text without blanks at its ends. *)
LEMMA Trimmed ==
  ASSUME NEW W, NEW t \in Seq(W), Len(t) # 0, t[1] # Space, t[Len(t)] # Space
  PROVE  Trim(t) = t
<1> DEFINE solid == {i \in DOMAIN t : t[i] # Space}
           n == Len(t)
<1>1. n \in Nat \ {0} /\ DOMAIN t = 1 .. n
  OBVIOUS
<1>2. 1 \in solid /\ n \in solid /\ solid \subseteq 1 .. n
  BY <1>1
<1>3. \A x \in solid : x \in Int /\ 1 <= x /\ x <= n
  BY <1>1, <1>2
<1> HIDE DEF solid, n
<1>4. Seqs!Min(solid) = 1
  <2>1. \A x \in solid : (\A y \in solid : x <= y) => x = 1
    BY <1>2, <1>3
  <2>2. \A y \in solid : 1 <= y
    BY <1>3
  <2> QED
    BY <1>2, <2>1, <2>2 DEF Seqs!Min
<1>5. Seqs!Max(solid) = n
  <2>1. ASSUME NEW x \in solid, \A y \in solid : x >= y PROVE x = n
    <3>1. x >= n /\ x <= n /\ x \in Int
      BY <1>2, <1>3, <2>1
    <3> QED
      BY <1>1, <3>1
  <2>2. \A y \in solid : n >= y
    BY <1>1, <1>3
  <2> QED
    BY <1>2, <2>1, <2>2 DEF Seqs!Max
<1>6. SubSeq(t, 1, n) = t
  <2>1. t = [i \in 1 .. n |-> t[i]] /\ SubSeq(t, 1, n) = [i \in 1 .. n |-> t[i]]
    BY DEF n
  <2> QED
    BY <2>1
<1>7. solid # {}
  BY <1>2
<1> QED
  BY <1>4, <1>5, <1>6, <1>7 DEF Trim, solid

LEMMA NumberRead ==
  ASSUME NEW k \in Nat \ {0}
  PROVE  Predicate(<<Num(k)>>) = [kind |-> "pos", n |-> k]
<1> DEFINE t == <<Num(k)>>
<1>1. t \in Seq({Num(k)}) /\ t # <<>> /\ t[1] = Num(k) /\ Len(t) = 1 /\ Len(t) # 0
  OBVIOUS
<1>2. Num(k).num = k /\ DOMAIN Num(k) = {"num"}
  BY DEF Num
<1> HIDE DEF t
<1>3. Trim(t) = t
  <2>1. Num(k) # Space
    BY Distinct, Zenon DEF Space
  <2> QED
    BY <1>1, <2>1, Trimmed
<1>4. ~(t[1].num < 1)
  BY <1>1, <1>2
<1>5. Predicate(t) = IF t[1].num < 1 THEN [kind |-> "bad"] ELSE [kind |-> "pos", n |-> t[1].num]
  BY <1>1, <1>2, <1>3 DEF Predicate
<1> QED
  BY <1>1, <1>2, <1>4, <1>5 DEF t

LEMMA WordRead ==
  ASSUME NEW l, OneWord(l)
  PROVE  NameOf(<<Ch(l)>>) = l
<1> DEFINE t == <<Ch(l)>>
           names == {m \in DOMAIN Spelling : Spelling[m] = t}
<1>1. t # <<>> /\ t[1] = Ch(l) /\ Len(t) = 1
  OBVIOUS
<1>2. Ch(l).ch = l /\ DOMAIN Ch(l) = {"ch"}
  BY DEF Ch
<1> HIDE DEF t
<1>3. \A m \in DOMAIN Spelling : Spelling[m] # t
  <2>1. \A m \in DOMAIN Spelling : Len(Spelling[m]) > 1
    BY SpellingAssumption
  <2>2. \A m \in DOMAIN Spelling : Spelling[m] = t => Len(Spelling[m]) = 1
    BY <1>1
  <2>3. ~(1 > 1)
    OBVIOUS
  <2> QED
    BY <2>1, <2>2, <2>3, Zenon
<1>4. names = {}
  BY <1>3
<1>5. NameOf(t) = t[1].ch
  BY <1>1, <1>2, <1>4, Zenon DEF NameOf
<1> QED
  BY <1>1, <1>2, <1>5 DEF t

(* parseStep, token by token. *)
ReadStates(W) ==
  [at : {"name", "body", "behind", "bad"}, name : Seq(W), body : Seq(W), preds : Seq({Predicate(b) : b \in Seq(W)})]

Reading(at, name, body, preds) == [at |-> at, name |-> name, body |-> body, preds |-> preds]

LEMMA NameToken ==
  ASSUME NEW name, NEW body, NEW preds, NEW x
  PROVE  ReadToken(Reading("name", name, body, preds), x) =
           IF x = Ch("[") THEN Reading("body", name, body, preds)
           ELSE Reading("name", Append(name, x), body, preds)
<1> DEFINE r == Reading("name", name, body, preds)
<1>1. /\ [r EXCEPT !.at = "body"] = Reading("body", name, body, preds)
      /\ [r EXCEPT !.name = Append(name, x)] = Reading("name", Append(name, x), body, preds)
      /\ r.at = "name" /\ r.name = name
  BY DEF Reading
<1> HIDE DEF r
<1>2. ReadToken(r, x) = IF x = Ch("[") THEN [r EXCEPT !.at = "body"] ELSE [r EXCEPT !.name = Append(@, x)]
  BY <1>1 DEF ReadToken
<1>3. ReadToken(r, x) = IF x = Ch("[") THEN Reading("body", name, body, preds)
                        ELSE Reading("name", Append(name, x), body, preds)
  BY <1>1, <1>2
<1> QED
  BY <1>3 DEF r

LEMMA BodyToken ==
  ASSUME NEW name, NEW body, NEW preds, NEW x
  PROVE  ReadToken(Reading("body", name, body, preds), x) =
           IF x = Ch("]") THEN Reading("behind", name, <<>>, Append(preds, Predicate(body)))
           ELSE Reading("body", name, Append(body, x), preds)
<1> DEFINE r == Reading("body", name, body, preds)
           p == Append(preds, Predicate(body))
<1>1. r.at = "body" /\ r.body = body /\ r.preds = preds
  BY DEF Reading
<1>2. [r EXCEPT !.body = Append(body, x)] = Reading("body", name, Append(body, x), preds)
  BY DEF Reading
<1>3. [r EXCEPT !.at = "behind", !.body = <<>>, !.preds = p] = Reading("behind", name, <<>>, p)
  <2> HIDE DEF p
  <2> DEFINE v == [r EXCEPT !.at = "behind", !.body = <<>>, !.preds = p]
  <2>1. DOMAIN v = {"at", "name", "body", "preds"} /\ v = [f \in {"at", "name", "body", "preds"} |-> v[f]]
    BY DEF Reading
  <2>2. v["at"] = "behind" /\ v["name"] = name /\ v["body"] = <<>> /\ v["preds"] = p
    BY DEF Reading
  <2> HIDE DEF v
  <2>3. v = Reading("behind", name, <<>>, p)
    BY <2>1, <2>2 DEF Reading
  <2> QED
    BY <2>3 DEF v
<1> HIDE DEF r
<1>4. ReadToken(r, x) =
        IF x = Ch("]") THEN [r EXCEPT !.at = "behind", !.body = <<>>, !.preds = Append(@, Predicate(r.body))]
        ELSE [r EXCEPT !.body = Append(@, x)]
  BY <1>1 DEF ReadToken
<1>5. ReadToken(r, x) = IF x = Ch("]") THEN Reading("behind", name, <<>>, p)
                        ELSE Reading("body", name, Append(body, x), preds)
  BY <1>1, <1>2, <1>3, <1>4
<1> QED
  BY <1>5 DEF r

LEMMA BehindToken ==
  ASSUME NEW name, NEW body, NEW preds, NEW x
  PROVE  ReadToken(Reading("behind", name, body, preds), x) =
           Reading(IF x = Ch("[") THEN "body" ELSE "bad", name, body, preds)
<1> DEFINE r == Reading("behind", name, body, preds)
           a == IF x = Ch("[") THEN "body" ELSE "bad"
<1>1. [r EXCEPT !.at = a] = Reading(a, name, body, preds) /\ r.at = "behind"
  <2> HIDE DEF a
  <2> QED
    BY DEF Reading
<1> HIDE DEF r
<1>2. ReadToken(r, x) = [r EXCEPT !.at = a]
  BY <1>1 DEF ReadToken
<1> QED
  BY <1>1, <1>2 DEF r

LEMMA ReadStays ==
  ASSUME NEW W, NEW s \in ReadStates(W), NEW x \in W
  PROVE  ReadToken(s, x) \in ReadStates(W)
<1> DEFINE P == {Predicate(b) : b \in Seq(W)}
<1>1. /\ s = Reading(s.at, s.name, s.body, s.preds) /\ s.at \in {"name", "body", "behind", "bad"}
      /\ s.name \in Seq(W) /\ s.body \in Seq(W) /\ s.preds \in Seq(P)
  BY DEF ReadStates, Reading
<1>2. \A at \in {"name", "body", "behind", "bad"} : \A name, body \in Seq(W) : \A preds \in Seq(P) :
        Reading(at, name, body, preds) \in ReadStates(W)
  BY DEF ReadStates, Reading
<1>3. Append(s.name, x) \in Seq(W) /\ Append(s.body, x) \in Seq(W) /\ <<>> \in Seq(W)
  BY <1>1
<1>4. Append(s.preds, Predicate(s.body)) \in Seq(P)
  <2>1. Predicate(s.body) \in P
    BY <1>1
  <2> HIDE DEF P
  <2> QED
    BY <1>1, <2>1
<1> HIDE DEF P
<1>5. CASE s.at = "name"
  <2>1. ReadToken(s, x) = IF x = Ch("[") THEN Reading("body", s.name, s.body, s.preds)
                          ELSE Reading("name", Append(s.name, x), s.body, s.preds)
    BY <1>1, <1>5, NameToken
  <2> QED
    BY <1>1, <1>2, <1>3, <2>1
<1>6. CASE s.at = "body"
  <2>1. ReadToken(s, x) = IF x = Ch("]") THEN Reading("behind", s.name, <<>>, Append(s.preds, Predicate(s.body)))
                          ELSE Reading("body", s.name, Append(s.body, x), s.preds)
    BY <1>1, <1>6, BodyToken
  <2> QED
    BY <1>1, <1>2, <1>3, <1>4, <2>1
<1>7. CASE s.at = "behind"
  <2>1. ReadToken(s, x) = Reading(IF x = Ch("[") THEN "body" ELSE "bad", s.name, s.body, s.preds)
    BY <1>1, <1>7, BehindToken
  <2> QED
    BY <1>1, <1>2, <2>1
<1>8. CASE s.at = "bad"
  BY <1>8 DEF ReadToken
<1> QED
  BY <1>1, <1>5, <1>6, <1>7, <1>8

LEMMA ReadNone == TokensRead(<<>>) = Reading("name", <<>>, <<>>, <<>>)
<1> DEFINE base == Reading("name", <<>>, <<>>, <<>>)
<1>1. TokensRead(<<>>) = ReadLoop!Result(base, <<>>, 0, 0)
  BY DEF TokensRead, Reading, Seqs!FoldLeft, Seqs!MapThenFoldSet, Seqs!Max, ReadLoop!Result, ReadLoop!IsLoop,
         ReadLoop!Greatest, ReadRound
<1> HIDE DEF base
<1>2. DOMAIN <<>> = 1 .. 0 /\ 1 .. 0 = {} /\ 0 \in Nat
  OBVIOUS
<1>3. ReadLoop!Stays({base}, base, <<>>, 0, 0)
  BY <1>2 DEF ReadLoop!Stays
<1>4. ReadLoop!Result(base, <<>>, 0, 0) \in {base}
  BY <1>3, ReadLoop!LoopKeeps
<1> QED
  BY <1>1, <1>4 DEF base

LEMMA ReadOn ==
  ASSUME NEW W, NEW t \in Seq(W), NEW x \in W
  PROVE  TokensRead(Append(t, x)) = ReadToken(TokensRead(t), x)
<1> DEFINE base == Reading("name", <<>>, <<>>, <<>>)
           u == Append(t, x)
           n == Len(t)
<1>1. TokensRead(t) = ReadLoop!Result(base, t, 0, 0) /\ TokensRead(u) = ReadLoop!Result(base, u, 0, 0)
  BY DEF TokensRead, Reading, Seqs!FoldLeft, Seqs!MapThenFoldSet, Seqs!Max, ReadLoop!Result, ReadLoop!IsLoop,
         ReadLoop!Greatest, ReadRound
<1>2. /\ n \in Nat /\ DOMAIN t = 1 .. n /\ DOMAIN u = 1 .. (n + 1)
      /\ \A k \in 1 .. n : u[k] = t[k]
      /\ u[n + 1] = x /\ \A k \in 1 .. (n + 1) : u[k] \in W
  OBVIOUS
<1>3. base \in ReadStates(W)
  <2>1. <<>> \in Seq(W) /\ <<>> \in Seq({Predicate(b) : b \in Seq(W)})
    OBVIOUS
  <2> QED
    BY <2>1 DEF ReadStates, Reading
<1> HIDE DEF base, u, n
<1>4. ReadLoop!Stays(ReadStates(W), base, u, 0, 0)
  <2>1. \A s \in ReadStates(W) : \A k \in DOMAIN u : ReadRound(0, 0, s, u[k]) \in ReadStates(W)
    BY <1>2, ReadStays DEF ReadRound
  <2>2. n + 1 \in Nat
    BY <1>2
  <2> QED
    BY <1>2, <1>3, <2>1, <2>2 DEF ReadLoop!Stays
<1>5. ReadLoop!Result(base, u, 0, 0) = ReadRound(0, 0, ReadLoop!Result(base, t, 0, 0), u[n + 1])
  BY <1>2, <1>4, ReadLoop!LoopExtends
<1> QED
  BY <1>1, <1>2, <1>5 DEF ReadRound, u

(* parseStep reads a segment as the label and the position written. *)
LEMMA PieceRead ==
  ASSUME NEW l, NEW q, OneWord(l), q[1] \in Nat \ {0}
  PROVE  ReadSeg(Piece(l, q)) = Seg(l, IF q[2] > 1 THEN <<[kind |-> "pos", n |-> q[1]]>> ELSE <<>>)
<1> DEFINE W == {Ch("/"), Ch("["), Ch("]"), Ch(l), Num(q[1])}
           b == Ch(l)
           c == Ch("[")
           d == Num(q[1])
           e == Ch("]")
           t2 == Append(<<>>, b)
           t3 == Append(t2, c)
           t4 == Append(t3, d)
           t5 == Append(t4, e)
           pos == [kind |-> "pos", n |-> q[1]]
<1>1. /\ b \in W /\ c \in W /\ d \in W /\ e \in W
      /\ <<>> \in Seq(W) /\ t2 \in Seq(W) /\ t3 \in Seq(W) /\ t4 \in Seq(W)
  OBVIOUS
<1>2. b # c /\ d # e
  <2>1. "[" \in Mark
    BY DEF Mark
  <2> QED
    BY <2>1, WordIsNoMark, Distinct
<1>3. Append(<<>>, d) = <<d>> /\ Append(<<>>, b) = <<b>> /\ Append(<<>>, pos) = <<pos>>
  OBVIOUS
<1>4. Predicate(<<d>>) = pos
  BY NumberRead
<1>5. Unrolls(<<>>, b, b, c, d, e)
  BY <1>1, Unrolled
<1>6. NameOf(<<b>>) = l
  BY WordRead
<1>7. Piece(l, q) = IF q[2] > 1 THEN t5 ELSE t2
  BY <1>5 DEF Unrolls, Piece
<1> HIDE DEF W, b, d, pos
<1>8. TokensRead(t2) = Reading("name", <<b>>, <<>>, <<>>)
  <2>1. TokensRead(t2) = ReadToken(Reading("name", <<>>, <<>>, <<>>), b)
    BY <1>1, ReadNone, ReadOn
  <2>2. ReadToken(Reading("name", <<>>, <<>>, <<>>), b) =
          IF b = Ch("[") THEN Reading("body", <<>>, <<>>, <<>>) ELSE Reading("name", Append(<<>>, b), <<>>, <<>>)
    BY NameToken
  <2> QED
    BY <1>2, <1>3, <2>1, <2>2
<1> HIDE DEF t2
<1>9. TokensRead(t3) = Reading("body", <<b>>, <<>>, <<>>)
  BY <1>1, <1>8, ReadOn, NameToken
<1> HIDE DEF t3
<1>10. TokensRead(t4) = Reading("body", <<b>>, <<d>>, <<>>)
  <2>1. TokensRead(t4) = ReadToken(Reading("body", <<b>>, <<>>, <<>>), d)
    BY <1>1, <1>9, ReadOn
  <2>2. \A name, body, preds : ReadToken(Reading("body", name, body, preds), d) =
                                 Reading("body", name, Append(body, d), preds)
    BY <1>2, BodyToken
  <2> QED
    BY <1>3, <2>1, <2>2
<1> HIDE DEF t4
<1>11. TokensRead(t5) = Reading("behind", <<b>>, <<>>, <<pos>>)
  <2>1. TokensRead(t5) = ReadToken(Reading("body", <<b>>, <<d>>, <<>>), e)
    BY <1>1, <1>10, ReadOn
  <2>2. ReadToken(Reading("body", <<b>>, <<d>>, <<>>), e) =
          IF e = Ch("]") THEN Reading("behind", <<b>>, <<>>, Append(<<>>, Predicate(<<d>>)))
          ELSE Reading("body", <<b>>, Append(<<d>>, e), <<>>)
    BY BodyToken
  <2> QED
    BY <1>3, <1>4, <2>1, <2>2
<1>12. ReadSeg(t2) = Seg(l, <<>>)
  BY <1>6, <1>8 DEF ReadSeg, Reading
<1>13. ReadSeg(t5) = Seg(l, <<pos>>)
  BY <1>6, <1>11 DEF ReadSeg, Reading
<1> QED
  BY <1>7, <1>12, <1>13 DEF pos

-----------------------------------------------------------------------------
(* What eval makes of a text over W that segments were appended to: segs,    *)
(* one for each.                                                             *)
PiecesRead(pieces, segs) ==
  /\ Len(pieces) = Len(segs) + 1 /\ pieces[1] = <<>>
  /\ \A i \in 1 .. Len(segs) : ReadSeg(pieces[i + 1]) = segs[i]

Reads(W, t, segs) ==
  /\ t \in Seq(W) /\ Scanned(t, Ch("|")) = Inside(<<>>, t, 0)
  /\ \E out \in Seq(Seq(W)), piece \in Seq(W) :
       Scanned(t, Ch("/")) = Inside(out, piece, 0) /\ PiecesRead(Append(out, piece), segs)
  /\ Len(segs) = 0 => t = <<>>
  /\ Len(segs) # 0 => Len(t) # 0 /\ t[1] # Space /\ t[Len(t)] # Space

LEMMA ReadsNothing ==
  ASSUME NEW W
  PROVE  Reads(W, <<>>, <<>>)
<1>1. <<>> \in Seq(W) /\ <<>> \in Seq(Seq(W)) /\ Len(<<>>) = 0
  OBVIOUS
<1>2. PiecesRead(Append(<<>>, <<>>), <<>>)
  <2>1. Append(<<>>, <<>>) = <<<<>>>> /\ Len(<<<<>>>>) = 1 /\ <<<<>>>>[1] = <<>> /\ 1 .. 0 = {}
    OBVIOUS
  <2> QED
    BY <1>1, <2>1 DEF PiecesRead
<1> QED
  BY <1>1, <1>2, ScanNone DEF Reads

LEMMA ReadsFurther ==
  ASSUME NEW W, NEW t, NEW Y, NEW segs \in Seq(Y), Reads(W, t, segs), NEW l, NEW q, OneWord(l), Carries(W, l, q),
         q[1] \in Nat \ {0}, NEW seg \in Y,
         seg = Seg(l, IF q[2] > 1 THEN <<[kind |-> "pos", n |-> q[1]]>> ELSE <<>>)
  PROVE  Reads(W, t \o (<<Ch("/")>> \o Piece(l, q)), Append(segs, seg))
<1> DEFINE a == <<Ch("/")>> \o Piece(l, q)
           u == t \o a
           more == Append(segs, seg)
<1>1. t \in Seq(W) /\ Scanned(t, Ch("|")) = Inside(<<>>, t, 0)
  BY DEF Reads
<1>2. PICK out \in Seq(Seq(W)), piece \in Seq(W) :
        Scanned(t, Ch("/")) = Inside(out, piece, 0) /\ PiecesRead(Append(out, piece), segs)
  BY DEF Reads
<1>3. /\ Ch("/") \in W /\ Ch("[") \in W /\ Ch("]") \in W /\ Ch(l) \in W /\ Num(q[1]) \in W
  BY DEF Carries
<1>4. Piece(l, q) \in Seq(W) /\ a \in Seq(W) /\ u \in Seq(W)
  <2>1. <<Ch(l)>> \in Seq(W) /\ <<Ch("[") , Num(q[1]), Ch("]")>> \in Seq(W) /\ <<>> \in Seq(W) /\ <<Ch("/")>> \in Seq(W)
    BY <1>3
  <2>2. \A x, y \in Seq(W) : x \o y \in Seq(W)
    OBVIOUS
  <2>3. Piece(l, q) \in Seq(W)
    BY <2>1, <2>2 DEF Piece
  <2> QED
    BY <1>1, <2>1, <2>2, <2>3
<1>5. Scanned(u, Ch("|")) = Inside(<<>>, u, 0)
  <2>1. Ch("|") # Ch("/")
    BY MarksDiffer
  <2> QED
    BY <1>1, <2>1, SegmentScanned
<1>6. Scanned(u, Ch("/")) = Inside(Append(out, piece), Piece(l, q), 0)
  <2> DEFINE sep == Ch("/")
  <2>1. sep \in {Ch("|"), Ch("/")} /\ Scanned(t, sep) = Inside(out, piece, 0)
    BY <1>2
  <2> HIDE DEF sep
  <2>2. Scanned(u, sep) = IF sep = Ch("/") THEN Inside(Append(out, piece), Piece(l, q), 0)
                          ELSE Inside(out, piece \o a, 0)
    BY <1>1, <1>2, <2>1, SegmentScanned
  <2> QED
    BY <2>2 DEF sep
<1>7. PiecesRead(Append(Append(out, piece), Piece(l, q)), more)
  <2> DEFINE ps == Append(out, piece)
             p == Piece(l, q)
  <2>1. ps \in Seq(Seq(W)) /\ PiecesRead(ps, segs) /\ p \in Seq(W)
    BY <1>2, <1>4
  <2>2. ReadSeg(p) = seg
    BY PieceRead
  <2> HIDE DEF ps, p
  <2>3. /\ Len(ps) \in Nat /\ Len(segs) \in Nat /\ Len(ps) = Len(segs) + 1 /\ ps[1] = <<>>
        /\ \A i \in 1 .. Len(segs) : ReadSeg(ps[i + 1]) = segs[i]
    BY <2>1 DEF PiecesRead
  <2>4. /\ Len(Append(ps, p)) = Len(ps) + 1 /\ Append(ps, p)[Len(ps) + 1] = p
        /\ \A i \in 1 .. Len(ps) : Append(ps, p)[i] = ps[i]
    BY <2>1
  <2>5. /\ Len(more) = Len(segs) + 1 /\ more[Len(segs) + 1] = seg
        /\ \A i \in 1 .. Len(segs) : more[i] = segs[i]
    OBVIOUS
  <2> HIDE DEF more
  <2>6. ASSUME NEW i \in 1 .. Len(more) PROVE ReadSeg(Append(ps, p)[i + 1]) = more[i]
    <3>1. CASE i = Len(segs) + 1
      BY <2>2, <2>3, <2>4, <2>5, <3>1
    <3>2. CASE i # Len(segs) + 1
      <4>1. i \in 1 .. Len(segs) /\ i + 1 \in 1 .. Len(ps)
        BY <2>3, <2>5, <3>2
      <4> QED
        BY <2>3, <2>4, <2>5, <4>1
    <3> QED
      BY <3>1, <3>2
  <2>7. Len(Append(ps, p)) = Len(more) + 1 /\ Append(ps, p)[1] = <<>>
    <3>1. 1 \in 1 .. Len(ps)
      BY <2>3
    <3> QED
      BY <2>3, <2>4, <2>5, <3>1
  <2> QED
    BY <2>6, <2>7 DEF PiecesRead, ps, p
<1>8. Len(u) # 0 /\ u[1] # Space /\ u[Len(u)] # Space
  <2>1. Ch("/") # Space /\ Ch("]") # Space /\ Ch(l) # Space
    <3>1. " " \in Mark
      BY Zenon DEF Mark
    <3>2. Ch(l) # Space
      BY <3>1, WordIsNoMark, Zenon DEF Space
    <3>3. Ch("/") # Space /\ Ch("]") # Space
      BY MarksDiffer, Distinct, Zenon DEF Space
    <3> QED
      BY <3>2, <3>3
  <2> DEFINE b == Ch(l)
             c == Ch("[")
             d == Num(q[1])
             e == Ch("]")
             g == Ch("/")
  <2>2. Unrolls(t, g, b, c, d, e)
    BY <1>1, <1>3, Unrolled
  <2> DEFINE two == Append(Append(t, g), b)
             five == Append(Append(Append(two, c), d), e)
  <2>3. u = IF q[2] > 1 THEN five ELSE two
    BY <2>2 DEF Unrolls, Piece
  <2>4. Len(segs) = 0 => t = <<>>
    BY DEF Reads
  <2>5. Len(t) = 0 => t = <<>>
    BY <1>1
  <2>6. t # <<>> => Len(t) \in Nat \ {0} /\ t[1] # Space
    BY <1>1, <2>4, <2>5 DEF Reads
  <2> HIDE DEF b, c, d, e, g
  <2>7. /\ two \in Seq(W) /\ Append(two, c) \in Seq(W) /\ Append(Append(two, c), d) \in Seq(W) /\ five \in Seq(W)
        /\ Append(t, g) \in Seq(W)
    BY <1>1, <1>3 DEF b, c, d, e, g
  <2>8. two[1] = (IF t = <<>> THEN g ELSE t[1]) /\ two[Len(two)] = b /\ Len(two) >= 2
    <3>1. /\ Len(Append(t, g)) = Len(t) + 1 /\ Append(t, g)[Len(t) + 1] = g
          /\ \A i \in 1 .. Len(t) : Append(t, g)[i] = t[i]
      BY <1>1
    <3>2. /\ Len(two) = Len(t) + 2 /\ two[Len(t) + 2] = b
          /\ \A i \in 1 .. (Len(t) + 1) : two[i] = Append(t, g)[i]
      BY <1>1, <2>7, <3>1
    <3>3. CASE t = <<>>
      <4>1. Len(t) = 0
        BY <3>3
      <4> QED
        BY <3>1, <3>2, <3>3, <4>1
    <3>4. CASE t # <<>>
      BY <2>6, <3>1, <3>2, <3>4
    <3> QED
      BY <3>3, <3>4
  <2> HIDE DEF two
  <2>9. five[1] = two[1] /\ five[Len(five)] = e /\ Len(five) # 0
    BY <2>7, <2>8
  <2> HIDE DEF five, u
  <2> QED
    BY <2>1, <2>3, <2>6, <2>8, <2>9 DEF b, e, g
<1>9. Len(more) # 0
  OBVIOUS
<1>10. Append(out, piece) \in Seq(Seq(W))
  BY <1>2
<1> HIDE DEF u, more
<1> QED
  BY <1>4, <1>5, <1>6, <1>7, <1>8, <1>9, <1>10 DEF Reads, u, more

LEMMA ReadsBack ==
  ASSUME NEW W, NEW t, NEW Y, NEW segs \in Seq(Y), Len(segs) # 0, Reads(W, t, segs)
  PROVE  Read(t) = <<[lead |-> "/", segs |-> segs]>>
<1> DEFINE Z == {ReadSeg(p) : p \in Seq(W)}
<1>1. t \in Seq(W) /\ Len(t) # 0 /\ t[1] # Space /\ t[Len(t)] # Space
      /\ Scanned(t, Ch("|")) = Inside(<<>>, t, 0)
  BY DEF Reads
<1>2. Trim(t) = t
  BY <1>1, Trimmed
<1>3. SplitTop(t, Ch("|")) = <<t>>
  <2>1. Append(<<>>, t) = <<t>>
    OBVIOUS
  <2>2. Inside(<<>>, t, 0).out = <<>> /\ Inside(<<>>, t, 0).piece = t
    BY DEF Inside
  <2>3. SplitTop(t, Ch("|")) = Append(Inside(<<>>, t, 0).out, Inside(<<>>, t, 0).piece)
    BY <1>1 DEF SplitTop
  <2> QED
    BY <2>1, <2>2, <2>3
<1>4. PICK out \in Seq(Seq(W)), piece \in Seq(W) :
        Scanned(t, Ch("/")) = Inside(out, piece, 0) /\ PiecesRead(Append(out, piece), segs)
  BY DEF Reads
<1> DEFINE ps == Append(out, piece)
<1>5. SplitTop(t, Ch("/")) = ps
  BY <1>4 DEF SplitTop, Inside
<1>6. ps \in Seq(Seq(W)) /\ PiecesRead(ps, segs)
  BY <1>4
<1> HIDE DEF ps
<1>7. /\ Len(ps) \in Nat /\ Len(segs) \in Nat /\ Len(ps) = Len(segs) + 1 /\ ps[1] = <<>> /\ DOMAIN ps = 1 .. Len(ps)
      /\ \A i \in 1 .. Len(segs) : ReadSeg(ps[i + 1]) = segs[i]
      /\ \A i \in 1 .. Len(ps) : ps[i] \in Seq(W)
  BY <1>6 DEF PiecesRead
<1> DEFINE read == [i \in DOMAIN ps |-> ReadSeg(ps[i])]
<1>8. Tail(read) = segs
  <2>1. read \in [1 .. Len(ps) -> Z]
    BY <1>7
  <2> HIDE DEF Z
  <2>2. read \in Seq(Z) /\ Len(read) = Len(ps)
    BY <1>7, <2>1
  <2>3. \A i \in 1 .. Len(segs) : read[i + 1] = segs[i]
    <3>1. \A i \in 1 .. Len(segs) : i + 1 \in DOMAIN ps
      BY <1>7
    <3> QED
      BY <1>7, <3>1
  <2> HIDE DEF read
  <2>4. Tail(read) \in Seq(Z) /\ Len(Tail(read)) = Len(segs)
    BY <1>7, <2>2
  <2>5. \A i \in 1 .. Len(segs) : Tail(read)[i] = read[i + 1]
    BY <1>7, <2>2
  <2> DEFINE v == Tail(read)
  <2>6. v = [i \in 1 .. Len(v) |-> v[i]] /\ segs = [i \in 1 .. Len(segs) |-> segs[i]]
    <3>1. v \in Seq(Z)
      BY <2>4
    <3> HIDE DEF v
    <3> QED
      BY <3>1
  <2>7. Len(v) = Len(segs) /\ \A i \in 1 .. Len(segs) : v[i] = segs[i]
    BY <2>3, <2>4, <2>5
  <2> HIDE DEF v
  <2> QED
    BY <2>6, <2>7 DEF v
<1>9. Len(ps) > 1
  BY <1>7
<1>10. ReadAlt(t) = [lead |-> "/", segs |-> segs]
  BY <1>5, <1>7, <1>8, <1>9 DEF ReadAlt
<1> QED
  <2>1. DOMAIN <<t>> = 1 .. 1 /\ <<t>>[1] = t
    OBVIOUS
  <2>2. [i \in DOMAIN <<t>> |-> ReadAlt(Trim(<<t>>[i]))] = <<ReadAlt(t)>>
    BY <1>2, <2>1
  <2> QED
    BY <1>2, <1>3, <1>10, <2>2 DEF Read

(* The text written for the root. *)
LEMMA RootReads == Read(<<Ch("/")>>) = <<[lead |-> "/", segs |-> <<EmptySeg>>]>>
<1> DEFINE t == <<Ch("/")>>
           W == {Ch("/")}
           none == <<>>
<1>1. t \in Seq(W) /\ none \in Seq(W) /\ t = Append(none, Ch("/")) /\ Len(t) = 1 /\ Len(none) = 0 /\ Ch("/") \in W
      /\ t[1] = Ch("/") /\ none \in Seq(Seq(W))
  OBVIOUS
<1>2. Ch("/") # Ch("|") /\ Ch("/") # Ch("'") /\ Ch("/") # Ch("[") /\ Ch("/") # Ch("]")
  BY MarksDiffer
<1>3. Ch("/") # Space
  BY MarksDiffer, Distinct, Zenon DEF Space
<1>11. \A sep : Scanned(none, sep) = Inside(none, none, 0)
  BY ScanNone
<1>12. \A sep, out, piece : Scan(sep, Inside(out, piece, 0), sep) = Inside(Append(out, piece), none, 0)
  BY ScanCuts
<1> HIDE DEF t, W, none
<1>13. \A sep : Scanned(Append(none, Ch("/")), sep) = Scan(sep, Scanned(none, sep), Ch("/"))
  BY <1>1, ScanOn
<1>4. Scanned(t, Ch("/")) = Inside(Append(none, none), none, 0)
  <2>1. Scanned(t, Ch("/")) = Scan(Ch("/"), Inside(none, none, 0), Ch("/"))
    BY <1>1, <1>11, <1>13
  <2>2. Scan(Ch("/"), Inside(none, none, 0), Ch("/")) = Inside(Append(none, none), none, 0)
    BY <1>12
  <2> QED
    BY <2>1, <2>2
<1>5. Scanned(t, Ch("|")) = Inside(none, t, 0)
  <2>1. Scanned(t, Ch("|")) = Scan(Ch("|"), Inside(none, none, 0), Ch("/"))
    BY <1>1, <1>11, <1>13
  <2>2. Scan(Ch("|"), Inside(none, none, 0), Ch("/")) = Inside(none, Append(none, Ch("/")), 0)
    BY <1>2, ScanGoesOn
  <2> QED
    BY <1>1, <2>1, <2>2
<1>6. ReadSeg(none) = EmptySeg
  <2>1. NameOf(none) = ""
    <3> DEFINE names == {m \in DOMAIN Spelling : Spelling[m] = none}
    <3>1. \A m \in DOMAIN Spelling : Spelling[m] # none
      <4>1. \A m \in DOMAIN Spelling : Len(Spelling[m]) > 1
        BY SpellingAssumption
      <4>2. ~(0 > 1)
        OBVIOUS
      <4> QED
        BY <1>1, <4>1, <4>2, Zenon
    <3>2. names = {}
      BY <3>1
    <3>3. none = <<>> /\ Len(none) # 1
      BY DEF none
    <3> QED
      BY <3>2, <3>3, Zenon DEF NameOf
  <2>2. TokensRead(none) = Reading("name", none, none, none)
    BY ReadNone DEF none
  <2>3. ReadSeg(none) = Seg(NameOf(none), none)
    <3>1. /\ TokensRead(none).at = "name" /\ TokensRead(none).name = none /\ TokensRead(none).preds = none
      BY <2>2 DEF Reading
    <3> QED
      BY <3>1 DEF ReadSeg
  <2> QED
    BY <2>1, <2>3, Zenon DEF EmptySeg, none
<1>7. Reads(W, t, <<EmptySeg>>)
  <2> DEFINE segs == <<EmptySeg>>
             ps == Append(Append(none, none), none)
  <2>1. Len(segs) = 1 /\ segs[1] = EmptySeg /\ Len(ps) = 2 /\ ps[1] = <<>> /\ ps[2] = none /\ 1 .. 1 = {1}
        /\ 1 + 1 = 2
    BY DEF none
  <2> HIDE DEF segs, ps
  <2>2. PiecesRead(ps, segs)
    BY <1>6, <2>1 DEF PiecesRead
  <2>3. Append(none, none) \in Seq(Seq(W))
    BY <1>1
  <2>4. Len(segs) # 0 /\ Len(t) # 0 /\ t[1] # Space /\ t[Len(t)] # Space
    BY <1>1, <1>3, <2>1
  <2>5. Reads(W, t, segs)
    BY <1>1, <1>4, <1>5, <2>2, <2>3, <2>4 DEF Reads, ps, none
  <2> QED
    BY <2>5 DEF segs
<1>8. <<EmptySeg>> \in Seq({EmptySeg}) /\ Len(<<EmptySeg>>) # 0
  OBVIOUS
<1>9. Read(t) = <<[lead |-> "/", segs |-> <<EmptySeg>>]>>
  BY <1>7, <1>8, ReadsBack
<1> QED
  BY <1>9 DEF t
================================================================================
