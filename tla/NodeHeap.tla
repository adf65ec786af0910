------------------------------ MODULE NodeHeap ------------------------------
(***************************************************************************)
(* The Node structs of node.go and the Go slices their Children live in.   *)
(*                                                                         *)
(* A heap is a record of functions over node identities: label, value and  *)
(* parent are the fields of Node.  Node.Children is a slice: a header      *)
(* (arr, len) onto a backing array, array[arr], whose length is the        *)
(* slice's capacity.  Two nodes may hold headers onto one backing array    *)
(* (Move copies the header), so appends and removals are modelled on the   *)
(* array, with the growth of Go's append: a full slice moves to a fresh    *)
(* array of twice the capacity, anything else is written in place.         *)
(*                                                                         *)
(* Every operator takes a heap and returns one, so that a handler is the   *)
(* composition of the calls it makes.                                      *)
(***************************************************************************)
EXTENDS Naturals, Sequences, FiniteSets
LOCAL INSTANCE FiniteSetsExt
LOCAL INSTANCE SequencesExt

CONSTANTS NodeBound,    \* identities a state may hold, the root included
          Spare,        \* further identities one call may use before garbage is collected
          NoValue       \* the nil *string

ASSUME HeapAssumption == NodeBound \in Nat \ {0} /\ Spare \in Nat

Nil == 0
Root == 1

(* Lost is handed out when every other identity is taken: a call that comes  *)
(* to it needed more than Spare and is left out.                             *)
Lost == NodeBound + Spare + 1
Node == 1 .. Lost
Array == 1 .. (Lost + 1)

(* The label of the root, and of an identity no struct uses. *)
NoLabel == "/"

EmptyHeap ==
  [ used   |-> {Root},
    live   |-> {Root},
    label  |-> [n \in Node |-> NoLabel],
    value  |-> [n \in Node |-> NoValue],
    parent |-> [n \in Node |-> Nil],
    arr    |-> [n \in Node |-> Nil],
    len    |-> [n \in Node |-> 0],
    array  |-> [a \in Array \cup {Nil} |-> <<>>] ]

Children(h, n) == SubSeq(h.array[h.arr[n]], 1, h.len[n])

-----------------------------------------------------------------------------
(* Allocation *)

Fresh(h) == Min((Node \ h.used) \cup {Lost})
FreshArray(h) == Min(Array \ {h.arr[n] : n \in h.used})

NewNode(h, label) ==
  [h EXCEPT !.used = @ \cup {Fresh(h)}, !.label[Fresh(h)] = label]

SetNodeValue(h, n, v) == [h EXCEPT !.value[n] = v]

-----------------------------------------------------------------------------
(* Slice operations *)

(* n.Children = append(n.Children, c) *)
Append1(h, n, c) ==
  LET a == h.arr[n]
      k == h.len[n]
      f == FreshArray(h)
      cap == IF k = 0 THEN 1 ELSE 2 * k
  IN  IF k < Len(h.array[a])
      THEN [h EXCEPT !.array[a][k + 1] = c, !.len[n] = k + 1]
      ELSE [h EXCEPT !.array[f] = [i \in 1 .. cap |-> CASE i <= k    -> h.array[a][i]
                                                        [] i = k + 1 -> c
                                                        [] OTHER     -> Nil],
                     !.arr[n] = f, !.len[n] = k + 1]

AppendChild(h, n, c) == Append1([h EXCEPT !.parent[c] = n], n, c)

(* 0 when c is not among n's children *)
IndexOf(h, n, c) == SelectInSeq(Children(h, n), LAMBDA x : x = c)

(* Mutants of RemoveChild: the last child fills the gap; c.Parent stays.     *)
RemoveChildSwap(h, n, c) ==
  LET a == h.arr[n]
      k == h.len[n]
      i == IndexOf(h, n, c)
  IN  IF i = 0 THEN h
      ELSE [h EXCEPT !.array[a][i] = h.array[a][k], !.len[n] = k - 1, !.parent[c] = Nil]

RemoveChildKeepsParent(h, n, c) ==
  LET a == h.arr[n]
      k == h.len[n]
      i == IndexOf(h, n, c)
  IN  IF i = 0 THEN h
      ELSE [h EXCEPT !.array[a] = [j \in DOMAIN @ |-> IF i <= j /\ j < k THEN @[j + 1] ELSE @[j]],
                     !.len[n] = k - 1]

RemoveChild(h, n, c) ==
  LET a == h.arr[n]
      k == h.len[n]
      i == IndexOf(h, n, c)
  IN  IF i = 0 THEN h
      ELSE [h EXCEPT !.array[a] = [j \in DOMAIN @ |-> IF i <= j /\ j < k THEN @[j + 1] ELSE @[j]],
                     !.len[n] = k - 1,
                     !.parent[c] = Nil]

(* The statements of Insert that open a gap at the 0-based index idx and     *)
(* put c in it.  p.Children[idx+1:] is out of range when idx exceeds the     *)
(* old length: the call panics (InsertPanics).                               *)
InsertPanics(h, p, idx) == idx > h.len[p]

(* Mutant: no gap is opened, c overwrites the child at idx.                  *)
InsertChildOver(h, p, idx, c) ==
  [h EXCEPT !.parent[c] = p, !.array[h.arr[p]] = [j \in DOMAIN @ |-> IF j = idx + 1 THEN c ELSE @[j]]]

InsertChild(h, p, idx, c) ==
  LET g == Append1([h EXCEPT !.parent[c] = p], p, Nil)
  IN  [g EXCEPT !.array[g.arr[p]] =
         [j \in DOMAIN @ |-> CASE j = idx + 1                    -> c
                               [] idx + 1 < j /\ j <= g.len[p]   -> @[j - 1]
                               [] OTHER                          -> @[j]]]

(* n.Children = nil *)
DropChildren(h, n) == [h EXCEPT !.arr[n] = Nil, !.len[n] = 0]

(* Mutant: the children keep their old Parent.                               *)
TakeOverOnly(h, d, s) ==
  [h EXCEPT !.value[d] = h.value[s], !.arr[d] = h.arr[s], !.len[d] = h.len[s]]

(* d.Value = s.Value; d.Children = s.Children; every child's Parent = d *)
TakeOver(h, d, s) ==
  [h EXCEPT !.value[d] = h.value[s],
            !.arr[d] = h.arr[s],
            !.len[d] = h.len[s],
            !.parent = [c \in Node |-> IF Contains(Children(h, s), c) THEN d ELSE @[c]]]

-----------------------------------------------------------------------------
(* Lookup *)

FirstChild(h, n, label) ==
  LET i == SelectInSeq(Children(h, n), LAMBDA c : h.label[c] = label)
  IN  IF i = 0 THEN Nil ELSE Children(h, n)[i]

(* Mutant: the position is counted among all siblings.                       *)
IndexOfAll(h, n) ==
  LET sibs == Children(h, h.parent[n])
  IN  IF h.parent[n] = Nil THEN <<1, 1>>
      ELSE <<SelectInSeq(sibs, LAMBDA c : c = n), Len(sibs)>>

(* n.index(): <<position among the siblings of its label, their number>> *)
Index(h, n) ==
  LET sibs == Children(h, h.parent[n])
      C[k \in 0 .. Len(sibs)] ==
        IF k = 0 THEN <<0, 0>>
        ELSE IF h.label[sibs[k]] # h.label[n] THEN C[k - 1]
        ELSE <<IF sibs[k] = n THEN C[k - 1][2] + 1 ELSE C[k - 1][1], C[k - 1][2] + 1>>
  IN  IF h.parent[n] = Nil THEN <<1, 1>> ELSE C[Len(sibs)]

-----------------------------------------------------------------------------
(* Reachability.  Closed under the children only: what a path from the root  *)
(* can name.  Closed under parents too: what the program can still touch.    *)

Offspring(h, S) == UNION {ToSet(Children(h, n)) : n \in S}

Below(h, S) ==
  LET R[k \in 0 .. Cardinality(Node)] ==
        IF k = 0 THEN S
        ELSE LET T == R[k - 1] IN T \cup Offspring(h, T)
  IN  R[Cardinality(h.used)]

Touchable(h, S) ==
  LET R[k \in 0 .. Cardinality(Node)] ==
        IF k = 0 THEN S
        ELSE LET T == R[k - 1]
             IN  T \cup Offspring(h, T) \cup ({h.parent[n] : n \in T} \ {Nil})
  IN  R[Cardinality(h.used)]

(* Go's collector: structs nothing reaches from the root or the variables    *)
(* (whose nodes are in held) are freed, and array slots beyond every header  *)
(* onto that array, which no slice expression reads again, are cleared.  The *)
(* field live is derived: the nodes of the tree, brought up to date here.    *)
Kept(h, keep, live) ==
  LET only(f, none) == [n \in Node |-> IF n \in keep THEN f[n] ELSE none]
      longest(a) == Max({0} \cup {h.len[n] : n \in {m \in keep : h.arr[m] = a}})
  IN  [ used   |-> keep,
        live   |-> live,
        label  |-> only(h.label, NoLabel),
        value  |-> only(h.value, NoValue),
        parent |-> only(h.parent, Nil),
        arr    |-> only(h.arr, Nil),
        len    |-> only(h.len, 0),
        array  |-> [a \in Array \cup {Nil} |->
                      IF a \in {h.arr[n] : n \in keep} \ {Nil}
                      THEN [i \in DOMAIN h.array[a] |->
                              IF i <= longest(a) THEN h.array[a][i] ELSE Nil]
                      ELSE <<>>] ]

Collected(h, held) == Kept(h, Touchable(h, {Root} \cup held), Below(h, {Root}))
=============================================================================
