-------------------------- MODULE AugeasProperties --------------------------
(***************************************************************************)
(* What Augeas is required to do, over what a caller can observe: the tree *)
(* reachable from the root, the paths that name its nodes, and the nodes   *)
(* variables hold on to after they have left the tree.                     *)
(***************************************************************************)
EXTENDS Augeas

CONSTANT Label    \* labels a tree may contain

(* What the calls are made with, as package path and the lenses deliver it:  *)
(* sequences, of at least one alternative and at least one segment each, and *)
(* labels and values of Label and Value.                                     *)
IsSeq(s) == s \in Seq(Seqs!ToSet(s))

SegsOK(segs) == IsSeq(segs) /\ segs # <<>> /\ \A i \in DOMAIN segs : IsSeq(segs[i].preds)

PathOK(path) == IsSeq(path) /\ path # <<>> /\ \A i \in DOMAIN path : SegsOK(path[i].segs)

MakesLabels(segs) == \A i \in DOMAIN segs : Creatable(segs[i]) => segs[i].name \in Label

EntriesOK(entries) ==
  IsSeq(entries) /\ \A i \in DOMAIN entries : /\ entries[i].label \in Label
                                              /\ entries[i].value \in Value \cup {NoValue}

ASSUME InputAssumption ==
  /\ \A p \in ReadPaths \cup RemovePaths : PathOK(p)
  /\ \A p \in SetPaths \cup BindPaths : PathOK(p) /\ MakesLabels(p[1].segs)
  /\ \A c \in SubPairs : PathOK(c[1]) /\ SegsOK(c[2]) /\ MakesLabels(c[2])
  /\ \A c \in InsertCalls : PathOK(c[1]) /\ c[2] \in Label \cup {"", "*"}
  /\ \A c \in MovePairs : PathOK(c[1]) /\ PathOK(c[2]) /\ MakesLabels(c[2][1].segs)
  /\ \A c \in StoreCalls : PathOK(c[1]) /\ MakesLabels(c[1][1].segs) /\ EntriesOK(c[2].entries)

-----------------------------------------------------------------------------
InTree == heap.live
Kids(n) == Children(heap, n)

(* The calls of a method, and those that came back without an error. *)
Called(op) == call'.of[1] = op
Succeeded(op) == call'.of[1] = op /\ ~call'.err

-----------------------------------------------------------------------------
(* Every field of the structs, slices and bindings has its type: headers     *)
(* stay within their arrays, and bound nodes are allocated.                  *)
TypeOK ==
  /\ heap.used \subseteq Node /\ Root \in heap.used
  /\ heap.label \in [Node -> Label \cup {NoLabel}]
  /\ heap.value \in [Node -> Value \cup {NoValue}]
  /\ heap.parent \in [Node -> heap.used \cup {Nil}]
  /\ heap.arr \in [Node -> Array \cup {Nil}]
  /\ \A n \in Node : heap.len[n] \in 0 .. Len(heap.array[heap.arr[n]])
  /\ \A n \in heap.used : Seqs!ToSet(Kids(n)) \subseteq heap.used
  /\ \A x \in DOMAIN vars : vars[x] \in Seq(heap.used)
  /\ lastError \in BOOLEAN /\ panicked \in BOOLEAN /\ call.err \in BOOLEAN

(* The tree under the root is a tree whose two sets of links agree: a child  *)
(* is listed once, by the node its Parent field names, the root by nobody;   *)
(* and no two of its nodes share a backing array, so that changing one       *)
(* node's children cannot change another's.  (appendChild, removeChild,      *)
(* Insert, Move and the stores each rewrite both links by hand.)             *)
LinksAgree ==
  /\ heap.parent[Root] = Nil
  /\ \A n \in InTree : \A i \in DOMAIN Kids(n) :
       /\ heap.parent[Kids(n)[i]] = n
       /\ \A j \in DOMAIN Kids(n) : Kids(n)[i] = Kids(n)[j] => i = j
  /\ \A m, n \in InTree : heap.arr[m] = heap.arr[n] /\ heap.arr[m] # Nil => m = n

(* The path Match reports for a node names that node and no other: the text  *)
(* buildPath writes, read again by eval, yields exactly the node (the root's *)
(* "/" included), when every label on the way to it is one word.  Labels go  *)
(* into the text as they are, siblings of one label by their position.       *)
Way(n) == {m \in InTree \ {Root} : n \in Below(heap, {m})}

LeadsBack(n) ==
  Eval(heap, vars, Read(BuildPath(heap, n))) = [ok |-> TRUE, nodes |-> <<n>>]

PathRoundTrip ==
  \A n \in InTree : (\A m \in Way(n) : OneWord(heap.label[m])) => LeadsBack(n)

(* The documented claim, for whatever labels Insert takes: "Match returns    *)
(* the absolute paths of all nodes matching path."                           *)
EveryPathLeadsBack == \A n \in InTree : LeadsBack(n)

-----------------------------------------------------------------------------
(* The tree as a caller sees it is the abstract tree of ConfigTree: its      *)
(* order is read off the slices, and Parent is the node a child hangs under  *)
(* (LinksAgree).                                                             *)
Tree == INSTANCE ConfigTree WITH
  live   <- InTree,
  parent <- [n \in InTree \ {Root} |-> heap.parent[n]],
  older  <- {e \in (InTree \ {Root}) \X (InTree \ {Root}) :
               /\ heap.parent[e[1]] = heap.parent[e[2]]
               /\ IndexOf(heap, heap.parent[e[1]], e[1]) < IndexOf(heap, heap.parent[e[1]], e[2])},
  label  <- [n \in InTree \ {Root} |-> heap.label[n]],
  value  <- [n \in InTree |-> heap.value[n]]

(* Every method call changes the visible tree by one step of ConfigTree.     *)
EditsTheTree == Tree!Spec

(* A call that fails may leave new, valueless nodes behind (createFrom stops *)
(* at the first segment it cannot create) but takes nothing away and writes  *)
(* no value.  SetMultiple may fail after it has set some of the bases.       *)
FailureOnlyAdds ==
  [][call'.err /\ ~Called("SetMultiple")
       => /\ InTree \subseteq InTree'
          /\ \A n \in InTree : /\ heap'.value[n] = heap.value[n]
                               /\ Seqs!IsPrefix(Kids(n), Kids(n)')
          /\ \A n \in InTree' \ InTree : heap'.value[n] = NoValue]_state

(* SetMultiple leaves no base out.  When it returns no error, every node that *)
(* was at sub below some base carries the value, and every base has a node   *)
(* at sub that carries it, created where there was none.  sub is a path      *)
(* without predicates, whose own creations and writes cannot make a node     *)
(* match no longer.  Where it holds "." or "..", which createFrom takes for  *)
(* labels, only the former is promised.                                      *)
Unconditional(segs) == \A i \in DOMAIN segs : segs[i].preds = <<>>
Downward(segs) == \A i \in DOMAIN segs : segs[i].name \notin {".", ".."}

AtSub(h, b, sub) == Seqs!ToSet(EvalSteps(h, <<b>>, ParseSteps(sub).steps))

SetMultipleCovers ==
  [][Succeeded("SetMultiple") /\ Unconditional(call'.of[3]) =>
       \A b \in Seqs!ToSet(Matches(call'.of[2]).nodes) :
         /\ \A n \in AtSub(heap, b, call'.of[3]) : heap'.value[n] = call'.of[4]
         /\ Downward(call'.of[3])
              => \E n \in AtSub(heap', b, call'.of[3]) : heap'.value[n] = call'.of[4]]_state

(* SetMultiple counts what it set, and one that fails has done the bases     *)
(* before the one it failed at and nothing else: the first k bases carry the *)
(* value at sub, the count is that of the nodes there which carry it, no     *)
(* other value changes, and all bases are among the k unless there was an    *)
(* error.  sub leads from a base to its descendants by labels or "*" only.   *)
(* (A later base may still add a valueless node at an earlier base's sub.)   *)
SetMultipleCounts ==
  [][LET bases == Matches(call'.of[2]).nodes
         sub == call'.of[3]
         valued(k) == {n \in UNION {AtSub(heap', bases[i], sub) : i \in 1 .. k} :
                         heap'.value[n] = call'.of[4]}
     IN  /\ Called("SetMultiple") /\ Matches(call'.of[2]).ok
         /\ Unconditional(sub) /\ Downward(sub) /\ \A i \in DOMAIN sub : sub[i] # EmptySeg
         => \E k \in 0 .. Len(bases) :
              /\ call'.err <=> k < Len(bases)
              /\ call'.ret = Cardinality(valued(k))
              /\ \A i \in 1 .. k : AtSub(heap', bases[i], sub) \cap valued(k) # {}
              /\ \A n \in InTree : heap'.value[n] # heap.value[n] => n \in valued(k)]_state

(* Remove takes away the nodes that match and what hangs below them, no more *)
(* and no less, and counts the nodes that matched, nested ones too.          *)
RemoveIsExact ==
  [][Succeeded("Remove") =>
       LET gone == Seqs!ToSet(Matches(call'.of[2]).nodes) \ {Root}
       IN  /\ InTree' = InTree \ Below(heap, gone)
           /\ call'.ret = Cardinality(gone)]_state

(* A Move that succeeds loses nothing below the source: every node under it  *)
(* is still in the tree, with its label, value and children.                 *)
MoveKeepsSubtree ==
  [][Succeeded("Move") =>
       LET s == MoveSource(Matches(call'.of[2]))
       IN  \A n \in Below(heap, {s}) \ {s} :
             /\ n \in InTree'
             /\ heap'.label[n] = heap.label[n]
             /\ heap'.value[n] = heap.value[n]
             /\ Kids(n)' = Kids(n)]_state

(* Writing never takes away: after Set, SetMultiple, Insert and DefineNode   *)
(* every node of the tree is still there, under the same parent.             *)
WritesKeepNodes ==
  [][call'.of[1] \in {"Set", "SetMultiple", "Insert", "DefineNode"}
       => \A n \in InTree : n \in InTree' /\ heap'.parent[n] = heap.parent[n]]_state

-----------------------------------------------------------------------------
(* Variables.  A variable keeps its nodes after Remove took them out of the  *)
(* tree.                                                                     *)
Detached == heap.used \ InTree

(* The detached subtrees are trees as well: every allocated node is listed   *)
(* once by the node its Parent names, and by nobody if it has none, and no   *)
(* two nodes share a backing array.                                          *)
ForestAgrees ==
  /\ \A n \in heap.used : heap.parent[n] # Nil => IndexOf(heap, heap.parent[n], n) # 0
  /\ \A n \in heap.used : \A i, j \in DOMAIN Kids(n) :
       heap.parent[Kids(n)[i]] = n /\ (Kids(n)[i] = Kids(n)[j] => i = j)
  /\ \A m, n \in heap.used : heap.arr[m] = heap.arr[n] /\ heap.arr[m] # Nil => m = n

(* What a call drops without unlinking it.  Move leaves its source holding   *)
(* the children that the destination took over; the children which the       *)
(* destination had listed, like those TextStore replaces, keep their Parent. *)
Discarded ==
  LET m == Matches(call'.of[3])
      moved == CreatePath(heap, call'.of[3])
      stored == CreatePath(heap, call'.of[2])
      children(h, d) == {n \in Node : h.parent[n] = d}
  IN  IF Succeeded("Move")
      THEN {MoveSource(Matches(call'.of[2]))}
             \cup (IF Len(m.nodes) = 1 THEN children(heap, m.nodes[1])
                   ELSE children(moved.heap, moved.node))
      ELSE IF Succeeded("TextStore") THEN children(stored.heap, stored.node)
      ELSE {}

(* No variable reaches what a call discards: the calls are such that each    *)
(* discarded struct is garbage at once.  Nothing in the code makes sure of   *)
(* it; it is the condition under which what is said here is so.              *)
DiscardedIsGarbage == [][Discarded \cap heap'.used = {}]_state

(* No sequence of calls makes Insert slice out of range: a node whose Parent *)
(* is set is among its parent's children when Insert looks it up, whatever   *)
(* removed, moved or replaced it since the variable was bound.               *)
NeverPanics == ~panicked

(* An alternative that begins with a variable whose nodes have all left the  *)
(* tree.                                                                     *)
OnDetached(alt) ==
  /\ alt.lead \in DOMAIN vars \ {"/", ""}
  /\ Seqs!ToSet(vars[alt.lead]) \subseteq Detached

(* A call on such variables only leaves the tree alone: same nodes, same     *)
(* children, same values.                                                    *)
DetachedEditsStayOut ==
  [][(/\ call'.of[1] \in {"Set", "SetMultiple", "Insert", "Remove"}
      /\ \A i \in DOMAIN call'.of[2] : OnDetached(call'.of[2][i]))
       => /\ InTree' = InTree
          /\ \A n \in InTree : Kids(n)' = Kids(n) /\ heap'.value[n] = heap.value[n]]_state

-----------------------------------------------------------------------------
(* States that differ only in which identities the structs and arrays have   *)
(* behave alike, and no method reads lastError or call.  Shape numbers the   *)
(* structs in the order a walk from the root and the bindings meets them.    *)
Walk ==
  LET names == SelectSeq(Seqs!SetToSeq(VarName), LAMBDA x : x \in DOMAIN vars)
      start == <<Root>> \o Seqs!FlattenSeq([i \in DOMAIN names |-> vars[names[i]]])
      near(n) == Kids(n) \o SelectSeq(<<heap.parent[n]>>, LAMBDA m : m # Nil)
      W[k \in 0 .. Cardinality(Node)] ==
        IF k = 0 THEN Dedup(start)
        ELSE LET w == W[k - 1]
             IN  Dedup(w \o Seqs!FlattenSeq([i \in DOMAIN w |-> near(w[i])]))
  IN  W[Cardinality(heap.used)]

Shape ==
  LET w == Walk
      rank(n) == Seqs!SelectInSeq(w, LAMBDA m : m = n)
      ranks(s) == [i \in DOMAIN s |-> rank(s[i])]
      shared(n) == Seqs!SelectInSeq(w, LAMBDA m : heap.arr[m] = heap.arr[n])
  IN  << [i \in DOMAIN w |->
            << heap.label[w[i]], heap.value[w[i]], rank(heap.parent[w[i]]),
               ranks(Kids(w[i])), Len(heap.array[heap.arr[w[i]]]), shared(w[i]) >>],
         [x \in DOMAIN vars |-> ranks(vars[x])], panicked >>
=============================================================================
