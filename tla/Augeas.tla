------------------------------- MODULE Augeas -------------------------------
(***************************************************************************)
(* The editing handle of augeas.go: one tree, the variables bound to nodes *)
(* of it, and the last error.  One action per exported method; a method    *)
(* runs to its end before the next one is called (a handle is used by one  *)
(* goroutine).  Methods fail part-way: what they had done stays.           *)
(*                                                                         *)
(* What callers pass is given by constants: sets of paths, of pairs of     *)
(* paths, of labels, values and parse results.                             *)
(***************************************************************************)
EXTENDS PathText

CONSTANTS Value,         \* strings a caller sets
          VarName,       \* names a caller binds
          SetPaths,      \* arguments of Set
          SubPairs,      \* <<base path, sub body>> of SetMultiple
          InsertCalls,   \* <<path, label, before>> of Insert
          RemovePaths,   \* arguments of Remove
          MovePairs,     \* <<src, dst>> of Move
          StoreCalls,    \* <<path, parse result>> of TextStore
          BindPaths,     \* expressions of DefineVariable and DefineNode
          ReadPaths      \* arguments of Get, Exists, Match and Label

VARIABLES heap,       \* the Node structs, see NodeHeap
          vars,       \* vars[name]: the nodes name is bound to
          lastError,  \* lastError # nil
          panicked,   \* a call panicked; the handle is not used again
          call        \* the last call: its method and arguments, whether it
                      \* returned an error or false for one, and what it returned

state == <<heap, vars, lastError, panicked, call>>

-----------------------------------------------------------------------------
Held(vs) == UNION {Seqs!ToSet(vs[x]) : x \in DOMAIN vs}

Init ==
  /\ heap = EmptyHeap
  /\ vars = <<>>
  /\ lastError = FALSE
  /\ panicked = FALSE
  /\ call = [of |-> <<"New">>, err |-> FALSE, ret |-> Nil]

(* How every method ends: the heap h and the bindings vs it leaves, whether  *)
(* it recorded an error, and its result.  Nothing clears lastError.          *)
(* NodeBound caps the nodes a state may hold, Lost those a call may make.    *)
Return(of, h, vs, err, ret) ==
  /\ Lost \notin h.used
  /\ heap' = Collected(h, Held(vs))
  /\ Cardinality(heap'.used) <= NodeBound
  /\ vars' = vs
  /\ lastError' = (lastError \/ err)
  /\ call' = [of |-> of, err |-> err, ret |-> ret]
  /\ UNCHANGED panicked

Fail(of, ret) == Return(of, heap, vars, TRUE, ret)

Matches(path) == Eval(heap, vars, path)

-----------------------------------------------------------------------------
(* Get reports a malformed path and one that matches several nodes; Exists,  *)
(* Match and Label report only the former.                                   *)
Get(path) ==
  LET m == Matches(path)
  IN  Return(<<"Get", path>>, heap, vars, ~m.ok \/ Len(m.nodes) > 1,
             [value |-> IF Len(m.nodes) = 1 THEN heap.value[m.nodes[1]] ELSE NoValue,
              found |-> Len(m.nodes) = 1])

Exists(path) ==
  Return(<<"Exists", path>>, heap, vars, ~Matches(path).ok, Matches(path).nodes # <<>>)

Match(path) ==
  LET m == Matches(path)
  IN  Return(<<"Match", path>>, heap, vars, ~m.ok,
             [i \in DOMAIN m.nodes |-> BuildPath(heap, m.nodes[i])])

GetLabel(path) ==
  LET m == Matches(path)
  IN  Return(<<"Label", path>>, heap, vars, ~m.ok,
             IF Len(m.nodes) = 1 THEN heap.label[m.nodes[1]] ELSE "")

-----------------------------------------------------------------------------
Set(path, v) ==
  LET m == Matches(path)
      c == CreatePath(heap, path)
      of == <<"Set", path, v>>
  IN  \/ /\ m.ok /\ Len(m.nodes) = 0 /\ c.ok
         /\ Return(of, SetNodeValue(c.heap, c.node, v), vars, FALSE, Nil)
      \/ /\ m.ok /\ Len(m.nodes) = 0 /\ ~c.ok
         /\ Return(of, c.heap, vars, TRUE, Nil)
      \/ /\ m.ok /\ Len(m.nodes) = 1
         /\ Return(of, SetNodeValue(heap, m.nodes[1], v), vars, FALSE, Nil)
      \/ /\ ~m.ok \/ Len(m.nodes) > 1
         /\ Fail(of, Nil)

(* The loop of SetMultiple over the nodes matching base.  SetOne is one      *)
(* round: found are the nodes at sub below a base, c what createFrom makes   *)
(* of sub there.  SetAll sets and counts the nodes of a round.               *)
(* Mutant: the bases are counted, not the nodes.                             *)
SetAllOnce(acc, h, nodes, v) ==
  [acc EXCEPT !.heap = Seqs!FoldLeft(LAMBDA g, n : SetNodeValue(g, n, v), h, nodes),
              !.count = @ + 1]

SetAll(acc, h, nodes, v) ==
  [acc EXCEPT !.heap = Seqs!FoldLeft(LAMBDA g, n : SetNodeValue(g, n, v), h, nodes),
              !.count = @ + Len(nodes)]

(* Mutant: of several nodes at sub only the first is set.                    *)
SetOneFirst(acc, found, c, v) ==
  CASE found # <<>>          -> SetAll(acc, acc.heap, <<found[1]>>, v)
    [] found = <<>> /\ c.ok  -> SetAll(acc, c.heap, <<c.node>>, v)
    [] found = <<>> /\ ~c.ok -> [acc EXCEPT !.ok = FALSE, !.heap = c.heap]

SetOne(acc, found, c, v) ==
  CASE found # <<>>          -> SetAll(acc, acc.heap, found, v)
    [] found = <<>> /\ c.ok  -> SetAll(acc, c.heap, <<c.node>>, v)
    [] found = <<>> /\ ~c.ok -> [acc EXCEPT !.ok = FALSE, !.heap = c.heap]

SetEach(h, bases, sub, v) ==
  LET visit(acc, b) ==
        IF ~acc.ok THEN acc
        ELSE SetOne(acc, EvalSteps(acc.heap, <<b>>, ParseSteps(sub).steps),
                    CreateFrom(acc.heap, b, sub), v)
  IN  Seqs!FoldLeft(visit, [ok |-> TRUE, heap |-> h, count |-> 0], bases)

SetMultiple(base, sub, v) ==
  LET m == Matches(base)
      r == SetEach(heap, m.nodes, sub, v)
      of == <<"SetMultiple", base, sub, v>>
  IN  IF m.ok /\ ParseSteps(sub).ok
      THEN Return(of, r.heap, vars, ~r.ok, r.count)
      ELSE Fail(of, 0)

-----------------------------------------------------------------------------
(* The 0-based index Insert computes; 0 stands when n is not among its       *)
(* parent's children.                                                        *)
InsertIndex(n, before) ==
  LET i == IndexOf(heap, heap.parent[n], n)
  IN  (IF i = 0 THEN 0 ELSE i - 1) + (IF before THEN 0 ELSE 1)

(* Mutant: a label that is none is not refused.                              *)
InsertValidAny(m, label) ==
  m.ok /\ Len(m.nodes) = 1 /\ heap.parent[m.nodes[1]] # Nil

InsertValid(m, label) ==
  /\ label # "" /\ ~Has(label, {"/", "[", "]", "*"})
  /\ m.ok
  /\ Len(m.nodes) = 1
  /\ heap.parent[m.nodes[1]] # Nil

Insert(path, label, before) ==
  LET m == Matches(path)
      n == m.nodes[1]
      p == heap.parent[n]
      idx == InsertIndex(n, before)
      new == Fresh(heap)
      of == <<"Insert", path, label, before>>
  IN  \/ /\ InsertValid(m, label) /\ ~InsertPanics(heap, p, idx)
         /\ Return(of, InsertChild(NewNode(heap, label), p, idx, new), vars, FALSE, Nil)
      \/ /\ InsertValid(m, label) /\ InsertPanics(heap, p, idx)
         /\ panicked' = TRUE
         /\ call' = [of |-> of, err |-> TRUE, ret |-> Nil]
         /\ UNCHANGED <<heap, vars, lastError>>
      \/ /\ ~InsertValid(m, label)
         /\ Fail(of, Nil)

(* Mutant: every node is counted, the root and those passed over too.        *)
RemoveEachCounted(h, nodes) ==
  LET drop(acc, n) ==
        IF n = Root \/ acc.heap.parent[n] = Nil \/ IndexOf(acc.heap, acc.heap.parent[n], n) = 0
        THEN [acc EXCEPT !.count = @ + 1]
        ELSE [heap |-> RemoveChild(acc.heap, acc.heap.parent[n], n), count |-> acc.count + 1]
  IN  Seqs!FoldLeft(drop, [heap |-> h, count |-> 0], nodes)

(* The loop of Remove; the root and a node already detached are passed over, *)
(* and only nodes found among their parent's children count.                 *)
RemoveEach(h, nodes) ==
  LET drop(acc, n) ==
        IF n = Root \/ acc.heap.parent[n] = Nil \/ IndexOf(acc.heap, acc.heap.parent[n], n) = 0
        THEN acc
        ELSE [heap |-> RemoveChild(acc.heap, acc.heap.parent[n], n), count |-> acc.count + 1]
  IN  Seqs!FoldLeft(drop, [heap |-> h, count |-> 0], nodes)

Remove(path) ==
  LET m == Matches(path)
      r == RemoveEach(heap, m.nodes)
  IN  IF m.ok THEN Return(<<"Remove", path>>, r.heap, vars, FALSE, r.count)
      ELSE Fail(<<"Remove", path>>, 0)

-----------------------------------------------------------------------------
(* Mutant: the node itself is compared, not its ancestors.                   *)
IsDescendantSelf(h, n, anc) == n = anc

IsDescendant(h, n, anc) ==
  LET U[k \in 0 .. Cardinality(Node)] ==
        IF k = 0 THEN {h.parent[n]} \ {Nil}
        ELSE LET T == U[k - 1] IN T \cup ({h.parent[m] : m \in T} \ {Nil})
  IN  anc \in U[Cardinality(h.used)]

(* The node to move, of what src matches: Nil when Move refuses it. *)
MoveSource(m) ==
  IF m.ok /\ Len(m.nodes) = 1 /\ m.nodes[1] # Root /\ heap.parent[m.nodes[1]] # Nil
  THEN m.nodes[1] ELSE Nil

(* The statements of Move after its checks. *)
Transfer(h, s, d) ==
  TakeOver(RemoveChild(h, h.parent[s], s), d, s)

(* The rest of Move, for a source s and what dst matches and createPath      *)
(* makes of it.                                                              *)
MoveTo(of, s, m, c) ==
  \/ /\ s # Nil /\ m.ok /\ Len(m.nodes) = 1
     /\ m.nodes[1] # s /\ ~IsDescendant(heap, m.nodes[1], s)
     /\ Return(of, Transfer(heap, s, m.nodes[1]), vars, FALSE, Nil)
  \/ /\ s # Nil /\ m.ok /\ Len(m.nodes) = 0 /\ c.ok
     /\ Return(of, Transfer(c.heap, s, c.node), vars, FALSE, Nil)
  \/ /\ s # Nil /\ m.ok /\ Len(m.nodes) = 0 /\ ~c.ok
     /\ Return(of, c.heap, vars, TRUE, Nil)
  \/ /\ \/ s = Nil
        \/ ~m.ok
        \/ Len(m.nodes) > 1
        \/ Len(m.nodes) = 1 /\ (m.nodes[1] = s \/ IsDescendant(heap, m.nodes[1], s))
     /\ Fail(of, Nil)

Move(src, dst) ==
  MoveTo(<<"Move", src, dst>>, MoveSource(Matches(src)), Matches(dst), CreatePath(heap, dst))

-----------------------------------------------------------------------------
Bind(x, nodes) == [y \in DOMAIN vars \cup {x} |-> IF y = x THEN nodes ELSE vars[y]]

DefineVariable(x, expr) ==
  LET m == Matches(expr)
      of == <<"DefineVariable", x, expr>>
  IN  IF m.ok THEN Return(of, heap, Bind(x, m.nodes), FALSE, Len(m.nodes))
      ELSE Fail(of, 0)

DefineNode(x, expr, v) ==
  LET m == Matches(expr)
      c == CreatePath(heap, expr)
      of == <<"DefineNode", x, expr, v>>
  IN  \/ /\ m.ok /\ m.nodes # <<>>
         /\ Return(of, heap, Bind(x, m.nodes), FALSE,
                   [path |-> BuildPath(heap, m.nodes[1]), created |-> FALSE])
      \/ /\ m.ok /\ m.nodes = <<>> /\ c.ok
         /\ Return(of, SetNodeValue(c.heap, c.node, v), Bind(x, <<c.node>>), FALSE,
                   [path |-> BuildPath(c.heap, c.node), created |-> TRUE])
      \/ /\ m.ok /\ m.nodes = <<>> /\ ~c.ok
         /\ Return(of, c.heap, vars, TRUE, Nil)
      \/ /\ ~m.ok
         /\ Fail(of, Nil)

-----------------------------------------------------------------------------
(* The entries a lens' Parse returns become the children of d.  An entry is  *)
(* [label, value]; entries below entries are left out.                       *)
Graft(h, d, entries) ==
  Seqs!FoldLeft(LAMBDA g, e :
             LET new == Fresh(g)
             IN  AppendChild(SetNodeValue(NewNode(g, e.label), new, e.value), d, new),
           DropChildren(h, d), entries)

(* Mutant: the destination is made and emptied before the text is parsed.    *)
TextStoreEager(path, parsed) ==
  LET c == CreatePath(heap, path)
      of == <<"TextStore", path, parsed>>
  IN  \/ /\ c.ok
         /\ Return(of, Graft(c.heap, c.node, parsed.entries), vars, ~parsed.ok, Nil)
      \/ /\ ~c.ok
         /\ Return(of, c.heap, vars, TRUE, Nil)

(* TextStore evaluates nothing: createPath finds or makes the destination,   *)
(* taking the first child of each label.                                     *)
TextStore(path, parsed) ==
  LET c == CreatePath(heap, path)
      of == <<"TextStore", path, parsed>>
  IN  \/ /\ parsed.ok /\ c.ok
         /\ Return(of, Graft(c.heap, c.node, parsed.entries), vars, FALSE, Nil)
      \/ /\ parsed.ok /\ ~c.ok
         /\ Return(of, c.heap, vars, TRUE, Nil)
      \/ /\ ~parsed.ok
         /\ Fail(of, Nil)

-----------------------------------------------------------------------------
Next ==
  /\ ~panicked
  /\ \/ \E p \in ReadPaths : Get(p)
     \/ \E p \in ReadPaths : Exists(p)
     \/ \E p \in ReadPaths : Match(p)
     \/ \E p \in ReadPaths : GetLabel(p)
     \/ \E p \in SetPaths, v \in Value : Set(p, v)
     \/ \E c \in SubPairs, v \in Value : SetMultiple(c[1], c[2], v)
     \/ \E c \in InsertCalls : Insert(c[1], c[2], c[3])
     \/ \E p \in RemovePaths : Remove(p)
     \/ \E c \in MovePairs : Move(c[1], c[2])
     \/ \E x \in VarName, p \in BindPaths : DefineVariable(x, p)
     \/ \E x \in VarName, p \in BindPaths, v \in Value : DefineNode(x, p, v)
     \/ \E c \in StoreCalls : TextStore(c[1], c[2])

Spec == Init /\ [][Next]_state
=============================================================================
