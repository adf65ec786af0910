------------------------------ MODULE TreeCmd -------------------------------
(* The tree commands of put tests (internal/interp/treecmd.go): set, clear, rm,
   insa and insb on a forest under a root of its own.

   A node is <<label, value, children>>, label and value <<>> when there is
   none and <<x>> otherwise; a node is known by its location, the indices on the
   way to it, and the root by <<>>.  A path is the sequence of segments that
   parsePath makes of its text: [label, wild, pred], where pred is <<"none">>,
   <<"index", n>>, <<"last">>, <<"last+1">>, <<"value", v>> or
   <<"child", path, <<>> or <<v>>>>. *)
EXTENDS Naturals, Sequences, SequencesExt

Label(t) == t[1]
Value(t) == t[2]
Children(t) == t[3]
Leaf(label) == <<<<label>>, <<>>, <<>>>>

NoLabel == ""

RECURSIVE ChildrenAt(_, _)
ChildrenAt(forest, loc) ==
    IF loc = <<>> THEN forest
    ELSE ChildrenAt(Children(forest[Head(loc)]), Tail(loc))
NodeAt(forest, loc) == ChildrenAt(forest, Front(loc))[Last(loc)]

(* The forest with the children of the node at loc replaced. *)
RECURSIVE WithChildren(_, _, _)
WithChildren(forest, loc, kids) ==
    IF loc = <<>> THEN kids
    ELSE [forest EXCEPT ![Head(loc)][3] = WithChildren(@, Tail(loc), kids)]

(* The value of the root is not part of the forest that a command returns. *)
WithValue(forest, loc, v) ==
    IF loc = <<>> THEN forest
    ELSE WithChildren(forest, Front(loc),
                      [ChildrenAt(forest, Front(loc)) EXCEPT ![Last(loc)][2] = v])

-----------------------------------------------------------------------------
(* A node without a label answers to the empty one. *)
LabelEq(t, label) == label = IF Label(t) = <<>> THEN NoLabel ELSE Label(t)[1]

RECURSIVE FindChildren(_, _), FindFrom(_, _, _, _)

(* A child predicate holds of a node that has a node at that path, with that
   value if it names one. *)
Holds(t, loc, val) == val = <<>> \/ Value(NodeAt(Children(t), loc)) = val
HasChild(t, path, val) ==
    /\ path # <<>>
    /\ \E loc \in ToSet(FindFrom(Children(t), <<<<>>>>, path, <<>>)) : Holds(t, loc, val)

(* The indices of the children that match a segment, in order. *)
FindChildren(kids, seg) ==
    LET matched == SelectSeq([i \in DOMAIN kids |-> i],
                        LAMBDA i : seg.wild \/ LabelEq(kids[i], seg.label))
        n == Len(matched)
    IN  CASE seg.pred[1] = "index" ->
                IF seg.pred[2] \in 1..n THEN <<matched[seg.pred[2]]>> ELSE <<>>
          [] seg.pred[1] = "last" -> IF n > 0 THEN <<matched[n]>> ELSE <<>>
          [] seg.pred[1] = "last+1" -> <<>>
          [] seg.pred[1] = "value" ->
                SelectSeq(matched, LAMBDA i : Value(kids[i]) = <<seg.pred[2]>>)
          [] seg.pred[1] = "child" ->
                SelectSeq(matched, LAMBDA i : HasChild(kids[i], seg.pred[2], seg.pred[3]))
          [] OTHER -> matched

(* The locations that the path leads to from those in cur; found holds what the
   earlier ones of cur led to. *)
FindFrom(forest, cur, path, found) ==
    CASE path = <<>> -> cur
      [] path # <<>> /\ cur = <<>> ->
            IF found = <<>> THEN <<>> ELSE FindFrom(forest, found, Tail(path), <<>>)
      [] OTHER ->
            LET kids == FindChildren(ChildrenAt(forest, Head(cur)), Head(path))
            IN  FindFrom(forest, Tail(cur), path,
                         found \o [i \in DOMAIN kids |-> Append(Head(cur), kids[i])])

FindNodes(forest, path) == FindFrom(forest, <<<<>>>>, path, <<>>)

-----------------------------------------------------------------------------
(* What a command leaves: the nodes are changed in place, so that a command that
   fails leaves what it had done. *)
Left(ok, forest, loc) == [ok |-> ok, forest |-> forest, loc |-> loc]

(* Follows the path, and creates what is missing of it with the label of the
   segment, whatever its predicate asks for. *)
RECURSIVE CreateFrom(_, _, _)
CreateFrom(forest, loc, path) ==
    IF path = <<>> THEN Left(TRUE, forest, loc)
    ELSE LET kids == ChildrenAt(forest, loc)
             found == FindChildren(kids, Head(path))
         IN  CASE Len(found) = 1 ->
                    CreateFrom(forest, Append(loc, found[1]), Tail(path))
               [] Len(found) = 0 ->
                    CreateFrom(WithChildren(forest, loc,
                                            Append(kids, Leaf(Head(path).label))),
                               Append(loc, Len(kids) + 1), Tail(path))
               [] OTHER -> Left(FALSE, forest, loc)
CreatePath(forest, path) == CreateFrom(forest, <<>>, path)

Set(forest, path, v) ==
    LET nodes == FindNodes(forest, path)
        new   == CreatePath(forest, path)
    IN  CASE Len(nodes) = 0 ->
                IF new.ok THEN Left(TRUE, WithValue(new.forest, new.loc, <<v>>), new.loc)
                ELSE new
          [] Len(nodes) = 1 -> Left(TRUE, WithValue(forest, nodes[1], <<v>>), nodes[1])
          [] OTHER -> Left(FALSE, forest, <<>>)

(* Mutant of ClearAll: one node only, as set takes it. *)
ClearFirst(forest, locs) ==
    IF locs = <<>> THEN forest ELSE WithValue(forest, Head(locs), <<>>)

RECURSIVE ClearAll(_, _)
ClearAll(forest, locs) ==
    IF locs = <<>> THEN forest
    ELSE ClearAll(WithValue(forest, Head(locs), <<>>), Tail(locs))

Clear(forest, path) ==
    LET nodes == FindNodes(forest, path)
        new   == CreatePath(forest, path)
    IN  IF nodes # <<>> THEN Left(TRUE, ClearAll(forest, nodes), <<>>)
        ELSE IF new.ok THEN Left(TRUE, WithValue(new.forest, new.loc, <<>>), new.loc)
        ELSE new

(* Mutant of RemoveAll: by location, from the first to the last. *)
RECURSIVE RemoveInOrder(_, _)
RemoveInOrder(forest, locs) ==
    IF locs = <<>> THEN forest
    ELSE LET loc == Head(locs)
             kids == IF loc = <<>> THEN <<>> ELSE ChildrenAt(forest, Front(loc))
         IN  RemoveInOrder(IF loc = <<>> \/ Last(loc) \notin DOMAIN kids THEN forest
                           ELSE WithChildren(forest, Front(loc), RemoveAt(kids, Last(loc))),
                           Tail(locs))

(* The code finds the nodes first and looks each up again by its identity: from
   the last to the first, a location stands until it is taken out.  The root has
   no parent to be taken from. *)
RECURSIVE RemoveAll(_, _)
RemoveAll(forest, locs) ==
    IF locs = <<>> THEN forest
    ELSE LET loc == Last(locs)
         IN  RemoveAll(IF loc = <<>> THEN forest
                       ELSE WithChildren(forest, Front(loc),
                              RemoveAt(ChildrenAt(forest, Front(loc)), Last(loc))),
                       Front(locs))

Rm(forest, path) == Left(TRUE, RemoveAll(forest, FindNodes(forest, path)), <<>>)

(* Mutant of InsertIndex: after the node for insb too. *)
InsertIndexAfter(loc, kids, before) ==
    IF loc # <<>> THEN Last(loc) + 1 ELSE IF before THEN 1 ELSE Len(kids) + 1

InsertIndex(loc, kids, before) ==
    CASE loc # <<>> -> IF before THEN Last(loc) ELSE Last(loc) + 1
      [] OTHER -> IF before THEN 1 ELSE Len(kids) + 1

(* A new node before or after the one the path leads to; next to the root, at
   either end of the forest. *)
Ins(forest, label, path, before) ==
    LET nodes  == FindNodes(forest, path)
        loc    == nodes[1]
        parent == IF loc = <<>> THEN <<>> ELSE Front(loc)
        kids   == ChildrenAt(forest, parent)
        at     == InsertIndex(loc, kids, before)
    IN  IF Len(nodes) # 1 THEN Left(FALSE, forest, <<>>)
        ELSE Left(TRUE, WithChildren(forest, parent, InsertAt(kids, at, Leaf(label))),
                  Append(parent, at))
=============================================================================
