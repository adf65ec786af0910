---------------------------- MODULE TreeCmdLaws -----------------------------
(* Commands applied to a forest one after another, and what each may change. *)
EXTENDS TreeCmd, FiniteSets

CONSTANTS
    Forests,    \* the forests to start from
    Paths,
    Labels,     \* for insa and insb
    Values,
    MaxNodes    \* bound of the model: no more nodes than these

VARIABLE forest     \* the children of the root that commands work on

NoForest == <<<<"none">>>>     \* there is no tree to work on

(* All nodes of a forest in document order: location, label and value. *)
RECURSIVE Nodes(_, _)
Nodes(kids, loc) ==
    FlattenSeq([i \in DOMAIN kids |->
        <<<<Append(loc, i), Label(kids[i]), Value(kids[i])>>>>
          \o Nodes(Children(kids[i]), Append(loc, i))])

Locations(f) == {n[1] : n \in ToSet(Nodes(f, <<>>))}
(* Where a node is does not show in what it holds, but its depth does. *)
Content(nodes) == [i \in DOMAIN nodes |-> <<Len(nodes[i][1]), nodes[i][2], nodes[i][3]>>]

-----------------------------------------------------------------------------
Becomes(result) ==
    /\ Len(Nodes(result.forest, <<>>)) <= MaxNodes
    /\ forest' = result.forest

SomeForest == forest \in Forests

DoSet == \E p \in Paths, v \in Values : Becomes(Set(forest, p, v))
DoClear == \E p \in Paths : Becomes(Clear(forest, p))
DoRm == \E p \in Paths : Becomes(Rm(forest, p))
DoInsa == \E p \in Paths, l \in Labels : Becomes(Ins(forest, l, p, FALSE))
DoInsb == \E p \in Paths, l \in Labels : Becomes(Ins(forest, l, p, TRUE))

Command == forest # NoForest /\ (DoSet \/ DoClear \/ DoRm \/ DoInsa \/ DoInsb)

-----------------------------------------------------------------------------
(* Which node a path addresses, said of one location at a time: every segment
   holds of the node on the way, counted among its siblings of that name. *)
RECURSIVE Addresses(_, _, _)
SegHolds(kids, i, seg) ==
    LET named(t) == seg.wild \/ LabelEq(t, seg.label)
        rank == Cardinality({j \in 1..i : named(kids[j])})
        size == Cardinality({j \in DOMAIN kids : named(kids[j])})
        below == {n \in ToSet(Nodes(Children(kids[i]), <<>>)) :
                    Addresses(Children(kids[i]), seg.pred[2], n[1])}
    IN  /\ named(kids[i])
        /\ CASE seg.pred[1] = "index" -> rank = seg.pred[2]
             [] seg.pred[1] = "last" -> rank = size
             [] seg.pred[1] = "last+1" -> FALSE
             [] seg.pred[1] = "value" -> Value(kids[i]) = <<seg.pred[2]>>
             [] seg.pred[1] = "child" ->
                  \E n \in below : seg.pred[3] \in {<<>>, n[3]}
             [] OTHER -> TRUE
Addresses(kids, path, loc) ==
    /\ Len(path) = Len(loc)
    /\ loc # <<>> =>
         /\ SegHolds(kids, Head(loc), Head(path))
         /\ Addresses(Children(kids[Head(loc)]), Tail(path), Tail(loc))

Addressed(f, path) == {loc \in Locations(f) : Addresses(f, path, loc)}

Under(loc, S) == \E s \in S : IsPrefix(s, loc)

(* rm takes away the nodes its path addresses, with all that is below them, and
   nothing else: the nodes that stay keep their order, depth and contents. *)
RmIsExact ==
    forest # NoForest => \A p \in Paths :
        LET gone == Addressed(forest, p)
        IN  Content(Nodes(Rm(forest, p).forest, <<>>)) =
              Content(SelectSeq(Nodes(forest, <<>>), LAMBDA n : ~Under(n[1], gone)))

(* What a command with that path may leave of a forest: the values of the nodes
   it addresses have changed to v, or, where it addresses none, a single line of
   nodes that ends at the length of the path has been added. *)
ChangedAt(before, after, path, v) ==
    LET hit == Addressed(before, path)
        new == Locations(after) \ Locations(before)
        kept(n) == \E m \in ToSet(Nodes(after, <<>>)) :
                     /\ m[1] = n[1] /\ m[2] = n[2]
                     /\ m[3] = IF n[1] \in hit THEN v ELSE n[3]
    IN  /\ \A n \in ToSet(Nodes(before, <<>>)) : kept(n)
        /\ path = <<>> \/ hit # {} => new = {}
        /\ path # <<>> /\ hit = {} =>
             \E last \in new :
                /\ Len(last) = Len(path)
                /\ \A loc \in new : IsPrefix(loc, last)
                /\ \A n \in ToSet(Nodes(after, <<>>)) :
                     n[1] \in new => n[3] = IF n[1] = last THEN v ELSE <<>>

(* set and clear change what their path addresses, or what they create for it;
   clear takes any number of nodes, set one.  If they fail they have changed
   nothing, although they work in place and create nodes before they know that
   the whole path can be followed. *)
SetIsExact ==
    forest # NoForest => \A p \in Paths : \A v \in Values :
        LET s == Set(forest, p, v)
            c == Clear(forest, p)
        IN  /\ s.ok => /\ ChangedAt(forest, s.forest, p, <<v>>)
                       /\ Cardinality(Addressed(forest, p)) <= 1
            /\ c.ok => ChangedAt(forest, c.forest, p, <<>>)
            /\ \A r \in {s, c} : ~r.ok => r.forest = forest

(* insa and insb put one leaf right before or after the one node addressed, with
   nothing between the two, and move no other node. *)
InsIsAdjacent ==
    forest # NoForest => \A p \in Paths \ {<<>>} : \A l \in Labels : \A before \in BOOLEAN :
        LET r    == Ins(forest, l, p, before)
            hit  == Addressed(forest, p)
            loc  == CHOOSE x \in hit : TRUE
            at   == IF before THEN loc ELSE [loc EXCEPT ![Len(loc)] = @ + 1]
        IN  /\ r.ok <=> Cardinality(hit) = 1
            /\ r.ok =>
                 /\ NodeAt(r.forest, at) = Leaf(l)
                 /\ forest = WithChildren(r.forest, Front(at),
                                RemoveAt(ChildrenAt(r.forest, Front(at)), Last(at)))
=============================================================================
