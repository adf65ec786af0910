------------------------------ MODULE LensWalk ------------------------------
(***************************************************************************)
(* The walk over a lens that is not recursive: getLens of get.go and       *)
(* parseLens of put.go, which take the same steps over the same register   *)
(* array.  The one returns the forest, the other the skeleton and the      *)
(* dictionary; here one walk returns all.  parseLens forgives some of what *)
(* getLens reports, which makes no difference to a text get accepted, and  *)
(* put parses no other (interpLens remembers no other, LensSession).       *)
(*                                                                         *)
(* A result has: ok; forest, nodes [label, value, children]; key and val,  *)
(* what an enclosing subtree will take; seqs, the counters; skel, a        *)
(* skeleton [tag, text, skels]; dict, the entries [label, skel, dict] of   *)
(* the subtrees, in the order of the text.                                 *)
(***************************************************************************)
EXTENDS Lens
LOCAL INSTANCE Integers
LOCAL INSTANCE Sequences
LOCAL INSTANCE SequencesExt
LOCAL INSTANCE TLC

Skeleton(tag, text, skels) == [tag |-> tag, text |-> text, skels |-> skels]
SkeletonOf(tag) == Skeleton(tag, <<>>, <<>>)

Got(tag, seqs) ==
  [ok |-> TRUE, forest |-> <<>>, key |-> None, val |-> None, seqs |-> seqs,
   skel |-> SkeletonOf(tag), dict |-> <<>>]
Failed(seqs) == [Got("none", seqs) EXCEPT !.ok = FALSE]

Later(a, b) == IF b = None THEN a ELSE b

(* Mutant: the dictionary is filled from the back. *)
ExtendedBackwards(a, b) ==
  [ok |-> a.ok /\ b.ok, forest |-> a.forest \o b.forest,
   key |-> Later(a.key, b.key), val |-> Later(a.val, b.val), seqs |-> b.seqs,
   skel |-> [a.skel EXCEPT !.skels = Append(@, b.skel)], dict |-> b.dict \o a.dict]

(* What a composite has after one more component: dictAppend, and the last   *)
(* key or value wins.                                                        *)
Extended(a, b) ==
  [ok |-> a.ok /\ b.ok, forest |-> a.forest \o b.forest,
   key |-> Later(a.key, b.key), val |-> Later(a.val, b.val), seqs |-> b.seqs,
   skel |-> [a.skel EXCEPT !.skels = Append(@, b.skel)], dict |-> a.dict \o b.dict]

(* regValid, regMatched, and the substring of register n *)
Valid(regs, n) == n < Len(regs)
Matched(regs, n) == Valid(regs, n) /\ regs[n + 1][1] >= 0
Substring(t, reg) == SubSeq(t, reg[1] + 1, reg[2])

(* The registers from those of one operand to those of the next: its group,  *)
(* if it has one, and the groups inside it.                                  *)
Width(c, captured) == (IF captured THEN 1 ELSE 0) + c.ctype.nsub

FirstRegister(n, wrapped) == IF wrapped THEN n + 1 ELSE n

NextNumber(seqs, name) == IF name \in DOMAIN seqs THEN seqs[name] ELSE 1

RECURSIVE Walk(_, _, _, _, _, _), WalkStar(_, _, _, _, _)

(* The repetitions of child from start on.  What is left over is an error.   *)
WalkStar(child, t, start, end, sofar) ==
  LET regs == Match(child.ctype, t, start, end)
  IN  IF start = end \/ ~sofar.ok THEN sofar
      ELSE IF regs = <<>> \/ regs[1][2] = start THEN Failed(sofar.seqs)
      ELSE WalkStar(child, t, regs[1][2], end,
                    Extended(sofar, Walk(child, t, regs, 0, TRUE, sofar.seqs)))

(* The operands of a concat; the register index moves over every one.        *)
WalkConcat(l, t, regs, n, wrapped, seqs) ==
  LET operand(sofar, c) ==
        LET captured == l.full \/ Captures(c)
            before == sofar.result
        IN  [n |-> sofar.n + Width(c, captured),
             result |-> IF ~before.ok THEN before
                        ELSE IF captured /\ ~Valid(regs, sofar.n) THEN Failed(before.seqs)
                        ELSE Extended(before, Walk(c, t, regs, sofar.n, captured, before.seqs))]
  IN  FoldLeft(operand,
               [n |-> FirstRegister(n, wrapped), result |-> Got("concat", seqs)],
               l.kids).result

(* The register of branch k of a union. *)
BranchRegister(l, k, first) ==
  FoldLeft(LAMBDA n, c : n + Width(c, TRUE), first, SubSeq(l.kids, 1, k - 1))

(* The first branch whose register took part in the match.                   *)
WalkUnion(l, t, regs, n, wrapped, seqs) ==
  LET register(k) == BranchRegister(l, k, FirstRegister(n, wrapped))
      taken == SelectInSeq([k \in DOMAIN l.kids |-> register(k)],
                           LAMBDA m : Matched(regs, m))
  IN  IF taken = 0 THEN Failed(seqs)
      ELSE Walk(l.kids[taken], t, regs, register(taken), TRUE, seqs)

(* The register of component k of the inner concat of a square.              *)
Component(inner, regs, k) == regs[BranchRegister(inner, k, 1) + 1]

(* The inner concat is walked over the registers of its own match, and its   *)
(* first and last components must be the same text.                          *)
WalkInner(inner, t, regs, seqs) ==
  LET walk == Walk(inner, t, regs, 0, TRUE, seqs)
      same == Substring(t, Component(inner, regs, 1))
                = Substring(t, Component(inner, regs, Len(inner.kids)))
  IN  IF regs = <<>> THEN Failed(seqs)
      ELSE [walk EXCEPT !.ok = @ /\ same, !.skel = Skeleton("square", <<>>, <<@>>)]

WalkSquare(l, t, span, seqs) ==
  WalkInner(l.kids[1], t, Match(l.kids[1].ctype, t, span[1], span[2]), seqs)

(* getLens and parseLens for l at register n.  wrapped: register n is a      *)
(* group around l, not the first group inside it.                            *)
Walk(l, t, regs, n, wrapped, seqs) ==
  LET text == Substring(t, regs[n + 1])
      done == Got(l.tag, seqs)
  IN  CASE l.tag \in {"del", "store", "key"} ->
             IF ~Matched(regs, n) THEN Failed(seqs)
             ELSE IF l.tag = "del" THEN [done EXCEPT !.skel = Skeleton("del", text, <<>>)]
             ELSE IF l.tag = "store" THEN [done EXCEPT !.val = text]
             ELSE [done EXCEPT !.key = text]
        [] l.tag = "label" -> [done EXCEPT !.key = l.str]
        [] l.tag = "value" -> [done EXCEPT !.val = l.str]
        [] l.tag = "counter" -> [done EXCEPT !.seqs = (l.str :> 1) @@ seqs]
        [] l.tag = "seq" ->
             LET number == NextNumber(seqs, l.str)
             IN  [done EXCEPT !.key = <<ToString(number)>>,
                              !.seqs = (l.str :> number + 1) @@ seqs]
        [] l.tag = "concat" -> WalkConcat(l, t, regs, n, wrapped, seqs)
        [] l.tag = "union" -> WalkUnion(l, t, regs, n, wrapped, seqs)
        [] l.tag = "subtree" ->
             LET inside == Walk(l.kids[1], t, regs, n, wrapped, seqs)
                 node == [label |-> inside.key, value |-> inside.val,
                          children |-> inside.forest]
                 entry == [label |-> inside.key, skel |-> inside.skel, dict |-> inside.dict]
             IN  [Got("subtree", inside.seqs) EXCEPT
                    !.ok = inside.ok, !.forest = <<node>>, !.dict = <<entry>>]
        [] l.tag = "star" ->
             WalkStar(l.kids[1], t, regs[n + 1][1], regs[n + 1][2], done)
        [] l.tag = "maybe" ->
             LET own == FirstRegister(n, wrapped)
             IN  IF Matched(regs, own) THEN Walk(l.kids[1], t, regs, own, TRUE, seqs)
                 ELSE done
        [] l.tag = "square" -> WalkSquare(l, t, regs[n + 1], seqs)
=============================================================================
