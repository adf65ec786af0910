------------------------------ MODULE PathExpr ------------------------------
(***************************************************************************)
(* The path language of path.go, and createFrom / createPath of augeas.go, *)
(* which read the same text by other rules.                                *)
(*                                                                         *)
(* A path is a sequence of alternatives (the operands of "|").  An         *)
(* alternative is [lead, segs]: lead is "/" (absolute), "" (relative, or   *)
(* absolute behind blanks, which eval trims and createPath does not) or    *)
(* the name of a variable; segs is the body cut at its top-level slashes.  *)
(* A segment is [name, preds]; the empty text is EmptySeg, so "//b" has    *)
(* the body <<EmptySeg, b>>, "/" has <<EmptySeg>> and "/a/" has            *)
(* <<a, EmptySeg>>.                                                        *)
(*                                                                         *)
(* The name of a node or of a step is one word, but for the names Spelling *)
(* lists: those are spelled with characters that a path gives a meaning.   *)
(***************************************************************************)
EXTENDS NodeHeap
Seqs == INSTANCE SequencesExt

CONSTANT Spelling     \* Spelling[name]: the tokens of a name that is no word

Mark == {"/", "[", "]", "*", "|", "'", " ", ".", ".."}

ASSUME SpellingAssumption ==
  /\ DOMAIN Spelling \cap (Mark \cup {""}) = {}
  /\ \A l \in DOMAIN Spelling : Spelling[l] \in Seq(Seqs!ToSet(Spelling[l])) /\ Len(Spelling[l]) > 1
  /\ \A k, l \in DOMAIN Spelling : Spelling[k] = Spelling[l] => k = l

(* The text of a name, in words and marks. *)
Ch(c) == [ch |-> c]

Spell(name) ==
  CASE name \in DOMAIN Spelling                 -> Spelling[name]
    [] name = ""                               -> <<>>
    [] name \notin DOMAIN Spelling \cup {""}    -> <<Ch(name)>>

Has(name, marks) == \E i \in DOMAIN Spell(name) : \E c \in marks : Spell(name)[i] = Ch(c)

Seg(name, preds) == [name |-> name, preds |-> preds]
EmptySeg == Seg("", <<>>)
Self == Seg(".", <<>>)
Up == Seg("..", <<>>)

-----------------------------------------------------------------------------
(* Parsing: parseSteps, parseStep, parsePredicate.  A predicate text that    *)
(* parsePredicate rejects is the predicate of kind "bad".                    *)

Malformed(seg) ==
  \/ seg.name = ""
  \/ \E i \in DOMAIN seg.preds : seg.preds[i].kind = "bad"

Step(axis, seg) == [axis |-> axis, name |-> seg.name, preds |-> seg.preds]

ParseSteps(segs) ==
  LET take(acc, seg) ==
        IF ~acc.ok THEN acc
        ELSE IF seg = EmptySeg THEN [acc EXCEPT !.descendant = TRUE]
        ELSE IF ~acc.descendant /\ seg \in {Self, Up}
        THEN [acc EXCEPT !.steps = Append(@, Step(IF seg = Self THEN "self" ELSE "parent", seg))]
        ELSE [ok |-> ~Malformed(seg),
              descendant |-> FALSE,
              steps |-> Append(acc.steps,
                               Step(IF acc.descendant THEN "descendant" ELSE "child", seg))]
  IN  Seqs!FoldLeft(take, [ok |-> TRUE, descendant |-> FALSE, steps |-> <<>>], segs)

-----------------------------------------------------------------------------
(* Evaluation *)

NameMatch(name, label) == name = "*" \/ name = label

(* The descendants of n, a parent before its children, siblings in order. *)
Descendants(h, n) ==
  LET D[k \in 0 .. Cardinality(Node)] ==
        IF k = 0 THEN [m \in Node |-> <<>>]
        ELSE [m \in Node |-> Seqs!FlattenSeq([i \in 1 .. h.len[m] |->
                               LET c == Children(h, m)[i] IN <<c>> \o D[k - 1][c]])]
  IN  D[Cardinality(h.used)][n]

(* The nodes among nodes whose label matches, in their order. *)
Named(h, nodes, name) ==
  Seqs!FoldLeft(LAMBDA out, n : IF NameMatch(name, h.label[n]) THEN Append(out, n) ELSE out,
           <<>>, nodes)

Candidates(h, ctx, s) ==
  CASE s.axis = "self"       -> <<ctx>>
    [] s.axis = "parent"     -> IF h.parent[ctx] = Nil THEN <<>> ELSE <<h.parent[ctx]>>
    [] s.axis = "descendant" -> Named(h, Descendants(h, ctx), s.name)
    [] s.axis = "child"      -> Named(h, Children(h, ctx), s.name)

(* resolveSub: a predicate's subpath, a sequence of names or <<".">> *)
ResolveSub(h, n, names) ==
  IF names = <<".">> THEN {n}
  ELSE Seqs!FoldLeft(LAMBDA ctx, name : {c \in Offspring(h, ctx) : NameMatch(name, h.label[c])},
                {n}, names)

PredHolds(h, n, p, pos, size) ==
  CASE p.kind = "pos"    -> pos = p.n
    [] p.kind = "last"   -> pos = size
    [] p.kind = "exists" -> ResolveSub(h, n, p.path) # {}
    [] p.kind = "values" -> \E s \in ResolveSub(h, n, p.path) : h.value[s] \in p.values

(* The candidates for which the predicate p holds, at their positions.      *)
Satisfying(h, cs, p) ==
  Seqs!FoldLeft(LAMBDA out, i : IF PredHolds(h, cs[i], p, i, Len(cs)) THEN Append(out, cs[i]) ELSE out,
           <<>>, [i \in DOMAIN cs |-> i])

ApplyPreds(h, cands, preds) ==
  Seqs!FoldLeft(LAMBDA cs, p : Satisfying(h, cs, p), cands, preds)

Dedup(nodes) ==
  Seqs!FoldLeft(LAMBDA out, n : IF Seqs!Contains(out, n) THEN out ELSE Append(out, n), <<>>, nodes)

EvalSteps(h, ctx, steps) ==
  Seqs!FoldLeft(LAMBDA c, s : Dedup(Seqs!FlattenSeq([i \in DOMAIN c |->
                                  ApplyPreds(h, Candidates(h, c[i], s), s.preds)])),
           ctx, steps)

(* evalOne: an unbound variable is an error as a malformed step is.  vars    *)
(* maps the bound variable names to sequences of nodes.                      *)
EvalParsed(h, ctx, parsed) ==
  IF parsed.ok THEN [ok |-> TRUE, nodes |-> EvalSteps(h, ctx, parsed.steps)]
  ELSE [ok |-> FALSE, nodes |-> <<>>]

EvalOne(h, vars, alt) ==
  IF alt.lead \in {"/", ""} THEN EvalParsed(h, <<Root>>, ParseSteps(alt.segs))
  ELSE IF alt.lead \in DOMAIN vars THEN EvalParsed(h, vars[alt.lead], ParseSteps(alt.segs))
  ELSE [ok |-> FALSE, nodes |-> <<>>]

(* One malformed alternative makes the whole path malformed. *)
Union(results) ==
  IF \A i \in DOMAIN results : results[i].ok
  THEN [ok |-> TRUE, nodes |-> Dedup(Seqs!FlattenSeq([i \in DOMAIN results |-> results[i].nodes]))]
  ELSE [ok |-> FALSE, nodes |-> <<>>]

Eval(h, vars, path) == Union([i \in DOMAIN path |-> EvalOne(h, vars, path[i])])

-----------------------------------------------------------------------------
(* Creation.  createFrom stops at the first segment it cannot create; the    *)
(* nodes it made before that one stay in the tree.                           *)

Creatable(seg) ==
  seg.name # "" /\ ~Has(seg.name, {"[", "]", "*", "|"}) /\ seg.preds = <<>>

CreateFrom(h, base, segs) ==
  LET descend(acc, seg) ==
        LET next == FirstChild(acc.heap, acc.node, seg.name)
            new == Fresh(acc.heap)
        IN  IF ~acc.ok \/ ~Creatable(seg) THEN [acc EXCEPT !.ok = FALSE]
            ELSE IF next # Nil THEN [acc EXCEPT !.node = next]
            ELSE [acc EXCEPT !.heap = AppendChild(NewNode(@, seg.name), acc.node, new),
                             !.node = new]
  IN  Seqs!FoldLeft(descend, [ok |-> TRUE, heap |-> h, node |-> base], segs)

(* createFrom knows no "|": the last segment of the first alternative then   *)
(* contains the bar and is refused.                                          *)
CreateSegs(path) ==
  IF Len(path) = 1 THEN path[1].segs
  ELSE Append(Seqs!Front(path[1].segs), Seg("|", <<>>))

CreatePath(h, path) ==
  IF path[1].lead # "/" THEN [ok |-> FALSE, heap |-> h, node |-> Nil]
  ELSE CreateFrom(h, Root, CreateSegs(path))

=============================================================================
