-------------------------------- MODULE Lens --------------------------------
(***************************************************************************)
(* Lenses and their types (internal/interp/lens.go, square.go, rec.go).    *)
(* ctype is the expression of the text, whose groups the walk of LensWalk  *)
(* indexes; atype is that of the encoded forest, whose groups the put of   *)
(* LensPut splits by; ktype and vtype are the types of a key and a value.  *)
(* kids holds the child, or the children.                                  *)
(***************************************************************************)
EXTENDS CaptureRegexp
LOCAL INSTANCE Naturals
LOCAL INSTANCE Sequences
LOCAL INSTANCE FiniteSets
LOCAL INSTANCE SequencesExt

CONSTANTS None,        \* nil: no string, no expression, no skeleton
          EncEq,       \* the two bytes of the encoded forest, which no token
          EncSlash,    \*   of a text stands for (restrict sees to that)
          Digit,       \* the tokens [0-9]+ matches
          SquareLimit  \* 10 in the code

Blank ==
  [tag |-> "none", re |-> None, str |-> <<>>, kids |-> <<>>, full |-> FALSE,
   ctype |-> Eps, atype |-> EmptyR, ktype |-> None, vtype |-> None,
   value |-> FALSE, recursive |-> FALSE]

(* makePrim *)
Del(re, default) == [Blank EXCEPT !.tag = "del", !.re = re, !.ctype = re, !.str = default]
KeyOf(re) == [Blank EXCEPT !.tag = "key", !.re = re, !.ctype = re, !.ktype = re]
Store(re) ==
  [Blank EXCEPT !.tag = "store", !.re = re, !.ctype = re, !.vtype = re, !.value = TRUE]
Label(str) == [Blank EXCEPT !.tag = "label", !.str = str, !.ktype = Literal(str)]
ValueOf(str) ==
  [Blank EXCEPT !.tag = "value", !.str = str, !.vtype = Literal(str), !.value = TRUE]
Numbered(name) == [Blank EXCEPT !.tag = "seq", !.str = name, !.ktype = OneOf(Digit)]
Counter(name) == [Blank EXCEPT !.tag = "counter", !.str = name]

-----------------------------------------------------------------------------
(* Mutant: the wrapper of a star is not captured.                            *)
RECURSIVE LeavesCapture(_)
LeavesCapture(l) ==
  IF l.tag = "subtree" THEN LeavesCapture(l.kids[1])
  ELSE l.tag \in {"del", "store", "key", "square"}

RECURSIVE Captures(_)

(* ctypeCaptures: a concat gives l a group of its own.  The walk looks at no *)
(* other operand's span.                                                     *)
Captures(l) ==
  IF l.tag = "subtree" THEN Captures(l.kids[1])
  ELSE l.tag \in {"del", "store", "key", "star", "square"}

FirstType(types) ==
  LET some == SelectSeq(types, LAMBDA r : r # None)
  IN  IF some = <<>> THEN None ELSE some[1]

UnionType(types) ==
  FoldLeft(LAMBDA a, b : IF a = None THEN b
                         ELSE IF b = None THEN a
                         ELSE UnionN(<<a, b>>),
           None, types)

Field(ls, field) == [i \in DOMAIN ls |-> ls[i][field]]

(* flatOperands, for every operand *)
Flat(ls, tag) ==
  FlattenSeq([i \in DOMAIN ls |-> IF ls[i].tag = tag THEN ls[i].kids ELSE <<ls[i]>>])

Composite(tag, ls) ==
  [Blank EXCEPT !.tag = tag, !.kids = ls,
                !.value = \E i \in DOMAIN ls : ls[i].value,
                !.recursive = \E i \in DOMAIN ls : ls[i].recursive]

ConcatOf(ls, full) ==
  [Composite("concat", ls) EXCEPT
     !.full = full,
     !.ctype = ConcatCap(Field(ls, "ctype"), [i \in DOMAIN ls |-> full \/ Captures(ls[i])]),
     !.atype = ConcatN(Field(ls, "atype")),
     !.ktype = FirstType(Field(ls, "ktype")),
     !.vtype = FirstType(Field(ls, "vtype"))]

(* makeConcat, for a chain of operands *)
Concat(ls) == ConcatOf(Flat(ls, "concat"), FALSE)

(* makeUnion, for a chain of operands *)
Union(ls) ==
  LET kids == Flat(ls, "union")
  IN  [Composite("union", kids) EXCEPT
         !.ctype = UnionN(Field(kids, "ctype")),
         !.atype = UnionN(Field(kids, "atype")),
         !.ktype = UnionType(Field(ls, "ktype")),
         !.vtype = UnionType(Field(ls, "vtype"))]

(* subtreeAtype: a nil type is the empty expression *)
SubtreeAtype(k, v) ==
  Cat(<<Group(IF k = None THEN Eps ELSE k), OneOf({EncEq}),
        Group(IF v = None THEN Eps ELSE v), OneOf({EncSlash})>>)

(* makeSubtree: a key or value inside is not one of the subtree *)
Subtree(c) ==
  [Composite("subtree", <<c>>) EXCEPT
     !.value = FALSE, !.ctype = c.ctype, !.atype = SubtreeAtype(c.ktype, c.vtype)]

(* makeStar, makePlus *)
Star(c) ==
  [Composite("star", <<c>>) EXCEPT
     !.value = FALSE, !.ctype = Iter(c.ctype), !.atype = Iter(c.atype)]
Plus(c) == Concat(<<c, Star(c)>>)

MaybeType(r) == IF r = None THEN None ELSE MaybeR(r)

(* makeMaybe *)
Maybe(c) ==
  [Composite("maybe", <<c>>) EXCEPT
     !.ctype = MaybeR(c.ctype), !.atype = MaybeR(c.atype),
     !.ktype = MaybeType(c.ktype), !.vtype = MaybeType(c.vtype)]

-----------------------------------------------------------------------------
(* enumerate: the words of r.  Of an iteration, which has no end of them, as *)
(* many as exceed the limit.                                                 *)
Joined(A, B) == {a \o b : a \in A, b \in B}

RECURSIVE Words(_)
Words(r) ==
  CASE r.op = "eps" -> {<<>>}
    [] r.op = "oneOf" -> {<<x>> : x \in r.set}
    [] r.op = "group" -> Words(r.arg)
    [] r.op = "opt" -> {<<>>} \cup Words(r.arg)
    [] r.op = "iter" ->
         UNION {FoldLeft(Joined, {<<>>}, [i \in 1 .. n |-> Words(r.arg)]) :
                  n \in 0 .. SquareLimit}
    [] r.op = "cat" -> FoldLeft(LAMBDA A, q : Joined(A, Words(q)), {<<>>}, r.args)
    [] r.op = "alt" -> UNION {Words(r.args[i]) : i \in DOMAIN r.args}

(* squarePreciseType, and the fall back to the loose type *)
SquareCtype(left, body, loose) ==
  LET words == SetToSeq(Words(left))
  IN  IF Len(words) \in 1 .. SquareLimit
        THEN UnionN([i \in DOMAIN words |->
                       ConcatN(<<Literal(words[i]), body, Literal(words[i])>>)])
        ELSE loose

(* makeSquare *)
Square(l1, l2, l3) ==
  LET inner == ConcatOf(<<l1, l2, l3>>, TRUE)
  IN  [Composite("square", <<inner>>) EXCEPT
         !.ctype = SquareCtype(l1.ctype, l2.ctype, inner.ctype),
         !.atype = inner.atype, !.ktype = inner.ktype, !.vtype = inner.vtype]

(* evalRec: what the name of a recursive lens stands for inside its body.    *)
(* types is Blank at first, then the body made with that (recomputeAtype).   *)
(* No expression for the text of a recursive lens is ever used.              *)
Placeholder(name, types) ==
  [Blank EXCEPT !.tag = "rec", !.str = name, !.recursive = TRUE,
                !.atype = types.atype, !.ktype = types.ktype, !.vtype = types.vtype]
=============================================================================
