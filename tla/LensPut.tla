------------------------------- MODULE LensPut -------------------------------
(***************************************************************************)
(* LnsGet, and LnsPut of put.go: a forest is written back with the lens,   *)
(* along the groups by which the lens' atype matches the encoded forest.   *)
(* putLens takes what the tree does not hold from the skeleton; createLens *)
(* takes it from the lens.  The two are one here: without a skeleton       *)
(* (None) the text is created.                                             *)
(*                                                                         *)
(* The state s of a put is [tree, split, skel, dict, override].  tree is   *)
(* the node whose children are written, split is the part of them the      *)
(* current lens covers, [nodes, enc]; override is the text the last part   *)
(* of a square is to have.  A result is [ok, out, dict, override], dict    *)
(* being what lookups have left of the entries.                            *)
(***************************************************************************)
EXTENDS RecParse
LOCAL INSTANCE Integers
LOCAL INSTANCE Sequences
LOCAL INSTANCE SequencesExt
LOCAL INSTANCE FiniteSets
LOCAL INSTANCE FiniteSetsExt

(* LnsGet: nothing may be left over, neither text nor a key or value.        *)
Whole(walk, end, t) ==
  [walk EXCEPT !.ok = @ /\ end = Len(t) /\ walk.key = None /\ walk.val = None]

GetFrom(l, t, regs) ==
  IF regs = <<>> THEN Failed(<<>>)
  ELSE Whole(Walk(l, t, regs, 0, TRUE, <<>>), regs[1][2], t)

(* For a star at the top the text is its span, whatever matches.             *)
LnsGet(l, t) ==
  IF l.recursive THEN RecParseAll(l, t)
  ELSE IF l.tag = "star" THEN GetFrom(l, t, <<<<0, Len(t)>>>>)
  ELSE GetFrom(l, t, Match(l.ctype, t, 0, Len(t)))

-----------------------------------------------------------------------------
EncStr(str) == IF str = None THEN <<>> ELSE str

EncodeForest(forest) ==
  FlatMap(LAMBDA node : EncStr(node.label) \o <<EncEq>> \o EncStr(node.value) \o <<EncSlash>>,
          forest)

SplitOf(forest) == [nodes |-> forest, enc |-> EncodeForest(forest)]

CountSlash(enc, upto) == Cardinality({i \in 1 .. upto : enc[i] = EncSlash})

(* The part of a split between two offsets into its encoding.                *)
Part(split, from, to) ==
  [nodes |-> SubSeq(split.nodes, CountSlash(split.enc, from) + 1, CountSlash(split.enc, to)),
   enc |-> SubSeq(split.enc, from + 1, to)]

(* splitConcat: one part for each component, by its group; none if the       *)
(* forest does not match.                                                    *)
PartsBy(l, split, regs) ==
  LET group(i) == 2 + FoldLeft(LAMBDA n, c : n + 1 + c.atype.nsub, 0, SubSeq(l.kids, 1, i - 1))
      part(reg) == Part(split, reg[1], reg[2])
  IN  IF regs = <<>> THEN <<>>
      ELSE IF regs[1][2] # Len(split.enc) THEN <<>>
      ELSE [i \in DOMAIN l.kids |-> part(regs[group(i)])]

SplitConcat(l, split) == PartsBy(l, split, Match(l.atype, split.enc, 0, Len(split.enc)))

RECURSIVE SplitIter(_, _)

SplitBehind(child, split, pos) ==
  <<Part(split, 0, pos)>> \o SplitIter(child, Part(split, pos, Len(split.enc)))

(* splitIter stops at the first piece that does not match, and looks no      *)
(* further.                                                                  *)
SplitIter(child, split) ==
  LET regs == Match(child.atype, split.enc, 0, Len(split.enc))
  IN  IF split.enc = <<>> \/ regs = <<>> THEN <<>>
      ELSE IF regs[1][2] = 0 THEN <<>>
      ELSE SplitBehind(child, split, regs[1][2])

(* applies *)
Applies(l, s) ==
  /\ MatchesAll(l.atype, s.split.enc)
  /\ s.split.enc = <<>> /\ l.value => s.tree # None /\ s.tree.value # None

RECURSIVE SkelInstanceOf(_, _)

(* skelInstanceOf *)
SkelInstanceOf(l, skel) ==
  CASE skel = None -> FALSE
    [] l.tag = "del" -> skel.tag = "del" /\ MatchesAll(l.re, skel.text)
    [] l.tag \in {"concat", "square"} ->
         /\ skel.tag = l.tag
         /\ Len(skel.skels) = Len(l.kids)
         /\ \A i \in DOMAIN l.kids : SkelInstanceOf(l.kids[i], skel.skels[i])
    [] l.tag = "union" -> \E i \in DOMAIN l.kids : SkelInstanceOf(l.kids[i], skel)
    [] l.tag = "maybe" -> skel.tag = "maybe" \/ SkelInstanceOf(l.kids[1], skel)
    [] l.tag = "star" ->
         /\ skel.tag = "star"
         /\ \A i \in DOMAIN skel.skels : SkelInstanceOf(l.kids[1], skel.skels[i])
    [] l.tag = "rec" -> SkelInstanceOf(Body(l.str), skel)
    [] OTHER -> skel.tag = l.tag

SkelFor(l, skel) == IF SkelInstanceOf(l, skel) THEN skel ELSE None

(* Mutant: an entry is not used up. *)
LookupAgain(dict, label) ==
  LET at == SelectInSeq(dict, LAMBDA e : e.label = label)
  IN  IF at = 0 THEN [skel |-> None, dict |-> <<>>, left |-> dict]
      ELSE [skel |-> dict[at].skel, dict |-> dict[at].dict, left |-> dict]

(* lookup: the first entry of the label that has not been handed out yet.    *)
Lookup(dict, label) ==
  LET at == SelectInSeq(dict, LAMBDA e : e.label = label)
  IN  IF at = 0 THEN [skel |-> None, dict |-> <<>>, left |-> dict]
      ELSE [skel |-> dict[at].skel, dict |-> dict[at].dict, left |-> RemoveAt(dict, at)]

-----------------------------------------------------------------------------
Written(out, s) == [ok |-> TRUE, out |-> out, dict |-> s.dict, override |-> s.override]
Refused(s) == [Written(<<>>, s) EXCEPT !.ok = FALSE]

RECURSIVE Put(_, _)

(* What has been written, and next, written behind it.                       *)
Behind(sofar, next) == IF sofar.ok THEN [next EXCEPT !.out = sofar.out \o @] ELSE sofar

(* The state for one part after what has been written.  Lookups use up the   *)
(* dictionary as they go.                                                    *)
PartOf(s, sofar, split, skel) ==
  [s EXCEPT !.split = split, !.skel = skel, !.dict = sofar.dict, !.override = sofar.override]

(* The kids one after the other, each with its part of the forest and its    *)
(* skeleton.                                                                 *)
PutEach(kids, parts, skels, s) ==
  FoldLeft(LAMBDA sofar, i :
             Behind(sofar, Put(kids[i], PartOf(s, sofar, parts[i], skels[i]))),
           Written(<<>>, s), [i \in DOMAIN parts |-> i])

(* The skeletons of n components, as far as there are any.                   *)
SkelsOf(skel, n) ==
  [i \in 1 .. n |-> IF skel = None THEN None
                    ELSE IF i <= Len(skel.skels) THEN skel.skels[i] ELSE None]

PutParts(l, parts, s) ==
  IF parts = <<>> THEN Refused(s)
  ELSE PutEach(l.kids, parts, SkelsOf(s.skel, Len(l.kids)), s)

PutConcat(l, s) == PutParts(l, SplitConcat(l, s.split), s)

(* putSquare, createSquare: a key on the left is written on the right too.   *)
(* The override is cleared behind every part.                                *)
PutSides(kids, parts, skels, s) ==
  LET override(i, given) ==
        IF i = 1 THEN given
        ELSE IF i = 3 /\ kids[1].tag = "key" THEN s.tree.label
        ELSE None
  IN  FoldLeft(LAMBDA sofar, i :
                 [Behind(sofar, Put(kids[i], [PartOf(s, sofar, parts[i], skels[i]) EXCEPT
                                                !.override = override(i, @)]))
                    EXCEPT !.override = None],
               Written(<<>>, s), [i \in DOMAIN parts |-> i])

PutSquare(l, s) ==
  IF ~MatchesAll(l.atype, s.split.enc) THEN Refused(s)
  ELSE PutSides(l.kids[1].kids, SplitConcat(l.kids[1], s.split),
                SkelsOf(IF s.skel = None THEN None ELSE s.skel.skels[1], 3), s)

(* Mutant: no text is created behind the last skeleton. *)
PutPiecesShort(l, parts, s) ==
  LET n == IF s.skel = None THEN Len(parts) ELSE Min({Len(parts), Len(s.skel.skels)})
  IN  PutEach([i \in 1 .. n |-> l.kids[1]], SubSeq(parts, 1, n), SkelsOf(s.skel, n), s)

(* putStar, createStar *)
PutPieces(l, parts, s) ==
  PutEach([i \in DOMAIN parts |-> l.kids[1]], parts, SkelsOf(s.skel, Len(parts)), s)

PutStar(l, s) == PutPieces(l, SplitIter(l.kids[1], s.split), s)

(* The alternative c; the skeleton may be of another.                        *)
PutAs(c, s) == Put(c, [s EXCEPT !.skel = SkelFor(c, @)])

(* The first alternative the forest fits.                                    *)
PutUnion(l, s) ==
  LET fits == SelectInSeq(l.kids, LAMBDA c : Applies(c, s))
  IN  IF fits = 0 THEN Refused(s) ELSE PutAs(l.kids[fits], s)

(* A node with the entry the dictionary has for it.                          *)
PutNode(c, node, entry, s) ==
  [PutAs(c, [s EXCEPT !.tree = node, !.split = SplitOf(node.children),
                      !.skel = entry.skel, !.dict = entry.dict])
     EXCEPT !.dict = entry.left]

PutSubtree(l, s) ==
  IF s.split.nodes = <<>> THEN Refused(s)
  ELSE PutNode(l.kids[1], s.split.nodes[1], Lookup(s.dict, s.split.nodes[1].label), s)

PutStore(l, s) ==
  IF s.tree.value = None THEN Refused(s)
  ELSE IF ~MatchesAll(l.re, s.tree.value) THEN Refused(s)
  ELSE Written(s.tree.value, s)

PutDel(l, s) ==
  Written(IF s.override # None THEN s.override
          ELSE IF s.skel # None THEN s.skel.text
          ELSE l.str,
          s)

(* putLens, createLens *)
Put(l, s) ==
  CASE l.tag = "del" -> PutDel(l, s)
    [] l.tag = "store" -> PutStore(l, s)
    [] l.tag = "key" -> Written(EncStr(s.tree.label), s)
    [] l.tag \in {"label", "value", "seq", "counter"} -> Written(<<>>, s)
    [] l.tag = "concat" -> PutConcat(l, s)
    [] l.tag = "union" -> PutUnion(l, s)
    [] l.tag = "subtree" -> PutSubtree(l, s)
    [] l.tag = "star" -> PutStar(l, s)
    [] l.tag = "maybe" ->
         IF Applies(l.kids[1], s) THEN PutAs(l.kids[1], s) ELSE Written(<<>>, s)
    [] l.tag = "square" -> PutSquare(l, s)
    [] l.tag = "rec" -> Put(Body(l.str), s)

(* LnsPut.  An empty forest is the empty text, whatever the lens says.       *)
PutBack(l, forest, parsed) ==
  LET s == [tree |-> None, split |-> SplitOf(forest), skel |-> parsed.skel,
            dict |-> parsed.dict, override |-> None]
  IN  IF ~parsed.ok THEN Refused(s)
      ELSE IF forest = <<>> THEN Written(<<>>, s)
      ELSE Put(l, s)

LnsPut(l, forest, t) == PutBack(l, forest, LnsGet(l, t))
=============================================================================
