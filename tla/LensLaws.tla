------------------------------ MODULE LensLaws ------------------------------
(***************************************************************************)
(* What a lens means, and the laws its get and put are to keep.            *)
(***************************************************************************)
EXTENDS LensSession
LOCAL INSTANCE Integers
LOCAL INSTANCE Sequences
LOCAL INSTANCE SequencesExt
LOCAL INSTANCE FiniteSets
LOCAL INSTANCE TLC

(***************************************************************************)
(* The meaning of a lens, without registers, matches, memo or first        *)
(* results: the set of all readings of t from offset i, a reading being    *)
(* [end, forest, key, val, seqs].  A concat is any split of its text, a    *)
(* union any of its branches.                                              *)
(***************************************************************************)
Reading(end, seqs) ==
  [end |-> end, forest |-> <<>>, key |-> None, val |-> None, seqs |-> seqs]

(* The reading a followed by the reading b. *)
Followed(a, b) ==
  [end |-> b.end, forest |-> a.forest \o b.forest, key |-> Later(a.key, b.key),
   val |-> Later(a.val, b.val), seqs |-> b.seqs]

RECURSIVE Readings(_, _, _, _), Repeated(_, _, _)

(* The repetitions of child after each reading of a set. *)
Repeated(child, t, some) ==
  LET more == {Followed(a, b) : <<a, b>> \in
                 UNION {{a} \X {b \in Readings(child, t, a.end, a.seqs) : b.end > a.end} :
                          a \in some}}
  IN  IF more = {} THEN some ELSE some \cup Repeated(child, t, more)

InTurn(kids, t, start) ==
  FoldLeft(LAMBDA some, c :
             UNION {{Followed(a, b) : b \in Readings(c, t, a.end, a.seqs)} : a \in some},
           {start}, kids)

(* The words of an expression at offset i. *)
Ends(r, t, i) == {e \in i .. Len(t) : MatchesAll(r, SubSeq(t, i + 1, e))}

Readings(l, t, i, seqs) ==
  LET empty == Reading(i, seqs)
      word(e) == SubSeq(t, i + 1, e)
  IN  CASE l.tag = "del" -> {Reading(e, seqs) : e \in Ends(l.re, t, i)}
        [] l.tag = "store" -> {[Reading(e, seqs) EXCEPT !.val = word(e)] : e \in Ends(l.re, t, i)}
        [] l.tag = "key" -> {[Reading(e, seqs) EXCEPT !.key = word(e)] : e \in Ends(l.re, t, i)}
        [] l.tag = "label" -> {[empty EXCEPT !.key = l.str]}
        [] l.tag = "value" -> {[empty EXCEPT !.val = l.str]}
        [] l.tag = "counter" -> {[empty EXCEPT !.seqs = (l.str :> 1) @@ seqs]}
        [] l.tag = "seq" ->
             LET number == NextNumber(seqs, l.str)
             IN  {[empty EXCEPT !.key = <<ToString(number)>>,
                                !.seqs = (l.str :> number + 1) @@ seqs]}
        [] l.tag = "concat" -> InTurn(l.kids, t, empty)
        [] l.tag = "union" -> UNION {Readings(l.kids[k], t, i, seqs) : k \in DOMAIN l.kids}
        [] l.tag = "maybe" -> {empty} \cup Readings(l.kids[1], t, i, seqs)
        [] l.tag = "star" -> Repeated(l.kids[1], t, {empty})
        [] l.tag = "rec" -> Readings(Body(l.str), t, i, seqs)
        [] l.tag = "subtree" ->
             {[Reading(r.end, r.seqs) EXCEPT
                 !.forest = <<[label |-> r.key, value |-> r.val, children |-> r.forest]>>] :
                r \in Readings(l.kids[1], t, i, seqs)}
        [] l.tag = "square" ->
             LET kids == l.kids[1].kids
             IN  UNION {LET size == a.end - i IN
                        {r \in InTurn(Tail(kids), t, a) :
                           r.end - size >= a.end /\ SubSeq(t, r.end - size + 1, r.end) = word(a.end)} :
                        a \in Readings(kids[1], t, i, seqs)}

(* The forests the whole of t means. *)
Meaning(l, t) == {r.forest : r \in {q \in Readings(l, t, 0, <<>>) : q.end = Len(t)}}

-----------------------------------------------------------------------------
(* Each text has at most one meaning; Parse returns it, or fails when there  *)
(* is none.  The register indices of the walk, the regular types of squares, *)
(* and the chart parse have to agree with the lens for this.                 *)
GetIsRight ==
  call.op = "parse" =>
    LET meaning == Meaning(lens, call.text)
    IN  IF call.ok THEN meaning = {tree} ELSE meaning = {}

(* PutGet: a text Build returns means the tree it was built from, whatever   *)
(* text the skeleton is.                                                     *)
BuildReadsBack ==
  call.op = "build" /\ call.ok => Meaning(lens, call.text) = {tree}

(* Build accepts every tree some text means, once a text has been parsed or  *)
(* if the lens matches the empty text, which is the skeleton at first.       *)
BuildAccepts ==
  call.op = "build" /\ (skeleton = <<>> => Meaning(lens, <<>>) # {}) => call.ok

(* GetPut: a tree that was not changed is written as the text it came from   *)
(* (corpus.go: the parts of a file the tree did not change are preserved).   *)
LayoutKept ==
  call.op = "build" /\ Meaning(lens, skeleton) = {tree} => call.text = skeleton

(* For a star of subtrees, the pieces of a text of the lens, one per node.   *)
RECURSIVE PiecesFrom(_, _, _, _)

FirstPiece(l, t, i, seqs) ==
  CHOOSE r \in Readings(l.kids[1], t, i, seqs) :
    /\ r.end > i
    /\ \E all \in Readings(l, t, r.end, r.seqs) : all.end = Len(t)

PieceAndMore(l, t, i, first) ==
  <<SubSeq(t, i + 1, first.end)>> \o PiecesFrom(l, t, first.end, first.seqs)

PiecesFrom(l, t, i, seqs) ==
  IF i = Len(t) THEN <<>> ELSE PieceAndMore(l, t, i, FirstPiece(l, t, i, seqs))
Pieces(l, t) == PiecesFrom(l, t, 0, <<>>)

(* Which of the nodes of its label node i is. *)
Rank(forest, i) == Cardinality({j \in 1 .. i : forest[j].label = forest[i].label})

SamePieces(before, after, old, new) ==
  \A i \in DOMAIN before, j \in DOMAIN after :
    /\ before[i] = after[j]
    /\ Rank(before, i) = Rank(after, j)
    => old[i] = new[j]

(* A node that is as it was keeps its text, wherever it has moved to and     *)
(* whatever has become of the nodes around it; a node is known by its label  *)
(* and its rank among those.                                                 *)
UntouchedKept ==
  call.op = "build" /\ call.ok /\ lens.tag = "star" =>
    \A before \in Meaning(lens, skeleton) :
      SamePieces(before, tree, Pieces(lens, skeleton), Pieces(lens, call.text))
=============================================================================
