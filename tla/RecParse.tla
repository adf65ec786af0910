------------------------------ MODULE RecParse ------------------------------
(***************************************************************************)
(* The parse of a text with a recursive lens (recState in get.go): a chart *)
(* parse by recursive descent, which keeps the results per lens and        *)
(* position (memo), cuts a cycle where it meets a pair it is at work on    *)
(* (busy), and keeps one result per end.  A sub-lens that is not recursive *)
(* is a terminal: one match, and the walk of LensWalk.                     *)
(*                                                                         *)
(* The state st is [memo, busy, seqs]; an operation returns [st, rs], the  *)
(* state it leaves and its results in order.  A result is that of a walk,  *)
(* with its end.  The memo is by lens value where the code has a pointer;  *)
(* the two differ only for two equal lenses tried at one position.         *)
(***************************************************************************)
EXTENDS LensWalk
LOCAL INSTANCE Integers
LOCAL INSTANCE Sequences
LOCAL INSTANCE SequencesExt
LOCAL INSTANCE TLC

CONSTANT Body(_)  \* the body of the recursive lens of a name

Fresh == [memo |-> <<>>, busy |-> {}, seqs |-> <<>>]

Results(st, rs) == [st |-> st, rs |-> rs]
Nothing(tag, pos) == [end |-> pos] @@ Got(tag, <<>>)

(* dedupByEnd, also in parseRecConcat *)
DedupByEnd(rs) ==
  FoldLeft(LAMBDA kept, r : IF \E i \in DOMAIN kept : kept[i].end = r.end
                              THEN kept ELSE Append(kept, r),
           <<>>, rs)

(* mergeConcat, dictMerge, and the skeleton so far: the first key or value   *)
(* wins.                                                                     *)
Merge(a, b) ==
  [end |-> b.end, key |-> Later(b.key, a.key), val |-> Later(b.val, a.val)] @@ Extended(a, b)

Deduped(from) == [from EXCEPT !.rs = DedupByEnd(@)]
Mapped(from, F(_)) == [from EXCEPT !.rs = FlatMap(LAMBDA r : <<F(r)>>, @)]
Kept(from, P(_)) == [from EXCEPT !.rs = SelectSeq(@, P)]
Added(a, b) == Results(b.st, a.rs \o b.rs)

(* Op(r, st) for each result r, one after the other.                         *)
ForEach(from, Op(_, _)) ==
  FoldLeft(LAMBDA sofar, r : Added(sofar, Op(r, sofar.st)), Results(from.st, <<>>), from.rs)

(* parseTerminal.  The walk counts on in the counters of the whole parse,    *)
(* even if the result is dropped; the skeleton comes from a second walk,     *)
(* with counters of its own.                                                 *)
Walked(st, end, walk, again) ==
  Results([st EXCEPT !.seqs = walk.seqs],
          IF walk.ok
            THEN <<[end |-> end, skel |-> again.skel, dict |-> again.dict] @@ walk>>
            ELSE <<>>)

TerminalAt(l, t, regs, st) ==
  IF regs = <<>> THEN Results(st, <<>>)
  ELSE Walked(st, regs[1][2], Walk(l, t, regs, 0, TRUE, st.seqs),
              Walk(l, t, regs, 0, TRUE, <<>>))

Terminal(l, t, pos, st) == TerminalAt(l, t, Match(l.ctype, t, pos, Len(t)), st)

RECURSIVE Parse(_, _, _, _), ParseUncached(_, _, _, _), ParseStar(_, _, _)

(* One more component behind each of the results.                            *)
Extend(from, c, t) ==
  ForEach(from, LAMBDA r, s : Mapped(Parse(c, t, r.end, s), LAMBDA more : Merge(r, more)))

(* parse: what is at work, and what it leaves.                               *)
Remembered(at, from) ==
  Results([from.st EXCEPT !.busy = @ \ {at}, !.memo = (at :> from.rs) @@ @], from.rs)

Parse(l, t, pos, st) ==
  LET at == <<l, pos>>
  IN  IF at \in DOMAIN st.memo THEN Results(st, st.memo[at])
      ELSE IF at \in st.busy THEN Results(st, <<>>)
      ELSE Remembered(at, Deduped(ParseUncached(l, t, pos, [st EXCEPT !.busy = @ \cup {at}])))

(* parseRecConcat *)
ParseConcat(kids, t, pos, st) ==
  FoldLeft(LAMBDA from, c : Deduped(Extend(from, c, t)),
           Results(st, <<Nothing("concat", pos)>>), kids)

(* parseStar: one round, and those behind it.                                *)
Round(child, t, last) ==
  ForEach(last, LAMBDA r, s : Kept(Extend(Results(s, <<r>>), child, t),
                                   LAMBDA more : more.end > r.end))
Onward(child, t, round) == Added(round, ParseStar(child, t, Deduped(round)))

ParseStar(child, t, last) ==
  IF last.rs = <<>> THEN last ELSE Onward(child, t, Round(child, t, last))

SquareAround(r) == [r EXCEPT !.skel = Skeleton("square", <<>>, <<@>>)]

(* The square of a recursive lens: three components, the outer two the same. *)
ParseSquare(kids, t, pos, st) ==
  ForEach(Extend(Results(st, <<Nothing("concat", pos)>>), kids[1], t), LAMBDA one, s1 :
    ForEach(Extend(Results(s1, <<one>>), kids[2], t), LAMBDA two, s2 :
      Mapped(Kept(Extend(Results(s2, <<two>>), kids[3], t), LAMBDA r :
                    Substring(t, <<pos, one.end>>) = Substring(t, <<two.end, r.end>>)),
             SquareAround)))

(* The subtree around what one parse of its child found.                     *)
SubtreeAround(r) ==
  [Nothing("subtree", r.end) EXCEPT
     !.forest = <<[label |-> r.key, value |-> r.val, children |-> r.forest]>>,
     !.dict = <<[label |-> r.key, skel |-> r.skel, dict |-> r.dict]>>]

ParseUncached(l, t, pos, st) ==
  CASE ~l.recursive -> Terminal(l, t, pos, st)
    [] l.tag = "rec" -> Parse(Body(l.str), t, pos, st)
    [] l.tag = "subtree" -> Mapped(Parse(l.kids[1], t, pos, st), SubtreeAround)
    [] l.tag = "maybe" ->
         [Parse(l.kids[1], t, pos, st) EXCEPT !.rs = Append(@, Nothing("maybe", pos))]
    [] l.tag = "union" ->
         FoldLeft(LAMBDA sofar, c : Added(sofar, Parse(c, t, pos, sofar.st)),
                  Results(st, <<>>), l.kids)
    [] l.tag = "concat" -> ParseConcat(l.kids, t, pos, st)
    [] l.tag = "star" ->
         LET none == Results(st, <<Nothing("star", pos)>>)
         IN  Added(none, ParseStar(l.kids[1], t, none))
    [] l.tag = "square" -> ParseSquare(l.kids[1].kids, t, pos, st)

(* getRec and parseRecTop: the first result that ends with the text.         *)
RecParseAll(l, t) ==
  LET rs == SelectSeq(Parse(l, t, 0, Fresh).rs, LAMBDA r : r.end = Len(t))
  IN  IF rs = <<>> THEN Failed(<<>>) ELSE rs[1]
=============================================================================
