--------------------------- MODULE CaptureRegexp ---------------------------
(***************************************************************************)
(* Regular expressions with groups (regex.go), and the match Go's regexp   *)
(* package makes of them once Longest has been called: the longest match   *)
(* from the start, and of the ways to make it the one a backtracking       *)
(* matcher would try first.                                                *)
(*                                                                         *)
(* A text is a sequence of tokens; an offset is a number of tokens.  A     *)
(* token stands for a word whose inside no lens looks at.  Each expression *)
(* carries its number of groups (nsub).                                    *)
(***************************************************************************)
LOCAL INSTANCE Integers
LOCAL INSTANCE Sequences
LOCAL INSTANCE SequencesExt
LOCAL INSTANCE Functions

(* F(x) for each x of a sequence, joined. *)
FlatMap(F(_), seq) == FoldLeft(LAMBDA sofar, x : sofar \o F(x), <<>>, seq)

Groups(rs) == FoldLeft(LAMBDA n, r : n + r.nsub, 0, rs)

Eps == [op |-> "eps", nsub |-> 0]
OneOf(tokens) == [op |-> "oneOf", set |-> tokens, nsub |-> 0]
Cat(rs) == [op |-> "cat", args |-> rs, nsub |-> Groups(rs)]
Alt(rs) == [op |-> "alt", args |-> rs, nsub |-> Groups(rs)]
Iter(r) == [op |-> "iter", arg |-> r, nsub |-> r.nsub]
Opt(r) == [op |-> "opt", arg |-> r, nsub |-> r.nsub]
Group(r) == [op |-> "group", arg |-> r, nsub |-> r.nsub + 1]

(* regexpMakeEmpty, regexpMaybe, makeRegexpLiteral, regexpUnionN *)
EmptyR == Group(Eps)
MaybeR(r) == Opt(Group(r))
Literal(word) == Cat([i \in DOMAIN word |-> OneOf({word[i]})])
UnionN(rs) == Alt([i \in DOMAIN rs |-> Group(rs[i])])

(* regexpConcatCap: operand i has a group of its own when captured[i]. *)
ConcatCap(rs, captured) ==
  Cat([i \in DOMAIN rs |-> IF captured[i] THEN Group(rs[i]) ELSE rs[i]])
ConcatN(rs) == ConcatCap(rs, [i \in DOMAIN rs |-> TRUE])

-----------------------------------------------------------------------------
(* A way to match from an offset: the end and, per group, its start and end. *)
Unset(n) == [i \in 1 .. n |-> <<-1, -1>>]
Way(end, regs) == [end |-> end, regs |-> regs]

(* Of two ways that end at the same offset the later one is never needed. *)
FirstPerEnd(ways) ==
  FoldLeft(LAMBDA kept, w : IF \E i \in DOMAIN kept : kept[i].end = w.end
                              THEN kept ELSE Append(kept, w),
           <<>>, ways)

(* A repetition that does not use a group leaves it as the last one set it. *)
Overlay(old, new) ==
  [i \in DOMAIN old |-> IF new[i] = <<-1, -1>> THEN old[i] ELSE new[i]]

RECURSIVE Ways(_, _, _), Repeat(_, _, _, _)

(* The ways r matches t from offset i, the preferred ones first. *)
Ways(r, t, i) ==
  CASE r.op = "eps" -> <<Way(i, <<>>)>>
    [] r.op = "oneOf" ->
         IF i < Len(t) /\ t[i + 1] \in r.set THEN <<Way(i + 1, <<>>)>> ELSE <<>>
    [] r.op = "group" ->
         FlatMap(LAMBDA w : <<Way(w.end, <<<<i, w.end>>>> \o w.regs)>>, Ways(r.arg, t, i))
    [] r.op = "opt" -> FirstPerEnd(Append(Ways(r.arg, t, i), Way(i, Unset(r.nsub))))
    [] r.op = "iter" -> Repeat(r.arg, t, i, Unset(r.nsub))
    [] r.op = "cat" ->
         FoldLeft(LAMBDA before, q :
                    FirstPerEnd(FlatMap(LAMBDA v :
                      FlatMap(LAMBDA w : <<Way(w.end, v.regs \o w.regs)>>, Ways(q, t, v.end)),
                      before)),
                  <<Way(i, <<>>)>>, r.args)
    [] r.op = "alt" ->
         FirstPerEnd(FlatMap(LAMBDA k :
           FlatMap(LAMBDA w :
                     <<Way(w.end, Unset(Groups(SubSeq(r.args, 1, k - 1))) \o w.regs
                                    \o Unset(Groups(SubSeq(r.args, k + 1, Len(r.args)))))>>,
                   Ways(r.args[k], t, i)),
           [k \in DOMAIN r.args |-> k]))

Repeat(r, t, i, regs) ==
  LET once == SelectSeq(Ways(r, t, i), LAMBDA w : w.end > i)
  IN  FirstPerEnd(
        Append(FlatMap(LAMBDA w : Repeat(r, t, w.end, Overlay(regs, w.regs)), once),
               Way(i, regs)))

(* The registers of the longest way, group 0 first; none without a way.      *)
Registers(start, ways) ==
  LET longest == CHOOSE i \in DOMAIN ways :
                   \A j \in DOMAIN ways : ways[j].end <= ways[i].end
      Array(w) == <<<<start, w.end>>>> \o w.regs
  IN  IF ways = <<>> THEN <<>> ELSE Array(ways[longest])

(* match: the longest match within t[start..end].                            *)
Match(r, t, start, end) == Registers(start, Ways(r, SubSeq(t, 1, end), start))

(* The check for a match of the whole of t that several callers make. *)
MatchesAll(r, t) ==
  LET ways == Ways(r, t, 0) IN \E i \in DOMAIN ways : ways[i].end = Len(t)
=============================================================================
