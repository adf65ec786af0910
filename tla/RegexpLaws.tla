----------------------------- MODULE RegexpLaws -----------------------------
(* What subtracting one regexp from another promises: the words of the first
   that the second does not match.  The reference reads patterns off directly,
   as the positions at which a match of a prefix may end. *)
EXTENDS Automata

CONSTANTS
    Regexps,    \* the regexps to subtract, [re, nocase]
    MaxWord     \* length of the words the answer is compared on

VARIABLES left, right

Nothing == [re |-> <<"nothing">>, nocase |-> FALSE]    \* no subtraction is asked for

Matched(re, i, v) ==
    \/ re[1] = "lit" /\ v \in LiteralRunes(re, i)
    \/ re[1] = "class" /\ re[2][i][1] <= v /\ v <= re[2][i][2]

OneRune(re, v) ==
    CASE re[1] = "class" -> \E i \in DOMAIN re[2] : Matched(re, i, v)
      [] re[1] = "any" -> TRUE
      [] re[1] = "anynotnl" -> v # Newline

RECURSIVE Ends(_, _, _), EndsOfRunes(_, _, _, _), EndsOfAll(_, _, _, _)
RECURSIVE EndsOfStar(_, _, _)
EndsOfRunes(re, i, w, S) ==
    IF i > Len(re[2]) THEN S
    ELSE EndsOfRunes(re, i + 1, w,
                     {p + 1 : p \in {q \in S : q < Len(w) /\ Matched(re, i, w[q + 1])}})
EndsOfAll(subs, i, w, S) ==
    IF i > Len(subs) THEN S ELSE EndsOfAll(subs, i + 1, w, Ends(subs[i], w, S))
EndsOfStar(re, w, S) ==
    LET more == S \cup Ends(re, w, S)
    IN  IF more = S THEN S ELSE EndsOfStar(re, w, more)
Ends(re, w, S) ==
    CASE re[1] = "lit" -> EndsOfRunes(re, 1, w, S)
      [] re[1] \in {"class", "any", "anynotnl"} ->
            {p + 1 : p \in {q \in S : q < Len(w) /\ OneRune(re, w[q + 1])}}
      [] re[1] = "concat" -> EndsOfAll(re[2], 1, w, S)
      [] re[1] = "alt" -> UNION {Ends(re[2][i], w, S) : i \in DOMAIN re[2]}
      [] re[1] = "star" -> EndsOfStar(re[2], w, S)
      [] re[1] = "plus" -> EndsOfStar(re[2], w, Ends(re[2], w, S))
      [] re[1] = "quest" -> S \cup Ends(re[2], w, S)
      [] re[1] = "empty" -> S

Matches(r, w) == Len(w) \in Ends(Re2(r), w, {0})

Words == UNION {[1..n -> Runes] : n \in 0..MaxWord}

Language(r) == {w \in Words : Matches(r, w)}

-----------------------------------------------------------------------------
SomeMinus == left \in Regexps /\ right \in Regexps
NoMinus == left = Nothing /\ right = Nothing

(* minus_fa.go:13: faMinus returns a regexp for the words of r1 that r2 does
   not match; it gives up only when there is none. *)
MinusIsDifference ==
    LET d == FaMinus(left, right)
    IN  left # Nothing =>
          Language(left) \ Language(right) = IF d.ok THEN Language(d) ELSE {}
=============================================================================
