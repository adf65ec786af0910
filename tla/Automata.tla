------------------------------ MODULE Automata ------------------------------
(* Regexp subtraction over finite automata (internal/interp/automata.go, dfa.go,
   minus_fa.go): both patterns become automata over one alphabet of symbols,
   the first is intersected with the complement of the second, and the product
   is turned back into a pattern by state elimination.

   A pattern is a parsed regexp/syntax tree: <<"lit", runes, fold>>,
   <<"class", ranges>>, <<"any">>, <<"anynotnl">>, <<"concat", subs>>,
   <<"alt", subs>>, <<"star", sub>>, <<"plus", sub>>, <<"quest", sub>> or
   <<"empty">>.  Runes up to MaxByte are one symbol wide (255 in the code). *)
EXTENDS Integers, Sequences, FiniteSets, SequencesExt

CONSTANTS
    MaxByte,
    Newline,
    Utf8,       \* the bytes of every rune above MaxByte
    Variants    \* per rune, its case variants with the rune itself

Runes == 0..MaxByte \cup DOMAIN Utf8

Symbol(lo, hi) == <<lo, hi>>
Epsilon == <<-1, -1>>

-----------------------------------------------------------------------------
(* The boundaries of the ranges a pattern tells apart. *)
Bound(lo, hi) == {lo, hi + 1}
RuneBounds(v) ==
    IF v <= MaxByte THEN Bound(v, v)
    ELSE UNION {Bound(Utf8[v][i], Utf8[v][i]) : i \in DOMAIN Utf8[v]}
LiteralRunes(re, i) == IF re[3] THEN Variants[re[2][i]] ELSE {re[2][i]}

RECURSIVE Bounds(_)
Bounds(re) ==
    CASE re[1] = "lit" ->
            UNION {UNION {RuneBounds(v) : v \in LiteralRunes(re, i)} :
                     i \in DOMAIN re[2]}
      [] re[1] = "class" ->
            UNION {Bound(re[2][i][1], re[2][i][2]) : i \in DOMAIN re[2]}
      [] re[1] = "anynotnl" -> Bound(Newline, Newline)
      [] re[1] \in {"concat", "alt"} -> UNION {Bounds(re[2][i]) : i \in DOMAIN re[2]}
      [] re[1] \in {"star", "plus", "quest"} -> Bounds(re[2])
      [] OTHER -> {}

(* The intervals between two neighbouring cuts, in order. *)
Alphabet(re1, re2) ==
    LET cuts == SetToSortSeq(
                  {c \in {0, MaxByte + 1} \cup Bounds(re1) \cup Bounds(re2) :
                     c <= MaxByte + 1}, <)
    IN  [i \in 1..Len(cuts) - 1 |-> Symbol(cuts[i], cuts[i + 1] - 1)]

(* The symbols that lie within a range, which is cut off at MaxByte. *)
SymsForRange(ab, lo, hi) ==
    LET top == IF hi > MaxByte THEN MaxByte ELSE hi
    IN  {ab[i] : i \in {j \in DOMAIN ab : ab[j][1] >= lo /\ ab[j][2] <= top}}

-----------------------------------------------------------------------------
(* Thompson's construction.  A fragment has a start s, an accept state a, its
   edges <<from, symbol, to>>, and n, the next free state. *)
Frag(s, a, edges, n) == [s |-> s, a |-> a, edges |-> edges, n |-> n]

SymsFrag(syms, n) == Frag(n, n + 1, {<<n, y, n + 1>> : y \in syms}, n + 2)

(* One rune from a state to another: itself, or its bytes through new states. *)
RunePath(v, from, to, n, ab) ==
    IF v <= MaxByte
    THEN Frag(from, to, {<<from, y, to>> : y \in SymsForRange(ab, v, v)}, n)
    ELSE LET bytes == Utf8[v]
             state(i) == IF i = 0 THEN from
                         ELSE IF i = Len(bytes) THEN to ELSE n + i - 1
         IN  Frag(from, to,
                  UNION {{<<state(i - 1), y, state(i)>> :
                            y \in SymsForRange(ab, bytes[i], bytes[i])} :
                           i \in DOMAIN bytes},
                  n + Len(bytes) - 1)

RECURSIVE VariantPaths(_, _, _, _, _)
VariantPaths(vs, from, to, n, ab) ==
    IF vs = {} THEN Frag(from, to, {}, n)
    ELSE LET v == CHOOSE x \in vs : TRUE
             p == RunePath(v, from, to, n, ab)
             r == VariantPaths(vs \ {v}, from, to, p.n, ab)
         IN  Frag(from, to, p.edges \cup r.edges, r.n)

RECURSIVE LiteralFrag(_, _, _, _)
LiteralFrag(re, i, f, ab) ==
    IF i > Len(re[2]) THEN f
    ELSE LET p == VariantPaths(LiteralRunes(re, i), f.a, f.n, f.n + 1, ab)
         IN  LiteralFrag(re, i + 1, Frag(f.s, p.a, f.edges \cup p.edges, p.n), ab)

RECURSIVE Build(_, _, _), BuildConcat(_, _, _, _), BuildAlt(_, _, _, _)
Build(re, n, ab) ==
    CASE re[1] = "lit" -> LiteralFrag(re, 1, Frag(n, n, {}, n + 1), ab)
      [] re[1] = "class" ->
            SymsFrag(UNION {SymsForRange(ab, re[2][i][1], re[2][i][2]) :
                              i \in DOMAIN re[2]}, n)
      [] re[1] = "any" -> SymsFrag(SymsForRange(ab, 0, MaxByte), n)
      [] re[1] = "anynotnl" ->
            SymsFrag(SymsForRange(ab, 0, Newline - 1)
                       \cup SymsForRange(ab, Newline + 1, MaxByte), n)
      [] re[1] = "concat" -> BuildConcat(re[2], 2, Build(re[2][1], n, ab), ab)
      [] re[1] = "alt" -> BuildAlt(re[2], 1, Frag(n, n + 1, {}, n + 2), ab)
      [] re[1] = "plus" ->
            LET g == Build(re[2], n, ab)
            IN  Frag(g.s, g.n,
                     g.edges \cup {<<g.a, Epsilon, g.s>>, <<g.a, Epsilon, g.n>>},
                     g.n + 1)
      [] re[1] \in {"star", "quest"} ->
            LET g    == Build(re[2], n, ab)
                loop == IF re[1] = "star" THEN {<<g.a, Epsilon, g.s>>} ELSE {}
            IN  Frag(g.n, g.n + 1,
                     g.edges \cup loop
                       \cup {<<g.n, Epsilon, g.s>>, <<g.n, Epsilon, g.n + 1>>,
                             <<g.a, Epsilon, g.n + 1>>},
                     g.n + 2)
      [] OTHER -> Frag(n, n + 1, {<<n, Epsilon, n + 1>>}, n + 2)
BuildConcat(subs, i, f, ab) ==
    IF i > Len(subs) THEN f
    ELSE LET g == Build(subs[i], f.n, ab)
         IN  BuildConcat(subs, i + 1,
                 Frag(f.s, g.a, f.edges \cup g.edges \cup {<<f.a, Epsilon, g.s>>},
                      g.n), ab)
BuildAlt(subs, i, f, ab) ==
    IF i > Len(subs) THEN f
    ELSE LET g == Build(subs[i], f.n, ab)
         IN  BuildAlt(subs, i + 1,
                 Frag(f.s, f.a,
                      f.edges \cup g.edges
                        \cup {<<f.s, Epsilon, g.s>>, <<g.a, Epsilon, f.a>>},
                      g.n), ab)

-----------------------------------------------------------------------------
Targets(nfa, states, y) == {e[3] : e \in {x \in nfa.edges : x[1] \in states /\ x[2] = y}}

RECURSIVE EpsClosure(_, _)
EpsClosure(nfa, states) ==
    LET more == states \cup Targets(nfa, states, Epsilon)
    IN  IF more = states THEN states ELSE EpsClosure(nfa, more)

(* A deterministic automaton: states, start, accept (a set of states) and trans,
   <<state, symbol, state>>, where a transition may be missing.  The subset
   construction names a state by its set of states of the nfa. *)
Step(nfa, set, y) == EpsClosure(nfa, Targets(nfa, set, y))

RECURSIVE Subsets(_, _, _)
Subsets(nfa, syms, sets) ==
    LET more == sets \cup ({Step(nfa, x, y) : x \in sets, y \in syms} \ {{}})
    IN  IF more = sets THEN sets ELSE Subsets(nfa, syms, more)

Determinize(nfa, ab) ==
    LET start == EpsClosure(nfa, {nfa.s})
        sets  == Subsets(nfa, ToSet(ab), {start})
    IN  [states |-> sets,
         start |-> start,
         accept |-> {x \in sets : nfa.a \in x},
         trans |-> {e \in {<<x, y, Step(nfa, x, y)>> : x \in sets, y \in ToSet(ab)} :
                      e[3] # {}}]

(* A dead state takes the transitions that are missing, if any are. *)
Dead == {}
Complete(d, ab) ==
    LET lacking == (d.states \X ToSet(ab)) \ {<<e[1], e[2]>> : e \in d.trans}
    IN  IF lacking = {} THEN d
        ELSE [d EXCEPT !.states = @ \cup {Dead},
                       !.trans = @ \cup {<<x[1], x[2], Dead>> : x \in lacking}
                                   \cup {<<Dead, y, Dead>> : y \in ToSet(ab)}]

(* Mutant of Complement: of an automaton that is not completed. *)
ComplementAsIs(d, ab) == [d EXCEPT !.accept = d.states \ d.accept]

Complement(d, ab) ==
    LET c == Complete(d, ab)
    IN  [c EXCEPT !.accept = c.states \ c.accept]

(* The states that the transitions lead to from a set of states. *)
RECURSIVE Reached(_, _)
Reached(trans, states) ==
    LET more == states \cup {e[3] : e \in {x \in trans : x[1] \in states}}
    IN  IF more = states THEN states ELSE Reached(trans, more)

(* The product of two completed automata, as far as it is reached. *)
Intersect(d1, d2, ab) ==
    LET c     == Complete(d1, ab)
        o     == Complete(d2, ab)
        start == <<c.start, o.start>>
        trans == {<<<<x[1], z[1]>>, x[2], <<x[3], z[3]>>>> :
                    <<x, z>> \in {p \in c.trans \X o.trans : p[1][2] = p[2][2]}}
        pairs == Reached(trans, {start})
    IN  [states |-> pairs,
         start |-> start,
         accept |-> pairs \cap (c.accept \X o.accept),
         trans |-> {e \in trans : e[1] \in pairs}]

NonEmpty(d) == Reached(d.trans, {d.start}) \cap d.accept # {}

-----------------------------------------------------------------------------
(* How patterns are put together: Empty, for no input, is left out. *)
Empty == <<"empty">>
Parts(a) == IF a[1] = "concat" THEN a[2] ELSE <<a>>
ReConcat(a, b) ==
    IF a = Empty THEN b ELSE IF b = Empty THEN a
    ELSE <<"concat", Parts(a) \o Parts(b)>>

(* The star of the label of a loop, if there is one. *)
ReStar(labels) ==
    IF labels \subseteq {Empty} THEN Empty
    ELSE <<"star", CHOOSE l \in labels : TRUE>>

(* The union of an edge's label, if it has one, with the label of a new way. *)
ReUnion(labels, b) ==
    IF labels \subseteq {b} THEN b ELSE <<"alt", <<CHOOSE l \in labels : TRUE, b>>>>

(* The bytes of a set of symbols as a class: neighbouring intervals become one
   range. *)
CharClass(syms) ==
    LET bytes  == UNION {y[1]..y[2] : y \in syms}
        starts == SetToSortSeq({b \in bytes : b - 1 \notin bytes}, <)
        last(b) == CHOOSE e \in bytes :
                     e + 1 \notin bytes /\ b <= e /\ b..e \subseteq bytes
    IN  <<"class", [i \in DOMAIN starts |-> <<starts[i], last(starts[i])>>]>>

(* A graph with one label at most on every edge <<from, label, to>>, and a start
   and an accept node of its own. *)
StartNode == <<"start">>
AcceptNode == <<"accept">>

Graph(d) ==
    LET ends == {<<e[1], e[3]>> : e \in d.trans}
        syms(x) == {e[2] : e \in {t \in d.trans : <<t[1], t[3]>> = x}}
    IN  {<<x[1], CharClass(syms(x)), x[2]>> : x \in ends}
          \cup {<<StartNode, Empty, d.start>>}
          \cup {<<x, Empty, AcceptNode>> : x \in d.accept}

LabelsOf(R, i, j) == {e[2] : e \in {x \in R : x[1] = i /\ x[3] = j}}

(* A state is taken out: every way through it joins the edge around it.  The
   code takes the states in the order it met them; the order shows in the
   pattern, and not in what it matches. *)
WithoutState(R, k) ==
    LET loop   == ReStar(LabelsOf(R, k, k))
        around == {e \in R : k \notin {e[1], e[3]}}
        ways   == {<<a[1], ReConcat(a[2], ReConcat(loop, b[2])), b[3]>> :
                     <<a, b>> \in {p \in R \X R : /\ p[1][3] = k /\ p[1][1] # k
                                                /\ p[2][1] = k /\ p[2][3] # k}}
    IN  {e \in around : \A w \in ways : <<w[1], w[3]>> # <<e[1], e[3]>>}
          \cup {<<w[1], ReUnion(LabelsOf(around, w[1], w[3]), w[2]), w[3]>> : w \in ways}

RECURSIVE Eliminate(_, _)
Eliminate(R, states) ==
    IF states = {} THEN R
    ELSE LET k == CHOOSE x \in states : TRUE
         IN  Eliminate(WithoutState(R, k), states \ {k})

ToRegexp(d) ==
    LET R == Eliminate(Graph(d), d.states)
    IN  CHOOSE l \in LabelsOf(R, StartNode, AcceptNode) : TRUE

-----------------------------------------------------------------------------
(* The pattern that (?i) makes of one: the parser closes the classes itself and
   leaves the literals a flag. *)
FoldRange(r) ==
    LET runes == UNION {Variants[v] : v \in {x \in Runes : r[1] <= x /\ x <= r[2]}}
    IN  CharClass({Symbol(v, v) : v \in runes})[2]

RECURSIVE FoldCase(_)
FoldCase(re) ==
    CASE re[1] = "lit" -> <<"lit", re[2], TRUE>>
      [] re[1] = "class" ->
            <<"class", FlattenSeq([i \in DOMAIN re[2] |-> FoldRange(re[2][i])])>>
      [] re[1] \in {"concat", "alt"} ->
            <<re[1], [i \in DOMAIN re[2] |-> FoldCase(re[2][i])]>>
      [] re[1] \in {"star", "plus", "quest"} -> <<re[1], FoldCase(re[2])>>
      [] OTHER -> re

Re2(r) == IF r.nocase THEN FoldCase(r.re) ELSE r.re

(* r1 - r2, or no regexp at all when nothing is left. *)
FaMinus(r1, r2) ==
    LET p1  == Re2(r1)
        p2  == Re2(r2)
        ab  == Alphabet(p1, p2)
        d1  == Determinize(Build(p1, 1, ab), ab)
        d2  == Determinize(Build(p2, 1, ab), ab)
        res == Intersect(d1, Complement(d2, ab), ab)
    IN  IF NonEmpty(res)
        THEN [ok |-> TRUE, re |-> ToRegexp(res), nocase |-> r1.nocase /\ r2.nocase]
        ELSE [ok |-> FALSE]
=============================================================================
