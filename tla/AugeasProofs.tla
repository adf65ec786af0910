----------------------------- MODULE AugeasProofs -----------------------------
(***************************************************************************)
(* What the editing handle keeps, for every set of inputs and any number   *)
(* of nodes: the types, the agreement of the tree's links, and that of the *)
(* subtrees which variables hold outside the tree.  Then, for the theorems *)
(* of RefinementProofs, what a change of the links does to a tree, and what *)
(* the evaluation of a path finds in a heap and in one that has grown.     *)
(***************************************************************************)
EXTENDS HeapAndTextProofs, AugeasProperties

(* A mark spells itself. *)
LEMMA MarkSpelled ==
  ASSUME NEW c \in Mark
  PROVE  Spell(c) = <<Ch(c)>> /\ \A marks : c \in marks => Has(c, marks)
<1>1. c # ""
  BY DEF Mark
<1>2. Spell(c) = <<Ch(c)>>
  BY <1>1, SpellingAssumption DEF Spell
<1>3. 1 \in DOMAIN <<Ch(c)>> /\ <<Ch(c)>>[1] = Ch(c)
  OBVIOUS
<1> QED
  BY <1>2, <1>3 DEF Has

LEMMA CreatableIs ==
  ASSUME NEW seg, Creatable(seg)
  PROVE  seg.name \notin {"", "*"} /\ seg.preds = <<>>
<1>1. "*" \in Mark /\ "*" \in {"[", "]", "*", "|"}
  BY DEF Mark
<1>2. Has("*", {"[", "]", "*", "|"})
  BY <1>1, MarkSpelled
<1> QED
  BY <1>2 DEF Creatable

LEMMA InsertLabel ==
  ASSUME NEW m, NEW label, InsertValid(m, label)
  PROVE  label \notin {"", "*"}
<1>1. "*" \in Mark /\ "*" \in {"/", "[", "]", "*"}
  BY DEF Mark
<1>2. Has("*", {"/", "[", "]", "*"})
  BY <1>1, MarkSpelled
<1> QED
  BY <1>2 DEF InsertValid

(* Sequences over T. *)
Lists(s, n, T) == s = [i \in 1 .. n |-> s[i]] /\ \A i \in 1 .. n : s[i] \in T

LEMMA SequenceIs ==
  ASSUME NEW T, NEW n \in Nat, NEW s, Lists(s, n, T)
  PROVE  s \in Seq(T)
<1>1. s \in [1 .. n -> T]
  BY DEF Lists
<1> QED
  BY <1>1

LEMMA OneIs ==
  ASSUME NEW T, NEW x \in T
  PROVE  <<x>> \in Seq(T)
<1>1. <<x>> = Append(<<>>, x)
  OBVIOUS
<1> QED
  BY <1>1

LEMMA PrependIs ==
  ASSUME NEW T, NEW x \in T, NEW t \in Seq(T)
  PROVE  <<x>> \o t \in Seq(T)
BY OneIs

-----------------------------------------------------------------------------
(* Paths evaluate to sequences of allocated nodes.  Each loop of the         *)
(* evaluator keeps its result a sequence of the nodes it was given.          *)

NamedRound(h, name, out, n) == IF NameMatch(name, h.label[n]) THEN Append(out, n) ELSE out
NamedLoop == INSTANCE Loops WITH Body <- NamedRound

LEMMA NamedIs ==
  ASSUME NEW h, NEW T, NEW nodes \in Seq(T), NEW name
  PROVE  Named(h, nodes, name) \in Seq(T)
<1>1. Named(h, nodes, name) = NamedLoop!Result(<<>>, nodes, h, name)
  BY DEF Named, Seqs!FoldLeft, Seqs!MapThenFoldSet, Seqs!Max, NamedLoop!Result, NamedLoop!IsLoop, NamedLoop!Greatest, NamedRound
<1>2. /\ <<>> \in Seq(T) /\ Len(nodes) \in Nat /\ DOMAIN nodes = 1 .. Len(nodes)
      /\ \A k \in DOMAIN nodes : nodes[k] \in T
  OBVIOUS
<1>3. NamedLoop!Stays(Seq(T), <<>>, nodes, h, name)
  <2>1. \A out \in Seq(T) : \A k \in DOMAIN nodes : NamedRound(h, name, out, nodes[k]) \in Seq(T)
    BY <1>2 DEF NamedRound
  <2>2. \E n \in Nat : DOMAIN nodes = 1 .. n
    BY <1>2
  <2> QED
    BY <1>2, <2>1, <2>2 DEF NamedLoop!Stays
<1> QED
  BY <1>1, <1>3, NamedLoop!LoopKeeps

SatisfyingRound(q, p, out, i) ==
  IF PredHolds(q[1], q[2][i], p, i, Len(q[2])) THEN Append(out, q[2][i]) ELSE out
SatisfyingLoop == INSTANCE Loops WITH Body <- SatisfyingRound

LEMMA SatisfyingIs ==
  ASSUME NEW h, NEW T, NEW cs \in Seq(T), NEW p
  PROVE  Satisfying(h, cs, p) \in Seq(T)
<1> DEFINE xs == [i \in DOMAIN cs |-> i]
           q == <<h, cs>>
<1>1. Satisfying(h, cs, p) = SatisfyingLoop!Result(<<>>, xs, q, p)
  BY DEF Satisfying, Seqs!FoldLeft, Seqs!MapThenFoldSet, Seqs!Max, SatisfyingLoop!Result, SatisfyingLoop!IsLoop,
         SatisfyingLoop!Greatest, SatisfyingRound
<1>2. /\ <<>> \in Seq(T) /\ Len(cs) \in Nat /\ DOMAIN xs = 1 .. Len(cs)
      /\ \A k \in DOMAIN xs : xs[k] = k /\ q[2][k] \in T
  OBVIOUS
<1> HIDE DEF xs, q
<1>3. SatisfyingLoop!Stays(Seq(T), <<>>, xs, q, p)
  BY <1>2 DEF SatisfyingLoop!Stays, SatisfyingRound
<1> QED
  BY <1>1, <1>3, SatisfyingLoop!LoopKeeps

PredsRound(h, q, cs, p) == Satisfying(h, cs, p)
PredsLoop == INSTANCE Loops WITH Body <- PredsRound

LEMMA ApplyPredsIs ==
  ASSUME NEW h, NEW T, NEW cands \in Seq(T), NEW preds, NEW n \in Nat, DOMAIN preds = 1 .. n
  PROVE  ApplyPreds(h, cands, preds) \in Seq(T)
<1>1. ApplyPreds(h, cands, preds) = PredsLoop!Result(cands, preds, h, 0)
  BY DEF ApplyPreds, Seqs!FoldLeft, Seqs!MapThenFoldSet, Seqs!Max, PredsLoop!Result, PredsLoop!IsLoop,
         PredsLoop!Greatest, PredsRound
<1>2. PredsLoop!Stays(Seq(T), cands, preds, h, 0)
  BY SatisfyingIs DEF PredsLoop!Stays, PredsRound
<1> QED
  BY <1>1, <1>2, PredsLoop!LoopKeeps

DedupRound(p, q, out, n) == IF Seqs!Contains(out, n) THEN out ELSE Append(out, n)
DedupLoop == INSTANCE Loops WITH Body <- DedupRound

LEMMA DedupIs ==
  ASSUME NEW T, NEW nodes \in Seq(T)
  PROVE  Dedup(nodes) \in Seq(T)
<1>1. Dedup(nodes) = DedupLoop!Result(<<>>, nodes, 0, 0)
  BY DEF Dedup, Seqs!FoldLeft, Seqs!MapThenFoldSet, Seqs!Max, DedupLoop!Result, DedupLoop!IsLoop, DedupLoop!Greatest, DedupRound
<1>2. /\ <<>> \in Seq(T) /\ Len(nodes) \in Nat /\ DOMAIN nodes = 1 .. Len(nodes)
      /\ \A k \in DOMAIN nodes : nodes[k] \in T
  OBVIOUS
<1>3. DedupLoop!Stays(Seq(T), <<>>, nodes, 0, 0)
  <2>1. \A out \in Seq(T) : \A k \in DOMAIN nodes : DedupRound(0, 0, out, nodes[k]) \in Seq(T)
    BY <1>2 DEF DedupRound
  <2>2. \E n \in Nat : DOMAIN nodes = 1 .. n
    BY <1>2
  <2> QED
    BY <1>2, <2>1, <2>2 DEF DedupLoop!Stays
<1> QED
  BY <1>1, <1>3, DedupLoop!LoopKeeps

FlattenRound(ss, q, s, k) == IF k = 1 THEN ss[k] ELSE s \o ss[k]
FlattenRounds == INSTANCE Loops WITH Body <- FlattenRound

IsFlat(f, ss) ==
  f = [i \in 1 .. Len(ss) |-> IF i = 1 THEN ss[i] ELSE f[i - 1] \o ss[i]]

(* FlattenSeq appends one sequence after the other.                          *)
Flattens(flat, ss) ==
  /\ Seqs!FlattenSeq(ss) = flat[Len(ss)]
  /\ \A k \in 1 .. Len(ss) : flat[k] = IF k = 1 THEN ss[k] ELSE flat[k - 1] \o ss[k]

LEMMA FlattenSteps ==
  ASSUME NEW T, NEW ss \in Seq(Seq(T)), Len(ss) # 0
  PROVE  \E flat : Flattens(flat, ss)
<1> DEFINE n == Len(ss)
           R == FlattenRounds!Rounds(<<>>, n, ss, 0)
           flat == CHOOSE f : IsFlat(f, ss)
<1>1. n \in Nat /\ n # 0 /\ (\A k \in 1 .. n : ss[k] \in Seq(T)) /\ <<>> \in Seq(T)
  OBVIOUS
<1> HIDE DEF n
<1>2. R \in [0 .. n -> Seq(T)] /\ FlattenRounds!IsRounds(R, <<>>, n, ss, 0)
  <2>1. \A s \in Seq(T) : \A k \in 1 .. n : FlattenRound(ss, 0, s, k) \in Seq(T)
    BY <1>1 DEF FlattenRound
  <2>2. FlattenRounds!StaysInRounds(Seq(T), n, ss, 0)
    BY <2>1 DEF FlattenRounds!StaysInRounds
  <2> QED
    BY <1>1, <2>2, FlattenRounds!RoundsStay
<1> HIDE DEF R
<1>3. \A k \in 1 .. n : R[k] = IF k = 1 THEN ss[k] ELSE R[k - 1] \o ss[k]
  <2>1. \A k \in 1 .. n : k \in 0 .. n /\ k # 0
    BY <1>1
  <2> QED
    BY <1>2, <2>1 DEF FlattenRounds!IsRounds, FlattenRound
<1>4. IsFlat([i \in 1 .. n |-> R[i]], ss)
  <2> DEFINE f == [i \in 1 .. n |-> R[i]]
  <2>1. ASSUME NEW k \in 1 .. n PROVE f[k] = IF k = 1 THEN ss[k] ELSE f[k - 1] \o ss[k]
    <3>1. CASE k = 1
      BY <1>3, <3>1
    <3>2. CASE k # 1
      <4>1. k - 1 \in 1 .. n
        BY <1>1, <3>2
      <4> QED
        BY <1>3, <3>2, <4>1
    <3> QED
      BY <3>1, <3>2
  <2>2. DOMAIN f = 1 .. n /\ f = [k \in 1 .. n |-> f[k]]
    OBVIOUS
  <2> HIDE DEF f
  <2> QED
    BY <2>1, <2>2 DEF IsFlat, n, f
<1>5. IsFlat(flat, ss)
  BY <1>4
<1>6. Seqs!FlattenSeq(ss) = flat[n]
  BY <1>1 DEF Seqs!FlattenSeq, IsFlat, n
<1> HIDE DEF flat
<1>7. \A k \in 1 .. n : flat[k] = IF k = 1 THEN ss[k] ELSE flat[k - 1] \o ss[k]
  BY <1>5 DEF IsFlat, n
<1> QED
  BY <1>6, <1>7 DEF Flattens, n

LEMMA FlattenIs ==
  ASSUME NEW T, NEW ss \in Seq(Seq(T))
  PROVE  Seqs!FlattenSeq(ss) \in Seq(T)
<1> DEFINE n == Len(ss)
<1>1. n \in Nat /\ (\A k \in 1 .. n : ss[k] \in Seq(T)) /\ <<>> \in Seq(T)
  OBVIOUS
<1>2. CASE n = 0
  <2>1. ss = <<>>
    BY <1>2
  <2> QED
    BY <2>1 DEF Seqs!FlattenSeq
<1>3. CASE n # 0
  <2>1. PICK flat : Flattens(flat, ss)
    BY <1>3, FlattenSteps
  <2> DEFINE g == [k \in 0 .. n |-> IF k = 0 THEN <<>> ELSE flat[k]]
  <2> HIDE DEF n
  <2>2. Seqs!FlattenSeq(ss) = flat[n] /\ \A k \in 1 .. n : flat[k] = IF k = 1 THEN ss[k] ELSE flat[k - 1] \o ss[k]
    BY <2>1 DEF Flattens, n
  <2>3. ASSUME NEW k \in 1 .. n, g[k - 1] \in Seq(T) PROVE g[k] \in Seq(T)
    <3>1. k \in Nat /\ k \in 0 .. n /\ k # 0 /\ k - 1 \in 0 .. n /\ g[k] = flat[k]
      BY <1>1
    <3>2. CASE k = 1
      BY <1>1, <2>2, <3>1, <3>2
    <3>3. CASE k # 1
      <4>1. g[k - 1] = flat[k - 1]
        BY <3>1, <3>3
      <4>2. flat[k] = flat[k - 1] \o ss[k]
        BY <2>2, <3>3
      <4>3. flat[k - 1] \in Seq(T) /\ ss[k] \in Seq(T)
        BY <1>1, <2>3, <4>1
      <4>4. flat[k - 1] \o ss[k] \in Seq(T)
        BY <4>3
      <4> HIDE DEF g
      <4> QED
        BY <3>1, <4>2, <4>4
    <3> QED
      BY <3>2, <3>3
  <2>4. g[0] \in Seq(T)
    BY <1>1
  <2>5. n \in 0 .. n /\ flat[n] = g[n]
    BY <1>1, <1>3
  <2> HIDE DEF g
  <2>6. g[n] \in Seq(T)
    BY <1>1, <2>3, <2>4, <2>5, FlattenRounds!IterationStays
  <2> QED
    BY <2>2, <2>5, <2>6
<1> QED
  BY <1>2, <1>3

DescendantsRound(h, q, D, k) ==
  [m \in Node |-> Seqs!FlattenSeq([i \in 1 .. h.len[m] |->
                    LET c == Children(h, m)[i] IN <<c>> \o D[c]])]
DescendantsRounds == INSTANCE Loops WITH Body <- DescendantsRound

LEMMA DescendantsIs ==
  ASSUME NEW L, NEW V, NEW h \in Heap(L, V), Shaped(h), NEW n \in Node
  PROVE  Descendants(h, n) \in Seq(h.used)
<1> DEFINE N == Cardinality(Node)
           u == Cardinality(h.used)
           S == [Node -> Seq(h.used)]
           none == [m \in Node |-> <<>>]
<1>1. h.used \in SUBSET Node
  BY DEF Heap
<1>2. u \in 0 .. N /\ N \in Nat
  BY <1>1, UsedMeasured
<1>3. Descendants(h, n) = DescendantsRounds!Rounds(none, N, h, 0)[u][n]
  BY DEF Descendants, DescendantsRounds!Rounds, DescendantsRounds!IsRounds, DescendantsRound
<1>4. ASSUME NEW D \in S, NEW m \in Node
      PROVE  Seqs!FlattenSeq([i \in 1 .. h.len[m] |->
               LET c == Children(h, m)[i] IN <<c>> \o D[c]]) \in Seq(h.used)
  <2> DEFINE ss == [i \in 1 .. h.len[m] |-> LET c == Children(h, m)[i] IN <<c>> \o D[c]]
  <2>1. h.len[m] \in Nat
    BY DEF Heap
  <2>2. \A i \in 1 .. h.len[m] : Children(h, m)[i] \in h.used
    <3>1. Children(h, m) \in Seq(h.used) /\ DOMAIN Children(h, m) = 1 .. h.len[m]
      BY ChildrenAre
    <3>2. \A s \in Seq(h.used) : \A i \in DOMAIN s : s[i] \in h.used
      OBVIOUS
    <3> QED
      BY <3>1, <3>2
  <2>3. \A i \in 1 .. h.len[m] : ss[i] \in Seq(h.used)
    <3> SUFFICES ASSUME NEW i \in 1 .. h.len[m] PROVE ss[i] \in Seq(h.used)
      OBVIOUS
    <3> DEFINE c == Children(h, m)[i]
    <3>1. c \in h.used /\ D[c] \in Seq(h.used)
      BY <1>1, <2>2
    <3> HIDE DEF c, S
    <3>2. <<c>> \o D[c] \in Seq(h.used)
      BY <3>1, PrependIs
    <3> QED
      BY <3>2 DEF c
  <2>4. ss \in Seq(Seq(h.used))
    <3>1. ss = [i \in 1 .. h.len[m] |-> ss[i]]
      OBVIOUS
    <3> HIDE DEF ss, S
    <3>2. Lists(ss, h.len[m], Seq(h.used))
      BY <2>3, <3>1 DEF Lists
    <3> QED
      BY <2>1, <3>2, SequenceIs
  <2> HIDE DEF ss
  <2>5. Seqs!FlattenSeq(ss) \in Seq(h.used)
    BY <2>4, FlattenIs
  <2> QED
    BY <2>5 DEF ss
<1>5. DescendantsRounds!StaysInRounds(S, N, h, 0)
  BY <1>4 DEF DescendantsRounds!StaysInRounds, DescendantsRound
<1>6. none \in S
  OBVIOUS
<1> HIDE DEF N, u, S, none
<1>7. DescendantsRounds!Rounds(none, N, h, 0) \in [0 .. N -> S]
  BY <1>2, <1>5, <1>6, DescendantsRounds!RoundsStay
<1>8. DescendantsRounds!Rounds(none, N, h, 0)[u] \in S
  BY <1>2, <1>7
<1> QED
  BY <1>3, <1>8 DEF S

-----------------------------------------------------------------------------
(* Parsing keeps a path's segments, each in a step of its own.               *)
Axes == {"self", "parent", "child", "descendant"}

StepsOf(segs) == {Step(axis, segs[i]) : axis \in Axes, i \in DOMAIN segs}

Parsed(segs) == [ok : BOOLEAN, descendant : BOOLEAN, steps : Seq(StepsOf(segs))]

LEMMA SeqIs ==
  ASSUME NEW s, IsSeq(s)
  PROVE  /\ Len(s) \in Nat /\ DOMAIN s = 1 .. Len(s)
         /\ \E n \in Nat : DOMAIN s = 1 .. n
BY DEF IsSeq

ParseRound(p, q, acc, seg) ==
  IF ~acc.ok THEN acc
  ELSE IF seg = EmptySeg THEN [acc EXCEPT !.descendant = TRUE]
  ELSE IF ~acc.descendant /\ seg \in {Self, Up}
  THEN [acc EXCEPT !.steps = Append(@, Step(IF seg = Self THEN "self" ELSE "parent", seg))]
  ELSE [ok |-> ~Malformed(seg),
        descendant |-> FALSE,
        steps |-> Append(acc.steps,
                         Step(IF acc.descendant THEN "descendant" ELSE "child", seg))]
ParseLoop == INSTANCE Loops WITH Body <- ParseRound

LEMMA ParseStepsIs ==
  ASSUME NEW segs, SegsOK(segs)
  PROVE  ParseSteps(segs) \in Parsed(segs)
<1> DEFINE start == [ok |-> TRUE, descendant |-> FALSE, steps |-> <<>>]
<1>1. ParseSteps(segs) = ParseLoop!Result(start, segs, 0, 0)
  BY DEF ParseSteps, Seqs!FoldLeft, Seqs!MapThenFoldSet, Seqs!Max, ParseLoop!Result, ParseLoop!IsLoop,
         ParseLoop!Greatest, ParseRound
<1>2. ASSUME NEW acc \in Parsed(segs), NEW k \in DOMAIN segs
      PROVE  ParseRound(0, 0, acc, segs[k]) \in Parsed(segs)
  <2> DEFINE seg == segs[k]
  <2>1. acc.steps \in Seq(StepsOf(segs)) /\ acc.ok \in BOOLEAN /\ acc.descendant \in BOOLEAN
    BY DEF Parsed
  <2>2. ASSUME NEW axis \in Axes PROVE Append(acc.steps, Step(axis, seg)) \in Seq(StepsOf(segs))
    <3>1. Step(axis, seg) \in StepsOf(segs)
      BY DEF StepsOf
    <3> QED
      BY <2>1, <3>1
  <2>3. "self" \in Axes /\ "parent" \in Axes /\ "descendant" \in Axes /\ "child" \in Axes
    BY DEF Axes
  <2>4. Malformed(seg) \in BOOLEAN
    BY DEF Malformed
  <2> HIDE DEF seg
  <2>5. CASE ~acc.ok
    BY <2>5 DEF ParseRound, seg
  <2>6. CASE acc.ok /\ seg = EmptySeg
    <3>1. [acc EXCEPT !.descendant = TRUE] \in Parsed(segs)
      BY DEF Parsed
    <3> QED
      BY <2>6, <3>1 DEF ParseRound, seg
  <2>7. CASE acc.ok /\ seg # EmptySeg /\ ~acc.descendant /\ seg \in {Self, Up}
    <3> DEFINE axis == IF seg = Self THEN "self" ELSE "parent"
    <3>1. axis \in Axes
      BY <2>3
    <3> HIDE DEF axis
    <3>2. [acc EXCEPT !.steps = Append(@, Step(axis, seg))] \in Parsed(segs)
      BY <2>2, <3>1 DEF Parsed
    <3> QED
      BY <2>7, <3>2 DEF ParseRound, seg, axis
  <2>8. CASE acc.ok /\ seg # EmptySeg /\ ~(~acc.descendant /\ seg \in {Self, Up})
    <3> DEFINE axis == IF acc.descendant THEN "descendant" ELSE "child"
    <3>1. axis \in Axes
      BY <2>3
    <3> HIDE DEF axis
    <3>2. [ok |-> ~Malformed(seg), descendant |-> FALSE, steps |-> Append(acc.steps, Step(axis, seg))]
            \in Parsed(segs)
      BY <2>2, <2>4, <3>1 DEF Parsed
    <3> QED
      BY <2>8, <3>2 DEF ParseRound, seg, axis
  <2> QED
    BY <2>5, <2>6, <2>7, <2>8
<1>3. ParseLoop!Stays(Parsed(segs), start, segs, 0, 0)
  <2>1. start \in Parsed(segs)
    BY DEF Parsed
  <2>2. \E n \in Nat : DOMAIN segs = 1 .. n
    BY SeqIs DEF SegsOK
  <2> QED
    BY <1>2, <2>1, <2>2 DEF ParseLoop!Stays
<1> QED
  BY <1>1, <1>3, ParseLoop!LoopKeeps

-----------------------------------------------------------------------------
(* Evaluation *)

LEMMA CandidatesIs ==
  ASSUME NEW L, NEW V, NEW h \in Heap(L, V), Shaped(h), NEW ctx \in h.used,
         NEW s, s.axis \in Axes
  PROVE  Candidates(h, ctx, s) \in Seq(h.used)
<1>1. ctx \in Node /\ h.parent[ctx] \in h.used \cup {Nil}
  BY DEF Heap, Shaped
<1>2. <<ctx>> \in Seq(h.used)
  BY OneIs
<1>3. h.parent[ctx] # Nil => <<h.parent[ctx]>> \in Seq(h.used)
  BY <1>1, OneIs
<1>4. Named(h, Descendants(h, ctx), s.name) \in Seq(h.used)
  <2>1. Descendants(h, ctx) \in Seq(h.used)
    BY <1>1, DescendantsIs
  <2> QED
    BY <2>1, NamedIs
<1>5. Named(h, Children(h, ctx), s.name) \in Seq(h.used)
  <2>1. Children(h, ctx) \in Seq(h.used)
    BY <1>1, ChildrenAre
  <2> QED
    BY <2>1, NamedIs
<1>6. <<>> \in Seq(h.used)
  OBVIOUS
<1> QED
  BY <1>1, <1>2, <1>3, <1>4, <1>5, <1>6 DEF Candidates, Axes

StepRound(h, q, c, s) ==
  Dedup(Seqs!FlattenSeq([i \in DOMAIN c |-> ApplyPreds(h, Candidates(h, c[i], s), s.preds)]))
StepLoop == INSTANCE Loops WITH Body <- StepRound

LEMMA StepRoundIs ==
  ASSUME NEW L, NEW V, NEW h \in Heap(L, V), Shaped(h), NEW c \in Seq(h.used),
         NEW s, s.axis \in Axes, NEW n \in Nat, DOMAIN s.preds = 1 .. n
  PROVE  StepRound(h, 0, c, s) \in Seq(h.used)
<1> DEFINE ss == [i \in DOMAIN c |-> ApplyPreds(h, Candidates(h, c[i], s), s.preds)]
<1>1. \A i \in DOMAIN c : ss[i] \in Seq(h.used)
  <2> SUFFICES ASSUME NEW i \in DOMAIN c PROVE ss[i] \in Seq(h.used)
    OBVIOUS
  <2>1. c[i] \in h.used
    OBVIOUS
  <2>2. Candidates(h, c[i], s) \in Seq(h.used)
    BY <2>1, CandidatesIs
  <2>3. ApplyPreds(h, Candidates(h, c[i], s), s.preds) \in Seq(h.used)
    BY <2>2, ApplyPredsIs
  <2> QED
    BY <2>3
<1>2. ss \in Seq(Seq(h.used))
  <2>1. ss = [i \in DOMAIN c |-> ss[i]] /\ Len(c) \in Nat /\ DOMAIN c = 1 .. Len(c)
    OBVIOUS
  <2> HIDE DEF ss
  <2>2. Lists(ss, Len(c), Seq(h.used))
    BY <1>1, <2>1 DEF Lists
  <2> QED
    BY <2>1, <2>2, SequenceIs
<1> HIDE DEF ss
<1>3. Dedup(Seqs!FlattenSeq(ss)) \in Seq(h.used)
  <2>1. Seqs!FlattenSeq(ss) \in Seq(h.used)
    BY <1>2, FlattenIs
  <2> QED
    BY <2>1, DedupIs
<1> QED
  BY <1>3 DEF StepRound, ss

LEMMA EvalStepsIs ==
  ASSUME NEW L, NEW V, NEW h \in Heap(L, V), Shaped(h), NEW ctx \in Seq(h.used),
         NEW segs, SegsOK(segs), NEW steps \in Seq(StepsOf(segs))
  PROVE  EvalSteps(h, ctx, steps) \in Seq(h.used)
<1>1. EvalSteps(h, ctx, steps) = StepLoop!Result(ctx, steps, h, 0)
  BY DEF EvalSteps, Seqs!FoldLeft, Seqs!MapThenFoldSet, Seqs!Max, StepLoop!Result, StepLoop!IsLoop,
         StepLoop!Greatest, StepRound
<1>2. ASSUME NEW c \in Seq(h.used), NEW s \in StepsOf(segs)
      PROVE  StepRound(h, 0, c, s) \in Seq(h.used)
  <2>1. PICK axis \in Axes, k \in DOMAIN segs : s = Step(axis, segs[k])
    BY DEF StepsOf
  <2>2. PICK n \in Nat : DOMAIN segs[k].preds = 1 .. n
    BY SeqIs DEF SegsOK
  <2>3. s.axis \in Axes /\ DOMAIN s.preds = 1 .. n
    BY <2>1, <2>2 DEF Step
  <2> QED
    BY <2>3, StepRoundIs
<1>3. StepLoop!Stays(Seq(h.used), ctx, steps, h, 0)
  <2>1. \E n \in Nat : DOMAIN steps = 1 .. n
    <3>1. Len(steps) \in Nat /\ DOMAIN steps = 1 .. Len(steps)
      OBVIOUS
    <3> QED
      BY <3>1
  <2>2. \A k \in DOMAIN steps : steps[k] \in StepsOf(segs)
    OBVIOUS
  <2> QED
    BY <1>2, <2>1, <2>2 DEF StepLoop!Stays
<1> QED
  BY <1>1, <1>3, StepLoop!LoopKeeps

(* The result of an evaluation: a verdict and a sequence over T. *)
Answered(T, r) == r.ok \in BOOLEAN /\ r.nodes \in Seq(T)

Bound(T, vs) == \A x \in DOMAIN vs : vs[x] \in Seq(T)

LEMMA EvalOneIs ==
  ASSUME NEW L, NEW V, NEW h \in Heap(L, V), Shaped(h), NEW vs, Bound(h.used, vs),
         NEW alt, SegsOK(alt.segs)
  PROVE  Answered(h.used, EvalOne(h, vs, alt))
<1>1. ASSUME NEW ctx \in Seq(h.used)
      PROVE  Answered(h.used, EvalParsed(h, ctx, ParseSteps(alt.segs)))
  <2>1. ParseSteps(alt.segs) \in Parsed(alt.segs)
    BY ParseStepsIs
  <2>2. EvalSteps(h, ctx, ParseSteps(alt.segs).steps) \in Seq(h.used)
    <3>1. ParseSteps(alt.segs).steps \in Seq(StepsOf(alt.segs))
      BY <2>1 DEF Parsed
    <3> QED
      BY <3>1, EvalStepsIs
  <2>3. <<>> \in Seq(h.used)
    OBVIOUS
  <2> QED
    BY <2>2, <2>3 DEF EvalParsed, Answered
<1>2. <<Root>> \in Seq(h.used)
  BY OneIs DEF Shaped
<1>3. Answered(h.used, [ok |-> FALSE, nodes |-> <<>>])
  BY DEF Answered
<1>4. CASE alt.lead \in {"/", ""}
  BY <1>1, <1>2, <1>4 DEF EvalOne
<1>5. CASE alt.lead \notin {"/", ""} /\ alt.lead \in DOMAIN vs
  BY <1>1, <1>5 DEF EvalOne, Bound
<1>6. CASE alt.lead \notin {"/", ""} /\ alt.lead \notin DOMAIN vs
  BY <1>3, <1>6 DEF EvalOne
<1> QED
  BY <1>4, <1>5, <1>6

(* Any path expression evaluates to allocated nodes, whatever its steps and  *)
(* predicates are: no loop of the evaluator leaves the heap.                 *)
THEOREM EvalIs ==
  ASSUME NEW L, NEW V, NEW h \in Heap(L, V), Shaped(h), NEW vs, Bound(h.used, vs),
         NEW path, PathOK(path)
  PROVE  Answered(h.used, Eval(h, vs, path))
<1> DEFINE rs == [i \in DOMAIN path |-> EvalOne(h, vs, path[i])]
           ss == [i \in DOMAIN rs |-> rs[i].nodes]
<1>1. Len(path) \in Nat /\ DOMAIN path = 1 .. Len(path)
  BY SeqIs DEF PathOK
<1>2. \A i \in DOMAIN path : Answered(h.used, EvalOne(h, vs, path[i]))
  BY EvalOneIs DEF PathOK
<1>3. ss \in Seq(Seq(h.used))
  <2>1. \A i \in 1 .. Len(path) : ss[i] \in Seq(h.used)
    BY <1>1, <1>2 DEF Answered
  <2>2. ss = [i \in 1 .. Len(path) |-> ss[i]]
    BY <1>1
  <2> HIDE DEF ss
  <2>3. Lists(ss, Len(path), Seq(h.used))
    BY <2>1, <2>2 DEF Lists
  <2> QED
    BY <1>1, <2>3, SequenceIs
<1>4. Dedup(Seqs!FlattenSeq(ss)) \in Seq(h.used)
  <2> HIDE DEF ss
  <2>1. Seqs!FlattenSeq(ss) \in Seq(h.used)
    BY <1>3, FlattenIs
  <2> QED
    BY <2>1, DedupIs
<1>5. Answered(h.used, [ok |-> TRUE, nodes |-> Dedup(Seqs!FlattenSeq(ss))])
  <2> HIDE DEF ss
  <2> QED
    BY <1>4 DEF Answered
<1>6. Answered(h.used, [ok |-> FALSE, nodes |-> <<>>])
  BY DEF Answered
<1>7. Answered(h.used, Union(rs))
  <2>1. Union(rs) = [ok |-> TRUE, nodes |-> Dedup(Seqs!FlattenSeq(ss))]
        \/ Union(rs) = [ok |-> FALSE, nodes |-> <<>>]
    <3> HIDE DEF rs
    <3> QED
      BY DEF Union
  <2> HIDE DEF rs, ss
  <2> QED
    BY <1>5, <1>6, <2>1
<1> QED
  BY <1>7 DEF Eval

-----------------------------------------------------------------------------
(* What a call makes of the heap before Go collects what is left behind.     *)

Heaps == Heap(Label \cup {NoLabel}, Value \cup {NoValue})

LinksKept(h, g) ==
  \A K \in SUBSET h.used : ParentLinks(h, K) => ParentLinks(g, K \cup (g.used \ h.used))

(* g is h with nodes added or unlinked: links that agreed still agree.       *)
Edited(h, g) ==
  /\ g \in Heaps /\ Shaped(g) /\ h.used \subseteq g.used
  /\ Lost \notin g.used /\ ChildLinks(h, h.used) => ChildLinks(g, g.used) /\ LinksKept(h, g)

(* The new nodes of g stand behind the children their parents had in h, in   *)
(* the order of their making, under nodes of h or made before them.          *)
Extended(h, g) ==
  /\ \A n \in Node : h.len[n] <= g.len[n]
  /\ \A n \in Node : \A i \in 1 .. h.len[n] : Kid(g, n, i) = Kid(h, n, i)
  /\ \A n \in Node : \A i \in h.len[n] + 1 .. g.len[n] : Kid(g, n, i) \notin h.used
  /\ \A n \in Node : \A i, j \in h.len[n] + 1 .. g.len[n] : i < j => Kid(g, n, i) < Kid(g, n, j)
  /\ \A n \in h.used : g.label[n] = h.label[n]
  /\ \A x \in g.used \ h.used : /\ g.label[x] \in Label
                                /\ g.parent[x] \in h.used \/ g.parent[x] < x
                                /\ \A y \in Node \ g.used : x < y

(* g is h with nodes added: nothing is unlinked.                             *)
Grown(h, g) ==
  /\ Edited(h, g)
  /\ Lost \notin g.used => \A n \in h.used : g.parent[n] = h.parent[n]
  /\ Lost \notin g.used /\ ChildLinks(h, h.used) => Extended(h, g)

LEMMA ExtendedSame ==
  ASSUME NEW h \in Heaps
  PROVE  Extended(h, h)
<1>1. \A n \in Node : h.len[n] \in Nat
  BY DEF Heaps, Heap
<1> QED
  BY <1>1 DEF Extended

LEMMA ExtendedTwice ==
  ASSUME NEW h \in Heaps, NEW g \in Heaps, Shaped(g), NEW f \in Heaps, Shaped(f),
         h.used \subseteq g.used, g.used \subseteq f.used, Extended(h, g), Extended(g, f),
         \A n \in g.used : f.parent[n] = g.parent[n]
  PROVE  Extended(h, f)
<1>1. \A n \in Node : /\ h.len[n] \in Nat /\ g.len[n] \in Nat /\ f.len[n] \in Nat
                      /\ h.len[n] <= g.len[n] /\ g.len[n] <= f.len[n]
  BY DEF Extended, Heaps, Heap
<1>2. \A n \in Node : \A i \in 1 .. g.len[n] : Kid(f, n, i) = Kid(g, n, i) /\ Kid(g, n, i) \in g.used
  BY DEF Extended, Shaped
<1>3. \A n \in Node : \A i \in g.len[n] + 1 .. f.len[n] : Kid(f, n, i) \in Node \ g.used
  <2>1. \A n \in Node : \A i \in g.len[n] + 1 .. f.len[n] : i \in 1 .. f.len[n]
    BY <1>1
  <2>2. f.used \subseteq Node
    BY DEF Heaps, Heap
  <2> QED
    BY <2>1, <2>2 DEF Extended, Shaped
<1>4. \A n \in Node : h.len[n] <= f.len[n]
  BY <1>1
<1>5. ASSUME NEW n \in Node, NEW i \in 1 .. h.len[n]
      PROVE  Kid(f, n, i) = Kid(h, n, i)
  <2>1. i \in 1 .. g.len[n]
    BY <1>1
  <2> QED
    BY <1>2, <2>1 DEF Extended
<1>6. ASSUME NEW n \in Node, NEW i \in h.len[n] + 1 .. f.len[n]
      PROVE  Kid(f, n, i) \notin h.used
  <2>1. CASE i <= g.len[n]
    <3>1. i \in h.len[n] + 1 .. g.len[n] /\ i \in 1 .. g.len[n]
      BY <1>1, <2>1
    <3> QED
      BY <1>2, <3>1 DEF Extended
  <2>2. CASE ~(i <= g.len[n])
    <3>1. i \in g.len[n] + 1 .. f.len[n]
      BY <1>1, <2>2
    <3> QED
      BY <1>3, <3>1
  <2> QED
    BY <2>1, <2>2
<1>7. ASSUME NEW n \in Node, NEW i \in h.len[n] + 1 .. f.len[n], NEW j \in h.len[n] + 1 .. f.len[n], i < j
      PROVE  Kid(f, n, i) < Kid(f, n, j)
  <2>1. CASE j <= g.len[n]
    <3>1. /\ i \in h.len[n] + 1 .. g.len[n] /\ i \in 1 .. g.len[n]
          /\ j \in h.len[n] + 1 .. g.len[n] /\ j \in 1 .. g.len[n]
      BY <1>1, <1>7, <2>1
    <3> QED
      BY <1>2, <1>7, <3>1 DEF Extended
  <2>2. CASE i <= g.len[n] /\ ~(j <= g.len[n])
    <3>1. /\ i \in h.len[n] + 1 .. g.len[n] /\ i \in 1 .. g.len[n]
          /\ j \in g.len[n] + 1 .. f.len[n]
      BY <1>1, <2>2
    <3>2. Kid(f, n, i) \in g.used \ h.used /\ Kid(f, n, j) \in Node \ g.used
      BY <1>2, <1>3, <3>1 DEF Extended
    <3> QED
      BY <3>2 DEF Extended
  <2>3. CASE ~(i <= g.len[n])
    <3>1. i \in g.len[n] + 1 .. f.len[n] /\ j \in g.len[n] + 1 .. f.len[n]
      BY <1>1, <1>7, <2>3
    <3> QED
      BY <1>7, <3>1 DEF Extended
  <2> QED
    BY <2>1, <2>2, <2>3
<1>8. ASSUME NEW x \in f.used \ h.used
      PROVE  /\ f.label[x] \in Label
             /\ f.parent[x] \in h.used \/ f.parent[x] < x
             /\ \A y \in Node \ f.used : x < y
  <2>1. CASE x \in g.used
    BY <2>1 DEF Extended
  <2>2. CASE x \notin g.used
    <3>1. /\ f.label[x] \in Label /\ \A y \in Node \ f.used : x < y
          /\ f.parent[x] \in g.used \/ f.parent[x] < x
      BY <2>2 DEF Extended
    <3>2. x \in Node \ g.used
      BY <2>2 DEF Heaps, Heap
    <3>3. ASSUME f.parent[x] \in g.used \ h.used PROVE f.parent[x] < x
      BY <3>2, <3>3 DEF Extended
    <3> QED
      BY <3>1, <3>3
  <2> QED
    BY <2>1, <2>2
<1>9. \A n \in h.used : f.label[n] = h.label[n]
  BY DEF Extended
<1> QED
  BY <1>4, <1>5, <1>6, <1>7, <1>8, <1>9 DEF Extended

LEMMA EditedSame ==
  ASSUME NEW h \in Heaps, Shaped(h)
  PROVE  Edited(h, h) /\ Grown(h, h)
<1>1. \A K : K \cup (h.used \ h.used) = K
  OBVIOUS
<1>2. LinksKept(h, h)
  BY <1>1 DEF LinksKept
<1> QED
  BY <1>2, ExtendedSame DEF Edited, Grown

LEMMA EditedTwice ==
  ASSUME NEW h \in Heaps, NEW g, NEW f, Edited(h, g), Edited(g, f)
  PROVE  /\ Edited(h, f)
         /\ Grown(h, g) /\ Grown(g, f) => Grown(h, f)
<1>1. f \in Heaps /\ Shaped(f) /\ h.used \subseteq g.used /\ g.used \subseteq f.used
  BY DEF Edited
<1>2. ASSUME Lost \notin f.used, ChildLinks(h, h.used)
      PROVE  ChildLinks(f, f.used) /\ LinksKept(h, f)
  <2>1. ChildLinks(g, g.used) /\ LinksKept(h, g)
    BY <1>1, <1>2 DEF Edited
  <2>2. ChildLinks(f, f.used) /\ LinksKept(g, f)
    BY <1>1, <1>2, <2>1 DEF Edited
  <2>3. ASSUME NEW K \in SUBSET h.used, ParentLinks(h, K)
        PROVE  ParentLinks(f, K \cup (f.used \ h.used))
    <3> DEFINE J == K \cup (g.used \ h.used)
    <3>1. ParentLinks(g, J)
      BY <2>1, <2>3 DEF LinksKept
    <3>2. J \in SUBSET g.used
      BY <1>1
    <3>3. J \cup (f.used \ g.used) = K \cup (f.used \ h.used)
      BY <1>1
    <3> HIDE DEF J
    <3>4. ParentLinks(f, J \cup (f.used \ g.used))
      BY <2>2, <3>1, <3>2 DEF LinksKept
    <3> QED
      BY <3>3, <3>4
  <2> QED
    BY <2>2, <2>3 DEF LinksKept
<1>3. Edited(h, f)
  BY <1>1, <1>2 DEF Edited
<1>4. ASSUME Grown(h, g), Grown(g, f), Lost \notin f.used, ChildLinks(h, h.used)
      PROVE  Extended(h, f)
  <2>1. Lost \notin g.used /\ ChildLinks(g, g.used) /\ g \in Heaps /\ Shaped(g)
    BY <1>1, <1>4 DEF Edited
  <2>2. Extended(h, g) /\ Extended(g, f) /\ \A n \in g.used : f.parent[n] = g.parent[n]
    BY <1>4, <2>1 DEF Grown
  <2> QED
    BY <1>1, <2>1, <2>2, ExtendedTwice
<1>5. ASSUME Grown(h, g), Grown(g, f), Lost \notin f.used
      PROVE  \A n \in h.used : f.parent[n] = h.parent[n]
  BY <1>1, <1>5 DEF Grown
<1> QED
  BY <1>3, <1>4, <1>5 DEF Grown

LEMMA ValueSet ==
  ASSUME NEW h \in Heaps, Shaped(h), NEW n \in h.used, NEW v \in Value \cup {NoValue}
  PROVE  /\ Grown(h, SetNodeValue(h, n, v))
         /\ SetNodeValue(h, n, v).used = h.used
         /\ \A m \in Node : SetNodeValue(h, n, v).value[m] = IF m = n THEN v ELSE h.value[m]
<1> DEFINE g == SetNodeValue(h, n, v)
<1>1. n \in Node
  BY DEF Heaps, Heap
<1>2. /\ g.used = h.used /\ g.parent = h.parent /\ g.label = h.label
      /\ g.len = h.len /\ g.arr = h.arr /\ g.array = h.array
      /\ \A m \in Node : g.value[m] = IF m = n THEN v ELSE h.value[m]
  BY DEF SetNodeValue, Heaps, Heap
<1>3. /\ g \in Heaps /\ Shaped(g)
      /\ \A K : (ChildLinks(h, K) => ChildLinks(g, K)) /\ (ParentLinks(h, K) => ParentLinks(g, K))
  <2> HIDE DEF g
  <2>1. g = SetNodeValue(h, n, v)
    BY DEF g
  <2> QED
    BY <1>1, <2>1, SetNodeValueIs DEF Heaps
<1> HIDE DEF g
<1>4. LinksKept(h, g)
  <2>1. \A K : K \cup (g.used \ h.used) = K
    BY <1>2
  <2> QED
    BY <1>3, <2>1 DEF LinksKept
<1>5. Extended(h, g)
  BY <1>2, ExtendedSame DEF Extended, Kid
<1>6. Grown(h, g)
  BY <1>2, <1>3, <1>4, <1>5 DEF Grown, Edited
<1> QED
  BY <1>2, <1>6 DEF g

(* f is h with one more struct that nothing links to yet.                    *)
Made(h, f) ==
  /\ f \in Heaps /\ Shaped(f) /\ f.used = h.used \cup {Fresh(h)} /\ Fresh(h) \in Node
  /\ \A m \in Node : f.parent[m] = h.parent[m] /\ f.len[m] = h.len[m]
  /\ \A m \in Node : \A i : Kid(f, m, i) = Kid(h, m, i)
  /\ \A m \in Node : m # Fresh(h) => f.label[m] = h.label[m] /\ f.value[m] = h.value[m]
  /\ f.label[Fresh(h)] \in Label
  /\ Lost \notin f.used /\ ChildLinks(h, h.used) =>
       /\ Fresh(h) # Root /\ f.parent[Fresh(h)] = Nil /\ ChildLinks(f, f.used)
       /\ \A K \in SUBSET Node : ParentLinks(h, K) => ParentLinks(f, K \cup {Fresh(h)})

LEMMA MadeIs ==
  ASSUME NEW h \in Heaps, Shaped(h), NEW l \in Label
  PROVE  Made(h, NewNode(h, l)) /\ NewNode(h, l).value = h.value
<1> DEFINE f == NewNode(h, l)
<1> HIDE DEF f
<1>1. f = NewNode(h, l)
  BY DEF f
<1>2. /\ f \in Heaps /\ Shaped(f) /\ f.used = h.used \cup {Fresh(h)} /\ Fresh(h) \in Node
      /\ \A m \in Node : f.parent[m] = h.parent[m] /\ f.len[m] = h.len[m]
      /\ \A m \in Node : \A i : Kid(f, m, i) = Kid(h, m, i)
  BY <1>1, NewNodeIs DEF Heaps
<1>3. ASSUME Lost \notin f.used, ChildLinks(h, h.used)
      PROVE  /\ Fresh(h) # Root /\ f.parent[Fresh(h)] = Nil /\ ChildLinks(f, f.used)
             /\ \A K \in SUBSET Node : ParentLinks(h, K) => ParentLinks(f, K \cup {Fresh(h)})
  BY <1>1, <1>3, NewNodeLinks DEF Heaps
<1>4. /\ f.value = h.value
      /\ \A n \in Node : f.label[n] = IF n = Fresh(h) THEN l ELSE h.label[n]
  BY <1>1, NewNodeFields DEF Heaps
<1>5. Made(h, f)
  BY <1>2, <1>3, <1>4 DEF Made
<1> QED
  BY <1>4, <1>5 DEF f

LEMMA MadeWithValue ==
  ASSUME NEW h \in Heaps, NEW f, Made(h, f), NEW v \in Value \cup {NoValue}
  PROVE  Made(h, SetNodeValue(f, Fresh(h), v))
<1> DEFINE g == SetNodeValue(f, Fresh(h), v)
<1>1. f \in Heaps /\ Shaped(f) /\ Fresh(h) \in Node
  BY DEF Made
<1>2. /\ g.used = f.used /\ g.parent = f.parent /\ g.len = f.len /\ g.label = f.label
      /\ g.arr = f.arr /\ g.array = f.array
      /\ \A m \in Node : m # Fresh(h) => g.value[m] = f.value[m]
  BY <1>1 DEF SetNodeValue, Heaps, Heap
<1>3. g = SetNodeValue(f, Fresh(h), v)
  OBVIOUS
<1> HIDE DEF g
<1>4. /\ g \in Heaps /\ Shaped(g)
      /\ \A K : (ChildLinks(f, K) => ChildLinks(g, K)) /\ (ParentLinks(f, K) => ParentLinks(g, K))
  BY <1>1, <1>3, SetNodeValueIs DEF Heaps
<1>5. \A m : \A i : Kid(g, m, i) = Kid(f, m, i)
  BY <1>2 DEF Kid
<1>6. Made(h, g)
  BY <1>1, <1>2, <1>4, <1>5 DEF Made
<1> QED
  BY <1>6 DEF g

(* It is linked as a child of n at idx.                                      *)
LEMMA LinkedIs ==
  ASSUME NEW h \in Heaps, Shaped(h), NEW n \in h.used,
         NEW f, Made(h, f), NEW g \in Heaps, Shaped(g), NEW idx \in 0 .. h.len[n],
         ChildInserted(f, n, idx, Fresh(h), g)
  PROVE  /\ Edited(h, g) /\ Fresh(h) \in g.used /\ Fresh(h) \in Node
         /\ g.used = h.used \cup {Fresh(h)}
         /\ Lost \notin g.used => /\ Fresh(h) \notin h.used
                                  /\ \A m \in h.used : g.parent[m] = h.parent[m]
<1> DEFINE c == Fresh(h)
<1>1. /\ f \in Heaps /\ Shaped(f) /\ c \in Node /\ f.used = h.used \cup {c}
      /\ \A m \in Node : f.parent[m] = h.parent[m] /\ f.len[m] = h.len[m]
  BY DEF Made
<1>2. h.used \in SUBSET Node /\ n \in Node
  BY DEF Heaps, Heap
<1>3. g.used = h.used \cup {c} /\ \A m \in Node : g.parent[m] = IF m = c THEN n ELSE f.parent[m]
  BY <1>1 DEF ChildInserted
<1>4. ASSUME Lost \notin g.used
      PROVE  c \notin h.used /\ \A m \in h.used : g.parent[m] = h.parent[m]
  <2>1. c # Lost
    BY <1>3, <1>4
  <2>2. c \notin h.used
    BY <1>2, <2>1, FreshIs
  <2> QED
    BY <1>1, <1>2, <1>3, <2>2
<1>5. ASSUME Lost \notin g.used, ChildLinks(h, h.used)
      PROVE  ChildLinks(g, g.used) /\ LinksKept(h, g)
  <2>1. Lost \notin f.used
    BY <1>1, <1>3, <1>5
  <2>2. /\ c # Root /\ f.parent[c] = Nil /\ ChildLinks(f, f.used)
        /\ \A K \in SUBSET Node : ParentLinks(h, K) => ParentLinks(f, K \cup {c})
    BY <1>5, <2>1 DEF Made
  <2>3. n \in f.used /\ c \in f.used /\ idx \in 0 .. f.len[n]
    BY <1>1, <1>2
  <2> HIDE DEF c
  <2>4. /\ ChildLinks(g, g.used)
        /\ \A K \in SUBSET Node : ParentLinks(f, K) => ParentLinks(g, K \cup {c})
    <3>1. f \in Heap(Label \cup {NoLabel}, Value \cup {NoValue})
      BY <1>1 DEF Heaps
    <3>2. ChildInserted(f, n, idx, c, g)
      BY DEF c
    <3> QED
      BY <1>1, <2>2, <2>3, <3>1, <3>2, ChildInsertedLinks
  <2>5. ASSUME NEW K \in SUBSET h.used, ParentLinks(h, K)
        PROVE  ParentLinks(g, K \cup (g.used \ h.used))
    <3>1. K \in SUBSET Node /\ K \cup {c} \in SUBSET Node
      BY <1>1, <1>2
    <3>2. ParentLinks(f, K \cup {c})
      BY <2>2, <2>5, <3>1
    <3>3. ParentLinks(g, (K \cup {c}) \cup {c})
      BY <2>4, <3>1, <3>2
    <3>4. (K \cup {c}) \cup {c} = K \cup (g.used \ h.used)
      <4>1. g.used \ h.used = {c}
        BY <1>3, <1>4, <1>5 DEF c
      <4> QED
        BY <4>1
    <3> QED
      BY <3>3, <3>4
  <2> QED
    BY <2>4, <2>5 DEF LinksKept
<1>6. Edited(h, g)
  BY <1>3, <1>5 DEF Edited
<1> QED
  BY <1>1, <1>3, <1>4, <1>6

(* Nobody else's children change, as long as no two nodes share an array.    *)
LEMMA OthersKeep ==
  ASSUME NEW h \in Heaps, Shaped(h), NEW n \in h.used, NEW f, Made(h, f), NEW idx,
         NEW g, ChildInserted(f, n, idx, Fresh(h), g), Lost \notin f.used, ChildLinks(h, h.used),
         NEW m \in Node, m # n
  PROVE  g.len[m] = h.len[m] /\ \A i : Kid(g, m, i) = Kid(h, m, i)
<1>1. /\ f \in Heaps /\ Shaped(f) /\ n \in f.used /\ n \in Node /\ ChildLinks(f, f.used)
      /\ f.len[m] = h.len[m] /\ \A i : Kid(f, m, i) = Kid(h, m, i)
  BY DEF Made, Heaps, Heap
<1>2. f.arr[m] # g.arr[n]
  <2>1. CASE m \in f.used
    BY <1>1, <2>1, Identities DEF ChildInserted, ChildLinks
  <2>2. CASE m \notin f.used
    BY <1>1, <2>2, Identities DEF ChildInserted, Shaped
  <2> QED
    BY <2>1, <2>2
<1> QED
  BY <1>1, <1>2 DEF ChildInserted

LEMMA UnusedIsBare ==
  ASSUME NEW h \in Heaps, Shaped(h), NEW n \in Node \ h.used
  PROVE  h.len[n] = 0 /\ h.arr[n] = Nil /\ h.parent[n] = Nil
<1>1. h.len[n] \in Nat /\ h.len[n] <= Len(<<>>) /\ h.arr[n] = Nil /\ h.parent[n] = Nil
  BY DEF Shaped, Heaps, Heap
<1> QED
  BY <1>1

LEMMA AddedIs ==
  ASSUME NEW h \in Heaps, Shaped(h), NEW n \in h.used, NEW f, Made(h, f),
         NEW g, g = AppendChild(f, n, Fresh(h))
  PROVE  /\ Grown(h, g) /\ Fresh(h) \in g.used /\ Fresh(h) \in Node
         /\ g.used = h.used \cup {Fresh(h)} /\ g.value = f.value /\ g.label = f.label
         /\ \E i \in 1 .. g.len[n] : Kid(g, n, i) = Fresh(h)
         /\ Lost \notin g.used => Fresh(h) \notin h.used /\ g.len[Fresh(h)] = 0
<1>1. /\ f \in Heaps /\ Shaped(f) /\ f.used = h.used \cup {Fresh(h)}
      /\ \A m \in Node : f.len[m] = h.len[m]
      /\ \A m \in Node : \A i : Kid(f, m, i) = Kid(h, m, i)
  BY DEF Made
<1>2. n \in f.used /\ Fresh(h) \in f.used /\ f.len[n] = h.len[n] /\ h.len[n] \in Nat
  BY <1>1 DEF Heaps, Heap
<1>3. g \in Heaps /\ Shaped(g) /\ ChildInserted(f, n, f.len[n], Fresh(h), g)
  BY <1>1, <1>2, AppendChildIs DEF Heaps
<1>4. h.len[n] \in 0 .. h.len[n]
  BY <1>2
<1>5. /\ Edited(h, g) /\ Fresh(h) \in g.used /\ Fresh(h) \in Node
      /\ g.used = h.used \cup {Fresh(h)}
      /\ Lost \notin g.used => /\ Fresh(h) \notin h.used
                               /\ \A m \in h.used : g.parent[m] = h.parent[m]
  BY <1>2, <1>3, <1>4, LinkedIs
<1>6. Lost \notin g.used => g.len[Fresh(h)] = 0
  <2> SUFFICES ASSUME Lost \notin g.used PROVE g.len[Fresh(h)] = 0
    OBVIOUS
  <2>1. Fresh(h) # n /\ h.len[Fresh(h)] = 0
    BY <1>5, UnusedIsBare
  <2> QED
    BY <1>1, <1>3, <1>5, <2>1 DEF ChildInserted
<1>7. ASSUME Lost \notin g.used, ChildLinks(h, h.used)
      PROVE  Extended(h, g)
  <2> DEFINE x == Fresh(h)
  <2>1. /\ x \in Node /\ x \notin h.used /\ n \in Node /\ n # x /\ Lost \notin f.used /\ g.used \subseteq Node
        /\ \A m \in Node : h.len[m] \in Nat
    BY <1>1, <1>3, <1>5, <1>7 DEF Heaps, Heap
  <2>2. \A m \in Node : m # n => g.len[m] = h.len[m] /\ \A i : Kid(g, m, i) = Kid(h, m, i)
    BY <1>3, <1>7, <2>1, OthersKeep
  <2>3. /\ g.len[n] = h.len[n] + 1 /\ Kid(g, n, h.len[n] + 1) = x
        /\ \A i \in 1 .. h.len[n] : Kid(g, n, i) = Kid(h, n, i)
    BY <1>1, <1>2, <1>3, <2>1 DEF ChildInserted
  <2>4. /\ g.parent[x] = n /\ g.label = f.label
    BY <1>3, <2>1 DEF ChildInserted
  <2>5. /\ f.label[x] \in Label /\ \A m \in h.used : f.label[m] = h.label[m]
    BY <2>1 DEF Made, Heaps, Heap
  <2>6. \A y \in Node \ g.used : x < y
    <3>1. \A y \in Node \ h.used : x <= y
      BY FreshIs DEF Heaps, Heap
    <3>2. \A y \in Node \ g.used : y \in Node \ h.used /\ y # x
      BY <1>5
    <3>3. x \in Nat /\ \A y \in Node : y \in Nat
      BY <2>1, Identities
    <3> HIDE DEF x
    <3> QED
      BY <3>1, <3>2, <3>3 DEF x
  <2>7. \A y \in g.used \ h.used : y = x
    BY <1>5
  <2> HIDE DEF x
  <2>8. \A m \in Node : \A i \in h.len[m] + 1 .. g.len[m] : m = n /\ i = h.len[n] + 1
    BY <2>1, <2>2, <2>3
  <2>9. /\ \A m \in Node : h.len[m] <= g.len[m]
        /\ \A m \in Node : \A i \in 1 .. h.len[m] : Kid(g, m, i) = Kid(h, m, i)
    BY <2>1, <2>2, <2>3
  <2>10. /\ \A m \in Node : \A i \in h.len[m] + 1 .. g.len[m] : Kid(g, m, i) \notin h.used
         /\ \A m \in Node : \A i, j \in h.len[m] + 1 .. g.len[m] : i < j => Kid(g, m, i) < Kid(g, m, j)
    <3>1. \A m \in Node : \A i, j \in h.len[m] + 1 .. g.len[m] : ~(i < j)
      BY <2>1, <2>8
    <3> QED
      BY <2>1, <2>3, <2>8, <3>1
  <2> QED
    BY <2>4, <2>5, <2>6, <2>7, <2>9, <2>10 DEF Extended
<1>8. g.value = f.value /\ g.label = f.label
  BY <1>3 DEF ChildInserted
<1>9. \E i \in 1 .. g.len[n] : Kid(g, n, i) = Fresh(h)
  <2>1. n \in Node
    BY DEF Heaps, Heap
  <2>2. /\ g.len[n] = h.len[n] + 1 /\ Kid(g, n, h.len[n] + 1) = Fresh(h)
    BY <1>1, <1>2, <1>3, <2>1 DEF ChildInserted
  <2>3. h.len[n] + 1 \in 1 .. g.len[n]
    BY <1>2, <2>2
  <2> QED
    BY <2>2, <2>3
<1> QED
  BY <1>5, <1>6, <1>7, <1>8, <1>9 DEF Grown

LEMMA InsertedIs ==
  ASSUME NEW h \in Heaps, Shaped(h), NEW n \in h.used, NEW f, Made(h, f), NEW idx \in 0 .. h.len[n],
         NEW g, g = InsertChild(f, n, idx, Fresh(h))
  PROVE  Edited(h, g) /\ ChildInserted(f, n, idx, Fresh(h), g)
<1>1. /\ f \in Heaps /\ Shaped(f) /\ f.used = h.used \cup {Fresh(h)}
      /\ \A m \in Node : f.len[m] = h.len[m]
  BY DEF Made
<1>2. n \in f.used /\ Fresh(h) \in f.used /\ f.len[n] = h.len[n]
  BY <1>1 DEF Heaps, Heap
<1>3. idx \in 0 .. f.len[n]
  BY <1>2
<1>4. g \in Heaps /\ Shaped(g) /\ ChildInserted(f, n, idx, Fresh(h), g)
  BY <1>1, <1>2, <1>3, InsertChildIs DEF Heaps
<1> QED
  BY <1>4, LinkedIs

-----------------------------------------------------------------------------
(* createFrom only adds nodes.  It goes down from base to d, through nodes   *)
(* that are there and then through those it makes.                           *)
Landed(h, base, g, d) ==
  /\ IF d \in h.used THEN g = h ELSE g.len[d] = 0
  /\ ChildLinks(h, h.used) =>
       \A S \in SUBSET g.used :
         Closed(g, S) /\ (base \in S \/ ~(S \subseteq h.used)) => d \in S

Creating(h, base) ==
  {acc \in [ok : BOOLEAN, heap : Heaps, node : Node] :
     /\ Grown(h, acc.heap) /\ acc.node \in acc.heap.used /\ acc.heap.value = h.value
     /\ Lost \notin acc.heap.used => Landed(h, base, acc.heap, acc.node)}

LEMMA LandedOnNew ==
  ASSUME NEW h \in Heaps, NEW base \in h.used, NEW e \in Heaps, Shaped(e), Edited(h, e), NEW m \in e.used,
         Landed(h, base, e, m), NEW g \in Heaps, Grown(e, g), Lost \notin g.used,
         NEW x, g.used = e.used \cup {x}, x \notin e.used, g.len[x] = 0,
         \E i \in 1 .. g.len[m] : Kid(g, m, i) = x
  PROVE  Landed(h, base, g, x)
<1>1. h.used \subseteq e.used /\ x \notin h.used /\ Lost \notin e.used /\ e.used \subseteq Node
  BY DEF Edited, Heaps, Heap
<1>2. ASSUME ChildLinks(h, h.used), NEW S \in SUBSET g.used, Closed(g, S),
             base \in S \/ ~(S \subseteq h.used)
      PROVE  x \in S
  <2> DEFINE R == S \ {x}
  <2>1. Extended(e, g)
    BY <1>1, <1>2 DEF Grown, Edited
  <2>2. Closed(e, R)
    <3> SUFFICES ASSUME NEW n \in R, NEW i \in 1 .. e.len[n] PROVE Kid(e, n, i) \in R
      BY DEF Closed
    <3>1. n \in Node /\ Kid(e, n, i) \in e.used
      BY <1>1 DEF Shaped
    <3>2. Kid(g, n, i) = Kid(e, n, i) /\ i \in 1 .. g.len[n]
      <4>1. e.len[n] \in Nat /\ g.len[n] \in Nat /\ e.len[n] <= g.len[n]
        BY <2>1, <3>1 DEF Extended, Heaps, Heap
      <4> QED
        BY <2>1, <3>1, <4>1 DEF Extended
    <3> QED
      BY <1>2, <3>1, <3>2 DEF Closed
  <2>3. CASE x \in S
    BY <2>3
  <2>4. CASE x \notin S
    <3>1. R = S /\ S \in SUBSET e.used
      BY <2>4
    <3>2. m \in S
      BY <1>2, <2>2, <3>1 DEF Landed
    <3> QED
      BY <1>2, <3>2 DEF Closed
  <2> QED
    BY <2>3, <2>4
<1> QED
  BY <1>1, <1>2 DEF Landed

LEMMA LandedOnChild ==
  ASSUME NEW h \in Heaps, Shaped(h), NEW base \in h.used, NEW e, NEW m \in e.used, Landed(h, base, e, m),
         NEW i \in 1 .. e.len[m]
  PROVE  Landed(h, base, e, Kid(e, m, i))
<1>1. m \in h.used /\ e = h
  BY DEF Landed
<1>2. Kid(e, m, i) \in h.used
  BY <1>1 DEF Shaped, Heaps, Heap
<1> QED
  BY <1>1, <1>2 DEF Landed, Closed

CreateRound(p, q, acc, seg) ==
  LET next == FirstChild(acc.heap, acc.node, seg.name)
      new == Fresh(acc.heap)
  IN  IF ~acc.ok \/ ~Creatable(seg) THEN [acc EXCEPT !.ok = FALSE]
      ELSE IF next # Nil THEN [acc EXCEPT !.node = next]
      ELSE [acc EXCEPT !.heap = AppendChild(NewNode(@, seg.name), acc.node, new),
                       !.node = new]
CreateLoop == INSTANCE Loops WITH Body <- CreateRound

LEMMA CreateStays ==
  ASSUME NEW h \in Heaps, Shaped(h), NEW base \in h.used, NEW segs, IsSeq(segs), MakesLabels(segs)
  PROVE  LET start == [ok |-> TRUE, heap |-> h, node |-> base]
         IN  /\ CreateFrom(h, base, segs) = CreateLoop!Result(start, segs, 0, 0)
             /\ CreateLoop!Stays(Creating(h, base), start, segs, 0, 0)
<1> DEFINE start == [ok |-> TRUE, heap |-> h, node |-> base]
<1>1. CreateFrom(h, base, segs) = CreateLoop!Result(start, segs, 0, 0)
  BY DEF CreateFrom, Seqs!FoldLeft, Seqs!MapThenFoldSet, Seqs!Max, CreateLoop!Result, CreateLoop!IsLoop,
         CreateLoop!Greatest, CreateRound
<1>2. start \in Creating(h, base)
  <2>1. base \in Node
    BY DEF Heaps, Heap
  <2>2. Landed(h, base, h, base)
    BY DEF Landed
  <2> QED
    BY <2>1, <2>2, EditedSame DEF Creating
<1>3. ASSUME NEW acc \in Creating(h, base), NEW k \in DOMAIN segs
      PROVE  CreateRound(0, 0, acc, segs[k]) \in Creating(h, base)
  <2> DEFINE seg == segs[k]
             next == FirstChild(acc.heap, acc.node, seg.name)
             new == Fresh(acc.heap)
             f == NewNode(acc.heap, seg.name)
             g == AppendChild(f, acc.node, new)
  <2>1. /\ acc \in [ok : BOOLEAN, heap : Heaps, node : Node]
        /\ acc.heap \in Heaps /\ Shaped(acc.heap) /\ acc.node \in acc.heap.used /\ acc.node \in Node
        /\ acc.heap.used \in SUBSET Node /\ Grown(h, acc.heap) /\ acc.heap.value = h.value
        /\ Lost \notin acc.heap.used => Landed(h, base, acc.heap, acc.node)
    BY DEF Creating, Grown, Edited, Heaps, Heap
  <2>2. /\ next \in acc.heap.used \cup {Nil}
        /\ next # Nil => \E i \in 1 .. acc.heap.len[acc.node] : Kid(acc.heap, acc.node, i) = next
    BY <2>1, FirstChildIs DEF Heaps
  <2> HIDE DEF next
  <2>3. CASE ~acc.ok \/ ~Creatable(seg)
    <3>1. [acc EXCEPT !.ok = FALSE] \in Creating(h, base)
      BY <2>1 DEF Creating
    <3> QED
      BY <2>3, <3>1 DEF CreateRound
  <2>4. CASE ~(~acc.ok \/ ~Creatable(seg)) /\ next # Nil
    <3>1. Lost \notin acc.heap.used => Landed(h, base, acc.heap, next)
      BY <2>1, <2>2, <2>4, LandedOnChild
    <3>2. [acc EXCEPT !.node = next] \in Creating(h, base)
      BY <2>1, <2>2, <2>4, <3>1 DEF Creating
    <3> QED
      BY <2>4, <3>2 DEF CreateRound, next
  <2>5. CASE ~(~acc.ok \/ ~Creatable(seg)) /\ next = Nil
    <3>1. seg.name \in Label
      BY <2>5 DEF MakesLabels
    <3> HIDE DEF seg, f, g
    <3>2. /\ Grown(acc.heap, g) /\ new \in g.used /\ new \in Node /\ g.value = h.value
          /\ g.used = acc.heap.used \cup {new} /\ \E i \in 1 .. g.len[acc.node] : Kid(g, acc.node, i) = new
          /\ Lost \notin g.used => new \notin acc.heap.used /\ g.len[new] = 0
      <4>1. Made(acc.heap, f) /\ f.value = h.value
        BY <2>1, <3>1, MadeIs DEF f
      <4> QED
        BY <2>1, <4>1, AddedIs DEF g
    <3>3. Grown(h, g) /\ g \in Heaps
      <4>1. Edited(h, acc.heap) /\ Edited(acc.heap, g)
        BY <2>1, <3>2 DEF Grown
      <4> QED
        BY <2>1, <3>2, <4>1, EditedTwice DEF Edited
    <3> HIDE DEF new
    <3>4. Lost \notin g.used => Landed(h, base, g, new)
      <4> SUFFICES ASSUME Lost \notin g.used PROVE Landed(h, base, g, new)
        OBVIOUS
      <4>1. Edited(h, acc.heap) /\ Landed(h, base, acc.heap, acc.node)
        BY <2>1, <3>2 DEF Grown
      <4> QED
        BY <2>1, <3>2, <3>3, <4>1, LandedOnNew
    <3>5. [acc EXCEPT !.heap = g, !.node = new] \in Creating(h, base)
      BY <2>1, <3>2, <3>3, <3>4 DEF Creating
    <3>6. CreateRound(0, 0, acc, seg) = [acc EXCEPT !.heap = g, !.node = new]
      BY <2>5 DEF CreateRound, next, new, f, g
    <3> QED
      BY <3>5, <3>6 DEF seg
  <2> QED
    BY <2>3, <2>4, <2>5
<1>4. CreateLoop!Stays(Creating(h, base), start, segs, 0, 0)
  <2>1. \E n \in Nat : DOMAIN segs = 1 .. n
    BY SeqIs
  <2> HIDE DEF start
  <2> QED
    BY <1>2, <1>3, <2>1 DEF CreateLoop!Stays
<1> QED
  BY <1>1, <1>4

LEMMA CreateFromIs ==
  ASSUME NEW h \in Heaps, Shaped(h), NEW base \in h.used, NEW segs, IsSeq(segs), MakesLabels(segs)
  PROVE  CreateFrom(h, base, segs) \in Creating(h, base)
BY CreateStays, CreateLoop!LoopKeeps

(* createPath: the alternatives after the first make its last segment one    *)
(* that cannot be created.                                                   *)
LEMMA CreatePathIs ==
  ASSUME NEW h \in Heaps, Shaped(h), NEW path, PathOK(path), MakesLabels(path[1].segs)
  PROVE  /\ CreatePath(h, path).ok \in BOOLEAN
         /\ CreatePath(h, path).heap \in Heaps /\ Grown(h, CreatePath(h, path).heap)
         /\ CreatePath(h, path).ok => CreatePath(h, path).node \in CreatePath(h, path).heap.used
         /\ CreatePath(h, path).heap.value = h.value
         /\ CreatePath(h, path).ok /\ Lost \notin CreatePath(h, path).heap.used
              => Landed(h, Root, CreatePath(h, path).heap, CreatePath(h, path).node)
<1> DEFINE segs == CreateSegs(path)
           s == path[1].segs
           bar == Seg("|", <<>>)
<1>1. Root \in h.used /\ Grown(h, h)
  BY EditedSame DEF Shaped
<1>2. IsSeq(segs) /\ MakesLabels(segs)
  <2>1. IsSeq(s) /\ s # <<>> /\ MakesLabels(s)
    <3>1. 1 \in DOMAIN path
      <4>1. path \in Seq(Seqs!ToSet(path)) /\ path # <<>>
        BY DEF PathOK, IsSeq
      <4> QED
        BY <4>1
    <3> QED
      BY <3>1 DEF PathOK, SegsOK
  <2>2. CASE Len(path) = 1
    BY <2>1, <2>2 DEF CreateSegs
  <2>3. CASE Len(path) # 1
    <3> DEFINE T == Seqs!ToSet(s) \cup {bar}
               n == Len(s)
               r == Append(Seqs!Front(s), bar)
    <3>1. segs = r
      BY <2>3 DEF CreateSegs
    <3>2. s \in Seq(Seqs!ToSet(s)) /\ n \in Nat \ {0} /\ \A i \in 1 .. n : s[i] \in Seqs!ToSet(s)
      BY <2>1 DEF IsSeq
    <3> HIDE DEF s
    <3>3. /\ Seqs!Front(s) \in Seq(Seqs!ToSet(s)) /\ Len(Seqs!Front(s)) = n - 1
          /\ \A i \in 1 .. n - 1 : Seqs!Front(s)[i] = s[i]
      <4> DEFINE m == n - 1
                 t == SubSeq(s, 1, m)
      <4>1. m \in Nat /\ m <= Len(s) /\ m = n - 1
        BY <3>2
      <4>2. Seqs!Front(s) = t
        BY DEF Seqs!Front
      <4> HIDE DEF m, n
      <4>3. t = [i \in 1 .. m |-> s[i]]
        BY <3>2, <4>1
      <4>4. Len(t) = m
        BY <3>2, <4>1
      <4>5. \A i \in 1 .. m : s[i] \in Seqs!ToSet(s)
        BY <3>2, <4>1
      <4> HIDE DEF t
      <4>6. \A i \in 1 .. m : t[i] = s[i]
        BY <4>3
      <4>7. Lists(t, m, Seqs!ToSet(s))
        BY <4>3, <4>5, <4>6 DEF Lists
      <4>8. t \in Seq(Seqs!ToSet(s))
        BY <4>1, <4>7, SequenceIs
      <4> QED
        BY <4>1, <4>2, <4>4, <4>6, <4>8
    <3> DEFINE front == Seqs!Front(s)
    <3>4. /\ front \in Seq(Seqs!ToSet(s)) /\ Len(front) = n - 1
          /\ \A i \in 1 .. n - 1 : front[i] = s[i]
      BY <3>3
    <3> HIDE DEF front, n, bar
    <3>5. /\ DOMAIN Append(front, bar) = 1 .. n
          /\ Len(Append(front, bar)) = n
          /\ \A i \in 1 .. n : Append(front, bar)[i] = IF i = n THEN bar ELSE s[i]
      BY <3>2, <3>4
    <3>6. IsSeq(Append(front, bar))
      <4> DEFINE a == Append(front, bar)
      <4>1. a \in Seq(Seqs!ToSet(s) \cup {bar})
        BY <3>2, <3>4
      <4>2. \A i \in DOMAIN a : a[i] \in Seqs!ToSet(a)
        BY DEF Seqs!ToSet
      <4>3. Lists(a, n, Seqs!ToSet(a))
        <5>1. \A W : \A t \in Seq(W) : t = [i \in 1 .. Len(t) |-> t[i]]
          OBVIOUS
        <5>2. Len(a) = n
          BY <3>5
        <5> HIDE DEF a
        <5>3. a = [i \in 1 .. n |-> a[i]]
          BY <4>1, <5>1, <5>2
        <5> QED
          BY <3>5, <4>2, <5>3 DEF Lists, a
      <4> HIDE DEF a
      <4>4. a \in Seq(Seqs!ToSet(a))
        BY <3>2, <4>3, SequenceIs
      <4> QED
        BY <4>4 DEF IsSeq, a
    <3>7. ~Creatable(bar)
      <4>1. bar.name = "|" /\ "|" \in Mark
        BY DEF bar, Seg, Mark
      <4>2. "|" \in {"[", "]", "*", "|"}
        OBVIOUS
      <4>3. Has("|", {"[", "]", "*", "|"})
        BY <4>1, <4>2, MarkSpelled
      <4> QED
        BY <4>1, <4>3 DEF Creatable
    <3>8. MakesLabels(Append(front, bar))
      <4>1. \A i \in 1 .. n : i # n => i \in DOMAIN s
        BY <3>2 DEF n
      <4>2. \A i \in DOMAIN Append(front, bar) : i \in 1 .. n
        BY <3>5
      <4> QED
        BY <2>1, <3>5, <3>7, <4>1, <4>2 DEF MakesLabels
    <3> QED
      BY <3>1, <3>6, <3>8 DEF front
  <2> QED
    BY <2>2, <2>3
<1>3. CreateFrom(h, Root, segs) \in Creating(h, Root)
  <2> HIDE DEF segs
  <2> QED
    BY <1>1, <1>2, CreateFromIs
<1> HIDE DEF segs
<1>4. CASE path[1].lead # "/"
  BY <1>1, <1>4 DEF CreatePath
<1>5. CASE path[1].lead = "/"
  BY <1>3, <1>5 DEF CreatePath, Creating, segs
<1> QED
  BY <1>4, <1>5

-----------------------------------------------------------------------------
(* The loop over the nodes that are given a value.                           *)

(* g has h's values, but for nodes that were given v.                        *)
Revalued(h, v, g) == \A n \in Node : g.value[n] \in {h.value[n], v}

Valuing(h, v) == {g \in Heaps : Grown(h, g) /\ g.used = h.used /\ Revalued(h, v, g)}

ValueRound(p, v, g, n) == SetNodeValue(g, n, v)
ValueLoop == INSTANCE Loops WITH Body <- ValueRound

LEMMA ValuesStay ==
  ASSUME NEW h \in Heaps, Shaped(h), NEW nodes \in Seq(h.used), NEW v \in Value
  PROVE  /\ Seqs!FoldLeft(LAMBDA g, n : SetNodeValue(g, n, v), h, nodes) = ValueLoop!Result(h, nodes, 0, v)
         /\ ValueLoop!Stays(Valuing(h, v), h, nodes, 0, v)
<1>1. Seqs!FoldLeft(LAMBDA g, n : SetNodeValue(g, n, v), h, nodes) = ValueLoop!Result(h, nodes, 0, v)
  BY DEF Seqs!FoldLeft, Seqs!MapThenFoldSet, Seqs!Max, ValueLoop!Result, ValueLoop!IsLoop,
         ValueLoop!Greatest, ValueRound
<1>2. h \in Valuing(h, v)
  BY EditedSame DEF Valuing, Revalued
<1>3. Len(nodes) \in Nat /\ DOMAIN nodes = 1 .. Len(nodes) /\ \A k \in DOMAIN nodes : nodes[k] \in h.used
  OBVIOUS
<1>4. ASSUME NEW g \in Valuing(h, v), NEW k \in DOMAIN nodes
      PROVE  ValueRound(0, v, g, nodes[k]) \in Valuing(h, v)
  <2> DEFINE n == nodes[k]
             f == SetNodeValue(g, n, v)
  <2>1. g \in Heaps /\ Shaped(g) /\ n \in g.used /\ Grown(h, g) /\ g.used = h.used /\ Revalued(h, v, g)
    BY <1>3 DEF Valuing, Grown, Edited
  <2>2. Grown(g, f) /\ f.used = g.used /\ \A m \in Node : f.value[m] = IF m = n THEN v ELSE g.value[m]
    BY <2>1, ValueSet
  <2> HIDE DEF f
  <2>3. Grown(h, f) /\ f \in Heaps
    <3>1. Edited(h, g) /\ Edited(g, f)
      BY <2>1, <2>2 DEF Grown
    <3> QED
      BY <2>1, <2>2, <3>1, EditedTwice DEF Edited
  <2>4. f \in Valuing(h, v)
    BY <2>1, <2>2, <2>3 DEF Valuing, Revalued
  <2> QED
    BY <2>4 DEF ValueRound, f
<1>5. ValueLoop!Stays(Valuing(h, v), h, nodes, 0, v)
  <2>1. \E n \in Nat : DOMAIN nodes = 1 .. n
    BY <1>3
  <2> QED
    BY <1>2, <1>4, <2>1 DEF ValueLoop!Stays
<1> QED
  BY <1>1, <1>5

LEMMA ValuesSet ==
  ASSUME NEW h \in Heaps, Shaped(h), NEW nodes \in Seq(h.used), NEW v \in Value
  PROVE  Seqs!FoldLeft(LAMBDA g, n : SetNodeValue(g, n, v), h, nodes) \in Valuing(h, v)
<1>1. ValueLoop!Result(h, nodes, 0, v) \in Valuing(h, v)
  BY ValuesStay, ValueLoop!LoopKeeps
<1> QED
  BY <1>1, ValuesStay

Setting(h, v) == {acc \in [ok : BOOLEAN, heap : Heaps, count : Nat] :
                    Grown(h, acc.heap) /\ Revalued(h, v, acc.heap)}

LEMMA SetAllIs ==
  ASSUME NEW h \in Heaps, NEW v \in Value, NEW acc \in Setting(h, v),
         NEW g \in Heaps, Grown(h, g), Revalued(h, v, g), NEW nodes \in Seq(g.used)
  PROVE  SetAll(acc, g, nodes, v) \in Setting(h, v)
<1> DEFINE f == Seqs!FoldLeft(LAMBDA g_1, n : SetNodeValue(g_1, n, v), g, nodes)
<1>1. f \in Valuing(g, v)
  <2>1. Shaped(g)
    BY DEF Grown, Edited
  <2> QED
    BY <2>1, ValuesSet
<1>2. SetAll(acc, g, nodes, v) = [acc EXCEPT !.heap = f, !.count = @ + Len(nodes)]
  BY DEF SetAll
<1> HIDE DEF f
<1>3. f \in Heaps /\ Grown(h, f) /\ Revalued(h, v, f)
  <2>1. Edited(h, g) /\ Edited(g, f) /\ Grown(g, f) /\ f \in Heaps
    BY <1>1 DEF Valuing, Grown
  <2>2. Revalued(h, v, f)
    BY <1>1 DEF Valuing, Revalued
  <2> QED
    BY <2>1, <2>2, EditedTwice
<1> DEFINE k == acc.count + Len(nodes)
<1>4. k \in Nat
  <2>1. Len(nodes) \in Nat /\ acc.count \in Nat
    BY DEF Setting
  <2> QED
    BY <2>1
<1> HIDE DEF k
<1>5. [acc EXCEPT !.heap = f, !.count = k] \in Setting(h, v)
  BY <1>3, <1>4 DEF Setting
<1> QED
  BY <1>2, <1>5 DEF k

-----------------------------------------------------------------------------
(* The loops of SetMultiple and Remove.                                      *)

SettingRound(sub, v, acc, b) ==
  IF ~acc.ok THEN acc
  ELSE SetOne(acc, EvalSteps(acc.heap, <<b>>, ParseSteps(sub).steps),
              CreateFrom(acc.heap, b, sub), v)
SettingLoop == INSTANCE Loops WITH Body <- SettingRound

LEMMA SetEachStays ==
  ASSUME NEW h \in Heaps, Shaped(h), NEW bases \in Seq(h.used), NEW sub, SegsOK(sub), MakesLabels(sub),
         NEW v \in Value
  PROVE  LET start == [ok |-> TRUE, heap |-> h, count |-> 0]
         IN  /\ SetEach(h, bases, sub, v) = SettingLoop!Result(start, bases, sub, v)
             /\ SettingLoop!Stays(Setting(h, v), start, bases, sub, v)
<1> DEFINE start == [ok |-> TRUE, heap |-> h, count |-> 0]
<1>1. SetEach(h, bases, sub, v) = SettingLoop!Result(start, bases, sub, v)
  BY DEF SetEach, Seqs!FoldLeft, Seqs!MapThenFoldSet, Seqs!Max, SettingLoop!Result, SettingLoop!IsLoop,
         SettingLoop!Greatest, SettingRound
<1>2. start \in Setting(h, v)
  BY EditedSame DEF Setting, Revalued
<1>3. Len(bases) \in Nat /\ DOMAIN bases = 1 .. Len(bases) /\ \A k \in DOMAIN bases : bases[k] \in h.used
  OBVIOUS
<1>4. ASSUME NEW acc \in Setting(h, v), NEW k \in DOMAIN bases
      PROVE  SettingRound(sub, v, acc, bases[k]) \in Setting(h, v)
  <2> DEFINE b == bases[k]
             found == EvalSteps(acc.heap, <<b>>, ParseSteps(sub).steps)
             c == CreateFrom(acc.heap, b, sub)
  <2>1. /\ acc \in [ok : BOOLEAN, heap : Heaps, count : Nat]
        /\ acc.heap \in Heaps /\ Shaped(acc.heap) /\ Grown(h, acc.heap) /\ b \in acc.heap.used
        /\ Revalued(h, v, acc.heap)
    BY <1>3 DEF Setting, Grown, Edited
  <2>2. found \in Seq(acc.heap.used)
    <3>1. ParseSteps(sub).steps \in Seq(StepsOf(sub))
      BY ParseStepsIs DEF Parsed
    <3>2. <<b>> \in Seq(acc.heap.used)
      BY <2>1, OneIs
    <3> QED
      BY <2>1, <3>1, <3>2, EvalStepsIs DEF Heaps
  <2>3. c \in Creating(acc.heap, b)
    BY <2>1, CreateFromIs DEF SegsOK
  <2> HIDE DEF b, found, c
  <2>4. /\ c.ok \in BOOLEAN /\ c.heap \in Heaps /\ Grown(h, c.heap) /\ c.node \in c.heap.used
        /\ Revalued(h, v, c.heap)
    <3>1. /\ Grown(acc.heap, c.heap) /\ c.ok \in BOOLEAN /\ c.heap \in Heaps /\ c.node \in c.heap.used
          /\ c.heap.value = acc.heap.value
      BY <2>3 DEF Creating
    <3>2. Revalued(h, v, c.heap)
      BY <2>1, <3>1 DEF Revalued
    <3>3. Edited(h, acc.heap) /\ Edited(acc.heap, c.heap)
      BY <2>1, <3>1 DEF Grown
    <3> QED
      BY <2>1, <3>1, <3>2, <3>3, EditedTwice
  <2>5. SetAll(acc, acc.heap, found, v) \in Setting(h, v)
    BY <2>1, <2>2, SetAllIs
  <2>6. SetAll(acc, c.heap, <<c.node>>, v) \in Setting(h, v)
    <3>1. <<c.node>> \in Seq(c.heap.used)
      BY <2>4, OneIs
    <3> QED
      BY <2>4, <3>1, SetAllIs
  <2>7. [acc EXCEPT !.ok = FALSE, !.heap = c.heap] \in Setting(h, v)
    BY <2>1, <2>4 DEF Setting
  <2>8. SetOne(acc, found, c, v) \in Setting(h, v)
    BY <2>4, <2>5, <2>6, <2>7 DEF SetOne
  <2> QED
    BY <2>8 DEF SettingRound, b, found, c
<1>5. SettingLoop!Stays(Setting(h, v), start, bases, sub, v)
  <2>1. \E n \in Nat : DOMAIN bases = 1 .. n
    BY <1>3
  <2> HIDE DEF start
  <2> QED
    BY <1>2, <1>4, <2>1 DEF SettingLoop!Stays
<1> QED
  BY <1>1, <1>5

LEMMA SetEachIs ==
  ASSUME NEW h \in Heaps, Shaped(h), NEW bases \in Seq(h.used), NEW sub, SegsOK(sub), MakesLabels(sub),
         NEW v \in Value
  PROVE  SetEach(h, bases, sub, v) \in Setting(h, v)
<1> DEFINE start == [ok |-> TRUE, heap |-> h, count |-> 0]
<1>1. /\ SetEach(h, bases, sub, v) = SettingLoop!Result(start, bases, sub, v)
      /\ SettingLoop!Stays(Setting(h, v), start, bases, sub, v)
  BY SetEachStays
<1> HIDE DEF start
<1> QED
  BY <1>1, SettingLoop!LoopKeeps

Linked(h) == ChildLinks(h, h.used) /\ ParentLinks(h, h.used)

(* g is h with the nodes D detached: the others keep their parent, and their *)
(* order.                                                                    *)
Thinned(h, D, g) ==
  /\ \A n \in Node : g.parent[n] = IF n \in D THEN Nil ELSE h.parent[n]
  /\ \A m \in Node : \A i, j \in 1 .. g.len[m] : i < j =>
       \E k, l \in 1 .. h.len[m] : k < l /\ Kid(h, m, k) = Kid(g, m, i) /\ Kid(h, m, l) = Kid(g, m, j)

LEMMA RemovedIs ==
  ASSUME NEW h \in Heaps, Shaped(h), NEW c \in h.used, h.parent[c] # Nil,
         NEW g, g = RemoveChild(h, h.parent[c], c)
  PROVE  /\ Edited(h, g) /\ g.used = h.used /\ g.label = h.label /\ g.value = h.value
         /\ ChildLinks(h, h.used) => Unlisted(g, c)
         /\ Linked(h) => IndexOf(h, h.parent[c], c) # 0 /\ Thinned(h, {c}, g)
<1> DEFINE n == h.parent[c]
           pos == IndexOf(h, n, c)
<1>1. n \in h.used /\ n \in Node /\ c \in Node /\ \A m \in Node : h.len[m] \in Nat
  BY DEF Shaped, Heaps, Heap
<1>2. (g = h /\ pos = 0) \/ ChildRemoved(h, n, c, pos, g)
  BY <1>1, RemoveChildIs DEF Heaps
<1>3. g \in Heaps /\ Shaped(g) /\ g.used = h.used /\ g.label = h.label /\ g.value = h.value
  <2>1. g.used = h.used /\ g.label = h.label /\ g.value = h.value
    BY <1>2 DEF ChildRemoved
  <2> QED
    BY <1>1, <2>1, RemoveChildIs DEF Heaps
<1>4. ASSUME ChildLinks(h, h.used)
      PROVE  /\ ChildLinks(g, g.used)
             /\ \A m \in g.used : \A i \in 1 .. g.len[m] : Kid(g, m, i) # c
             /\ \A K \in SUBSET h.used : ParentLinks(h, K) => ParentLinks(g, K)
  BY <1>4, RemoveChildLinks DEF Heaps
<1>5. ChildLinks(h, h.used) => LinksKept(h, g)
  <2>1. \A K : K \cup (g.used \ h.used) = K
    BY <1>3
  <2> QED
    BY <1>4, <2>1 DEF LinksKept
<1> HIDE DEF pos, n
<1>6. ASSUME Linked(h)
      PROVE  pos # 0 /\ Thinned(h, {c}, g)
  <2>1. pos # 0
    <3>1. \E i \in 1 .. h.len[n] : Kid(h, n, i) = c
      BY <1>6 DEF Linked, ParentLinks, n
    <3>2. \/ pos = 0 /\ \A i \in 1 .. h.len[n] : Kid(h, n, i) # c
          \/ pos \in 1 .. h.len[n]
      BY <1>1, IndexOfIs DEF pos, Heaps
    <3> QED
      BY <3>1, <3>2
  <2>2. ChildRemoved(h, n, c, pos, g)
    BY <1>2, <2>1
  <2>3. ASSUME NEW m \in Node, m # n
        PROVE  g.len[m] = h.len[m] /\ \A i \in 1 .. g.len[m] : Kid(g, m, i) = Kid(h, m, i)
    <3>1. g.len[m] = h.len[m]
      BY <2>2, <2>3 DEF ChildRemoved
    <3>2. CASE m \notin h.used
      <4>1. h.len[m] = 0
        BY <3>2, UnusedIsBare
      <4> QED
        BY <3>1, <4>1
    <3>3. CASE m \in h.used /\ h.arr[m] # Nil
      <4>1. h.arr[m] # h.arr[n]
        BY <1>1, <1>6, <2>3, <3>3 DEF Linked, ChildLinks
      <4> QED
        BY <2>2, <3>1, <4>1 DEF ChildRemoved
    <3>4. CASE h.arr[m] = Nil
      <4>1. h.len[m] = 0
        <5>1. h.len[m] <= Len(<<>>)
          BY <3>4 DEF Shaped
        <5> QED
          BY <1>1, <5>1
      <4> QED
        BY <3>1, <4>1
    <3> QED
      BY <3>2, <3>3, <3>4
  <2>4. \A i \in 1 .. g.len[n] : \E k \in 1 .. h.len[n] :
          Kid(h, n, k) = Kid(g, n, i) /\ k = (IF i < pos THEN i ELSE i + 1)
    <3>1. g.len[n] = h.len[n] - 1 /\ pos \in 1 .. h.len[n]
      BY <1>1, <2>2 DEF ChildRemoved
    <3>2. \A i \in 1 .. h.len[n] - 1 : Kid(g, n, i) = Kid(h, n, IF i < pos THEN i ELSE i + 1)
      BY <2>2 DEF ChildRemoved
    <3>3. \A i \in 1 .. g.len[n] : (IF i < pos THEN i ELSE i + 1) \in 1 .. h.len[n]
      BY <1>1, <3>1
    <3> QED
      BY <3>1, <3>2, <3>3
  <2>5. ASSUME NEW i \in 1 .. g.len[n], NEW j \in 1 .. g.len[n], i < j
        PROVE  \E k, l \in 1 .. h.len[n] : k < l /\ Kid(h, n, k) = Kid(g, n, i) /\ Kid(h, n, l) = Kid(g, n, j)
    <3>1. PICK k \in 1 .. h.len[n] : Kid(h, n, k) = Kid(g, n, i) /\ k = (IF i < pos THEN i ELSE i + 1)
      BY <2>4
    <3>2. PICK l \in 1 .. h.len[n] : Kid(h, n, l) = Kid(g, n, j) /\ l = (IF j < pos THEN j ELSE j + 1)
      BY <2>4
    <3>3. pos \in Nat /\ i \in Nat /\ j \in Nat
      <4>1. pos \in 1 .. h.len[n]
        BY <2>2 DEF ChildRemoved
      <4> QED
        BY <4>1
    <3>4. k < l
      BY <2>5, <3>1, <3>2, <3>3
    <3> QED
      BY <3>1, <3>2, <3>4
  <2>6. \A m \in Node : g.parent[m] = IF m \in {c} THEN Nil ELSE h.parent[m]
    BY <2>2 DEF ChildRemoved
  <2>7. ASSUME NEW m \in Node, NEW i \in 1 .. g.len[m], NEW j \in 1 .. g.len[m], i < j
        PROVE  \E k, l \in 1 .. h.len[m] : k < l /\ Kid(h, m, k) = Kid(g, m, i) /\ Kid(h, m, l) = Kid(g, m, j)
    <3>1. CASE m = n
      BY <2>5, <2>7, <3>1
    <3>2. CASE m # n
      BY <2>3, <2>7, <3>2
    <3> QED
      BY <3>1, <3>2
  <2> QED
    BY <2>1, <2>6, <2>7 DEF Thinned
<1> QED
  BY <1>3, <1>4, <1>5, <1>6 DEF Edited, Unlisted, pos, n

LEMMA ThinnedTwice ==
  ASSUME NEW h, NEW D, NEW e, NEW c, NEW g, Thinned(h, D, e), Thinned(e, {c}, g)
  PROVE  Thinned(h, D \cup {c}, g)
<1>1. \A n \in Node : g.parent[n] = IF n \in D \cup {c} THEN Nil ELSE h.parent[n]
  BY DEF Thinned
<1>2. ASSUME NEW m \in Node, NEW i \in 1 .. g.len[m], NEW j \in 1 .. g.len[m], i < j
      PROVE  \E k, l \in 1 .. h.len[m] : k < l /\ Kid(h, m, k) = Kid(g, m, i) /\ Kid(h, m, l) = Kid(g, m, j)
  <2>1. PICK k \in 1 .. e.len[m], l \in 1 .. e.len[m] :
               k < l /\ Kid(e, m, k) = Kid(g, m, i) /\ Kid(e, m, l) = Kid(g, m, j)
    BY <1>2 DEF Thinned
  <2> QED
    BY <2>1 DEF Thinned
<1> QED
  BY <1>1, <1>2 DEF Thinned

(* The nodes among the first k that Remove detaches.                         *)
Picked(h, nodes, k) == {nodes[i] : i \in {j \in 1 .. k : h.parent[nodes[j]] # Nil}}

Removing(h) ==
  {acc \in [heap : Heaps, count : Nat] :
     /\ Edited(h, acc.heap) /\ acc.heap.used = h.used
     /\ acc.heap.label = h.label /\ acc.heap.value = h.value}

Detaching(h, nodes, k) ==
  {acc \in Removing(h) :
     Linked(h) => /\ Thinned(h, Picked(h, nodes, k), acc.heap)
                  /\ acc.count = Cardinality(Picked(h, nodes, k))
                  /\ IsFiniteSet(Picked(h, nodes, k)) /\ Linked(acc.heap)}

RemovingRound(p, q, acc, n) ==
  IF n = Root \/ acc.heap.parent[n] = Nil \/ IndexOf(acc.heap, acc.heap.parent[n], n) = 0
  THEN acc
  ELSE [heap |-> RemoveChild(acc.heap, acc.heap.parent[n], n), count |-> acc.count + 1]
RemovingLoop == INSTANCE Loops WITH Body <- RemovingRound

LEMMA RemovingKeeps ==
  ASSUME NEW h \in Heaps, Shaped(h), NEW acc \in Removing(h), NEW n \in h.used
  PROVE  RemovingRound(0, 0, acc, n) \in Removing(h)
<1> DEFINE g == RemoveChild(acc.heap, acc.heap.parent[n], n)
<1>1. /\ acc.heap \in Heaps /\ Shaped(acc.heap) /\ Edited(h, acc.heap) /\ n \in acc.heap.used
      /\ acc.heap.used = h.used /\ acc.heap.label = h.label /\ acc.heap.value = h.value
      /\ acc.count \in Nat /\ acc.count + 1 \in Nat
  BY DEF Removing, Edited
<1>2. CASE acc.heap.parent[n] # Nil
  <2>1. Edited(acc.heap, g) /\ g.used = h.used /\ g.label = h.label /\ g.value = h.value
    BY <1>1, <1>2, RemovedIs
  <2> HIDE DEF g
  <2>2. Edited(h, g) /\ g \in Heaps
    BY <1>1, <2>1, EditedTwice DEF Edited
  <2>3. [heap |-> g, count |-> acc.count + 1] \in Removing(h)
    BY <1>1, <2>1, <2>2 DEF Removing
  <2> QED
    BY <2>3 DEF RemovingRound, g
<1>3. CASE acc.heap.parent[n] = Nil
  BY <1>3 DEF RemovingRound
<1> QED
  BY <1>2, <1>3

(* After k rounds the first k nodes are detached, each counted once.         *)
LEMMA RemovingDetaches ==
  ASSUME NEW h \in Heaps, Shaped(h), NEW nodes \in Seq(h.used), NEW k \in 1 .. Len(nodes),
         NEW acc \in Detaching(h, nodes, k - 1)
  PROVE  RemovingRound(0, 0, acc, nodes[k]) \in Detaching(h, nodes, k)
<1> DEFINE n == nodes[k]
           e == acc.heap
           D == Picked(h, nodes, k - 1)
           r == RemovingRound(0, 0, acc, n)
           g == RemoveChild(e, e.parent[n], n)
<1>1. n \in h.used /\ n \in Node /\ h.used \subseteq Node
  BY DEF Heaps, Heap
<1>2. r \in Removing(h)
  BY <1>1, RemovingKeeps DEF Detaching
<1>3. ASSUME Linked(h)
      PROVE  /\ Thinned(h, Picked(h, nodes, k), r.heap) /\ r.count = Cardinality(Picked(h, nodes, k))
             /\ IsFiniteSet(Picked(h, nodes, k)) /\ Linked(r.heap)
  <2>1. e \in Heaps /\ Shaped(e) /\ e.used = h.used /\ n \in e.used /\ Linked(e) /\ acc.count \in Nat
    <3>1. e \in Heaps /\ Shaped(e) /\ e.used = h.used /\ acc.count \in Nat
      BY DEF Detaching, Removing, Edited
    <3>2. Linked(e)
      BY <1>3 DEF Detaching
    <3> QED
      BY <1>1, <3>1, <3>2
  <2>2. Thinned(h, D, e) /\ acc.count = Cardinality(D) /\ IsFiniteSet(D)
    BY <1>3 DEF Detaching
  <2>3. Picked(h, nodes, k) = IF h.parent[n] # Nil THEN D \cup {n} ELSE D
    <3>1. \A i : i \in 1 .. k <=> i \in 1 .. (k - 1) \/ i = k
      OBVIOUS
    <3> QED
      BY <3>1 DEF Picked
  <2>4. e.parent[n] = IF n \in D THEN Nil ELSE h.parent[n]
    BY <1>1, <2>2 DEF Thinned
  <2>5. e.parent[Root] = Nil
    BY <2>1 DEF Linked, ChildLinks
  <2> HIDE DEF D, e, n
  <2>6. CASE e.parent[n] = Nil
    <3>1. r = acc
      BY <2>6 DEF RemovingRound, e, r
    <3>2. Picked(h, nodes, k) = D
      BY <2>3, <2>4, <2>6
    <3> QED
      BY <2>1, <2>2, <3>1, <3>2 DEF e
  <2>7. CASE e.parent[n] # Nil
    <3>1. IndexOf(e, e.parent[n], n) # 0 /\ Thinned(e, {n}, g) /\ Linked(g)
      <4>1. g = RemoveChild(e, e.parent[n], n)
        OBVIOUS
      <4> HIDE DEF g
      <4>2. IndexOf(e, e.parent[n], n) # 0 /\ Thinned(e, {n}, g)
        BY <2>1, <2>7, <4>1, RemovedIs
      <4>3. ChildLinks(g, g.used) /\ g.used = e.used
            /\ \A K \in SUBSET e.used : ParentLinks(e, K) => ParentLinks(g, K)
        BY <2>1, <2>7, <4>1, RemoveChildLinks DEF Heaps, Linked
      <4>4. e.used \in SUBSET e.used
        OBVIOUS
      <4>5. Linked(g)
        BY <2>1, <4>3, <4>4 DEF Linked
      <4> QED
        BY <4>2, <4>5
    <3>2. r = [heap |-> g, count |-> acc.count + 1]
      BY <2>5, <2>7, <3>1 DEF RemovingRound, e, r
    <3>3. n \notin D /\ Picked(h, nodes, k) = D \cup {n}
      BY <2>3, <2>4, <2>7
    <3>4. Cardinality(D \cup {n}) = Cardinality(D) + 1 /\ IsFiniteSet(D \cup {n})
      BY <2>2, <3>3, FS_AddElement
    <3>5. Thinned(h, D \cup {n}, g)
      BY <2>2, <3>1, ThinnedTwice
    <3> QED
      BY <2>2, <3>1, <3>2, <3>3, <3>4, <3>5
  <2> QED
    BY <2>6, <2>7
<1> QED
  BY <1>2, <1>3 DEF Detaching

LEMMA RemoveEachStays ==
  ASSUME NEW h \in Heaps, Shaped(h), NEW nodes \in Seq(h.used)
  PROVE  LET start == [heap |-> h, count |-> 0]
         IN  /\ RemoveEach(h, nodes) = RemovingLoop!Result(start, nodes, 0, 0)
             /\ RemovingLoop!Stays(Removing(h), start, nodes, 0, 0)
<1> DEFINE start == [heap |-> h, count |-> 0]
<1>1. RemoveEach(h, nodes) = RemovingLoop!Result(start, nodes, 0, 0)
  BY DEF RemoveEach, Seqs!FoldLeft, Seqs!MapThenFoldSet, Seqs!Max, RemovingLoop!Result, RemovingLoop!IsLoop,
         RemovingLoop!Greatest, RemovingRound
<1>2. start \in Removing(h)
  BY EditedSame DEF Removing
<1>3. Len(nodes) \in Nat /\ DOMAIN nodes = 1 .. Len(nodes) /\ \A k \in DOMAIN nodes : nodes[k] \in h.used
  OBVIOUS
<1>4. RemovingLoop!Stays(Removing(h), start, nodes, 0, 0)
  <2>1. \E n \in Nat : DOMAIN nodes = 1 .. n
    BY <1>3
  <2> HIDE DEF start
  <2> QED
    BY <1>2, <1>3, <2>1, RemovingKeeps DEF RemovingLoop!Stays
<1> QED
  BY <1>1, <1>4

LEMMA RemoveEachIs ==
  ASSUME NEW h \in Heaps, Shaped(h), NEW nodes \in Seq(h.used)
  PROVE  RemoveEach(h, nodes) \in Detaching(h, nodes, Len(nodes))
<1> DEFINE start == [heap |-> h, count |-> 0]
           Q == [k \in 0 .. Len(nodes) |-> Detaching(h, nodes, k)]
<1>1. RemoveEach(h, nodes) = RemovingLoop!Result(start, nodes, 0, 0)
  BY RemoveEachStays
<1>2. start \in Removing(h)
  BY EditedSame DEF Removing
<1>3. Len(nodes) \in Nat /\ DOMAIN nodes = 1 .. Len(nodes) /\ \A k \in DOMAIN nodes : nodes[k] \in h.used
  OBVIOUS
<1>4. start \in Detaching(h, nodes, 0)
  <2>1. Picked(h, nodes, 0) = {}
    BY DEF Picked
  <2>2. IsFiniteSet({}) /\ Cardinality({}) = 0
    BY FS_EmptySet
  <2>3. Thinned(h, {}, h)
    BY DEF Thinned
  <2> QED
    BY <1>2, <2>1, <2>2, <2>3 DEF Detaching
<1>5. RemovingLoop!Stays(Removing(h), start, nodes, 0, 0)
  BY RemoveEachStays
<1>6. ASSUME NEW k \in 1 .. Len(nodes), NEW s \in Removing(h), s \in Q[k - 1]
      PROVE  RemovingRound(0, 0, s, nodes[k]) \in Q[k]
  <2>1. k - 1 \in 0 .. Len(nodes) /\ k \in 0 .. Len(nodes)
    BY <1>3
  <2> QED
    BY <1>6, <2>1, RemovingDetaches
<1>7. Len(nodes) \in 0 .. Len(nodes) /\ 0 \in 0 .. Len(nodes)
  BY <1>3
<1> HIDE DEF start
<1>8. RemovingLoop!Result(start, nodes, 0, 0) \in Q[Len(nodes)]
  <2>1. start \in Q[0]
    BY <1>4, <1>7
  <2> HIDE DEF Q
  <2> QED
    BY <1>3, <1>5, <1>6, <2>1, RemovingLoop!LoopReaches
<1> QED
  BY <1>1, <1>7, <1>8

-----------------------------------------------------------------------------
(* The links of the heap a call leaves, when X are structs nothing lists any *)
(* more and D those whose parent no longer lists them.                       *)

Left(g, X, D) ==
  /\ Root \notin X
  /\ ChildLinks(g, g.used \ X) /\ Closed(g, g.used \ X)
  /\ ParentLinks(g, g.used \ (X \cup D))

LEMMA LinksWithin ==
  ASSUME NEW h, NEW K, NEW J, J \subseteq K
  PROVE  /\ ChildLinks(h, K) => ChildLinks(h, J)
         /\ ParentLinks(h, K) => ParentLinks(h, J)
BY DEF ChildLinks, ParentLinks

LEMMA EditedLeft ==
  ASSUME NEW h, NEW g, Edited(h, g), Lost \notin g.used, Linked(h)
  PROVE  Left(g, {}, {})
<1>1. /\ g \in Heaps /\ Shaped(g) /\ h.used \subseteq g.used
      /\ ChildLinks(g, g.used) /\ LinksKept(h, g)
  BY DEF Edited, Linked
<1>2. g.used \ {} = g.used /\ g.used \ ({} \cup {}) = g.used /\ h.used \cup (g.used \ h.used) = g.used
  BY <1>1
<1>3. Closed(g, g.used)
  BY <1>1 DEF Closed, Shaped, Heaps, Heap
<1>4. ParentLinks(g, g.used)
  <2>1. ParentLinks(g, h.used \cup (g.used \ h.used))
    BY <1>1 DEF LinksKept, Linked
  <2> QED
    BY <1>2, <2>1
<1> QED
  BY <1>1, <1>2, <1>3, <1>4 DEF Left

ChildrenOf(h, d) == {m \in Node : h.parent[m] = d}

GraftRound(d, q, g, e) ==
  LET new == Fresh(g)
  IN  AppendChild(SetNodeValue(NewNode(g, e.label), new, e.value), d, new)
GraftLoop == INSTANCE Loops WITH Body <- GraftRound

Grafting(h) ==
  {g \in Heaps : Grown(h, g) /\ (Lost \notin g.used => \A n \in h.used : g.value[n] = h.value[n])}

LEMMA GraftGrows ==
  ASSUME NEW h \in Heaps, Shaped(h), NEW d \in h.used, NEW entries, EntriesOK(entries)
  PROVE  GraftLoop!Result(h, entries, d, 0) \in Grafting(h)
<1>1. h \in Grafting(h)
  BY EditedSame DEF Grafting
<1>2. ASSUME NEW g \in Grafting(h), NEW k \in DOMAIN entries
      PROVE  GraftRound(d, 0, g, entries[k]) \in Grafting(h)
  <2> DEFINE e == entries[k]
             new == Fresh(g)
             f == SetNodeValue(NewNode(g, e.label), new, e.value)
             r == AppendChild(f, d, new)
  <2>1. g \in Heaps /\ Shaped(g) /\ d \in g.used /\ Grown(h, g) /\ h.used \subseteq g.used
    BY DEF Grafting, Grown, Edited
  <2>2. e.label \in Label /\ e.value \in Value \cup {NoValue}
    BY DEF EntriesOK
  <2> HIDE DEF e
  <2>3. Made(g, f)
    <3>1. Made(g, NewNode(g, e.label))
      BY <2>1, <2>2, MadeIs
    <3> QED
      BY <2>1, <2>2, <3>1, MadeWithValue
  <2> HIDE DEF f
  <2>4. /\ Grown(g, r) /\ r.used = g.used \cup {Fresh(g)} /\ r.value = f.value
        /\ Lost \notin r.used => Fresh(g) \notin g.used
    BY <2>1, <2>3, AddedIs
  <2> HIDE DEF r
  <2>5. Grown(h, r) /\ r \in Heaps
    <3>1. Edited(h, g) /\ Edited(g, r)
      BY <2>1, <2>4 DEF Grown
    <3> QED
      BY <2>1, <2>4, <3>1, EditedTwice DEF Edited
  <2>6. ASSUME Lost \notin r.used PROVE \A n \in h.used : r.value[n] = h.value[n]
    <3>1. Lost \notin g.used /\ \A n \in h.used : n \in Node /\ n # Fresh(g)
      BY <2>1, <2>4, <2>6 DEF Heaps, Heap
    <3>2. \A n \in h.used : f.value[n] = g.value[n]
      BY <2>3, <3>1 DEF Made
    <3> QED
      BY <2>4, <3>1, <3>2 DEF Grafting
  <2>7. r \in Grafting(h)
    BY <2>5, <2>6 DEF Grafting
  <2> QED
    BY <2>7 DEF GraftRound, r, f, e
<1>3. GraftLoop!Stays(Grafting(h), h, entries, d, 0)
  <2>1. \E n \in Nat : DOMAIN entries = 1 .. n
    BY SeqIs DEF EntriesOK
  <2> QED
    BY <1>1, <1>2, <2>1 DEF GraftLoop!Stays
<1> QED
  BY <1>3, GraftLoop!LoopKeeps

LEMMA GraftIs ==
  ASSUME NEW h \in Heaps, Shaped(h), NEW d \in h.used, NEW entries, EntriesOK(entries),
         NEW g, g = Graft(h, d, entries)
  PROVE  /\ g \in Heaps /\ Shaped(g) /\ h.used \subseteq g.used
         /\ Lost \notin g.used /\ Linked(h) => Left(g, {}, ChildrenOf(h, d))
<1> DEFINE f == DropChildren(h, d)
<1>1. g = GraftLoop!Result(f, entries, d, 0)
  BY DEF Graft, Seqs!FoldLeft, Seqs!MapThenFoldSet, Seqs!Max, GraftLoop!Result, GraftLoop!IsLoop,
         GraftLoop!Greatest, GraftRound
<1>2. f = DropChildren(h, d)
  OBVIOUS
<1> HIDE DEF f
<1>3. f \in Heaps /\ Shaped(f) /\ ChildrenDropped(h, d, f)
  BY <1>2, DropChildrenIs DEF Heaps
<1>4. f.used = h.used
  BY <1>3 DEF ChildrenDropped
<1>5. Grown(f, g) /\ g \in Heaps
  <2>1. d \in f.used
    BY <1>4
  <2> QED
    BY <1>1, <1>3, <2>1, GraftGrows DEF Grafting
<1>6. Shaped(g) /\ h.used \subseteq g.used
  BY <1>4, <1>5 DEF Grown, Edited
<1>7. ASSUME Lost \notin g.used, Linked(h) PROVE Left(g, {}, ChildrenOf(h, d))
  <2> DEFINE K == h.used \ ChildrenOf(h, d)
  <2>1. h.used \in SUBSET Node /\ K \in SUBSET Node
    BY DEF Heaps, Heap
  <2>2. ChildLinks(f, f.used)
    BY <1>2, <1>4, <1>7, <2>1, DropChildrenIs DEF Heaps, Linked
  <2>3. ParentLinks(f, K)
    <3>1. ParentLinks(h, K)
      BY <1>7, LinksWithin DEF Linked
    <3>2. \A m \in K : h.parent[m] # d
      BY <2>1 DEF ChildrenOf
    <3> HIDE DEF K
    <3> QED
      BY <1>2, <2>1, <3>1, <3>2, DropChildrenIs DEF Heaps
  <2>4. ChildLinks(g, g.used) /\ LinksKept(f, g)
    BY <1>5, <1>7, <2>2 DEF Grown, Edited
  <2>5. ParentLinks(g, K \cup (g.used \ f.used))
    <3>1. K \in SUBSET f.used
      BY <1>4
    <3> QED
      BY <2>3, <2>4, <3>1 DEF LinksKept
  <2>6. ParentLinks(g, g.used \ ({} \cup ChildrenOf(h, d)))
    <3>1. g.used \ ({} \cup ChildrenOf(h, d)) \subseteq K \cup (g.used \ f.used)
      BY <1>4
    <3> HIDE DEF K
    <3> QED
      BY <2>5, <3>1, LinksWithin
  <2>7. Closed(g, g.used)
    BY <1>5, <1>6 DEF Closed, Shaped, Heaps, Heap
  <2>8. g.used \ {} = g.used
    OBVIOUS
  <2> QED
    BY <2>4, <2>6, <2>7, <2>8 DEF Left
<1> QED
  BY <1>5, <1>6, <1>7

LEMMA TransferIs ==
  ASSUME NEW h \in Heaps, Shaped(h), NEW s \in h.used, s # Root, h.parent[s] # Nil, NEW d \in h.used,
         NEW g, g = Transfer(h, s, d)
  PROVE  /\ g \in Heaps /\ Shaped(g) /\ g.used = h.used
         /\ Linked(h) => Left(g, {s}, ChildrenOf(h, d))
<1> DEFINE f == RemoveChild(h, h.parent[s], s)
<1>1. g = TakeOver(f, d, s) /\ f = RemoveChild(h, h.parent[s], s)
  BY DEF Transfer
<1> HIDE DEF f
<1>2. /\ Edited(h, f) /\ f.used = h.used /\ f \in Heaps /\ Shaped(f)
      /\ ChildLinks(h, h.used) => Unlisted(f, s)
  <2>1. /\ Edited(h, f) /\ f.used = h.used
        /\ ChildLinks(h, h.used) => Unlisted(f, s)
    BY <1>1, RemovedIs
  <2> QED
    BY <2>1 DEF Edited
<1>3. g \in Heaps /\ Shaped(g) /\ g.used = h.used
  BY <1>1, <1>2, TakeOverIs DEF Heaps
<1>4. ASSUME Linked(h) PROVE Left(g, {s}, ChildrenOf(h, d))
  <2> DEFINE K == h.used \ ({s} \cup ChildrenOf(h, d))
  <2>1. h.used \in SUBSET Node /\ K \in SUBSET (f.used \ {s})
    BY <1>2 DEF Heaps, Heap
  <2>2. ChildLinks(f, f.used) /\ ParentLinks(f, f.used)
    <3>1. ChildLinks(h, h.used) /\ \A J \in SUBSET h.used : ParentLinks(h, J) => ParentLinks(f, J)
      BY <1>1, <1>4, RemoveChildLinks DEF Heaps, Linked
    <3>2. ChildLinks(f, f.used)
      BY <1>1, <3>1, RemoveChildLinks DEF Heaps
    <3> QED
      BY <1>2, <1>4, <3>1, <3>2 DEF Linked
  <2>3. \A m \in K : f.parent[m] # d
    <3>1. h.parent[s] \in h.used
      BY <2>1 DEF Shaped
    <3>2. \/ f = h
          \/ ChildRemoved(h, h.parent[s], s, IndexOf(h, h.parent[s], s), f)
      BY <1>1, <3>1, RemoveChildIs DEF Heaps
    <3>3. \A m \in Node : m # s => f.parent[m] = h.parent[m]
      BY <3>2 DEF ChildRemoved
    <3> QED
      BY <2>1, <3>3 DEF ChildrenOf
  <2> HIDE DEF K
  <2>4. /\ ChildLinks(g, f.used \ {s}) /\ Closed(g, f.used \ {s})
        /\ ParentLinks(g, K)
    <3>1. f \in Heap(Label \cup {NoLabel}, Value \cup {NoValue}) /\ d \in f.used /\ s \in f.used
      BY <1>2 DEF Heaps
    <3>2. ChildLinks(f, f.used) /\ Unlisted(f, s)
      BY <1>2, <1>4, <2>2 DEF Linked
    <3>3. TakenOver(f, d, s, g)
      BY <1>1, <1>2, <3>1, <3>2, TakeOverIs
    <3> QED
      BY <1>2, <1>3, <2>1, <2>2, <2>3, <3>3 DEF TakenOver
  <2> QED
    BY <1>2, <1>3, <2>4 DEF Left, K
<1> QED
  BY <1>3, <1>4

-----------------------------------------------------------------------------
(* What a call makes of a state: a heap g, before Go collects it, and new    *)
(* bindings into g.                                                          *)

Typed ==
  /\ heap \in Heaps /\ Shaped(heap) /\ heap.live \subseteq heap.used
  /\ Bound(heap.used, vars)
  /\ lastError \in BOOLEAN /\ panicked \in BOOLEAN /\ call.err \in BOOLEAN

Outcome(g) ==
  /\ g \in Heaps /\ Shaped(g) /\ Bound(g.used, vars')
  /\ heap' = Collected(g, Held(vars'))
  /\ lastError' \in BOOLEAN /\ call'.err \in BOOLEAN /\ panicked' = panicked
  /\ Linked(heap) => \E X \in SUBSET Discarded : Left(g, X, Discarded)

Effect == \E g : Outcome(g)

LEMMA LeftWider ==
  ASSUME NEW g, NEW X, NEW D, NEW E, D \subseteq E, Left(g, X, D)
  PROVE  Left(g, X, E)
<1>1. g.used \ (X \cup E) \subseteq g.used \ (X \cup D)
  OBVIOUS
<1> QED
  BY <1>1, LinksWithin DEF Left

LEMMA Returned ==
  ASSUME Typed, NEW of, NEW g, NEW vs, NEW err \in BOOLEAN, NEW ret, Return(of, g, vs, err, ret),
         g \in Heaps, Shaped(g), Bound(g.used, vs),
         NEW X, NEW D, X \subseteq Discarded, D \subseteq Discarded,
         Lost \notin g.used /\ Linked(heap) => Left(g, X, D)
  PROVE  Effect
<1>1. /\ Lost \notin g.used /\ heap' = Collected(g, Held(vs)) /\ vars' = vs
      /\ lastError' = (lastError \/ err) /\ call' = [of |-> of, err |-> err, ret |-> ret]
      /\ panicked' = panicked
  BY DEF Return
<1>2. lastError' \in BOOLEAN /\ call'.err \in BOOLEAN
  <2>1. lastError \in BOOLEAN
    BY DEF Typed
  <2> QED
    BY <1>1, <2>1
<1>3. Linked(heap) => \E Y \in SUBSET Discarded : Left(g, Y, Discarded)
  BY <1>1, LeftWider
<1>4. Outcome(g)
  BY <1>1, <1>2, <1>3 DEF Outcome
<1> QED
  BY <1>4 DEF Effect

LEMMA ReturnedEdited ==
  ASSUME Typed, NEW of, NEW g, NEW vs, NEW err \in BOOLEAN, NEW ret, Return(of, g, vs, err, ret),
         Edited(heap, g), Bound(g.used, vs)
  PROVE  Effect
<1>1. g \in Heaps /\ Shaped(g)
  BY DEF Edited
<1>2. Lost \notin g.used /\ Linked(heap) => Left(g, {}, {})
  BY EditedLeft
<1>3. {} \subseteq Discarded
  OBVIOUS
<1> QED
  BY <1>1, <1>2, <1>3, Returned

LEMMA BoundWider ==
  ASSUME NEW T, NEW U, T \subseteq U, NEW vs, Bound(T, vs)
  PROVE  Bound(U, vs)
<1>1. \A s \in Seq(T) : s \in Seq(U)
  OBVIOUS
<1> QED
  BY <1>1 DEF Bound

(* Calls that leave the bindings alone. *)
LEMMA ReturnedVars ==
  ASSUME Typed, NEW of, NEW g, NEW err \in BOOLEAN, NEW ret, Return(of, g, vars, err, ret),
         Edited(heap, g)
  PROVE  Effect
<1>1. Bound(g.used, vars)
  BY BoundWider DEF Typed, Edited
<1> QED
  BY <1>1, ReturnedEdited

LEMMA ReturnedSame ==
  ASSUME Typed, NEW of, NEW err \in BOOLEAN, NEW ret, Return(of, heap, vars, err, ret)
  PROVE  Effect
<1>1. Edited(heap, heap)
  BY EditedSame DEF Typed
<1> QED
  BY <1>1, ReturnedVars

LEMMA Failed ==
  ASSUME Typed, NEW of, NEW ret, Fail(of, ret)
  PROVE  Effect
BY ReturnedSame DEF Fail

LEMMA MatchesAre ==
  ASSUME Typed, NEW path, PathOK(path)
  PROVE  Matches(path).ok \in BOOLEAN /\ Matches(path).nodes \in Seq(heap.used)
BY EvalIs DEF Typed, Matches, Answered, Heaps

-----------------------------------------------------------------------------
(* The methods that read. *)
LEMMA ReadsKeep ==
  ASSUME Typed, NEW path,
         Get(path) \/ Exists(path) \/ Match(path) \/ GetLabel(path)
  PROVE  Effect
<1>1. ASSUME NEW of, NEW err, NEW ret, Return(of, heap, vars, ~err, ret) PROVE Effect
  <2>1. (~err) \in BOOLEAN
    OBVIOUS
  <2> QED
    BY <1>1, <2>1, ReturnedSame
<1>2. CASE Get(path)
  <2> DEFINE m == Matches(path)
             bad == ~m.ok \/ Len(m.nodes) > 1
  <2>1. bad \in BOOLEAN
    OBVIOUS
  <2>2. \E of, ret : Return(of, heap, vars, bad, ret)
    BY <1>2 DEF Get
  <2> HIDE DEF bad
  <2> QED
    BY <2>1, <2>2, ReturnedSame
<1>3. CASE Exists(path)
  BY <1>1, <1>3 DEF Exists
<1>4. CASE Match(path)
  BY <1>1, <1>4 DEF Match
<1>5. CASE GetLabel(path)
  BY <1>1, <1>5 DEF GetLabel
<1> QED
  BY <1>2, <1>3, <1>4, <1>5

LEMMA SetKeeps ==
  ASSUME Typed, NEW path, PathOK(path), MakesLabels(path[1].segs), NEW v \in Value, Set(path, v)
  PROVE  Effect
<1> DEFINE m == Matches(path)
           c == CreatePath(heap, path)
           of == <<"Set", path, v>>
<1>1. heap \in Heaps /\ Shaped(heap)
  BY DEF Typed
<1>2. m.ok \in BOOLEAN /\ m.nodes \in Seq(heap.used)
  BY MatchesAre
<1>3. c.heap \in Heaps /\ Grown(heap, c.heap) /\ (c.ok => c.node \in c.heap.used)
  BY <1>1, CreatePathIs
<1> HIDE DEF m, c
<1>4. ASSUME c.ok PROVE Edited(heap, SetNodeValue(c.heap, c.node, v))
  <2>1. Grown(c.heap, SetNodeValue(c.heap, c.node, v))
    BY <1>3, <1>4, ValueSet DEF Grown, Edited
  <2> QED
    BY <1>1, <1>3, <2>1, EditedTwice DEF Grown
<1>5. ASSUME Len(m.nodes) = 1 PROVE Edited(heap, SetNodeValue(heap, m.nodes[1], v))
  <2>1. m.nodes[1] \in heap.used
    BY <1>2, <1>5
  <2> QED
    BY <1>1, <2>1, ValueSet DEF Grown
<1>6. CASE c.ok /\ Return(of, SetNodeValue(c.heap, c.node, v), vars, FALSE, Nil)
  BY <1>4, <1>6, ReturnedVars
<1>7. CASE Return(of, c.heap, vars, TRUE, Nil)
  BY <1>3, <1>7, ReturnedVars DEF Grown
<1>8. CASE Len(m.nodes) = 1 /\ Return(of, SetNodeValue(heap, m.nodes[1], v), vars, FALSE, Nil)
  BY <1>5, <1>8, ReturnedVars
<1>9. CASE Fail(of, Nil)
  BY <1>9, Failed
<1> QED
  BY <1>6, <1>7, <1>8, <1>9 DEF Set, m, c

LEMMA SetMultipleKeeps ==
  ASSUME Typed, NEW base, PathOK(base), NEW sub, SegsOK(sub), MakesLabels(sub), NEW v \in Value,
         SetMultiple(base, sub, v)
  PROVE  Effect
<1> DEFINE m == Matches(base)
           r == SetEach(heap, m.nodes, sub, v)
           of == <<"SetMultiple", base, sub, v>>
           bad == ~r.ok
<1>1. m.nodes \in Seq(heap.used) /\ heap \in Heaps /\ Shaped(heap)
  BY MatchesAre DEF Typed
<1> HIDE DEF m
<1>2. r \in Setting(heap, v)
  BY <1>1, SetEachIs
<1> HIDE DEF r
<1>3. Edited(heap, r.heap) /\ bad \in BOOLEAN
  BY <1>2 DEF Setting, Grown
<1>4. CASE Return(of, r.heap, vars, bad, r.count)
  <2> HIDE DEF bad
  <2> QED
    BY <1>3, <1>4, ReturnedVars
<1>5. CASE Fail(of, 0)
  BY <1>5, Failed
<1> QED
  BY <1>4, <1>5 DEF SetMultiple, m, r

LEMMA RemoveKeeps ==
  ASSUME Typed, NEW path, PathOK(path), Remove(path)
  PROVE  Effect
<1> DEFINE m == Matches(path)
           r == RemoveEach(heap, m.nodes)
           of == <<"Remove", path>>
<1>1. m.nodes \in Seq(heap.used) /\ heap \in Heaps /\ Shaped(heap)
  BY MatchesAre DEF Typed
<1> HIDE DEF m
<1>2. Edited(heap, r.heap)
  BY <1>1, RemoveEachIs DEF Detaching, Removing
<1> HIDE DEF r
<1>3. CASE Return(of, r.heap, vars, FALSE, r.count)
  BY <1>2, <1>3, ReturnedVars
<1>4. CASE Fail(of, 0)
  BY <1>4, Failed
<1> QED
  BY <1>3, <1>4 DEF Remove, m, r

(* Insert slices out of range when its node is no child of its Parent. *)
Panics ==
  /\ ~Linked(heap)
  /\ panicked' = TRUE /\ call'.err = TRUE
  /\ UNCHANGED <<heap, vars, lastError>>

LEMMA InsertIndexIs ==
  ASSUME Typed, NEW n \in heap.used, heap.parent[n] # Nil, NEW before
  PROVE  /\ InsertIndex(n, before) \in Nat /\ heap.len[heap.parent[n]] \in Nat
         /\ heap.parent[n] \in heap.used
         /\ Linked(heap) => InsertIndex(n, before) <= heap.len[heap.parent[n]]
<1> DEFINE p == heap.parent[n]
           i == IndexOf(heap, p, n)
           k == heap.len[p]
<1>1. heap \in Heaps /\ Shaped(heap)
  BY DEF Typed
<1>2. p \in heap.used /\ p \in Node /\ k \in Nat
  BY <1>1 DEF Shaped, Heaps, Heap
<1>3. \/ i = 0 /\ \A j \in 1 .. k : Kid(heap, p, j) # n
      \/ i \in 1 .. k
  BY <1>1, <1>2, IndexOfIs DEF Heaps
<1>4. Linked(heap) => \E j \in 1 .. k : Kid(heap, p, j) = n
  BY DEF Linked, ParentLinks
<1>5. InsertIndex(n, before) = (IF i = 0 THEN 0 ELSE i - 1) + (IF before THEN 0 ELSE 1)
  BY DEF InsertIndex
<1> HIDE DEF i, k
<1>6. InsertIndex(n, before) \in Nat
  BY <1>2, <1>3, <1>5
<1>7. Linked(heap) => InsertIndex(n, before) <= k
  <2>1. Linked(heap) => i \in 1 .. k
    BY <1>3, <1>4
  <2> QED
    BY <1>2, <1>5, <2>1
<1> QED
  BY <1>2, <1>6, <1>7 DEF k

LEMMA FitsIs ==
  ASSUME NEW h, NEW p, NEW i \in Nat, h.len[p] \in Nat
  PROVE  IF InsertPanics(h, p, i) THEN ~(i <= h.len[p]) ELSE i \in 0 .. h.len[p]
BY DEF InsertPanics

LEMMA InsertIsEffect ==
  ASSUME Typed, NEW of, NEW n \in heap.used, NEW label \in Label, NEW before,
         NEW p, p = heap.parent[n], p # Nil, NEW i, i = InsertIndex(n, before),
         ~InsertPanics(heap, p, i),
         Return(of, InsertChild(NewNode(heap, label), p, i, Fresh(heap)), vars, FALSE, Nil)
  PROVE  Effect
<1> DEFINE g == InsertChild(NewNode(heap, label), p, i, Fresh(heap))
<1>1. heap \in Heaps /\ Shaped(heap)
  BY DEF Typed
<1>2. i \in Nat /\ heap.len[p] \in Nat /\ p \in heap.used
  BY InsertIndexIs
<1>3. i \in 0 .. heap.len[p]
  BY <1>2, FitsIs
<1>4. Lost \notin g.used
  BY DEF Return
<1>5. Edited(heap, g)
  BY <1>1, <1>2, <1>3, MadeIs, InsertedIs
<1> QED
  BY <1>5, ReturnedVars

LEMMA InsertPanicking ==
  ASSUME Typed, NEW of, NEW n \in heap.used, NEW before,
         NEW p, p = heap.parent[n], p # Nil, NEW i, i = InsertIndex(n, before),
         InsertPanics(heap, p, i),
         panicked' = TRUE, call' = [of |-> of, err |-> TRUE, ret |-> Nil],
         UNCHANGED <<heap, vars, lastError>>
  PROVE  Panics
<1>1. i \in Nat /\ heap.len[p] \in Nat /\ (Linked(heap) => i <= heap.len[p])
  BY InsertIndexIs
<1>2. ~(i <= heap.len[p])
  BY <1>1, FitsIs
<1> QED
  BY <1>1, <1>2 DEF Panics

LEMMA SingleIs ==
  ASSUME NEW T, NEW s \in Seq(T), Len(s) = 1
  PROVE  s[1] \in T
OBVIOUS

LEMMA InsertTarget ==
  ASSUME Typed, NEW path, PathOK(path), NEW label \in Label \cup {"", "*"},
         InsertValid(Matches(path), label)
  PROVE  /\ Matches(path).nodes[1] \in heap.used /\ heap.parent[Matches(path).nodes[1]] # Nil
         /\ label \in Label
<1>1. Matches(path).nodes \in Seq(heap.used)
  BY MatchesAre
<1>2. Len(Matches(path).nodes) = 1 => Matches(path).nodes[1] \in heap.used
  BY <1>1, SingleIs
<1>3. Len(Matches(path).nodes) = 1 /\ heap.parent[Matches(path).nodes[1]] # Nil /\ label \notin {"", "*"}
  BY InsertLabel DEF InsertValid
<1> QED
  BY <1>1, <1>2, <1>3

LEMMA InsertKeeps ==
  ASSUME Typed, NEW path, PathOK(path), NEW label \in Label \cup {"", "*"}, NEW before,
         Insert(path, label, before)
  PROVE  Effect \/ Panics
<1> DEFINE m == Matches(path)
           n == m.nodes[1]
           p == heap.parent[n]
           i == InsertIndex(n, before)
           of == <<"Insert", path, label, before>>
<1>1. InsertValid(m, label) => n \in heap.used /\ p # Nil /\ label \in Label
  BY InsertTarget
<1>2. CASE /\ InsertValid(m, label) /\ ~InsertPanics(heap, p, i)
           /\ Return(of, InsertChild(NewNode(heap, label), p, i, Fresh(heap)), vars, FALSE, Nil)
  BY <1>1, <1>2, InsertIsEffect
<1>3. CASE /\ InsertValid(m, label) /\ InsertPanics(heap, p, i)
           /\ panicked' = TRUE /\ call' = [of |-> of, err |-> TRUE, ret |-> Nil]
           /\ UNCHANGED <<heap, vars, lastError>>
  BY <1>1, <1>3, InsertPanicking
<1>4. CASE Fail(of, Nil)
  BY <1>4, Failed
<1> QED
  BY <1>2, <1>3, <1>4 DEF Insert

LEMMA MoveKeeps ==
  ASSUME Typed, NEW src, PathOK(src), NEW dst, PathOK(dst), MakesLabels(dst[1].segs), Move(src, dst)
  PROVE  Effect
<1> DEFINE of == <<"Move", src, dst>>
           s == MoveSource(Matches(src))
           m == Matches(dst)
           c == CreatePath(heap, dst)
<1>1. heap \in Heaps /\ Shaped(heap) /\ heap.used \in SUBSET Node /\ Bound(heap.used, vars)
  BY DEF Typed, Heaps, Heap
<1>2. m.nodes \in Seq(heap.used)
  BY MatchesAre
<1>3. s # Nil => s \in heap.used /\ s # Root /\ heap.parent[s] # Nil
  <2>1. Matches(src).nodes \in Seq(heap.used)
    BY MatchesAre
  <2> QED
    BY <2>1 DEF MoveSource
<1>4. c.heap \in Heaps /\ Grown(heap, c.heap) /\ (c.ok => c.node \in c.heap.used)
  BY <1>1, CreatePathIs
<1>5. ASSUME call' = [of |-> of, err |-> FALSE, ret |-> Nil]
      PROVE  Discarded = {s} \cup (IF Len(m.nodes) = 1 THEN ChildrenOf(heap, m.nodes[1])
                                   ELSE ChildrenOf(c.heap, c.node))
  <2>1. call'.of[1] = "Move" /\ call'.of[2] = src /\ call'.of[3] = dst /\ ~call'.err
    BY <1>5
  <2> QED
    BY <2>1 DEF Discarded, Succeeded, ChildrenOf
<1> HIDE DEF s, m, c
<1>6. CASE s # Nil /\ Len(m.nodes) = 1 /\ Return(of, Transfer(heap, s, m.nodes[1]), vars, FALSE, Nil)
  <2> DEFINE d == m.nodes[1]
             g == Transfer(heap, s, d)
  <2>1. d \in heap.used
    BY <1>2, <1>6
  <2>2. g \in Heaps /\ Shaped(g) /\ g.used = heap.used
        /\ (Linked(heap) => Left(g, {s}, ChildrenOf(heap, d)))
    BY <1>1, <1>3, <1>6, <2>1, TransferIs
  <2>3. {s} \subseteq Discarded /\ ChildrenOf(heap, d) \subseteq Discarded
    BY <1>5, <1>6 DEF Return
  <2>4. Return(of, g, vars, FALSE, Nil)
    BY <1>6
  <2> HIDE DEF g, d
  <2>5. Bound(g.used, vars)
    BY <1>1, <2>2
  <2> QED
    BY <2>2, <2>3, <2>4, <2>5, Returned
<1>7. CASE s # Nil /\ Len(m.nodes) = 0 /\ c.ok /\ Return(of, Transfer(c.heap, s, c.node), vars, FALSE, Nil)
  <2> DEFINE d == c.node
             g == Transfer(c.heap, s, d)
  <2>1. Return(of, g, vars, FALSE, Nil) /\ d \in c.heap.used /\ Shaped(c.heap) /\ s \in c.heap.used
    BY <1>3, <1>4, <1>7 DEF Grown, Edited
  <2>2. {s} \subseteq Discarded /\ ChildrenOf(c.heap, d) \subseteq Discarded
    BY <1>5, <1>7 DEF Return
  <2>3. g.used = c.heap.used
    <3>1. /\ (RemoveChild(c.heap, c.heap.parent[s], s)).used = c.heap.used
      BY DEF RemoveChild
    <3> QED
      BY <3>1 DEF Transfer, TakeOver
  <2>4. Lost \notin g.used
    BY <2>1 DEF Return
  <2>5. c.heap.parent[s] # Nil
    BY <1>3, <1>4, <1>7, <2>3, <2>4 DEF Grown
  <2>6. g \in Heaps /\ Shaped(g) /\ (Linked(c.heap) => Left(g, {s}, ChildrenOf(c.heap, d)))
    BY <1>3, <1>4, <1>7, <2>1, <2>5, TransferIs
  <2>7. Linked(heap) => Linked(c.heap)
    <3>1. Linked(heap) => Left(c.heap, {}, {})
      BY <1>4, <2>3, <2>4, EditedLeft DEF Grown
    <3>2. c.heap.used \ {} = c.heap.used /\ c.heap.used \ ({} \cup {}) = c.heap.used
      OBVIOUS
    <3> QED
      BY <3>1, <3>2 DEF Left, Linked
  <2> HIDE DEF g, d
  <2>8. Bound(g.used, vars)
    BY <1>1, <1>4, <2>3, BoundWider DEF Grown, Edited
  <2> QED
    BY <2>1, <2>2, <2>6, <2>7, <2>8, Returned
<1>8. CASE Return(of, c.heap, vars, TRUE, Nil)
  BY <1>4, <1>8, ReturnedVars DEF Grown
<1>9. CASE Fail(of, Nil)
  BY <1>9, Failed
<1> QED
  BY <1>6, <1>7, <1>8, <1>9 DEF Move, MoveTo, s, m, c

-----------------------------------------------------------------------------
(* Binding variables. *)
LEMMA BindIs ==
  ASSUME NEW T, Bound(T, vars), NEW x, NEW nodes \in Seq(T)
  PROVE  Bound(T, Bind(x, nodes))
BY DEF Bound, Bind

LEMMA DefineVariableKeeps ==
  ASSUME Typed, NEW x, NEW expr, PathOK(expr), DefineVariable(x, expr)
  PROVE  Effect
<1> DEFINE m == Matches(expr)
           of == <<"DefineVariable", x, expr>>
<1>1. heap \in Heaps /\ Shaped(heap) /\ Bound(heap.used, vars)
  BY DEF Typed
<1>2. m.nodes \in Seq(heap.used)
  BY MatchesAre
<1> HIDE DEF m
<1>3. CASE Return(of, heap, Bind(x, m.nodes), FALSE, Len(m.nodes))
  BY <1>1, <1>2, <1>3, BindIs, EditedSame, ReturnedEdited
<1>4. CASE Fail(of, 0)
  BY <1>4, Failed
<1> QED
  BY <1>3, <1>4 DEF DefineVariable, m

LEMMA DefineNodeKeeps ==
  ASSUME Typed, NEW x, NEW expr, PathOK(expr), MakesLabels(expr[1].segs), NEW v \in Value,
         DefineNode(x, expr, v)
  PROVE  Effect
<1> DEFINE m == Matches(expr)
           c == CreatePath(heap, expr)
           g == SetNodeValue(c.heap, c.node, v)
           of == <<"DefineNode", x, expr, v>>
           old == [path |-> BuildPath(heap, m.nodes[1]), created |-> FALSE]
           new == [path |-> BuildPath(c.heap, c.node), created |-> TRUE]
<1>1. heap \in Heaps /\ Shaped(heap) /\ Bound(heap.used, vars)
  BY DEF Typed
<1>2. m.nodes \in Seq(heap.used)
  BY MatchesAre
<1>3. c.heap \in Heaps /\ Grown(heap, c.heap) /\ (c.ok => c.node \in c.heap.used)
  BY <1>1, CreatePathIs
<1> HIDE DEF m, c, old, new
<1>4. CASE Return(of, heap, Bind(x, m.nodes), FALSE, old)
  BY <1>1, <1>2, <1>4, BindIs, EditedSame, ReturnedEdited
<1>5. CASE c.ok /\ Return(of, g, Bind(x, <<c.node>>), FALSE, new)
  <2>1. Grown(c.heap, g) /\ g.used = c.heap.used
    BY <1>3, <1>5, ValueSet DEF Grown, Edited
  <2> HIDE DEF g
  <2>2. Edited(heap, g)
    BY <1>1, <1>3, <2>1, EditedTwice DEF Grown
  <2>3. Bound(g.used, vars)
    BY <1>1, <2>2, BoundWider DEF Edited
  <2>4. <<c.node>> \in Seq(g.used)
    BY <1>3, <1>5, <2>1, OneIs
  <2>5. Bound(g.used, Bind(x, <<c.node>>))
    BY <2>3, <2>4, BindIs
  <2> QED
    BY <1>5, <2>2, <2>5, ReturnedEdited
<1>6. CASE Return(of, c.heap, vars, TRUE, Nil)
  BY <1>3, <1>6, ReturnedVars DEF Grown
<1>7. CASE Fail(of, Nil)
  BY <1>7, Failed
<1> QED
  BY <1>4, <1>5, <1>6, <1>7 DEF DefineNode, m, c, old, new

LEMMA TextStoreKeeps ==
  ASSUME Typed, NEW path, PathOK(path), MakesLabels(path[1].segs), NEW parsed, EntriesOK(parsed.entries),
         TextStore(path, parsed)
  PROVE  Effect
<1> DEFINE c == CreatePath(heap, path)
           g == Graft(c.heap, c.node, parsed.entries)
           of == <<"TextStore", path, parsed>>
<1>1. heap \in Heaps /\ Shaped(heap) /\ Bound(heap.used, vars)
  BY DEF Typed
<1>2. c.heap \in Heaps /\ Grown(heap, c.heap) /\ (c.ok => c.node \in c.heap.used)
  BY <1>1, CreatePathIs
<1>3. ASSUME call' = [of |-> of, err |-> FALSE, ret |-> Nil]
      PROVE  Discarded = ChildrenOf(c.heap, c.node)
  <2>1. call'.of[1] = "TextStore" /\ call'.of[2] = path /\ ~call'.err
    BY <1>3
  <2> QED
    BY <2>1 DEF Discarded, Succeeded, ChildrenOf
<1> HIDE DEF c
<1>4. CASE c.ok /\ Return(of, g, vars, FALSE, Nil)
  <2> DEFINE D == ChildrenOf(c.heap, c.node)
  <2>1. Shaped(c.heap) /\ heap.used \subseteq c.heap.used
    BY <1>2 DEF Grown, Edited
  <2>2. g = Graft(c.heap, c.node, parsed.entries)
    OBVIOUS
  <2>3. Discarded = D
    BY <1>3, <1>4 DEF Return
  <2>4. Return(of, g, vars, FALSE, Nil)
    BY <1>4
  <2> HIDE DEF g, D
  <2>5. /\ g \in Heaps /\ Shaped(g) /\ c.heap.used \subseteq g.used
        /\ Lost \notin g.used /\ Linked(c.heap) => Left(g, {}, D)
    BY <1>2, <1>4, <2>1, <2>2, GraftIs DEF D
  <2>6. Lost \notin g.used /\ Linked(heap) => Linked(c.heap)
    <3>1. Lost \notin g.used /\ Linked(heap) => Left(c.heap, {}, {})
      BY <1>2, <2>5, EditedLeft DEF Grown
    <3>2. c.heap.used \ {} = c.heap.used /\ c.heap.used \ ({} \cup {}) = c.heap.used
      OBVIOUS
    <3> QED
      BY <3>1, <3>2 DEF Left, Linked
  <2>7. Bound(g.used, vars)
    BY <1>1, <2>1, <2>5, BoundWider
  <2>8. {} \subseteq Discarded /\ D \subseteq Discarded
    BY <2>3
  <2>9. g \in Heaps /\ Shaped(g)
    BY <2>5
  <2>10. PICK X : X = {}
    OBVIOUS
  <2>11. Lost \notin g.used /\ Linked(heap) => Left(g, X, D)
    BY <2>5, <2>6, <2>10
  <2>12. X \subseteq Discarded
    BY <2>10
  <2> HIDE DEF of
  <2> QED
    BY <2>4, <2>7, <2>8, <2>9, <2>11, <2>12, Returned
<1>5. CASE Return(of, c.heap, vars, TRUE, Nil)
  BY <1>2, <1>5, ReturnedVars DEF Grown
<1>6. CASE Fail(of, Nil)
  BY <1>6, Failed
<1> QED
  BY <1>4, <1>5, <1>6 DEF TextStore, c

-----------------------------------------------------------------------------
(* Every call has such an effect, except an Insert that panics. *)
LEMMA NextKeeps ==
  ASSUME Typed, Next
  PROVE  Effect \/ Panics
<1>1. ASSUME NEW p \in ReadPaths, Get(p) \/ Exists(p) \/ Match(p) \/ GetLabel(p) PROVE Effect
  BY <1>1, ReadsKeep
<1>2. ASSUME NEW p \in SetPaths, NEW v \in Value, Set(p, v) PROVE Effect
  BY <1>2, SetKeeps, InputAssumption
<1>3. ASSUME NEW c \in SubPairs, NEW v \in Value, SetMultiple(c[1], c[2], v) PROVE Effect
  BY <1>3, SetMultipleKeeps, InputAssumption
<1>4. ASSUME NEW c \in InsertCalls, Insert(c[1], c[2], c[3]) PROVE Effect \/ Panics
  BY <1>4, InsertKeeps, InputAssumption
<1>5. ASSUME NEW p \in RemovePaths, Remove(p) PROVE Effect
  BY <1>5, RemoveKeeps, InputAssumption
<1>6. ASSUME NEW c \in MovePairs, Move(c[1], c[2]) PROVE Effect
  BY <1>6, MoveKeeps, InputAssumption
<1>7. ASSUME NEW x \in VarName, NEW p \in BindPaths, DefineVariable(x, p) PROVE Effect
  BY <1>7, DefineVariableKeeps, InputAssumption
<1>8. ASSUME NEW x \in VarName, NEW p \in BindPaths, NEW v \in Value, DefineNode(x, p, v) PROVE Effect
  BY <1>8, DefineNodeKeeps, InputAssumption
<1>9. ASSUME NEW c \in StoreCalls, TextStore(c[1], c[2]) PROVE Effect
  BY <1>9, TextStoreKeeps, InputAssumption
<1> QED
  BY <1>1, <1>2, <1>3, <1>4, <1>5, <1>6, <1>7, <1>8, <1>9 DEF Next

LEMMA HeldIs ==
  ASSUME NEW T, NEW vs, Bound(T, vs)
  PROVE  Held(vs) \subseteq T
<1>1. \A x \in DOMAIN vs : Seqs!ToSet(vs[x]) \subseteq T
  BY DEF Bound, Seqs!ToSet
<1> QED
  BY <1>1 DEF Held

LEMMA InitTyped ==
  ASSUME Init
  PROVE  Typed /\ Linked(heap)
<1>1. Root \in Node /\ Nil \notin Node
  BY Identities
<1>2. heap = EmptyHeap
  BY DEF Init
<1>3. heap \in Heaps
  <2>1. [a \in Array \cup {Nil} |-> <<>>] \in [Array \cup {Nil} -> Seq(Node \cup {Nil})]
    OBVIOUS
  <2> QED
    BY <1>1, <1>2, <2>1 DEF EmptyHeap, Heaps, Heap, Nil
<1>4. Shaped(heap)
  BY <1>1, <1>2 DEF EmptyHeap, Shaped, Kid, Nil
<1>5. Linked(heap)
  BY <1>1, <1>2 DEF EmptyHeap, Linked, ChildLinks, ParentLinks, Kid, Nil
<1>6. Bound(heap.used, vars)
  BY DEF Init, Bound
<1>7. heap.live \subseteq heap.used
  BY <1>2 DEF EmptyHeap
<1>8. lastError = FALSE /\ panicked = FALSE /\ call.err = FALSE
  BY DEF Init
<1> QED
  BY <1>3, <1>4, <1>5, <1>6, <1>7, <1>8 DEF Typed

LEMMA BoundWithin ==
  ASSUME NEW T, NEW U, NEW vs, Bound(T, vs), Held(vs) \subseteq U
  PROVE  Bound(U, vs)
<1>1. ASSUME NEW x \in DOMAIN vs PROVE vs[x] \in Seq(U)
  <2> DEFINE s == vs[x]
  <2>1. s \in Seq(T) /\ \A i \in DOMAIN s : s[i] \in U
    BY <1>1 DEF Bound, Held, Seqs!ToSet
  <2>2. \A t \in Seq(T) : Len(t) \in Nat /\ DOMAIN t = 1 .. Len(t) /\ t = [i \in 1 .. Len(t) |-> t[i]]
    OBVIOUS
  <2> HIDE DEF s
  <2>3. Len(s) \in Nat /\ Lists(s, Len(s), U)
    BY <2>1, <2>2 DEF Lists
  <2>4. s \in Seq(U)
    BY <2>3, SequenceIs
  <2> QED
    BY <2>4 DEF s
<1> QED
  BY <1>1 DEF Bound

(* Whatever a call leaves is typed, and is what the collector keeps of it.  *)
KeptOf(g, h) ==
  /\ KeptAs(g, h.used, h) /\ h.used \in SUBSET g.used /\ Root \in h.used
  /\ Closed(g, h.used) /\ ClosedUp(g, h.used)

LEMMA CollectedHeap ==
  ASSUME NEW g \in Heaps, Shaped(g), NEW held \in SUBSET g.used, NEW h, h = Collected(g, held)
  PROVE  /\ h \in Heaps /\ Shaped(h) /\ h.live \subseteq h.used
         /\ held \subseteq h.used /\ KeptOf(g, h)
<1>1. NoLabel \in Label \cup {NoLabel} /\ NoValue \in Value \cup {NoValue}
  OBVIOUS
<1>2. /\ h \in Heaps /\ Shaped(h) /\ h.live \subseteq h.used
      /\ held \subseteq h.used /\ h.used \in SUBSET g.used
      /\ KeptAs(g, h.used, h) /\ Root \in h.live
      /\ Closed(g, h.used) /\ ClosedUp(g, h.used)
  BY <1>1, CollectedIs DEF Heaps
<1> QED
  BY <1>2 DEF KeptOf

LEMMA EffectTyped ==
  ASSUME Typed, NEW g, Outcome(g)
  PROVE  Typed' /\ KeptOf(g, heap')
<1>1. g \in Heaps /\ Shaped(g) /\ Held(vars') \in SUBSET g.used /\ heap' = Collected(g, Held(vars'))
  BY HeldIs DEF Outcome
<1>2. /\ heap' \in Heaps /\ Shaped(heap') /\ heap'.live \subseteq heap'.used
      /\ Held(vars') \subseteq heap'.used /\ KeptOf(g, heap')
  BY <1>1, CollectedHeap
<1>3. Bound(heap'.used, vars')
  BY <1>2, BoundWithin DEF Outcome
<1> QED
  BY <1>2, <1>3 DEF Typed, Outcome, Bound

(* Types hold at every step, also at one that panics. *)
LEMMA TypedKept ==
  ASSUME Typed, [Next]_state
  PROVE  Typed'
<1>1. CASE Next
  <2>1. Effect => Typed'
    BY EffectTyped DEF Effect
  <2>2. ASSUME Panics PROVE Typed'
    BY <2>2 DEF Panics, Typed, Bound
  <2> QED
    BY <1>1, <2>1, <2>2, NextKeeps
<1>2. CASE UNCHANGED state
  BY <1>2 DEF state, Typed, Bound
<1> QED
  BY <1>1, <1>2

LEMMA TypedIsTypeOK == Typed => TypeOK
<1> SUFFICES ASSUME Typed PROVE TypeOK
  OBVIOUS
<1>1. heap \in Heaps /\ Shaped(heap)
  BY DEF Typed
<1>2. /\ heap.used \subseteq Node /\ Root \in heap.used
      /\ heap.label \in [Node -> Label \cup {NoLabel}]
      /\ heap.value \in [Node -> Value \cup {NoValue}]
      /\ heap.parent \in [Node -> heap.used \cup {Nil}]
      /\ heap.arr \in [Node -> Array \cup {Nil}]
      /\ heap.len \in [Node -> Nat] /\ heap.array \in [Array \cup {Nil} -> Seq(Node \cup {Nil})]
  BY <1>1 DEF Heaps, Heap, Shaped
<1>3. \A n \in Node : heap.len[n] \in 0 .. Len(heap.array[heap.arr[n]])
  <2>1. \A n \in Node : heap.len[n] \in Nat /\ heap.array[heap.arr[n]] \in Seq(Node \cup {Nil})
    BY <1>2
  <2>2. \A n \in Node : heap.len[n] <= Len(heap.array[heap.arr[n]])
    BY <1>1 DEF Shaped
  <2> QED
    BY <2>1, <2>2
<1>4. \A n \in heap.used : Seqs!ToSet(Kids(n)) \subseteq heap.used
  <2> SUFFICES ASSUME NEW n \in heap.used PROVE Seqs!ToSet(Kids(n)) \subseteq heap.used
    OBVIOUS
  <2>1. Kids(n) \in Seq(heap.used)
    BY <1>1, <1>2, ChildrenAre DEF Heaps, Kids
  <2> QED
    BY <2>1 DEF Seqs!ToSet
<1>5. \A x \in DOMAIN vars : vars[x] \in Seq(heap.used)
  BY DEF Typed, Bound
<1> QED
  BY <1>2, <1>3, <1>4, <1>5 DEF TypeOK, Typed

(* Every field, slice header and binding has its type, whatever is called:   *)
(* the lengths node.go's appends and removals compute stay within their      *)
(* arrays, and a variable holds nodes only.                                  *)
THEOREM TypeCorrect == Spec => []TypeOK
<1>1. Init => Typed
  BY InitTyped
<1>2. Typed /\ [Next]_state => Typed'
  BY TypedKept
<1> QED
  BY <1>1, <1>2, TypedIsTypeOK, PTL DEF Spec

-----------------------------------------------------------------------------
(* The links. *)
LEMMA LinkedIsLinksAgree ==
  ASSUME Typed, Linked(heap)
  PROVE  LinksAgree /\ ForestAgrees
<1>1. heap \in Heaps /\ Shaped(heap) /\ InTree \subseteq heap.used /\ heap.used \subseteq Node
  BY DEF Typed, InTree, Heaps, Heap
<1>2. ASSUME NEW n \in heap.used, NEW i \in DOMAIN Kids(n)
      PROVE  /\ heap.parent[Kids(n)[i]] = n
             /\ \A j \in DOMAIN Kids(n) : Kids(n)[i] = Kids(n)[j] => i = j
  <2>1. DOMAIN Kids(n) = 1 .. heap.len[n] /\ \A j \in 1 .. heap.len[n] : Kids(n)[j] = Kid(heap, n, j)
    BY <1>1, ChildrenAre DEF Heaps, Kids
  <2> QED
    BY <1>2, <2>1 DEF Linked, ChildLinks
<1>3. ASSUME NEW n \in heap.used, heap.parent[n] # Nil
      PROVE  IndexOf(heap, heap.parent[n], n) # 0
  <2> DEFINE p == heap.parent[n]
             k == heap.len[p]
  <2>1. p \in Node
    BY <1>1, <1>3 DEF Shaped
  <2>2. \/ IndexOf(heap, p, n) = 0 /\ \A j \in 1 .. k : Kid(heap, p, j) # n
        \/ IndexOf(heap, p, n) \in 1 .. k
    BY <1>1, <2>1, IndexOfIs DEF Heaps
  <2>3. \E j \in 1 .. k : Kid(heap, p, j) = n
    BY <1>3 DEF Linked, ParentLinks
  <2> QED
    BY <2>2, <2>3
<1>4. heap.parent[Root] = Nil
      /\ \A m, n \in heap.used : heap.arr[m] = heap.arr[n] /\ heap.arr[m] # Nil => m = n
  BY DEF Linked, ChildLinks
<1>5. LinksAgree
  BY <1>1, <1>2, <1>4 DEF LinksAgree
<1> QED
  BY <1>2, <1>3, <1>4, <1>5 DEF ForestAgrees

(* What is left after a call whose discarded nodes the collector frees.      *)
LEMMA GarbageKeepsLinks ==
  ASSUME Typed, Linked(heap), NEW g, Outcome(g), Discarded \cap heap'.used = {}
  PROVE  Linked(heap')
<1>1. KeptOf(g, heap')
  BY EffectTyped
<1>2. PICK X \in SUBSET Discarded : Left(g, X, Discarded)
  BY DEF Outcome
<1>3. heap'.used \subseteq g.used \ X /\ heap'.used \subseteq g.used \ (X \cup Discarded)
  BY <1>1 DEF KeptOf
<1>4. ChildLinks(g, heap'.used) /\ ParentLinks(g, heap'.used)
  BY <1>2, <1>3, LinksWithin DEF Left
<1>5. g.parent[Root] = Nil
  BY <1>4 DEF ChildLinks
<1> QED
  BY <1>1, <1>4, <1>5, KeptLinks DEF KeptOf, Linked

(* What is left when no variable holds a node: the tree.                     *)
LEMMA TreeKeepsLinks ==
  ASSUME Typed, Linked(heap), NEW g, Outcome(g), Held(vars') = {}
  PROVE  Linked(heap')
<1>1. KeptOf(g, heap')
  BY EffectTyped
<1>2. PICK X \in SUBSET Discarded : Left(g, X, Discarded)
  BY DEF Outcome
<1>3. g \in Heaps /\ Shaped(g) /\ heap' = Collected(g, {})
  BY DEF Outcome
<1> DEFINE K == g.used \ X
<1>4. K \in SUBSET g.used /\ Root \in K /\ ChildLinks(g, K) /\ Closed(g, K)
  BY <1>2, <1>3 DEF Left, Shaped
<1> HIDE DEF K
<1>5. NoLabel \in Label \cup {NoLabel} /\ NoValue \in Value \cup {NoValue}
  OBVIOUS
<1>6. heap'.used \subseteq K /\ ParentLinks(g, heap'.used)
  BY <1>3, <1>4, <1>5, TreeOnlyIsKept DEF Heaps
<1>7. ChildLinks(g, heap'.used)
  BY <1>4, <1>6, LinksWithin
<1>8. g.parent[Root] = Nil
  BY <1>7 DEF ChildLinks
<1> QED
  BY <1>1, <1>6, <1>7, <1>8, KeptLinks DEF KeptOf, Linked

Agreeing == Typed /\ Linked(heap) /\ ~panicked

LEMMA PanicNeedsStaleLinks ==
  ASSUME Agreeing, Next
  PROVE  Effect /\ ~panicked'
<1>1. Effect
  BY NextKeeps DEF Agreeing, Panics
<1> QED
  BY <1>1 DEF Effect, Outcome, Agreeing

LEMMA AgreeingKept ==
  ASSUME Agreeing, [Next]_state, [Discarded \cap heap'.used = {}]_state
  PROVE  Agreeing'
<1>1. CASE UNCHANGED state
  BY <1>1 DEF state, Agreeing, Typed, Bound
<1>2. CASE Next /\ Discarded \cap heap'.used = {}
  <2>1. Typed' /\ Effect /\ ~panicked'
    BY <1>2, TypedKept, PanicNeedsStaleLinks DEF Agreeing
  <2>2. Linked(heap')
    BY <1>2, <2>1, GarbageKeepsLinks DEF Effect, Agreeing
  <2> QED
    BY <2>1, <2>2 DEF Agreeing
<1> QED
  BY <1>1, <1>2

(* The forest agrees, in the tree and out of it, and Insert never slices out *)
(* of range, as long as what Move and TextStore drop is garbage at once: the *)
(* variables are all that can break it.                                      *)
THEOREM ForestCorrect ==
  Spec /\ DiscardedIsGarbage => [](ForestAgrees /\ LinksAgree /\ NeverPanics)
<1>1. Init => Agreeing
  BY InitTyped DEF Agreeing, Init
<1>2. Agreeing /\ [Next]_state /\ [Discarded \cap heap'.used = {}]_state => Agreeing'
  BY AgreeingKept
<1>3. Agreeing => ForestAgrees /\ LinksAgree /\ NeverPanics
  BY LinkedIsLinksAgree DEF Agreeing, NeverPanics
<1> QED
  BY <1>1, <1>2, <1>3, PTL DEF Spec, DiscardedIsGarbage

(* A handle that binds no variable. *)
Unbinding == Agreeing /\ vars = <<>>

LEMMA VarsStay ==
  ASSUME VarName = {}, Next
  PROVE  vars' = vars
<1>1. ASSUME NEW of, NEW h, NEW err, NEW ret, Return(of, h, vars, err, ret) PROVE vars' = vars
  BY <1>1 DEF Return
<1>2. ASSUME NEW of, NEW ret, Fail(of, ret) PROVE vars' = vars
  BY <1>2, <1>1 DEF Fail
<1>3. ASSUME NEW p, Get(p) \/ Exists(p) \/ Match(p) \/ GetLabel(p) PROVE vars' = vars
  BY <1>3, <1>1, <1>2 DEF Get, Exists, Match, GetLabel
<1>4. ASSUME NEW p, NEW v, Set(p, v) PROVE vars' = vars
  BY <1>4, <1>1, <1>2 DEF Set
<1>5. ASSUME NEW p, NEW q, NEW v, SetMultiple(p, q, v) PROVE vars' = vars
  BY <1>5, <1>1, <1>2 DEF SetMultiple
<1>6. ASSUME NEW p, NEW l, NEW b, Insert(p, l, b) PROVE vars' = vars
  BY <1>6, <1>1, <1>2 DEF Insert
<1>7. ASSUME NEW p, Remove(p) PROVE vars' = vars
  BY <1>7, <1>1, <1>2 DEF Remove
<1>8. ASSUME NEW p, NEW q, Move(p, q) PROVE vars' = vars
  <2> DEFINE s == MoveSource(Matches(p))
             m == Matches(q)
             c == CreatePath(heap, q)
             of == <<"Move", p, q>>
  <2>1. \/ Return(of, Transfer(heap, s, m.nodes[1]), vars, FALSE, Nil)
        \/ Return(of, Transfer(c.heap, s, c.node), vars, FALSE, Nil)
        \/ Return(of, c.heap, vars, TRUE, Nil)
        \/ Fail(of, Nil)
    BY <1>8 DEF Move, MoveTo
  <2> QED
    BY <2>1, <1>1, <1>2
<1>9. ASSUME NEW p, NEW q, TextStore(p, q) PROVE vars' = vars
  BY <1>9, <1>1, <1>2 DEF TextStore
<1> QED
  BY <1>3, <1>4, <1>5, <1>6, <1>7, <1>8, <1>9 DEF Next

LEMMA UnbindingKept ==
  ASSUME VarName = {}, Unbinding, [Next]_state
  PROVE  Unbinding'
<1>1. CASE UNCHANGED state
  BY <1>1 DEF state, Unbinding, Agreeing, Typed, Bound
<1>2. CASE Next
  <2>1. Typed' /\ Effect /\ ~panicked' /\ vars' = <<>>
    BY <1>2, TypedKept, PanicNeedsStaleLinks, VarsStay DEF Unbinding, Agreeing
  <2>2. Held(vars') = {}
    BY <2>1 DEF Held
  <2>3. Linked(heap')
    BY <2>1, <2>2, TreeKeepsLinks DEF Effect, Unbinding, Agreeing
  <2> QED
    BY <2>1, <2>3 DEF Unbinding, Agreeing
<1> QED
  BY <1>1, <1>2

(* Both links of every node of the tree agree, and Insert never slices out   *)
(* of range, in every sequence of calls on a handle without variables.       *)
THEOREM LinksCorrect ==
  ASSUME VarName = {}
  PROVE  Spec => [](LinksAgree /\ ForestAgrees /\ NeverPanics)
<1>1. Init => Unbinding
  BY InitTyped DEF Agreeing, Unbinding, Init
<1>2. Unbinding /\ [Next]_state => Unbinding'
  BY UnbindingKept
<1>3. Unbinding => LinksAgree /\ ForestAgrees /\ NeverPanics
  BY LinkedIsLinksAgree DEF Unbinding, Agreeing, NeverPanics
<1> QED
  BY <1>1, <1>2, <1>3, PTL DEF Spec

-----------------------------------------------------------------------------
(* The nodes T of a tree: what is reached from the root through Children.    *)
IsTree(h, T) ==
  /\ T \in SUBSET h.used /\ Root \in T /\ Closed(h, T)
  /\ \A S \in SUBSET h.used : Root \in S /\ Closed(h, S) => T \subseteq S

Under(h, m, n) == \E i \in 1 .. h.len[m] : Kid(h, m, i) = n

(* m stands before n among the children of m's parent. *)
Before(h, m, n) ==
  LET p == h.parent[m]
  IN  \E i, j \in 1 .. h.len[p] : i < j /\ Kid(h, p, i) = m /\ Kid(h, p, j) = n

LEMMA UnderIs ==
  ASSUME NEW h \in Heaps, Shaped(h), NEW m \in Node, NEW n, Under(h, m, n)
  PROVE  n \in h.used /\ m \in h.used /\ n \in Node
<1>1. n \in h.used
  BY DEF Under, Shaped
<1>2. m \in h.used
  <2> SUFFICES ASSUME m \notin h.used PROVE FALSE
    OBVIOUS
  <2>1. h.len[m] = 0
    BY UnusedIsBare
  <2> QED
    BY <2>1 DEF Under
<1> QED
  BY <1>1, <1>2 DEF Heaps, Heap

LEMMA ClosedIs ==
  ASSUME NEW h, NEW T
  PROVE  Closed(h, T) <=> \A m \in T : \A n : Under(h, m, n) => n \in T
BY DEF Closed, Under

(* Every node of a tree but the root hangs under the node its Parent names.  *)
LEMMA TreeLinks ==
  ASSUME NEW h \in Heaps, Shaped(h), NEW T, IsTree(h, T), ChildLinks(h, T), NEW n \in T \ {Root}
  PROVE  h.parent[n] \in T /\ h.parent[n] \in Node /\ Under(h, h.parent[n], n)
<1>1. T \subseteq h.used /\ h.used \subseteq Node
  BY DEF IsTree, Heaps, Heap
<1>2. PICK m \in T : Under(h, m, n)
  <2> SUFFICES ASSUME \A m \in T : ~Under(h, m, n) PROVE FALSE
    OBVIOUS
  <2>1. Closed(h, T \ {n})
    BY ClosedIs DEF IsTree
  <2>2. T \ {n} \in SUBSET h.used /\ Root \in T \ {n}
    BY <1>1 DEF IsTree
  <2> QED
    BY <2>1, <2>2 DEF IsTree
<1>3. h.parent[n] = m
  BY <1>1, <1>2 DEF Under, ChildLinks
<1> QED
  BY <1>1, <1>2, <1>3

LEMMA UnderParent ==
  ASSUME NEW h, NEW T, ChildLinks(h, T), NEW m \in T, NEW n, Under(h, m, n)
  PROVE  h.parent[n] = m
BY DEF ChildLinks, Under

(* The children of a node stand in one line. *)
LEMMA InLine ==
  ASSUME NEW h \in Heaps, Shaped(h), NEW T, IsTree(h, T), ChildLinks(h, T),
         NEW m \in T \ {Root}, NEW n \in T \ {Root}, h.parent[m] = h.parent[n]
  PROVE  /\ Before(h, m, n) => ~Before(h, n, m) /\ m # n
         /\ m # n /\ ~Before(h, n, m) => Before(h, m, n)
         /\ Before(h, m, n) <=> IndexOf(h, h.parent[m], m) < IndexOf(h, h.parent[m], n)
<1> DEFINE p == h.parent[m]
<1>1. p \in T /\ p \in Node /\ Under(h, p, m) /\ Under(h, p, n)
  BY TreeLinks
<1>2. \A i, j \in 1 .. h.len[p] : Kid(h, p, i) = Kid(h, p, j) => i = j
  BY <1>1 DEF ChildLinks
<1>3. PICK i \in 1 .. h.len[p] : Kid(h, p, i) = m
  BY <1>1 DEF Under
<1>4. PICK j \in 1 .. h.len[p] : Kid(h, p, j) = n
  BY <1>1 DEF Under
<1>5. Before(h, m, n) <=> i < j
  BY <1>2, <1>3, <1>4 DEF Before
<1>6. Before(h, n, m) <=> j < i
  BY <1>2, <1>3, <1>4 DEF Before
<1>7. IndexOf(h, p, m) = i
  <2>1. \/ IndexOf(h, p, m) = 0 /\ \A k \in 1 .. h.len[p] : Kid(h, p, k) # m
        \/ IndexOf(h, p, m) \in 1 .. h.len[p] /\ Kid(h, p, IndexOf(h, p, m)) = m
    BY <1>1, IndexOfIs DEF Heaps
  <2> QED
    BY <1>2, <1>3, <2>1
<1>8. IndexOf(h, p, n) = j
  <2>1. \/ IndexOf(h, p, n) = 0 /\ \A k \in 1 .. h.len[p] : Kid(h, p, k) # n
        \/ IndexOf(h, p, n) \in 1 .. h.len[p] /\ Kid(h, p, IndexOf(h, p, n)) = n
    BY <1>1, IndexOfIs DEF Heaps
  <2> QED
    BY <1>2, <1>4, <2>1
<1> QED
  BY <1>2, <1>3, <1>4, <1>5, <1>6, <1>7, <1>8

-----------------------------------------------------------------------------
(* The tree as ConfigTree sees it, of any heap h and any set T of its nodes. *)
ParentsIn(h, T) == [n \in T \ {Root} |-> h.parent[n]]

OrderIn(h, T) ==
  {e \in (T \ {Root}) \X (T \ {Root}) :
     /\ h.parent[e[1]] = h.parent[e[2]]
     /\ IndexOf(h, h.parent[e[1]], e[1]) < IndexOf(h, h.parent[e[1]], e[2])}

LabelsIn(h, T) == [n \in T \ {Root} |-> h.label[n]]

ValuesIn(h, T) == [n \in T |-> h.value[n]]

LEMMA OrderIs ==
  ASSUME NEW h \in Heaps, Shaped(h), NEW T, IsTree(h, T), ChildLinks(h, T)
  PROVE  OrderIn(h, T) = {e \in (T \ {Root}) \X (T \ {Root}) :
                            h.parent[e[1]] = h.parent[e[2]] /\ Before(h, e[1], e[2])}
<1>1. \A m, n \in T \ {Root} : h.parent[m] = h.parent[n] =>
        (Before(h, m, n) <=> IndexOf(h, h.parent[m], m) < IndexOf(h, h.parent[m], n))
  BY InLine
<1> QED
  BY <1>1 DEF OrderIn

(* The collector shows the tree of the heap it is given. *)
LEMMA KeptTree ==
  ASSUME NEW g \in Heaps, Shaped(g), NEW h \in Heaps, Shaped(h), KeptOf(g, h),
         NEW T \in SUBSET h.used, IsTree(g, T), ChildLinks(g, T)
  PROVE  /\ IsTree(h, T)
         /\ ParentsIn(h, T) = ParentsIn(g, T) /\ OrderIn(h, T) = OrderIn(g, T)
         /\ LabelsIn(h, T) = LabelsIn(g, T) /\ ValuesIn(h, T) = ValuesIn(g, T)
<1>1. h.used \subseteq g.used /\ Closed(g, h.used) /\ h.used \subseteq Node
  BY DEF KeptOf, Heaps, Heap
<1>2. \A n \in h.used : /\ h.label[n] = g.label[n] /\ h.value[n] = g.value[n]
                        /\ h.parent[n] = g.parent[n] /\ h.len[n] = g.len[n] /\ h.arr[n] = g.arr[n]
                        /\ \A i \in 1 .. g.len[n] : Kid(h, n, i) = Kid(g, n, i)
  BY DEF KeptOf, KeptAs
<1>3. \A S \in SUBSET h.used : Closed(h, S) <=> Closed(g, S)
  BY <1>2 DEF Closed
<1>4. IsTree(h, T)
  BY <1>1, <1>3 DEF IsTree
<1>5. ChildLinks(h, T)
  <2>1. \A n \in T : \A i \in 1 .. g.len[n] : Kid(g, n, i) \in T
    BY DEF IsTree, Closed
  <2>2. Root \in h.used
    BY DEF Shaped
  <2> QED
    BY <1>2, <2>1, <2>2 DEF ChildLinks
<1>6. \A m, n \in T \ {Root} : Before(h, m, n) <=> Before(g, m, n)
  <2> SUFFICES ASSUME NEW m \in T \ {Root}, NEW n PROVE Before(h, m, n) <=> Before(g, m, n)
    OBVIOUS
  <2>1. g.parent[m] \in h.used /\ h.parent[m] = g.parent[m]
    BY <1>2, TreeLinks
  <2> QED
    BY <1>2, <2>1 DEF Before
<1>7. OrderIn(h, T) = OrderIn(g, T)
  <2>1. OrderIn(h, T) = {e \in (T \ {Root}) \X (T \ {Root}) :
                            h.parent[e[1]] = h.parent[e[2]] /\ Before(h, e[1], e[2])}
    BY <1>4, <1>5, OrderIs
  <2>2. OrderIn(g, T) = {e \in (T \ {Root}) \X (T \ {Root}) :
                            g.parent[e[1]] = g.parent[e[2]] /\ Before(g, e[1], e[2])}
    BY OrderIs
  <2> QED
    BY <1>2, <1>6, <2>1, <2>2
<1>8. ParentsIn(h, T) = ParentsIn(g, T) /\ LabelsIn(h, T) = LabelsIn(g, T) /\ ValuesIn(h, T) = ValuesIn(g, T)
  BY <1>2 DEF ParentsIn, LabelsIn, ValuesIn
<1> QED
  BY <1>4, <1>7, <1>8

(* An identity no struct uses holds no value. *)
Blank(h) == \A n \in Node \ h.used : h.value[n] = NoValue

-----------------------------------------------------------------------------
(* Calls that add: the tree U of g is the tree T of h with nodes added.      *)
Sprouts(h, g) ==
  /\ g \in Heaps /\ Shaped(g) /\ h.used \subseteq g.used
  /\ ChildLinks(g, g.used) /\ Extended(h, g)
  /\ \A n \in h.used : g.parent[n] = h.parent[n]

(* The order after the nodes X of g were added behind their siblings.        *)
Behind(h, T, g, X) ==
  OrderIn(h, T) \cup {e \in (T \ {Root}) \X X : h.parent[e[1]] = g.parent[e[2]]}
                \cup {e \in X \X X : g.parent[e[1]] = g.parent[e[2]] /\ e[1] < e[2]}

LEMMA OldKids ==
  ASSUME NEW h \in Heaps, Shaped(h), NEW g, Sprouts(h, g), NEW m \in Node, NEW n
  PROVE  /\ n \in h.used => (Under(g, m, n) <=> Under(h, m, n))
         /\ Under(g, m, n) /\ m \notin h.used => n \notin h.used
<1>1. /\ h.len[m] \in Nat /\ g.len[m] \in Nat /\ h.len[m] <= g.len[m]
      /\ \A i \in 1 .. h.len[m] : Kid(g, m, i) = Kid(h, m, i)
      /\ \A i \in h.len[m] + 1 .. g.len[m] : Kid(g, m, i) \notin h.used
  BY DEF Sprouts, Extended, Heaps, Heap
<1>2. \A i \in 1 .. g.len[m] : i \in 1 .. h.len[m] \/ i \in h.len[m] + 1 .. g.len[m]
  BY <1>1
<1>3. \A i \in 1 .. h.len[m] : i \in 1 .. g.len[m]
  BY <1>1
<1>4. m \notin h.used => h.len[m] = 0
  BY UnusedIsBare
<1> QED
  BY <1>1, <1>2, <1>3, <1>4 DEF Under

(* X are new nodes; each hangs, through others of them, from an old one.     *)
Grows(h, T, g, X) ==
  /\ X \cap h.used = {} /\ X \subseteq Node
  /\ \A x \in X : x # Root /\ g.parent[x] \in T \cup X /\ g.label[x] \in Label
  /\ \A S \in SUBSET X : S # {} => \E x \in S : g.parent[x] \notin S
  /\ \A n \in T : g.parent[n] = h.parent[n] /\ g.label[n] = h.label[n]
  /\ \A m \in X : \A n : Under(g, m, n) => n \in X

LEMMA GrownTree ==
  ASSUME NEW h \in Heaps, Shaped(h), ChildLinks(h, h.used), NEW T, IsTree(h, T),
         NEW g, Sprouts(h, g), NEW U, IsTree(g, U), NEW X, X = U \ T
  PROVE  T \subseteq U /\ Grows(h, T, g, X)
<1>1. /\ g \in Heaps /\ Shaped(g) /\ h.used \subseteq g.used /\ T \subseteq h.used /\ U \subseteq g.used
      /\ g.used \subseteq Node /\ Root \in T /\ Root \in U /\ Closed(h, T) /\ Closed(g, U)
      /\ ChildLinks(g, g.used) /\ ChildLinks(g, U)
  BY LinksWithin DEF Sprouts, IsTree, Heaps, Heap
<1>2. T \subseteq U
  <2> DEFINE R == U \cap h.used
  <2>1. Closed(h, R)
    <3> SUFFICES ASSUME NEW m \in R, NEW n, Under(h, m, n) PROVE n \in R
      BY ClosedIs
    <3>1. m \in Node /\ n \in h.used
      BY <1>1, UnderIs
    <3>2. Under(g, m, n)
      BY <3>1, OldKids
    <3> QED
      BY <1>1, <3>1, <3>2, ClosedIs
  <2>2. R \in SUBSET h.used /\ Root \in R
    BY <1>1
  <2> QED
    BY <2>1, <2>2 DEF IsTree
<1>3. U \subseteq T \cup (g.used \ h.used)
  <2> DEFINE R == T \cup (g.used \ h.used)
  <2>1. Closed(g, R)
    <3> SUFFICES ASSUME NEW m \in R, NEW n, Under(g, m, n) PROVE n \in R
      BY ClosedIs
    <3>1. m \in Node /\ n \in g.used
      BY <1>1, UnderIs
    <3>2. CASE n \notin h.used
      BY <3>1, <3>2
    <3>3. CASE n \in h.used
      <4>1. m \in T /\ Under(h, m, n)
        BY <1>1, <3>1, <3>3, OldKids
      <4> QED
        BY <1>1, <4>1, ClosedIs
    <3> QED
      BY <3>2, <3>3
  <2>2. R \in SUBSET g.used /\ Root \in R
    BY <1>1
  <2> QED
    BY <2>1, <2>2 DEF IsTree
<1>4. X \cap h.used = {} /\ X \subseteq Node /\ \A x \in X : x # Root
  BY <1>1, <1>3
<1>5. \A x \in X : g.parent[x] \in T \cup X /\ g.label[x] \in Label
  <2>1. \A x \in X : g.label[x] \in Label
    BY <1>1, <1>4 DEF Sprouts, Extended
  <2>2. \A x \in X : g.parent[x] \in T \cup X
    BY <1>1, <1>4, TreeLinks
  <2> QED
    BY <2>1, <2>2
<1>6. ASSUME NEW S \in SUBSET X, S # {}
      PROVE  \E x \in S : g.parent[x] \notin S
  <2>1. S \in SUBSET Nat
    BY <1>4, Identities
  <2>2. PICK x \in S : \A y \in S : x <= y
    BY <1>6, <2>1, BelowRounds!LeastNatural
  <2>3. g.parent[x] \in h.used \/ g.parent[x] < x
    BY <1>1, <1>4 DEF Sprouts, Extended
  <2>4. g.parent[x] \notin S
    BY <1>4, <2>1, <2>2, <2>3
  <2> QED
    BY <2>4
<1>7. \A n \in T : g.parent[n] = h.parent[n] /\ g.label[n] = h.label[n]
  BY <1>1 DEF Sprouts, Extended
<1>8. \A m \in X : \A n : Under(g, m, n) => n \in X
  <2> SUFFICES ASSUME NEW m \in X, NEW n, Under(g, m, n) PROVE n \in X
    OBVIOUS
  <2>1. m \in Node /\ m \in U /\ m \notin h.used
    BY <1>4
  <2>2. n \notin h.used /\ n \in U
    BY <1>1, <2>1, OldKids, ClosedIs
  <2> QED
    BY <1>1, <2>2
<1> QED
  BY <1>2, <1>4, <1>5, <1>6, <1>7, <1>8 DEF Grows

LEMMA GrownOrder ==
  ASSUME NEW h \in Heaps, Shaped(h), ChildLinks(h, h.used), NEW T, IsTree(h, T),
         NEW g, Sprouts(h, g), NEW U, IsTree(g, U), NEW X, X = U \ T
  PROVE  OrderIn(g, U) = Behind(h, T, g, X)
<1>1. /\ T \subseteq U /\ X \cap h.used = {} /\ X \subseteq Node /\ \A x \in X : x # Root
      /\ \A n \in T : g.parent[n] = h.parent[n]
  <2>1. T \subseteq U /\ Grows(h, T, g, X)
    BY GrownTree
  <2> QED
    BY <2>1 DEF Grows
<1>2. /\ g \in Heaps /\ Shaped(g) /\ T \subseteq h.used /\ X \subseteq Nat
      /\ h.used \subseteq g.used /\ U \subseteq g.used /\ h.used \subseteq Node
      /\ ChildLinks(g, g.used) /\ ChildLinks(g, U) /\ ChildLinks(h, T)
  BY <1>1, Identities, LinksWithin DEF Sprouts, IsTree, Heaps, Heap
<1>3. ASSUME NEW m \in U \ {Root}, NEW n \in U \ {Root}, g.parent[m] = g.parent[n]
      PROVE  /\ m \in T /\ n \in T => (Before(g, m, n) <=> Before(h, m, n))
             /\ m \in T /\ n \in X => Before(g, m, n) /\ ~Before(g, n, m)
             /\ m \in X /\ n \in X => (Before(g, m, n) <=> m < n)
  <2> DEFINE p == g.parent[m]
             k == h.len[p]
  <2>1. p \in Node /\ Under(g, p, m) /\ Under(g, p, n)
    BY <1>2, <1>3, TreeLinks
  <2>2. /\ k \in Nat /\ g.len[p] \in Nat /\ k <= g.len[p]
        /\ \A i \in 1 .. k : Kid(g, p, i) = Kid(h, p, i) /\ Kid(h, p, i) \in h.used
        /\ \A i \in k + 1 .. g.len[p] : Kid(g, p, i) \notin h.used
        /\ \A i, j \in k + 1 .. g.len[p] : i < j => Kid(g, p, i) < Kid(g, p, j)
    BY <1>2, <2>1 DEF Sprouts, Extended, Heaps, Heap, Shaped
  <2>3. PICK i \in 1 .. g.len[p] : Kid(g, p, i) = m
    BY <2>1 DEF Under
  <2>4. PICK j \in 1 .. g.len[p] : Kid(g, p, j) = n
    BY <2>1 DEF Under
  <2>5. \A a, b \in 1 .. g.len[p] : Kid(g, p, a) = Kid(g, p, b) => a = b
    <3>1. p \in g.used
      BY <1>2, <2>1, UnderIs
    <3> QED
      BY <1>2, <3>1 DEF ChildLinks
  <2>6. (m \in h.used <=> i <= k) /\ (n \in h.used <=> j <= k)
    BY <2>2, <2>3, <2>4
  <2>7. (Before(g, m, n) <=> i < j) /\ (Before(g, n, m) <=> j < i)
    BY <1>3, <2>3, <2>4, <2>5 DEF Before
  <2>8. ASSUME m \in T, n \in T PROVE Before(g, m, n) <=> Before(h, m, n)
    <3>1. h.parent[m] = p /\ i \in 1 .. k /\ j \in 1 .. k
      BY <1>1, <1>2, <2>2, <2>6, <2>8
    <3>2. Before(h, m, n) <=> i < j
      <4>1. \A a \in 1 .. k : a \in 1 .. g.len[p]
        BY <2>2
      <4> QED
        BY <2>2, <2>3, <2>4, <2>5, <3>1, <4>1 DEF Before
    <3> QED
      BY <2>7, <3>2
  <2>9. m \in T /\ n \in X => Before(g, m, n) /\ ~Before(g, n, m)
    BY <1>1, <1>2, <2>2, <2>6, <2>7
  <2>10. ASSUME m \in X, n \in X PROVE Before(g, m, n) <=> m < n
    <3>1. i \in k + 1 .. g.len[p] /\ j \in k + 1 .. g.len[p] /\ m \in Nat /\ n \in Nat
      BY <1>1, <1>2, <2>2, <2>6, <2>10
    <3>2. (i < j => m < n) /\ (j < i => n < m)
      BY <2>2, <2>3, <2>4, <3>1
    <3>3. i = j => m = n
      BY <2>3, <2>4
    <3> QED
      BY <2>2, <2>7, <3>1, <3>2, <3>3
  <2> QED
    BY <2>8, <2>9, <2>10
<1>4. OrderIn(g, U) = {e \in (U \ {Root}) \X (U \ {Root}) :
                         g.parent[e[1]] = g.parent[e[2]] /\ Before(g, e[1], e[2])}
  BY <1>2, OrderIs
<1>5. OrderIn(h, T) = {e \in (T \ {Root}) \X (T \ {Root}) :
                         h.parent[e[1]] = h.parent[e[2]] /\ Before(h, e[1], e[2])}
  BY <1>2, OrderIs
<1>6. ASSUME NEW m \in U \ {Root}, NEW n \in U \ {Root}
      PROVE  <<m, n>> \in OrderIn(g, U) <=> <<m, n>> \in Behind(h, T, g, X)
  <2>1. <<m, n>> \in OrderIn(g, U) <=> g.parent[m] = g.parent[n] /\ Before(g, m, n)
    BY <1>4
  <2>2. <<m, n>> \in Behind(h, T, g, X) <=>
          \/ m \in T /\ n \in T /\ h.parent[m] = h.parent[n] /\ Before(h, m, n)
          \/ m \in T /\ n \in X /\ h.parent[m] = g.parent[n]
          \/ m \in X /\ n \in X /\ g.parent[m] = g.parent[n] /\ m < n
    BY <1>5 DEF Behind
  <2>3. (m \in T \/ m \in X) /\ (n \in T \/ n \in X) /\ ~(m \in T /\ m \in X) /\ ~(n \in T /\ n \in X)
    OBVIOUS
  <2>4. (m \in T => g.parent[m] = h.parent[m]) /\ (n \in T => g.parent[n] = h.parent[n])
    BY <1>1
  <2> QED
    BY <1>3, <2>1, <2>2, <2>3, <2>4
<1>7. \A e \in OrderIn(g, U) : e \in (U \ {Root}) \X (U \ {Root})
  BY <1>4
<1>8. \A e \in Behind(h, T, g, X) : e \in (U \ {Root}) \X (U \ {Root})
  BY <1>1, <1>5 DEF Behind
<1> HIDE DEF Behind
<1> QED
  BY <1>6, <1>7, <1>8

LEMMA GrownIs ==
  ASSUME NEW h \in Heaps, Shaped(h), ChildLinks(h, h.used), NEW g, Grown(h, g), Lost \notin g.used
  PROVE  Sprouts(h, g)
BY DEF Grown, Edited, Sprouts

-----------------------------------------------------------------------------
(* Insert. *)
Opened(h, p, i, x, g) ==
  /\ g \in Heaps /\ Shaped(g) /\ ChildLinks(g, g.used)
  /\ x \in Node /\ x \notin h.used /\ g.used = h.used \cup {x} /\ x # Root
  /\ g.parent[x] = p /\ g.label[x] \in Label /\ g.value[x] = NoValue /\ g.len[x] = 0
  /\ \A m \in h.used : /\ g.parent[m] = h.parent[m]
                       /\ g.label[m] = h.label[m] /\ g.value[m] = h.value[m]
  /\ \A m \in Node \ {p} : /\ g.arr[m] = h.arr[m] /\ g.len[m] = h.len[m]
                           /\ \A j : Kid(g, m, j) = Kid(h, m, j)
  /\ g.len[p] = h.len[p] + 1
  /\ \A j \in 1 .. h.len[p] + 1 :
       Kid(g, p, j) = IF j <= i THEN Kid(h, p, j) ELSE IF j = i + 1 THEN x ELSE Kid(h, p, j - 1)

LEMMA OpenedIs ==
  ASSUME NEW h \in Heaps, Shaped(h), ChildLinks(h, h.used), Blank(h), NEW p \in h.used,
         NEW i \in 0 .. h.len[p], NEW label \in Label,
         NEW g, g = InsertChild(NewNode(h, label), p, i, Fresh(h)), Lost \notin g.used
  PROVE  Opened(h, p, i, Fresh(h), g)
<1> DEFINE x == Fresh(h)
           f == NewNode(h, label)
<1>1. Made(h, f) /\ f.value = h.value
  BY MadeIs
<1>2. \A m \in Node : f.arr[m] = h.arr[m]
  BY NewNodeIs DEF Heaps
<1>3. g = InsertChild(f, p, i, x)
  OBVIOUS
<1> HIDE DEF f
<1>4. Edited(h, g) /\ ChildInserted(f, p, i, x, g)
  BY <1>1, <1>3, InsertedIs
<1>5. g \in Heaps /\ Shaped(g) /\ ChildLinks(g, g.used)
  BY <1>4 DEF Edited
<1>6. /\ f.used = h.used \cup {x} /\ x \in Node /\ f.label[x] \in Label /\ f \in Heaps /\ h.used \subseteq Node
      /\ \A m \in Node : f.parent[m] = h.parent[m] /\ f.len[m] = h.len[m]
      /\ \A m \in Node : \A j : Kid(f, m, j) = Kid(h, m, j)
      /\ \A m \in Node : m # x => f.label[m] = h.label[m]
  BY <1>1 DEF Made, Heaps, Heap
<1>7. /\ g.used = f.used /\ g.label = f.label /\ g.value = f.value
      /\ \A m \in Node : g.parent[m] = IF m = x THEN p ELSE f.parent[m]
      /\ \A m \in Node : g.len[m] = IF m = p THEN f.len[p] + 1 ELSE f.len[m]
      /\ \A j \in 1 .. f.len[p] + 1 :
           Kid(g, p, j) = IF j <= i THEN Kid(f, p, j)
                          ELSE IF j = i + 1 THEN x ELSE Kid(f, p, j - 1)
      /\ \A m \in Node \ {p} : g.arr[m] = f.arr[m]
  BY <1>4 DEF ChildInserted
<1>8. x \notin h.used /\ x # Root
  <2>1. x # Lost
    BY <1>6, <1>7
  <2> QED
    BY <1>6, <2>1, FreshIs DEF Shaped
<1>9. h.len[x] = 0 /\ h.value[x] = NoValue /\ x # p
  BY <1>6, <1>8, UnusedIsBare DEF Blank
<1>10. \A m \in Node \ {p} : g.len[m] = h.len[m] /\ \A j : Kid(g, m, j) = Kid(h, m, j)
  BY <1>1, <1>4, <1>7, OthersKeep
<1>11. p \in Node /\ h.len[p] \in Nat /\ \A j \in 1 .. h.len[p] + 1 : j - 1 \in Int
  BY <1>6 DEF Heaps, Heap
<1>12. \A j \in 1 .. h.len[p] + 1 :
         Kid(g, p, j) = IF j <= i THEN Kid(h, p, j) ELSE IF j = i + 1 THEN x ELSE Kid(h, p, j - 1)
  BY <1>6, <1>7, <1>11
<1>13. \A m \in h.used : /\ g.parent[m] = h.parent[m]
                         /\ g.label[m] = h.label[m] /\ g.value[m] = h.value[m]
  BY <1>1, <1>6, <1>7, <1>8
<1>14. /\ g.used = h.used \cup {x} /\ g.parent[x] = p /\ g.label[x] \in Label /\ g.value[x] = NoValue
       /\ g.len[x] = 0 /\ g.len[p] = h.len[p] + 1
       /\ \A m \in Node \ {p} : g.arr[m] = h.arr[m]
  BY <1>1, <1>2, <1>6, <1>7, <1>9, <1>11
<1> HIDE DEF x
<1> QED
  BY <1>5, <1>6, <1>8, <1>10, <1>12, <1>13, <1>14 DEF Opened, x

(* The children p has in g are those it had, and x. *)
LEMMA OpenedKids ==
  ASSUME NEW h \in Heaps, Shaped(h), NEW p \in h.used, NEW i \in 0 .. h.len[p], NEW x, NEW g,
         Opened(h, p, i, x, g), NEW m \in Node, NEW n
  PROVE  Under(g, m, n) <=> Under(h, m, n) \/ (m = p /\ n = x)
<1>1. p \in Node /\ h.len[p] \in Nat
  BY DEF Heaps, Heap
<1>2. CASE m # p
  BY <1>2 DEF Opened, Under
<1>3. CASE m = p
  <2> DEFINE k == h.len[p]
  <2>1. /\ g.len[p] = k + 1 /\ k \in Nat
        /\ \A j \in 1 .. k + 1 :
             Kid(g, p, j) = IF j <= i THEN Kid(h, p, j) ELSE IF j = i + 1 THEN x ELSE Kid(h, p, j - 1)
    BY <1>1 DEF Opened
  <2>2. ASSUME Under(g, p, n) PROVE Under(h, p, n) \/ n = x
    <3>1. PICK j \in 1 .. k + 1 : Kid(g, p, j) = n
      BY <2>1, <2>2 DEF Under
    <3>2. CASE j <= i
      BY <2>1, <3>1, <3>2 DEF Under
    <3>3. CASE j = i + 1
      BY <2>1, <3>1, <3>3
    <3>4. CASE j > i + 1
      <4>1. j - 1 \in 1 .. k /\ n = Kid(h, p, j - 1)
        BY <2>1, <3>1, <3>4
      <4> QED
        BY <4>1 DEF Under
    <3> QED
      BY <2>1, <3>1, <3>2, <3>3, <3>4
  <2>3. ASSUME Under(h, p, n) PROVE Under(g, p, n)
    <3>1. PICK j \in 1 .. k : Kid(h, p, j) = n
      BY <2>3 DEF Under
    <3>2. CASE j <= i
      <4>1. j \in 1 .. k + 1 /\ Kid(g, p, j) = n
        BY <2>1, <3>1, <3>2
      <4> QED
        BY <2>1, <4>1 DEF Under
    <3>3. CASE j > i
      <4>1. j + 1 \in 1 .. k + 1 /\ ~(j + 1 <= i) /\ j + 1 # i + 1 /\ (j + 1) - 1 = j
        BY <2>1, <3>1, <3>3
      <4>2. Kid(g, p, j + 1) = n
        BY <2>1, <3>1, <4>1
      <4> QED
        BY <2>1, <4>1, <4>2 DEF Under
    <3> QED
      BY <2>1, <3>1, <3>2, <3>3
  <2>4. Under(g, p, x)
    <3>1. i + 1 \in 1 .. k + 1 /\ ~(i + 1 <= i)
      BY <2>1
    <3> QED
      BY <2>1, <3>1 DEF Under
  <2> QED
    BY <1>3, <2>2, <2>3, <2>4
<1> QED
  BY <1>2, <1>3

(* Those up to i stand before x, the others behind it; none change places.   *)
LEMMA OpenedOrder ==
  ASSUME NEW h \in Heaps, Shaped(h), NEW p \in h.used, NEW i \in 0 .. h.len[p], NEW x, NEW g,
         Opened(h, p, i, x, g),
         NEW a \in 1 .. h.len[p], NEW m \in h.used, Kid(h, p, a) = m
  PROVE  /\ Before(g, m, x) <=> a <= i
         /\ Before(g, x, m) <=> ~(a <= i)
         /\ \A b \in 1 .. h.len[p] : \A n \in h.used :
              Kid(h, p, b) = n => (Before(g, m, n) <=> a < b)
<1> DEFINE k == h.len[p]
           at(j) == IF j <= i THEN j ELSE j + 1
<1>1. p \in Node /\ k \in Nat /\ p \in g.used /\ ChildLinks(g, g.used) /\ x \notin h.used
  BY DEF Heaps, Heap, Opened
<1>2. /\ g.len[p] = k + 1
      /\ \A j \in 1 .. k + 1 :
           Kid(g, p, j) = IF j <= i THEN Kid(h, p, j) ELSE IF j = i + 1 THEN x ELSE Kid(h, p, j - 1)
  BY DEF Opened
<1>3. ASSUME NEW j \in 1 .. k PROVE at(j) \in 1 .. k + 1 /\ Kid(g, p, at(j)) = Kid(h, p, j)
  <2>1. CASE j <= i
    BY <1>1, <1>2, <2>1
  <2>2. CASE j > i
    <3>1. at(j) = j + 1 /\ j + 1 \in 1 .. k + 1 /\ ~(j + 1 <= i) /\ j + 1 # i + 1 /\ (j + 1) - 1 = j
      BY <1>1, <2>2
    <3> QED
      BY <1>2, <3>1
  <2> QED
    BY <1>1, <2>1, <2>2
<1>4. i + 1 \in 1 .. k + 1 /\ Kid(g, p, i + 1) = x
  BY <1>1, <1>2
<1>5. \A u, v \in 1 .. k + 1 : Kid(g, p, u) = Kid(g, p, v) => u = v
  BY <1>1, <1>2 DEF ChildLinks
<1>6. g.parent[m] = p /\ g.parent[x] = p
  <2>1. at(a) \in 1 .. g.len[p] /\ Kid(g, p, at(a)) = m
    BY <1>2, <1>3
  <2> HIDE DEF at
  <2>2. g.parent[m] = p
    BY <1>1, <2>1 DEF ChildLinks
  <2> QED
    BY <2>2 DEF Opened
<1>7. \A u, v \in 1 .. k + 1 : g.parent[Kid(g, p, u)] = p => (Before(g, Kid(g, p, u), Kid(g, p, v)) <=> u < v)
  BY <1>2, <1>5 DEF Before
<1>8. /\ Before(g, m, x) <=> at(a) < i + 1
      /\ Before(g, x, m) <=> i + 1 < at(a)
  BY <1>3, <1>4, <1>6, <1>7
<1>9. ASSUME NEW b \in 1 .. k, NEW n \in h.used, Kid(h, p, b) = n
      PROVE  Before(g, m, n) <=> at(a) < at(b)
  BY <1>3, <1>6, <1>7, <1>9
<1>10. (at(a) < i + 1 <=> a <= i) /\ (i + 1 < at(a) <=> ~(a <= i))
  BY <1>1
<1>11. \A b \in 1 .. k : at(a) < at(b) <=> a < b
  BY <1>1
<1> HIDE DEF at
<1> QED
  BY <1>8, <1>9, <1>10, <1>11

LEMMA OpenedTree ==
  ASSUME NEW h \in Heaps, Shaped(h), NEW T, IsTree(h, T), NEW p \in T, NEW i \in 0 .. h.len[p],
         NEW x, NEW g, Opened(h, p, i, x, g)
  PROVE  IsTree(g, T \cup {x})
<1>1. /\ T \subseteq h.used /\ h.used \subseteq Node /\ Root \in T /\ Closed(h, T)
      /\ g.used = h.used \cup {x} /\ x \in Node /\ x \notin h.used /\ g.len[x] = 0
      /\ \A S \in SUBSET h.used : Root \in S /\ Closed(h, S) => T \subseteq S
  BY DEF IsTree, Opened, Heaps, Heap
<1>2. \A m \in Node : \A n : Under(g, m, n) <=> Under(h, m, n) \/ (m = p /\ n = x)
  BY <1>1, OpenedKids
<1>3. Closed(g, T \cup {x})
  <2> SUFFICES ASSUME NEW m \in T \cup {x}, NEW n, Under(g, m, n) PROVE n \in T \cup {x}
    BY ClosedIs
  <2>1. CASE m \in T
    BY <1>1, <1>2, <2>1, ClosedIs
  <2>2. CASE m = x
    BY <1>1, <2>2 DEF Under
  <2> QED
    BY <2>1, <2>2
<1>4. ASSUME NEW S \in SUBSET g.used, Root \in S, Closed(g, S)
      PROVE  T \cup {x} \subseteq S
  <2> DEFINE R == S \cap h.used
  <2>1. Closed(h, R)
    <3> SUFFICES ASSUME NEW m \in R, NEW n, Under(h, m, n) PROVE n \in R
      BY ClosedIs
    <3>1. n \in h.used /\ m \in Node
      BY <1>1, UnderIs
    <3>2. n \in S
      BY <1>2, <1>4, <3>1, ClosedIs
    <3> QED
      BY <3>1, <3>2
  <2>2. R \in SUBSET h.used /\ Root \in R
    BY <1>1, <1>4
  <2> HIDE DEF R
  <2>3. T \subseteq R
    BY <1>1, <2>1, <2>2
  <2>4. x \in S
    <3>1. p \in S /\ p \in Node
      BY <1>1, <2>3 DEF R
    <3> QED
      BY <1>2, <1>4, <3>1, ClosedIs
  <2> QED
    BY <2>3, <2>4 DEF R
<1> QED
  BY <1>1, <1>3, <1>4 DEF IsTree

(* Which of the siblings stand before the gap, and before whom.              *)
Lined(h, g, p, n, x, i, pos, u, v) ==
  /\ Before(g, u, v) <=> Before(h, u, v)
  /\ h.parent[u] = p =>
       /\ Before(g, u, x) <=> Before(h, u, n) \/ (i = pos /\ u = n)
       /\ Before(g, x, u) <=> ~(Before(h, u, n) \/ (i = pos /\ u = n))

LEMMA OpenedLine ==
  ASSUME NEW h \in Heaps, Shaped(h), ChildLinks(h, h.used), NEW T, IsTree(h, T),
         NEW n \in T \ {Root}, NEW p, p = h.parent[n],
         NEW pos \in 1 .. h.len[p], Kid(h, p, pos) = n,
         NEW i \in {pos - 1, pos}, NEW x, NEW g, Opened(h, p, i, x, g),
         NEW u \in T \ {Root}, NEW v \in T \ {Root}, h.parent[u] = h.parent[v]
  PROVE  Lined(h, g, p, n, x, i, pos, u, v)
<1> USE DEF Lined
<1> DEFINE q == h.parent[u]
<1>1. /\ T \subseteq h.used /\ h.used \subseteq Node /\ ChildLinks(h, T)
      /\ g.parent[u] = h.parent[u] /\ g.parent[v] = h.parent[v]
  BY LinksWithin DEF IsTree, Opened, Heaps, Heap
<1>2. /\ q \in T /\ q \in Node /\ Under(h, q, u) /\ Under(h, q, v)
      /\ p \in T /\ p \in Node /\ Under(h, p, n)
  BY <1>1, TreeLinks
<1>3. h.len[p] \in Nat /\ i \in 0 .. h.len[p] /\ p \in h.used /\ n \in h.used /\ u \in h.used /\ v \in h.used
  BY <1>1, <1>2 DEF Heaps, Heap
<1>4. \A a, b \in 1 .. h.len[p] : Kid(h, p, a) = Kid(h, p, b) => a = b
  BY <1>1, <1>2 DEF ChildLinks
<1>5. CASE q # p
  <2>1. g.len[q] = h.len[q] /\ \A j : Kid(g, q, j) = Kid(h, q, j)
    BY <1>2, <1>5 DEF Opened
  <2> QED
    BY <1>1, <1>5, <2>1 DEF Before
<1>6. CASE q = p
  <2>1. PICK a \in 1 .. h.len[p] : Kid(h, p, a) = u
    BY <1>2, <1>6 DEF Under
  <2>2. PICK b \in 1 .. h.len[p] : Kid(h, p, b) = v
    BY <1>2, <1>6 DEF Under
  <2>3. /\ Before(g, u, x) <=> a <= i
        /\ Before(g, x, u) <=> ~(a <= i)
        /\ Before(g, u, v) <=> a < b
    BY <1>3, <2>1, <2>2, OpenedOrder
  <2>4. (Before(h, u, v) <=> a < b) /\ (Before(h, u, n) <=> a < pos)
    BY <1>4, <1>6, <2>1, <2>2 DEF Before
  <2>5. u = n <=> a = pos
    BY <1>4, <2>1
  <2>6. a <= i <=> a < pos \/ (i = pos /\ a = pos)
    BY <1>3
  <2> QED
    BY <2>3, <2>4, <2>5, <2>6
<1> QED
  BY <1>5, <1>6

-----------------------------------------------------------------------------
(* Remove. *)
LEMMA BelowLinks ==
  ASSUME NEW h \in Heaps, Shaped(h), ChildLinks(h, h.used), NEW S \in SUBSET h.used
  PROVE  /\ Below(h, S) \subseteq h.used /\ S \subseteq Below(h, S)
         /\ \A m \in Below(h, S) : \A n : Under(h, m, n) => n \in Below(h, S)
         /\ \A n \in Below(h, S) \ S : h.parent[n] \in Below(h, S) /\ Under(h, h.parent[n], n)
         /\ Root \notin S => Root \notin Below(h, S)
<1> DEFINE B == Below(h, S)
<1>1. /\ B \in SUBSET h.used /\ S \subseteq B /\ Closed(h, B)
      /\ \A R \in SUBSET h.used : S \subseteq R /\ Closed(h, R) => B \subseteq R
  BY BelowIs DEF Heaps
<1> HIDE DEF B
<1>2. \A m \in B : \A n : Under(h, m, n) => n \in B
  BY <1>1, ClosedIs
<1>3. ASSUME NEW n \in B \ S PROVE h.parent[n] \in B /\ Under(h, h.parent[n], n)
  <2>1. PICK m \in B : Under(h, m, n)
    <3> SUFFICES ASSUME \A m \in B : ~Under(h, m, n) PROVE FALSE
      OBVIOUS
    <3>1. Closed(h, B \ {n})
      BY <1>2, ClosedIs
    <3>2. B \ {n} \in SUBSET h.used /\ S \subseteq B \ {n}
      BY <1>1
    <3> QED
      BY <1>1, <3>1, <3>2
  <2>2. h.parent[n] = m
    BY <1>1, <2>1, UnderParent
  <2> QED
    BY <2>1, <2>2
<1>4. Root \notin S => Root \notin B
  <2>1. h.parent[Root] = Nil /\ h.used \subseteq Node
    BY DEF ChildLinks, Heaps, Heap
  <2> QED
    BY <1>1, <1>3, <2>1, Identities
<1> QED
  BY <1>1, <1>2, <1>3, <1>4 DEF B

(* What a heap lists after the nodes D were taken out of it. *)
LEMMA ThinnedKids ==
  ASSUME NEW h \in Heaps, Shaped(h), Linked(h), NEW g \in Heaps, Shaped(g), Linked(g), g.used = h.used,
         NEW D, Thinned(h, D, g), NEW m \in Node, NEW n
  PROVE  Under(g, m, n) <=> Under(h, m, n) /\ n \notin D
<1>1. /\ ChildLinks(h, h.used) /\ ParentLinks(h, h.used) /\ ChildLinks(g, h.used) /\ ParentLinks(g, h.used)
      /\ h.used \subseteq Node /\ Nil \notin Node
      /\ \A k \in Node : g.parent[k] = IF k \in D THEN Nil ELSE h.parent[k]
  BY Identities DEF Linked, Thinned, Heaps, Heap
<1>2. ASSUME Under(g, m, n) PROVE Under(h, m, n) /\ n \notin D
  <2>1. n \in h.used /\ g.parent[n] = m
    BY <1>1, <1>2, UnderIs, UnderParent
  <2>2. n \notin D /\ h.parent[n] = m /\ m # Nil
    BY <1>1, <2>1
  <2> QED
    BY <1>1, <2>1, <2>2 DEF ParentLinks, Under
<1>3. ASSUME Under(h, m, n), n \notin D PROVE Under(g, m, n)
  <2>1. n \in h.used /\ h.parent[n] = m
    BY <1>1, <1>3, UnderIs, UnderParent
  <2>2. g.parent[n] = m /\ m # Nil
    BY <1>1, <1>3, <2>1
  <2> QED
    BY <1>1, <2>1, <2>2 DEF ParentLinks, Under
<1> QED
  BY <1>2, <1>3

LEMMA ThinnedTree ==
  ASSUME NEW h \in Heaps, Shaped(h), Linked(h), NEW g \in Heaps, Shaped(g), Linked(g), g.used = h.used,
         NEW D, Thinned(h, D, g), NEW T, IsTree(h, T), NEW U, IsTree(g, U)
  PROVE  /\ U \subseteq T
         /\ \A n \in U \ {Root} : g.parent[n] = h.parent[n] /\ h.parent[n] \in U
         /\ D \in SUBSET h.used /\ Root \notin D => U = T \ Below(h, D)
<1>1. /\ ChildLinks(h, h.used) /\ ChildLinks(g, g.used) /\ h.used \subseteq Node /\ Nil \notin Node
      /\ T \subseteq h.used /\ U \subseteq h.used /\ Root \in T /\ Root \in U /\ Closed(h, T) /\ Closed(g, U)
      /\ \A S \in SUBSET h.used : Root \in S /\ Closed(h, S) => T \subseteq S
      /\ \A S \in SUBSET h.used : Root \in S /\ Closed(g, S) => U \subseteq S
      /\ \A k \in Node : g.parent[k] = IF k \in D THEN Nil ELSE h.parent[k]
  BY Identities DEF IsTree, Linked, Thinned, Heaps, Heap
<1>2. \A m \in Node : \A n : Under(g, m, n) <=> Under(h, m, n) /\ n \notin D
  BY ThinnedKids
<1>3. U \subseteq T
  <2>1. Closed(g, T)
    BY <1>1, <1>2, ClosedIs
  <2> QED
    BY <1>1, <2>1
<1>4. ASSUME NEW n \in U \ {Root} PROVE g.parent[n] = h.parent[n] /\ h.parent[n] \in U
  <2>1. g.parent[n] \in U /\ g.parent[n] \in Node
    BY <1>1, LinksWithin, TreeLinks
  <2> QED
    BY <1>1, <2>1
<1>5. ASSUME D \in SUBSET h.used, Root \notin D PROVE U = T \ Below(h, D)
  <2> DEFINE B == Below(h, D)
  <2>1. /\ B \subseteq h.used /\ D \subseteq B
        /\ \A m \in B : \A n : Under(h, m, n) => n \in B
        /\ \A n \in B \ D : h.parent[n] \in B /\ Under(h, h.parent[n], n)
        /\ Root \notin B
    BY <1>1, <1>5, BelowLinks
  <2> HIDE DEF B
  <2>2. Closed(g, T \ B)
    <3> SUFFICES ASSUME NEW m \in T \ B, NEW n, Under(g, m, n) PROVE n \in T \ B
      BY ClosedIs
    <3>1. Under(h, m, n) /\ n \notin D
      BY <1>1, <1>2
    <3>2. n \in T /\ h.parent[n] = m
      BY <1>1, <3>1, ClosedIs, UnderParent
    <3> QED
      BY <2>1, <3>1, <3>2
  <2>3. U \subseteq T \ B
    BY <1>1, <2>1, <2>2
  <2>4. Closed(h, U \cup B)
    <3> SUFFICES ASSUME NEW m \in U \cup B, NEW n, Under(h, m, n) PROVE n \in U \cup B
      BY ClosedIs
    <3>1. CASE m \in B
      BY <2>1, <3>1
    <3>2. CASE m \in U /\ n \in D
      BY <2>1, <3>2
    <3>3. CASE m \in U /\ n \notin D
      BY <1>1, <1>2, <3>3, ClosedIs
    <3> QED
      BY <3>1, <3>2, <3>3
  <2>5. T \subseteq U \cup B
    BY <1>1, <2>1, <2>4
  <2> QED
    BY <2>3, <2>5 DEF B
<1> QED
  BY <1>3, <1>4, <1>5

LEMMA ThinnedOrder ==
  ASSUME NEW h \in Heaps, Shaped(h), Linked(h), NEW g \in Heaps, Shaped(g), Linked(g), g.used = h.used,
         NEW D, Thinned(h, D, g), NEW T, IsTree(h, T), NEW U, IsTree(g, U)
  PROVE  OrderIn(g, U) = {e \in OrderIn(h, T) : e[1] \in U /\ e[2] \in U}
<1>1. /\ U \subseteq T /\ \A n \in U \ {Root} : g.parent[n] = h.parent[n] /\ h.parent[n] \in U
  BY ThinnedTree
<1>2. ChildLinks(h, T) /\ ChildLinks(g, U) /\ U \subseteq Node
  BY LinksWithin DEF Linked, IsTree, Heaps, Heap
<1>3. \A m, n \in U \ {Root} : Before(g, m, n) => Before(h, m, n)
  <2> SUFFICES ASSUME NEW m \in U \ {Root}, NEW n \in U \ {Root}, Before(g, m, n) PROVE Before(h, m, n)
    OBVIOUS
  <2> DEFINE p == g.parent[m]
  <2>1. p \in Node /\ p = h.parent[m]
    BY <1>1, <1>2
  <2>2. PICK i, j \in 1 .. g.len[p] : i < j /\ Kid(g, p, i) = m /\ Kid(g, p, j) = n
    BY DEF Before
  <2>3. \E k, l \in 1 .. h.len[p] : k < l /\ Kid(h, p, k) = Kid(g, p, i) /\ Kid(h, p, l) = Kid(g, p, j)
    BY <2>1, <2>2 DEF Thinned
  <2> HIDE DEF p
  <2> QED
    BY <2>1, <2>2, <2>3 DEF Before
<1>4. \A m, n \in U \ {Root} : g.parent[m] = g.parent[n] => (Before(g, m, n) <=> Before(h, m, n))
  <2> SUFFICES ASSUME NEW m \in U \ {Root}, NEW n \in U \ {Root}, g.parent[m] = g.parent[n],
                      Before(h, m, n)
               PROVE  Before(g, m, n)
    BY <1>3
  <2>1. m \in T \ {Root} /\ n \in T \ {Root} /\ h.parent[m] = h.parent[n]
    BY <1>1
  <2>2. m # n /\ ~Before(h, n, m)
    BY <1>2, <2>1, InLine
  <2>3. ~Before(g, n, m)
    BY <1>3, <2>2
  <2> QED
    BY <1>2, <2>2, <2>3, InLine
<1>5. OrderIn(g, U) = {e \in (U \ {Root}) \X (U \ {Root}) :
                         g.parent[e[1]] = g.parent[e[2]] /\ Before(g, e[1], e[2])}
  BY <1>2, OrderIs
<1>6. OrderIn(h, T) = {e \in (T \ {Root}) \X (T \ {Root}) :
                         h.parent[e[1]] = h.parent[e[2]] /\ Before(h, e[1], e[2])}
  BY <1>2, OrderIs
<1>7. ASSUME NEW m \in U \ {Root}, NEW n \in U \ {Root}
      PROVE  <<m, n>> \in OrderIn(g, U) <=> <<m, n>> \in OrderIn(h, T)
  <2>1. <<m, n>> \in OrderIn(g, U) <=> g.parent[m] = g.parent[n] /\ Before(g, m, n)
    BY <1>5
  <2>2. <<m, n>> \in OrderIn(h, T) <=> h.parent[m] = h.parent[n] /\ Before(h, m, n)
    BY <1>1, <1>6
  <2> QED
    BY <1>1, <1>4, <2>1, <2>2
<1>8. \A e \in OrderIn(g, U) : e \in (U \ {Root}) \X (U \ {Root})
  BY <1>5
<1>9. \A e \in OrderIn(h, T) : e \in (T \ {Root}) \X (T \ {Root})
  BY <1>6
<1>10. ASSUME NEW e \in OrderIn(g, U) PROVE e \in OrderIn(h, T) /\ e[1] \in U /\ e[2] \in U
  BY <1>7, <1>8, <1>10
<1>11. ASSUME NEW e \in OrderIn(h, T), e[1] \in U, e[2] \in U PROVE e \in OrderIn(g, U)
  BY <1>7, <1>9, <1>11
<1> QED
  BY <1>10, <1>11

-----------------------------------------------------------------------------
(* TextStore.  f is the heap once d has no children left, S its tree.        *)
LEMMA DroppedTree ==
  ASSUME NEW h \in Heaps, Shaped(h), ChildLinks(h, h.used), NEW T, IsTree(h, T), NEW d \in T,
         NEW f, f = DropChildren(h, d), NEW S, IsTree(f, S)
  PROVE  /\ f \in Heaps /\ Shaped(f) /\ ChildLinks(f, f.used) /\ f.used = h.used
         /\ f.parent = h.parent /\ f.label = h.label /\ f.value = h.value
         /\ S \subseteq T /\ d \in S /\ f.len[d] = 0
         /\ \A n \in T \ {Root} : n \notin S <=> h.parent[n] \in (T \ S) \cup {d}
         /\ OrderIn(f, S) = {e \in OrderIn(h, T) : e[1] \in S /\ e[2] \in S}
<1>1. T \subseteq h.used /\ h.used \subseteq Node /\ Root \in T /\ Closed(h, T) /\ ChildLinks(h, T)
      /\ \A R \in SUBSET h.used : Root \in R /\ Closed(h, R) => T \subseteq R
  BY LinksWithin DEF IsTree, Heaps, Heap
<1>2. f \in Heaps /\ Shaped(f) /\ ChildrenDropped(h, d, f) /\ ChildLinks(f, h.used)
  BY <1>1, DropChildrenIs DEF Heaps
<1>3. /\ f.used = h.used /\ f.parent = h.parent /\ f.label = h.label /\ f.value = h.value
      /\ f.len[d] = 0
      /\ \A m \in Node \ {d} : f.len[m] = h.len[m] /\ \A i : Kid(f, m, i) = Kid(h, m, i)
  BY <1>2 DEF ChildrenDropped
<1>4. /\ S \subseteq h.used /\ Root \in S /\ Closed(f, S) /\ ChildLinks(f, S)
      /\ \A R \in SUBSET h.used : Root \in R /\ Closed(f, R) => S \subseteq R
  BY <1>2, <1>3, LinksWithin DEF IsTree
<1>5. \A m \in Node : \A n : Under(f, m, n) <=> m # d /\ Under(h, m, n)
  BY <1>3 DEF Under
<1>6. S \subseteq T
  <2>1. Closed(f, T)
    BY <1>1, <1>5, ClosedIs
  <2> QED
    BY <1>1, <1>4, <2>1
<1>7. d \in S
  <2> SUFFICES ASSUME d \notin S PROVE FALSE
    OBVIOUS
  <2>1. Closed(h, S)
    BY <1>1, <1>4, <1>5, ClosedIs
  <2> QED
    BY <1>1, <1>4, <2>1
<1>8. ASSUME NEW n \in S \ {Root} PROVE h.parent[n] \in S /\ h.parent[n] # d
  <2>1. f.parent[n] \in S /\ f.parent[n] \in Node /\ Under(f, f.parent[n], n)
    BY <1>2, <1>4, TreeLinks
  <2> QED
    BY <1>3, <1>5, <2>1
<1>9. ASSUME NEW n \in T \ {Root} PROVE n \notin S <=> h.parent[n] \in (T \ S) \cup {d}
  <2>1. h.parent[n] \in T /\ h.parent[n] \in Node /\ Under(h, h.parent[n], n)
    BY <1>1, TreeLinks
  <2>2. CASE n \in S
    BY <1>8, <1>9, <2>2
  <2>3. CASE n \notin S
    <3>1. h.parent[n] \in S /\ h.parent[n] # d => n \in S
      BY <1>4, <1>5, <2>1, ClosedIs
    <3> QED
      BY <2>1, <2>3, <3>1
  <2> QED
    BY <2>2, <2>3
<1>10. OrderIn(f, S) = {e \in OrderIn(h, T) : e[1] \in S /\ e[2] \in S}
  <2>1. \A m \in S \ {Root} : \A n : Before(f, m, n) <=> Before(h, m, n)
    <3> SUFFICES ASSUME NEW m \in S \ {Root}, NEW n PROVE Before(f, m, n) <=> Before(h, m, n)
      OBVIOUS
    <3>1. h.parent[m] \in Node \ {d} /\ f.parent[m] = h.parent[m]
      BY <1>1, <1>3, <1>4, <1>8
    <3> QED
      BY <1>3, <3>1 DEF Before
  <2>2. OrderIn(f, S) = {e \in (S \ {Root}) \X (S \ {Root}) :
                           f.parent[e[1]] = f.parent[e[2]] /\ Before(f, e[1], e[2])}
    BY <1>2, <1>4, OrderIs
  <2>3. OrderIn(h, T) = {e \in (T \ {Root}) \X (T \ {Root}) :
                           h.parent[e[1]] = h.parent[e[2]] /\ Before(h, e[1], e[2])}
    BY <1>1, OrderIs
  <2>4. ASSUME NEW m, NEW n
        PROVE  <<m, n>> \in OrderIn(f, S) <=> <<m, n>> \in OrderIn(h, T) /\ m \in S /\ n \in S
    BY <1>3, <1>6, <2>1, <2>2, <2>3
  <2>5. /\ \A e \in OrderIn(f, S) : e \in (S \ {Root}) \X (S \ {Root})
        /\ \A e \in OrderIn(h, T) : e \in (T \ {Root}) \X (T \ {Root})
    BY <2>2, <2>3
  <2>6. ASSUME NEW e \in OrderIn(f, S) PROVE e \in OrderIn(h, T) /\ e[1] \in S /\ e[2] \in S
    BY <2>4, <2>5, <2>6
  <2>7. ASSUME NEW e \in OrderIn(h, T), e[1] \in S, e[2] \in S PROVE e \in OrderIn(f, S)
    BY <2>4, <2>5, <2>7
  <2> QED
    BY <2>6, <2>7
<1> QED
  BY <1>2, <1>3, <1>6, <1>7, <1>9, <1>10

-----------------------------------------------------------------------------
(* Move.  e is the heap when the source s is to be taken out: createPath may *)
(* have added to it.  f is the heap without s, g the one Move leaves.        *)
Transferred(e, s, d, f, g) ==
  /\ f \in Heaps /\ Shaped(f) /\ Linked(f) /\ f.used = e.used
  /\ f.label = e.label /\ f.value = e.value /\ Thinned(e, {s}, f)
  /\ g \in Heaps /\ Shaped(g) /\ g.used = e.used /\ g.label = e.label
  /\ ChildLinks(g, g.used \ {s}) /\ TookOver(f, d, s, g)

LEMMA TransferFields ==
  ASSUME NEW e \in Heaps, Shaped(e), Linked(e), NEW s \in e.used, s # Root, e.parent[s] # Nil,
         NEW d \in e.used, NEW f, f = RemoveChild(e, e.parent[s], s), NEW g, g = Transfer(e, s, d)
  PROVE  Transferred(e, s, d, f, g)
<1>1. ChildLinks(e, e.used) /\ ParentLinks(e, e.used)
  BY DEF Linked
<1>2. /\ Edited(e, f) /\ f.used = e.used /\ f.label = e.label /\ f.value = e.value
      /\ Thinned(e, {s}, f)
  BY RemovedIs
<1>3. f \in Heaps /\ Shaped(f)
  BY <1>2 DEF Edited
<1>4. ChildLinks(f, f.used) /\ \A K \in SUBSET e.used : ParentLinks(e, K) => ParentLinks(f, K)
  BY <1>1, RemoveChildLinks DEF Heaps
<1>5. Linked(f)
  BY <1>1, <1>2, <1>4 DEF Linked
<1>6. g = TakeOver(f, d, s)
  BY DEF Transfer
<1>7. /\ g \in Heaps /\ Shaped(g) /\ g.used = f.used /\ g.label = f.label /\ TookOver(f, d, s, g)
  BY <1>2, <1>3, <1>6, TakeOverIs DEF Heaps
<1>8. ChildLinks(g, g.used \ {s})
  <2>1. Left(g, {s}, ChildrenOf(e, d))
    BY TransferIs
  <2> QED
    BY <2>1 DEF Left
<1> QED
  BY <1>2, <1>3, <1>5, <1>7, <1>8 DEF Transferred

LEMMA TookOverKids ==
  ASSUME NEW f, NEW d, NEW s, NEW g, TookOver(f, d, s, g), NEW m \in Node, NEW n
  PROVE  Under(g, m, n) <=> Under(f, IF m = d THEN s ELSE m, n)
BY DEF TookOver, Under

(* B is s and what hangs below it. *)
Subtree(e, T, s, B) ==
  /\ B \subseteq T /\ s \in B /\ Root \notin B
  /\ \A m \in B : \A n : Under(e, m, n) => n \in B
  /\ \A n \in B \ {s} : e.parent[n] \in B /\ Under(e, e.parent[n], n)
  /\ e.parent[s] \notin B
  /\ \A n \in T \ {Root} : e.parent[n] \in B => n \in B \ {s}

LEMMA SubtreeIs ==
  ASSUME NEW e \in Heaps, Shaped(e), ChildLinks(e, e.used), NEW T, IsTree(e, T), NEW s \in T \ {Root},
         NEW B, B = Below(e, {s})
  PROVE  Subtree(e, T, s, B)
<1>1. /\ T \subseteq e.used /\ Root \in T /\ Closed(e, T) /\ ChildLinks(e, T)
      /\ \A S \in SUBSET e.used : Root \in S /\ Closed(e, S) => T \subseteq S
  BY LinksWithin DEF IsTree
<1>2. {s} \in SUBSET e.used /\ Root \notin {s}
  BY <1>1
<1>3. /\ B \subseteq e.used /\ {s} \subseteq B
      /\ \A m \in B : \A n : Under(e, m, n) => n \in B
      /\ \A n \in B \ {s} : e.parent[n] \in B /\ Under(e, e.parent[n], n)
      /\ Root \notin B
  BY <1>2, BelowLinks
<1>4. B \subseteq T
  BY <1>1, <1>2, BelowIs DEF Heaps
<1>5. e.parent[s] \notin B
  <2> SUFFICES ASSUME e.parent[s] \in B PROVE FALSE
    OBVIOUS
  <2>1. Closed(e, T \ B)
    <3> SUFFICES ASSUME NEW m \in T \ B, NEW n, Under(e, m, n) PROVE n \in T \ B
      BY ClosedIs
    <3>1. n \in T /\ e.parent[n] = m
      BY <1>1, ClosedIs, UnderParent
    <3> QED
      BY <1>3, <3>1
  <2> QED
    BY <1>1, <1>3, <2>1
<1>6. \A n \in T \ {Root} : e.parent[n] \in B => n \in B \ {s}
  <2>1. \A n \in T \ {Root} : Under(e, e.parent[n], n)
    BY <1>1, TreeLinks
  <2> QED
    BY <1>3, <1>5, <2>1
<1> QED
  BY <1>3, <1>4, <1>5, <1>6 DEF Subtree

(* The destination is not in the tree once s is out of it.                   *)
LEMMA LostTree ==
  ASSUME NEW f \in Heaps, Shaped(f), ChildLinks(f, f.used), NEW S, IsTree(f, S),
         NEW s \in Node \ S, NEW d \in Node \ S, NEW g \in Heaps, Shaped(g), g.used = f.used, TookOver(f, d, s, g)
  PROVE  /\ IsTree(g, S) /\ ChildLinks(g, S)
         /\ \A n \in S : g.parent[n] = f.parent[n] /\ g.value[n] = f.value[n]
         /\ OrderIn(g, S) = OrderIn(f, S)
<1>1. /\ S \subseteq f.used /\ f.used \subseteq Node /\ Root \in S /\ Closed(f, S) /\ ChildLinks(f, S)
      /\ \A R \in SUBSET f.used : Root \in R /\ Closed(f, R) => S \subseteq R
  BY LinksWithin DEF IsTree, Heaps, Heap
<1>2. \A m \in S : /\ g.value[m] = f.value[m] /\ g.arr[m] = f.arr[m] /\ g.len[m] = f.len[m]
                   /\ \A i : Kid(g, m, i) = Kid(f, m, i)
  BY <1>1 DEF TookOver
<1>3. \A n \in S : g.parent[n] = f.parent[n]
  <2> SUFFICES ASSUME NEW n \in S, Under(f, s, n) PROVE FALSE
    BY <1>1 DEF TookOver, Under
  <2>1. s \in f.used /\ f.parent[n] = s
    BY <1>1, UnderIs, UnderParent
  <2>2. CASE n = Root
    BY <1>1, <2>1, <2>2, Identities DEF ChildLinks
  <2>3. CASE n # Root
    BY <1>1, <2>1, <2>3, TreeLinks
  <2> QED
    BY <2>2, <2>3
<1>4. IsTree(g, S)
  <2>1. Closed(g, S)
    BY <1>1, <1>2 DEF Closed
  <2>2. ASSUME NEW R \in SUBSET f.used, Root \in R, Closed(g, R) PROVE S \subseteq R
    <3>1. Closed(f, S \cap R)
      BY <1>1, <1>2, <2>2 DEF Closed
    <3>2. S \cap R \in SUBSET f.used /\ Root \in S \cap R
      BY <1>1, <2>2
    <3> QED
      BY <1>1, <3>1, <3>2
  <2> QED
    BY <1>1, <2>1, <2>2 DEF IsTree
<1>5. ChildLinks(g, S)
  <2>1. \A n \in S : \A i \in 1 .. f.len[n] : Kid(f, n, i) \in S
    BY <1>1 DEF Closed
  <2> QED
    BY <1>1, <1>2, <1>3, <2>1 DEF ChildLinks
<1>6. OrderIn(g, S) = OrderIn(f, S)
  <2>1. \A m \in S \ {Root} : \A n : Before(g, m, n) <=> Before(f, m, n)
    <3>1. \A m \in S \ {Root} : f.parent[m] \in S
      BY <1>1, TreeLinks
    <3> QED
      BY <1>2, <1>3, <3>1 DEF Before
  <2>2. OrderIn(g, S) = {x \in (S \ {Root}) \X (S \ {Root}) :
                           g.parent[x[1]] = g.parent[x[2]] /\ Before(g, x[1], x[2])}
    BY <1>4, <1>5, OrderIs
  <2>3. OrderIn(f, S) = {x \in (S \ {Root}) \X (S \ {Root}) :
                           f.parent[x[1]] = f.parent[x[2]] /\ Before(f, x[1], x[2])}
    BY <1>1, OrderIs
  <2> QED
    BY <1>3, <2>1, <2>2, <2>3
<1> QED
  BY <1>2, <1>3, <1>4, <1>5, <1>6

(* It is: the tree is then what did not hang below d, with what hung below   *)
(* s.  k is e without the children of d, S its tree.                         *)
LEMMA MovedTree ==
  ASSUME NEW e \in Heaps, Shaped(e), Linked(e), NEW T, IsTree(e, T), NEW s \in T \ {Root}, e.parent[s] # Nil,
         NEW B, B = Below(e, {s}), NEW d \in T \ B,
         NEW k, k = DropChildren(e, d), NEW S, IsTree(k, S),
         NEW g, g = Transfer(e, s, d), NEW W, IsTree(g, W)
  PROVE  /\ W = (S \cup B) \ {s}
         /\ ChildLinks(g, W)
         /\ \A n \in W \ {Root} : /\ g.parent[n] = IF e.parent[n] = s THEN d ELSE e.parent[n]
                                  /\ e.parent[n] # d
         /\ OrderIn(g, W) = {x \in OrderIn(e, T) : x[1] \in W /\ x[2] \in W}
<1> DEFINE f == RemoveChild(e, e.parent[s], s)
           C == (S \cup B) \ {s}
<1>1. /\ ChildLinks(e, e.used) /\ T \subseteq e.used /\ e.used \subseteq Node /\ Root \in T /\ Closed(e, T)
      /\ ChildLinks(e, T)
  BY LinksWithin DEF Linked, IsTree, Heaps, Heap
<1>2. /\ f \in Heaps /\ Shaped(f) /\ Linked(f) /\ f.used = e.used /\ Thinned(e, {s}, f)
      /\ g \in Heaps /\ Shaped(g) /\ g.used = e.used
      /\ ChildLinks(g, g.used \ {s}) /\ TookOver(f, d, s, g)
  <2>1. s \in e.used /\ d \in e.used /\ s # Root /\ e.parent[s] # Nil /\ f = RemoveChild(e, e.parent[s], s)
    BY <1>1
  <2> HIDE DEF f
  <2>2. Transferred(e, s, d, f, g)
    BY <2>1, TransferFields
  <2> QED
    BY <2>2 DEF Transferred
<1> HIDE DEF f
<1>3. /\ B \subseteq T /\ s \in B /\ Root \notin B
      /\ \A m \in B : \A n : Under(e, m, n) => n \in B
      /\ \A n \in B \ {s} : e.parent[n] \in B /\ Under(e, e.parent[n], n)
      /\ e.parent[s] \notin B
  <2>1. Subtree(e, T, s, B)
    BY <1>1, SubtreeIs
  <2> QED
    BY <2>1 DEF Subtree
<1>4. /\ S \subseteq T /\ d \in S
      /\ \A n \in T \ {Root} : n \notin S <=> e.parent[n] \in (T \ S) \cup {d}
  BY <1>1, DroppedTree
<1>5. /\ k.used = e.used /\ \A m \in Node : \A n : Under(k, m, n) <=> m # d /\ Under(e, m, n)
  <2>1. ChildrenDropped(e, d, k)
    BY <1>1, DropChildrenIs DEF Heaps
  <2> QED
    BY <2>1 DEF ChildrenDropped, Under
<1>6. \A m \in Node : \A n : Under(f, m, n) <=> Under(e, m, n) /\ n \notin {s}
  BY <1>2, ThinnedKids
<1>7. \A m \in Node : \A n :
        Under(g, m, n) <=> Under(e, IF m = d THEN s ELSE m, n) /\ n # s
  <2>1. \A m \in Node : \A n : Under(g, m, n) <=> Under(f, IF m = d THEN s ELSE m, n)
    BY <1>2, TookOverKids
  <2> QED
    BY <1>1, <1>6, <2>1
<1>8. /\ Root \in S /\ S \subseteq e.used
      /\ \A m \in S : \A n : Under(k, m, n) => n \in S
      /\ \A R \in SUBSET e.used : Root \in R /\ Closed(k, R) => S \subseteq R
  BY <1>5, ClosedIs DEF IsTree
<1>9. /\ Root \in W /\ W \subseteq e.used
      /\ \A m \in W : \A n : Under(g, m, n) => n \in W
      /\ \A R \in SUBSET e.used : Root \in R /\ Closed(g, R) => W \subseteq R
  BY <1>2, ClosedIs DEF IsTree
<1>10. W \subseteq C
  <2>1. Closed(g, C)
    <3> SUFFICES ASSUME NEW m \in C, NEW n, Under(g, m, n) PROVE n \in C
      BY ClosedIs
    <3>1. m \in Node /\ n # s /\ Under(e, IF m = d THEN s ELSE m, n)
      BY <1>1, <1>3, <1>4, <1>7
    <3>2. CASE m = d
      BY <1>3, <3>1, <3>2
    <3>3. CASE m # d
      BY <1>3, <1>5, <1>8, <3>1, <3>3
    <3> QED
      BY <3>2, <3>3
  <2>2. C \in SUBSET e.used /\ Root \in C
    BY <1>1, <1>3, <1>8
  <2> QED
    BY <1>9, <2>1, <2>2
<1>11. S \subseteq W \cup B
  <2>1. Closed(k, W \cup B)
    <3> SUFFICES ASSUME NEW m \in W \cup B, NEW n, Under(k, m, n) PROVE n \in W \cup B
      BY ClosedIs
    <3>1. m \in Node /\ m # d /\ Under(e, m, n)
      BY <1>1, <1>3, <1>5, <1>9
    <3>2. Under(g, m, n) \/ n = s
      BY <1>7, <3>1
    <3> QED
      BY <1>3, <1>9, <3>1, <3>2
  <2>2. W \cup B \in SUBSET e.used
    BY <1>1, <1>3, <1>9
  <2> QED
    BY <1>8, <1>9, <2>1, <2>2
<1>12. d \in W
  BY <1>4, <1>11
<1>13. B \subseteq {s} \cup (B \cap W)
  <2> DEFINE R == {s} \cup (B \cap W)
  <2>1. Closed(e, R)
    <3> SUFFICES ASSUME NEW m \in R, NEW n, Under(e, m, n) PROVE n \in R
      BY ClosedIs
    <3>1. m \in B /\ m \in Node /\ m \in e.used /\ n \in B
      BY <1>1, <1>3
    <3>2. e.parent[n] = m
      BY <1>1, <3>1, UnderParent
    <3>3. n # s /\ m # d
      BY <1>3, <3>1, <3>2
    <3>4. CASE m = s
      <4>1. Under(g, d, n)
        BY <1>1, <1>7, <3>3, <3>4
      <4> QED
        BY <1>9, <1>12, <3>1, <4>1
    <3>5. CASE m # s
      <4>1. Under(g, m, n)
        BY <1>7, <3>1, <3>3
      <4> QED
        BY <1>9, <3>1, <3>5, <4>1
    <3> QED
      BY <3>4, <3>5
  <2>2. R \in SUBSET e.used /\ {s} \subseteq R /\ {s} \in SUBSET e.used
    BY <1>1, <1>3
  <2> QED
    BY <2>1, <2>2, BelowIs DEF Heaps
<1>14. W = C
  BY <1>10, <1>11, <1>13
<1>15. ChildLinks(g, W)
  <2>1. W \subseteq g.used \ {s}
    BY <1>2, <1>9, <1>14
  <2> QED
    BY <1>2, <2>1, LinksWithin
<1>16. ASSUME NEW n \in W \ {Root}
       PROVE  /\ g.parent[n] = IF e.parent[n] = s THEN d ELSE e.parent[n]
              /\ e.parent[n] # d
  <2>1. n \in T \ {Root} /\ n \in Node /\ n # s
    BY <1>1, <1>3, <1>4, <1>14
  <2>2. Under(e, e.parent[n], n)
    BY <1>1, <2>1, TreeLinks
  <2>3. Under(e, s, n) <=> e.parent[n] = s
    BY <1>1, <2>2, UnderParent
  <2>4. g.parent[n] = IF Under(f, s, n) THEN d ELSE f.parent[n]
    BY <1>2, <2>1 DEF TookOver, Under
  <2>5. f.parent[n] = e.parent[n]
    BY <1>2, <2>1 DEF Thinned
  <2>6. Under(f, s, n) <=> e.parent[n] = s
    BY <1>1, <1>6, <2>1, <2>3
  <2>7. e.parent[n] # d
    BY <1>3, <1>4, <1>14, <2>1
  <2> QED
    BY <2>4, <2>5, <2>6, <2>7
<1>17. ASSUME NEW m \in W \ {Root}, NEW n \in W \ {Root}
       PROVE  /\ g.parent[m] = g.parent[n] <=> e.parent[m] = e.parent[n]
              /\ e.parent[m] = e.parent[n] => (Before(g, m, n) <=> Before(e, m, n))
  <2>1. g.parent[m] = g.parent[n] <=> e.parent[m] = e.parent[n]
    BY <1>16
  <2>2. ASSUME NEW a \in W \ {Root}, NEW b \in W \ {Root}, Before(g, a, b) PROVE Before(e, a, b)
    <3> DEFINE p == e.parent[a]
               q == g.parent[a]
    <3>1. q = (IF p = s THEN d ELSE p) /\ p # d /\ p \in Node /\ s \in Node /\ d \in Node
      <4>1. a \in T \ {Root}
        BY <1>3, <1>4, <1>14
      <4>2. p \in Node
        BY <1>1, <4>1, TreeLinks
      <4> QED
        BY <1>1, <1>16, <4>2
    <3>2. PICK i, j \in 1 .. g.len[q] : i < j /\ Kid(g, q, i) = a /\ Kid(g, q, j) = b
      BY <2>2 DEF Before
    <3>3. g.len[q] = f.len[p] /\ \A l : Kid(g, q, l) = Kid(f, p, l)
      BY <1>2, <3>1 DEF TookOver
    <3>4. PICK u, v \in 1 .. e.len[p] : u < v /\ Kid(e, p, u) = Kid(f, p, i) /\ Kid(e, p, v) = Kid(f, p, j)
      BY <1>2, <3>1, <3>2, <3>3 DEF Thinned
    <3> QED
      BY <3>2, <3>3, <3>4 DEF Before
  <2>3. ASSUME e.parent[m] = e.parent[n], Before(e, m, n) PROVE Before(g, m, n)
    <3>1. m \in T \ {Root} /\ n \in T \ {Root}
      BY <1>3, <1>4, <1>14
    <3>2. m # n /\ ~Before(e, n, m)
      BY <1>1, <2>3, <3>1, InLine
    <3>3. ~Before(g, n, m)
      BY <2>2, <3>2
    <3> QED
      BY <1>2, <1>15, <2>1, <2>3, <3>2, <3>3, InLine
  <2> QED
    BY <2>1, <2>2, <2>3
<1>18. OrderIn(g, W) = {x \in OrderIn(e, T) : x[1] \in W /\ x[2] \in W}
  <2>1. OrderIn(g, W) = {x \in (W \ {Root}) \X (W \ {Root}) :
                           g.parent[x[1]] = g.parent[x[2]] /\ Before(g, x[1], x[2])}
    BY <1>2, <1>15, OrderIs
  <2>2. OrderIn(e, T) = {x \in (T \ {Root}) \X (T \ {Root}) :
                           e.parent[x[1]] = e.parent[x[2]] /\ Before(e, x[1], x[2])}
    BY <1>1, OrderIs
  <2>3. W \subseteq T
    BY <1>3, <1>4, <1>14
  <2>4. ASSUME NEW m, NEW n
        PROVE  <<m, n>> \in OrderIn(g, W) <=> <<m, n>> \in OrderIn(e, T) /\ m \in W /\ n \in W
    BY <1>17, <2>1, <2>2, <2>3
  <2>5. /\ \A x \in OrderIn(g, W) : x \in (W \ {Root}) \X (W \ {Root})
        /\ \A x \in OrderIn(e, T) : x \in (T \ {Root}) \X (T \ {Root})
    BY <2>1, <2>2
  <2>6. ASSUME NEW x \in OrderIn(g, W) PROVE x \in OrderIn(e, T) /\ x[1] \in W /\ x[2] \in W
    BY <2>4, <2>5, <2>6
  <2>7. ASSUME NEW x \in OrderIn(e, T), x[1] \in W, x[2] \in W PROVE x \in OrderIn(g, W)
    BY <2>4, <2>5, <2>7
  <2> QED
    BY <2>6, <2>7
<1> QED
  BY <1>14, <1>15, <1>16, <1>18

-----------------------------------------------------------------------------
(* What a step finds.                                                        *)

(* index is the place of the node among its parent's children of its label,  *)
(* and their number: what a step with that label leaves of the children.     *)
LEMMA CountedIs ==
  ASSUME NEW h \in Heaps, Shaped(h), NEW m \in Node, NEW c, h.parent[c] = m, h.label[c] # "*",
         NEW spot \in 1 .. h.len[m], Kid(h, m, spot) = c,
         \A i \in 1 .. h.len[m] : Kid(h, m, i) = c => i = spot
  PROVE  /\ Named(h, Children(h, m), h.label[c]) \in Seq(h.used)
         /\ \E pos \in 1 .. Len(Named(h, Children(h, m), h.label[c])) :
              /\ Named(h, Children(h, m), h.label[c])[pos] = c
              /\ Index(h, c) = <<pos, Len(Named(h, Children(h, m), h.label[c]))>>
<1> DEFINE K == Children(h, m)
           l == h.len[m]
           name == h.label[c]
           C == CountRounds!Rounds(<<0, 0>>, l, h, c)
<1>1. /\ K \in Seq(h.used) /\ Len(K) = l /\ DOMAIN K = 1 .. l /\ l \in Nat
      /\ \A i \in 1 .. l : K[i] \in h.used /\ K[i] = Kid(h, m, i)
  <2>1. h.len[m] \in Nat
    BY DEF Heaps, Heap
  <2> QED
    BY <2>1, ChildrenAre DEF Heaps
<1>2. Named(h, K, name) = NamedLoop!Result(<<>>, K, h, name)
  BY DEF Named, Seqs!FoldLeft, Seqs!MapThenFoldSet, Seqs!Max, NamedLoop!Result, NamedLoop!IsLoop, NamedLoop!Greatest, NamedRound
<1>3. Index(h, c) = C[l]
  <2>1. h.parent[c] # Nil
    BY Identities
  <2> QED
    BY <1>1, <2>1, IndexIs
<1>4. C \in [0 .. l -> Nat \X Nat] /\ CountRounds!IsRounds(C, <<0, 0>>, l, h, c)
  <2>1. \A acc \in Nat \X Nat : \A k \in 1 .. l : CountRound(h, c, acc, k) \in Nat \X Nat
    BY DEF CountRound
  <2>2. CountRounds!StaysInRounds(Nat \X Nat, l, h, c)
    BY <2>1 DEF CountRounds!StaysInRounds
  <2>3. <<0, 0>> \in Nat \X Nat
    OBVIOUS
  <2> HIDE DEF l
  <2> QED
    BY <1>1, <2>2, <2>3, CountRounds!RoundsStay
<1> HIDE DEF K, l, name, C
<1>5. PICK v : NamedLoop!IsTrace(v, Seq(h.used), <<>>, K, l, h, name)
  <2>1. ASSUME NEW out \in Seq(h.used), NEW k \in DOMAIN K
        PROVE  NamedRound(h, name, out, K[k]) \in Seq(h.used)
    <3>1. K[k] \in h.used
      BY <1>1
    <3>2. Append(out, K[k]) \in Seq(h.used)
      BY <3>1
    <3> QED
      BY <3>2 DEF NamedRound
  <2>2. <<>> \in Seq(h.used) /\ \E n \in Nat : DOMAIN K = 1 .. n
    BY <1>1
  <2>3. NamedLoop!Stays(Seq(h.used), <<>>, K, h, name)
    BY <2>1, <2>2 DEF NamedLoop!Stays
  <2> QED
    BY <1>1, <2>3, NamedLoop!LoopTrace
<1>6. /\ v \in [0 .. l -> Seq(h.used)] /\ v[0] = <<>> /\ NamedLoop!Result(<<>>, K, h, name) = v[l]
      /\ \A k \in 1 .. l : v[k] = NamedRound(h, name, v[k - 1], K[k])
  BY <1>5 DEF NamedLoop!IsTrace
<1>7. C[0] = <<0, 0>> /\ \A k \in 1 .. l : C[k] = CountRound(h, c, C[k - 1], k)
  <2>1. 0 \in 0 .. l /\ \A k \in 1 .. l : k \in 0 .. l /\ k # 0
    BY <1>1
  <2> QED
    BY <1>4, <2>1 DEF CountRounds!IsRounds
<1> DEFINE Counted(k) == /\ C[k][2] = Len(v[k])
                         /\ spot <= k => C[k][1] \in 1 .. Len(v[k]) /\ v[k][C[k][1]] = c
           I == {k \in Nat : k <= l => Counted(k)}
<1>8. 0 \in I
  <2>1. spot \in 1 .. l
    BY DEF l
  <2> QED
    BY <1>6, <1>7, <2>1
<1>9. ASSUME NEW k \in I PROVE k + 1 \in I
  <2>1. SUFFICES ASSUME k + 1 <= l PROVE Counted(k + 1)
    OBVIOUS
  <2>2. k \in Nat /\ k + 1 \in 1 .. l /\ (k + 1) - 1 = k /\ k \in 0 .. l /\ l \in Nat
    BY <1>1, <2>1
  <2>3. Counted(k)
    BY <2>2
  <2>4. v[k] \in Seq(h.used) /\ C[k] \in Nat \X Nat
    BY <1>4, <1>6, <2>2
  <2>5. v[k + 1] = NamedRound(h, name, v[k], K[k + 1]) /\ C[k + 1] = CountRound(h, c, C[k], k + 1)
    BY <1>6, <1>7, <2>2
  <2>6. K[k + 1] \in h.used /\ (K[k + 1] = c <=> k + 1 = spot) /\ spot \in Nat
    BY <1>1, <2>2 DEF l
  <2>7. NameMatch(name, h.label[K[k + 1]]) <=> h.label[K[k + 1]] = name
    BY DEF NameMatch, name
  <2> HIDE DEF I
  <2>8. CASE h.label[K[k + 1]] # name
    <3>1. v[k + 1] = v[k] /\ C[k + 1] = C[k]
      BY <2>5, <2>7, <2>8 DEF NamedRound, CountRound, K, name
    <3>2. k + 1 # spot
      BY <2>6, <2>8 DEF name
    <3>3. spot <= k + 1 => spot <= k
      BY <2>2, <2>6, <3>2
    <3> QED
      BY <2>3, <3>1, <3>3
  <2>9. CASE h.label[K[k + 1]] = name
    <3>1. v[k + 1] = Append(v[k], K[k + 1])
      BY <2>5, <2>7, <2>9 DEF NamedRound
    <3>2. C[k + 1] = <<IF K[k + 1] = c THEN C[k][2] + 1 ELSE C[k][1], C[k][2] + 1>>
      BY <2>5, <2>9 DEF CountRound, K, name
    <3>3. /\ Len(v[k + 1]) = Len(v[k]) + 1 /\ v[k + 1][Len(v[k]) + 1] = K[k + 1]
          /\ \A i \in 1 .. Len(v[k]) : v[k + 1][i] = v[k][i] /\ i \in 1 .. (Len(v[k]) + 1)
          /\ Len(v[k]) \in Nat /\ Len(v[k]) + 1 \in 1 .. (Len(v[k]) + 1)
      BY <2>4, <2>6, <3>1
    <3>4. C[k + 1][2] = Len(v[k + 1])
      BY <2>3, <3>2, <3>3
    <3>5. CASE k + 1 = spot
      <4>1. C[k + 1][1] = Len(v[k]) + 1
        BY <2>3, <2>6, <3>2, <3>5
      <4> QED
        BY <2>6, <3>3, <3>4, <3>5, <4>1
    <3>6. CASE k + 1 # spot
      <4>1. spot <= k + 1 => spot <= k
        BY <2>2, <2>6, <3>6
      <4>2. C[k + 1][1] = C[k][1]
        BY <2>6, <3>2, <3>6
      <4> QED
        BY <2>3, <3>3, <3>4, <4>1, <4>2
    <3> QED
      BY <3>5, <3>6
  <2> QED
    BY <2>8, <2>9
<1>10. I = Nat
  <2> HIDE DEF Counted
  <2> QED
    BY <1>8, <1>9, BelowRounds!InductiveSet
<1>11. Counted(l) /\ C[l] \in Nat \X Nat /\ v[l] \in Seq(h.used) /\ spot <= l
  <2>1. l \in I /\ l \in 0 .. l
    BY <1>1, <1>10
  <2>2. spot <= l
    BY <1>1 DEF l
  <2> QED
    BY <1>1, <1>4, <1>6, <2>1, <2>2
<1>12. C[l] = <<C[l][1], C[l][2]>>
  BY <1>11
<1> QED
  BY <1>2, <1>3, <1>6, <1>11, <1>12 DEF K, name

(* The evaluator on a single node. *)
LEMMA PickedOut ==
  ASSUME NEW h, NEW T, NEW cs \in Seq(T), NEW pos \in 1 .. Len(cs)
  PROVE  Satisfying(h, cs, [kind |-> "pos", n |-> pos]) = <<cs[pos]>>
<1> DEFINE p == [kind |-> "pos", n |-> pos]
           xs == [i \in DOMAIN cs |-> i]
           q == <<h, cs>>
           l == Len(cs)
           Q == [k \in 0 .. l |-> IF k < pos THEN {<<>>} ELSE {<<cs[pos]>>}]
<1>1. Satisfying(h, cs, p) = SatisfyingLoop!Result(<<>>, xs, q, p)
  BY DEF Satisfying, Seqs!FoldLeft, Seqs!MapThenFoldSet, Seqs!Max, SatisfyingLoop!Result, SatisfyingLoop!IsLoop,
         SatisfyingLoop!Greatest, SatisfyingRound
<1>2. /\ <<>> \in Seq(T) /\ l \in Nat /\ DOMAIN xs = 1 .. l
      /\ \A k \in DOMAIN xs : xs[k] = k /\ q[2][k] \in T /\ q[2][k] = cs[k]
  OBVIOUS
<1>3. \A k : \A s : SatisfyingRound(q, p, s, k) = IF k = pos THEN Append(s, q[2][k]) ELSE s
  BY DEF SatisfyingRound, PredHolds
<1>4. pos \in 1 .. l /\ pos \in Nat
  BY <1>2
<1>5. <<>> \in Q[0] /\ Q[l] = {<<cs[pos]>>}
  BY <1>2, <1>4
<1>6. ASSUME NEW k \in 1 .. l, NEW s \in Seq(T), s \in Q[k - 1]
      PROVE  SatisfyingRound(q, p, s, xs[k]) \in Q[k]
  <2>1. k - 1 \in 0 .. l /\ k \in 0 .. l /\ k \in Nat
    BY <1>2
  <2>2. Q[k] = (IF k < pos THEN {<<>>} ELSE {<<cs[pos]>>})
        /\ Q[k - 1] = (IF k - 1 < pos THEN {<<>>} ELSE {<<cs[pos]>>})
    BY <2>1
  <2> HIDE DEF Q
  <2>3. SatisfyingRound(q, p, s, xs[k]) = IF k = pos THEN Append(s, cs[k]) ELSE s
    BY <1>2, <1>3
  <2>4. CASE k < pos
    <3>1. k - 1 < pos /\ k # pos
      BY <1>4, <2>1, <2>4
    <3> QED
      BY <1>6, <2>2, <2>3, <2>4, <3>1
  <2>5. CASE k = pos
    <3>1. k - 1 < pos /\ ~(k < pos) /\ Append(<<>>, cs[pos]) = <<cs[pos]>>
      BY <1>4, <2>1, <2>5
    <3>2. s = <<>>
      BY <1>6, <2>2, <3>1
    <3> QED
      BY <2>2, <2>3, <2>5, <3>1, <3>2
  <2>6. CASE k > pos
    <3>1. ~(k - 1 < pos) /\ ~(k < pos) /\ k # pos
      BY <1>4, <2>1, <2>6
    <3> QED
      BY <1>6, <2>2, <2>3, <3>1
  <2> QED
    BY <1>4, <2>1, <2>4, <2>5, <2>6
<1> HIDE DEF xs, q, p, l, Q
<1>7. SatisfyingLoop!Stays(Seq(T), <<>>, xs, q, p)
  <2>1. ASSUME NEW s \in Seq(T), NEW k \in DOMAIN xs PROVE SatisfyingRound(q, p, s, xs[k]) \in Seq(T)
    <3>1. q[2][k] \in T /\ xs[k] = k
      BY <1>2
    <3>2. Append(s, q[2][k]) \in Seq(T)
      BY <3>1
    <3> QED
      BY <1>3, <3>1, <3>2
  <2> QED
    BY <1>2, <2>1 DEF SatisfyingLoop!Stays
<1>8. SatisfyingLoop!Result(<<>>, xs, q, p) \in Q[l]
  BY <1>2, <1>5, <1>6, <1>7, SatisfyingLoop!LoopReaches
<1> QED
  BY <1>1, <1>5, <1>8 DEF p

LEMMA PredsPick ==
  ASSUME NEW h, NEW T, NEW cs \in Seq(T)
  PROVE  /\ ApplyPreds(h, cs, <<>>) = cs
         /\ \A p : ApplyPreds(h, cs, <<p>>) = Satisfying(h, cs, p)
<1>1. ASSUME NEW preds, NEW n \in {0, 1}, DOMAIN preds = 1 .. n
      PROVE  ApplyPreds(h, cs, preds) = IF n = 0 THEN cs ELSE Satisfying(h, cs, preds[1])
  <2> DEFINE Q == [k \in 0 .. n |-> IF k = 0 THEN {cs} ELSE {Satisfying(h, cs, preds[1])}]
  <2>1. ApplyPreds(h, cs, preds) = PredsLoop!Result(cs, preds, h, 0)
    BY DEF ApplyPreds, Seqs!FoldLeft, Seqs!MapThenFoldSet, Seqs!Max, PredsLoop!Result, PredsLoop!IsLoop,
           PredsLoop!Greatest, PredsRound
  <2>2. PredsLoop!Stays(Seq(T), cs, preds, h, 0)
    BY <1>1, SatisfyingIs DEF PredsLoop!Stays, PredsRound
  <2>3. cs \in Q[0] /\ n \in Nat
    OBVIOUS
  <2>4. ASSUME NEW k \in 1 .. n, NEW s \in Seq(T), s \in Q[k - 1]
        PROVE  PredsRound(h, 0, s, preds[k]) \in Q[k]
    <3>1. k = 1 /\ k - 1 = 0 /\ k \in 0 .. n /\ 0 \in 0 .. n
      OBVIOUS
    <3> QED
      BY <2>4, <3>1 DEF PredsRound
  <2>5. PredsLoop!Result(cs, preds, h, 0) \in Q[n]
    <3> HIDE DEF Q
    <3> QED
      BY <1>1, <2>2, <2>3, <2>4, PredsLoop!LoopReaches
  <2> QED
    BY <2>1, <2>3, <2>5
<1>2. DOMAIN <<>> = 1 .. 0 /\ \A p : DOMAIN <<p>> = 1 .. 1 /\ <<p>>[1] = p
  OBVIOUS
<1> QED
  BY <1>1, <1>2

LEMMA OneOf ==
  ASSUME NEW T, NEW c \in T
  PROVE  Seqs!FlattenSeq(<<<<c>>>>) = <<c>> /\ Dedup(<<c>>) = <<c>>
<1>1. Seqs!FlattenSeq(<<<<c>>>>) = <<c>>
  <2> DEFINE ss == <<<<c>>>>
  <2>1. Len(ss) = 1 /\ ss[1] = <<c>>
    OBVIOUS
  <2> HIDE DEF ss
  <2>2. Seqs!FlattenSeq(ss) = (CHOOSE f : IsFlat(f, ss))[1]
    BY <2>1 DEF Seqs!FlattenSeq, IsFlat
  <2>3. IsFlat([i \in 1 .. 1 |-> ss[1]], ss)
    BY <2>1 DEF IsFlat
  <2>4. IsFlat(CHOOSE f : IsFlat(f, ss), ss)
    BY <2>3
  <2>5. \A f : IsFlat(f, ss) => f[1] = ss[1]
    BY <2>1 DEF IsFlat
  <2> QED
    BY <2>1, <2>2, <2>4, <2>5 DEF ss
<1>2. Dedup(<<c>>) = <<c>>
  <2> DEFINE xs == <<c>>
             Q == [k \in 0 .. 1 |-> IF k = 0 THEN {<<>>} ELSE {xs}]
  <2>1. Dedup(xs) = DedupLoop!Result(<<>>, xs, 0, 0)
    BY DEF Dedup, Seqs!FoldLeft, Seqs!MapThenFoldSet, Seqs!Max, DedupLoop!Result, DedupLoop!IsLoop, DedupLoop!Greatest, DedupRound
  <2>2. /\ <<>> \in Seq(T) /\ DOMAIN xs = 1 .. 1 /\ xs[1] = c /\ Append(<<>>, c) = xs
        /\ Len(<<>>) = 0
    OBVIOUS
  <2>3. DedupRound(0, 0, <<>>, c) = xs
    BY <2>2 DEF DedupRound, Seqs!Contains
  <2>4. ASSUME NEW k \in 1 .. 1, NEW s \in Seq(T), s \in Q[k - 1]
        PROVE  DedupRound(0, 0, s, xs[k]) \in Q[k]
    <3>1. k = 1 /\ k - 1 = 0 /\ 0 \in 0 .. 1 /\ 1 \in 0 .. 1
      OBVIOUS
    <3>2. s = <<>> /\ Q[k] = {xs}
      BY <2>4, <3>1
    <3> HIDE DEF xs, Q
    <3> QED
      BY <2>2, <2>3, <3>1, <3>2
  <2>5. <<>> \in Q[0] /\ Q[1] = {xs}
    OBVIOUS
  <2> HIDE DEF xs, Q
  <2>6. DedupLoop!Stays(Seq(T), <<>>, xs, 0, 0)
    <3>1. \A s \in Seq(T) : \A k \in DOMAIN xs : DedupRound(0, 0, s, xs[k]) \in Seq(T)
      BY <2>2 DEF DedupRound
    <3>2. \E n \in Nat : DOMAIN xs = 1 .. n
      BY <2>2
    <3> QED
      BY <2>2, <3>1, <3>2 DEF DedupLoop!Stays
  <2>7. DedupLoop!Result(<<>>, xs, 0, 0) \in Q[1]
    <3>1. 1 \in Nat /\ DOMAIN xs = 1 .. 1 /\ <<>> \in Q[0]
      BY <2>2, <2>5
    <3>2. \A k \in 1 .. 1 : \A s \in Seq(T) : s \in Q[k - 1] => DedupRound(0, 0, s, xs[k]) \in Q[k]
      BY <2>4
    <3> QED
      BY ONLY <2>6, <3>1, <3>2, DedupLoop!LoopReaches
  <2> QED
    BY <2>1, <2>5, <2>7 DEF xs
<1> QED
  BY <1>1, <1>2

(* What the segment buildPath writes for n says. *)
Place(h, n) ==
  LET ix == Index(h, n)
  IN  Seg(h.label[n], IF ix[2] > 1 THEN <<[kind |-> "pos", n |-> ix[1]]>> ELSE <<>>)

(* The step reported for a child leads from its parent to it alone. *)
LEMMA StepToChild ==
  ASSUME NEW h \in Heaps, Shaped(h), NEW T, ChildLinks(h, T), NEW m \in T, m \in Node, NEW c,
         Under(h, m, c), h.label[c] # "*"
  PROVE  StepRound(h, 0, <<m>>, Step("child", Place(h, c))) = <<c>>
<1> DEFINE s == Step("child", Place(h, c))
           same == Named(h, Children(h, m), h.label[c])
<1>1. h.parent[c] = m /\ c \in h.used
  BY UnderParent, UnderIs
<1>2. PICK spot \in 1 .. h.len[m] : Kid(h, m, spot) = c
  BY DEF Under
<1>3. \A i \in 1 .. h.len[m] : Kid(h, m, i) = c => i = spot
  BY <1>2 DEF ChildLinks
<1>4. /\ same \in Seq(h.used)
      /\ \E pos \in 1 .. Len(same) : same[pos] = c /\ Index(h, c) = <<pos, Len(same)>>
  BY <1>1, <1>2, <1>3, CountedIs
<1>5. s.axis = "child" /\ s.name = h.label[c]
      /\ s.preds = IF Index(h, c)[2] > 1 THEN <<[kind |-> "pos", n |-> Index(h, c)[1]]>> ELSE <<>>
  BY DEF Step, Place, Seg
<1>6. Candidates(h, m, s) = same
  BY <1>5 DEF Candidates
<1> HIDE DEF s, same
<1>7. PICK pos \in 1 .. Len(same) : same[pos] = c /\ Index(h, c) = <<pos, Len(same)>>
  BY <1>4
<1>8. s.preds = IF Len(same) > 1 THEN <<[kind |-> "pos", n |-> pos]>> ELSE <<>>
  BY <1>5, <1>7
<1>9. ApplyPreds(h, same, s.preds) = <<c>>
  <2>1. CASE Len(same) > 1
    <3>1. Satisfying(h, same, [kind |-> "pos", n |-> pos]) = <<same[pos]>>
      BY <1>4, PickedOut
    <3>2. ApplyPreds(h, same, <<[kind |-> "pos", n |-> pos]>>)
            = Satisfying(h, same, [kind |-> "pos", n |-> pos])
      BY <1>4, PredsPick
    <3> QED
      BY <1>7, <1>8, <2>1, <3>1, <3>2
  <2>2. CASE ~(Len(same) > 1)
    <3>1. Len(same) = 1 /\ pos = 1
      BY <1>4, <2>2
    <3>2. same = <<c>>
      BY <1>4, <1>7, <3>1
    <3> QED
      BY <1>4, <1>8, <2>2, <3>2, PredsPick
  <2> QED
    BY <2>1, <2>2
<1>10. [i \in DOMAIN <<m>> |-> ApplyPreds(h, Candidates(h, <<m>>[i], s), s.preds)] = <<<<c>>>>
  <2>1. DOMAIN <<m>> = 1 .. 1 /\ <<m>>[1] = m /\ <<<<c>>>> = [i \in 1 .. 1 |-> <<c>>]
    OBVIOUS
  <2>2. \A i \in 1 .. 1 : ApplyPreds(h, Candidates(h, <<m>>[i], s), s.preds) = <<c>>
    BY <1>6, <1>9, <2>1
  <2> QED
    BY <2>1, <2>2
<1>11. Seqs!FlattenSeq(<<<<c>>>>) = <<c>> /\ Dedup(<<c>>) = <<c>>
  BY <1>1, OneOf
<1> QED
  BY <1>10, <1>11 DEF StepRound, s

(* The segments of reported paths: a label, and a position where siblings    *)
(* share it.                                                                 *)
Nameable == (Label \cup {NoLabel}) \ {"", "*", ".", ".."}
Positions == {<<>>} \cup {<<[kind |-> "pos", n |-> i]>> : i \in Nat}
PlainSeg(seg) == seg.name \in Nameable /\ seg.preds \in Positions
PlainSegs == {Seg(name, preds) : name \in Nameable, preds \in Positions}

PlainSteps(segs) == [i \in 1 .. Len(segs) |-> Step("child", segs[i])]

LEMMA PlainIs ==
  ASSUME NEW seg, PlainSeg(seg)
  PROVE  /\ seg # EmptySeg /\ seg \notin {Self, Up} /\ ~Malformed(seg)
         /\ Step("child", seg).axis = "child" /\ \E n \in Nat : DOMAIN Step("child", seg).preds = 1 .. n
<1>2. PICK name \in Nameable, preds \in Positions : seg.name = name /\ seg.preds = preds
  BY DEF PlainSeg
<1>3. name \notin {"", "*", ".", ".."}
  BY DEF Nameable
<1>4. seg # EmptySeg /\ seg \notin {Self, Up}
  <2>1. EmptySeg.name = "" /\ Self.name = "." /\ Up.name = ".."
    BY DEF EmptySeg, Self, Up, Seg
  <2> QED
    BY <1>2, <1>3, <2>1
<1>5. preds = <<>> \/ \E i \in Nat : preds = <<[kind |-> "pos", n |-> i]>>
  BY DEF Positions
<1>6. ~Malformed(seg) /\ \E n \in Nat : DOMAIN preds = 1 .. n
  <2>1. CASE preds = <<>>
    <3>1. DOMAIN preds = 1 .. 0 /\ \A i \in DOMAIN preds : FALSE
      BY <2>1
    <3> QED
      BY <1>2, <1>3, <3>1 DEF Malformed
  <2>2. ASSUME NEW i \in Nat, preds = <<[kind |-> "pos", n |-> i]>>
        PROVE  ~Malformed(seg) /\ \E n \in Nat : DOMAIN preds = 1 .. n
    <3>1. DOMAIN preds = 1 .. 1 /\ \A k \in DOMAIN preds : preds[k].kind = "pos"
      BY <2>2
    <3> QED
      BY <1>2, <1>3, <3>1 DEF Malformed
  <2> QED
    BY <1>5, <2>1, <2>2
<1> QED
  BY <1>2, <1>4, <1>6 DEF Step

LEMMA PlainSegsAre == \A seg \in PlainSegs : PlainSeg(seg)
BY DEF PlainSegs, PlainSeg, Seg

LEMMA StepsAppended ==
  ASSUME NEW T, NEW segs \in Seq(T), NEW seg \in T
  PROVE  PlainSteps(Append(segs, seg)) = Append(PlainSteps(segs), Step("child", seg))
<1> DEFINE l == Len(segs)
           next == Append(segs, seg)
<1>1. l \in Nat /\ Len(next) = l + 1 /\ next[l + 1] = seg /\ \A i \in 1 .. l : next[i] = segs[i]
  OBVIOUS
<1> HIDE DEF l, next
<1>2. PlainSteps(next) = [i \in 1 .. (l + 1) |-> Step("child", next[i])]
  BY <1>1 DEF PlainSteps
<1>3. Append(PlainSteps(segs), Step("child", seg))
        = [i \in 1 .. (l + 1) |-> IF i = l + 1 THEN Step("child", seg) ELSE Step("child", segs[i])]
  <2> DEFINE steps == [i \in 1 .. l |-> Step("child", segs[i])]
             last == Step("child", seg)
             S == {Step("child", segs[i]) : i \in 1 .. l} \cup {last}
  <2>1. steps \in [1 .. l -> S]
    OBVIOUS
  <2>2. PlainSteps(segs) = steps /\ \A i \in 1 .. l : steps[i] = Step("child", segs[i])
    BY DEF PlainSteps, l
  <2> HIDE DEF steps, S, last
  <2>3. steps \in Seq(S) /\ Len(steps) = l
    BY <1>1, <2>1
  <2>4. Append(steps, last) = [i \in 1 .. (l + 1) |-> IF i = l + 1 THEN last ELSE steps[i]]
    <3>1. last \in S \cup {last} /\ steps \in Seq(S \cup {last})
      BY <2>3
    <3>2. Append(steps, last) \in Seq(S \cup {last}) /\ Len(Append(steps, last)) = l + 1
      BY <2>3, <3>1
    <3>3. \A i \in 1 .. (l + 1) : Append(steps, last)[i] = IF i = l + 1 THEN last ELSE steps[i]
      BY <1>1, <2>3, <3>1
    <3>4. \A r \in Seq(S \cup {last}) : r = [i \in 1 .. Len(r) |-> r[i]]
      OBVIOUS
    <3>5. Append(steps, last) = [i \in 1 .. (l + 1) |-> Append(steps, last)[i]]
      BY <3>2, <3>4
    <3> QED
      BY <3>3, <3>5
  <2>5. \A i \in 1 .. (l + 1) : i # l + 1 => i \in 1 .. l
    BY <1>1
  <2> QED
    BY <2>2, <2>4, <2>5 DEF last
<1>4. \A i \in 1 .. (l + 1) : Step("child", next[i]) = IF i = l + 1 THEN Step("child", seg) ELSE Step("child", segs[i])
  <2>1. \A i \in 1 .. (l + 1) : i # l + 1 => i \in 1 .. l
    BY <1>1
  <2> QED
    BY <1>1, <2>1
<1> QED
  BY <1>2, <1>3, <1>4 DEF next

(* Such segments parse to one step for each. *)
LEMMA PlainParsed ==
  ASSUME NEW T, \A seg \in T : PlainSeg(seg), NEW segs \in Seq(T)
  PROVE  ParseSteps(segs) = [ok |-> TRUE, descendant |-> FALSE, steps |-> PlainSteps(segs)]
<1> DEFINE l == Len(segs)
           C == {Step("child", seg) : seg \in T}
           S == [ok : {TRUE}, descendant : {FALSE}, steps : Seq(C)]
           start == [ok |-> TRUE, descendant |-> FALSE, steps |-> <<>>]
           upTo(k) == SubSeq(segs, 1, k)
           Q == [k \in 0 .. l |-> {[ok |-> TRUE, descendant |-> FALSE, steps |-> PlainSteps(upTo(k))]}]
<1>1. ParseSteps(segs) = ParseLoop!Result(start, segs, 0, 0)
  BY DEF ParseSteps, Seqs!FoldLeft, Seqs!MapThenFoldSet, Seqs!Max, ParseLoop!Result, ParseLoop!IsLoop,
         ParseLoop!Greatest, ParseRound
<1>2. l \in Nat /\ DOMAIN segs = 1 .. l /\ \A k \in 1 .. l : segs[k] \in T /\ PlainSeg(segs[k])
  OBVIOUS
<1>3. ASSUME NEW acc, acc.ok = TRUE, acc.descendant = FALSE, NEW k \in 1 .. l
      PROVE  ParseRound(0, 0, acc, segs[k])
               = [ok |-> TRUE, descendant |-> FALSE, steps |-> Append(acc.steps, Step("child", segs[k]))]
  <2>1. segs[k] # EmptySeg /\ segs[k] \notin {Self, Up} /\ ~Malformed(segs[k])
    BY <1>2, PlainIs
  <2> HIDE DEF l
  <2> QED
    BY <1>3, <2>1 DEF ParseRound
<1>4. ASSUME NEW acc \in S, NEW k \in 1 .. l
      PROVE  ParseRound(0, 0, acc, segs[k]) \in S
  <2>1. Step("child", segs[k]) \in C
    BY <1>2
  <2>2. acc.ok = TRUE /\ acc.descendant = FALSE
        /\ acc.steps \in Seq(C)
    OBVIOUS
  <2>3. Append(acc.steps, Step("child", segs[k])) \in Seq(C)
    BY <2>1, <2>2
  <2>4. ParseRound(0, 0, acc, segs[k])
          = [ok |-> TRUE, descendant |-> FALSE, steps |-> Append(acc.steps, Step("child", segs[k]))]
    <3> HIDE DEF S, l
    <3> QED
      BY <1>3, <2>2
  <2>5. \A steps \in Seq(C) : [ok |-> TRUE, descendant |-> FALSE, steps |-> steps] \in S
    <3> HIDE DEF C
    <3> QED
      OBVIOUS
  <2> HIDE DEF S, C
  <2> QED
    BY <2>3, <2>4, <2>5
<1>5. start \in S
  OBVIOUS
<1>6. start \in Q[0]
  <2>1. upTo(0) = <<>> /\ 0 \in 0 .. l
    BY <1>2
  <2>2. PlainSteps(<<>>) = <<>>
    <3>1. Len(<<>>) = 0 /\ 1 .. 0 = {}
      OBVIOUS
    <3>2. PlainSteps(<<>>) = [i \in {} |-> Step("child", <<>>[i])]
      BY <3>1 DEF PlainSteps
    <3> QED
      BY <3>2
  <2> QED
    BY <2>1, <2>2
<1>7. ASSUME NEW k \in 1 .. l, NEW s \in S, s \in Q[k - 1]
      PROVE  ParseRound(0, 0, s, segs[k]) \in Q[k]
  <2>1. k - 1 \in 0 .. l /\ k \in 0 .. l /\ segs[k] \in T /\ PlainSeg(segs[k])
    BY <1>2
  <2>2. s = [ok |-> TRUE, descendant |-> FALSE, steps |-> PlainSteps(upTo(k - 1))]
    BY <1>7, <2>1
  <2>3. ParseRound(0, 0, s, segs[k])
          = [ok |-> TRUE, descendant |-> FALSE, steps |-> Append(s.steps, Step("child", segs[k]))]
    <3> HIDE DEF l, S, Q
    <3> QED
      BY <1>3, <2>2
  <2>4. upTo(k - 1) \in Seq(T) /\ upTo(k) = Append(upTo(k - 1), segs[k])
    BY <1>2
  <2>5. PlainSteps(upTo(k)) = Append(s.steps, Step("child", segs[k]))
    <3> HIDE DEF upTo
    <3> QED
      BY <2>1, <2>2, <2>4, StepsAppended
  <2> QED
    BY <2>1, <2>3, <2>5
<1>8. ParseLoop!Stays(S, start, segs, 0, 0)
  <2> HIDE DEF S, start, l
  <2> QED
    BY <1>2, <1>4, <1>5 DEF ParseLoop!Stays
<1>9. ParseLoop!Result(start, segs, 0, 0) \in Q[l]
  <2> HIDE DEF S, start, l, Q
  <2> QED
    BY <1>2, <1>6, <1>7, <1>8, ParseLoop!LoopReaches
<1>10. upTo(l) = segs /\ l \in 0 .. l
  BY <1>2
<1> QED
  BY <1>1, <1>9, <1>10

(* One more segment is one more step from where the others led. *)
LEMMA EvalExtended ==
  ASSUME NEW h \in Heaps, Shaped(h), NEW segs \in Seq(PlainSegs), NEW seg \in PlainSegs
  PROVE  EvalSteps(h, <<Root>>, PlainSteps(Append(segs, seg)))
           = StepRound(h, 0, EvalSteps(h, <<Root>>, PlainSteps(segs)), Step("child", seg))
<1> DEFINE l == Len(segs)
           ys == Append(segs, seg)
<1>1. \A steps : EvalSteps(h, <<Root>>, steps) = StepLoop!Result(<<Root>>, steps, h, 0)
  BY DEF EvalSteps, Seqs!FoldLeft, Seqs!MapThenFoldSet, Seqs!Max, StepLoop!Result, StepLoop!IsLoop,
         StepLoop!Greatest, StepRound
<1>2. /\ l \in Nat /\ Len(ys) = l + 1 /\ ys[l + 1] = seg
      /\ \A k \in 1 .. l : ys[k] = segs[k] /\ k \in 1 .. (l + 1)
      /\ \A k \in 1 .. (l + 1) : ys[k] \in PlainSegs
      /\ l + 1 \in 1 .. (l + 1)
  OBVIOUS
<1> HIDE DEF l, ys
<1> DEFINE xsteps == PlainSteps(segs)
           ysteps == PlainSteps(ys)
<1>3. /\ DOMAIN xsteps = 1 .. l /\ DOMAIN ysteps = 1 .. (l + 1)
      /\ \A k \in 1 .. (l + 1) : ysteps[k] = Step("child", ys[k])
      /\ \A k \in 1 .. l : ysteps[k] = xsteps[k]
  BY <1>2 DEF PlainSteps, l
<1> HIDE DEF xsteps, ysteps
<1>4. ASSUME NEW c \in Seq(h.used), NEW k \in DOMAIN ysteps
      PROVE  StepRound(h, 0, c, ysteps[k]) \in Seq(h.used)
  <2>1. PlainSeg(ys[k]) /\ ysteps[k] = Step("child", ys[k])
    BY <1>2, <1>3, PlainSegsAre
  <2>2. PICK n \in Nat : DOMAIN ysteps[k].preds = 1 .. n
    BY <2>1, PlainIs
  <2>3. ysteps[k].axis \in Axes
    BY <2>1, PlainIs DEF Axes
  <2> QED
    BY <2>2, <2>3, StepRoundIs DEF Heaps
<1>5. StepLoop!Stays(Seq(h.used), <<Root>>, ysteps, h, 0)
  <2>1. <<Root>> \in Seq(h.used)
    BY OneIs DEF Shaped
  <2>2. l + 1 \in Nat
    BY <1>2
  <2> QED
    BY <1>3, <1>4, <2>1, <2>2 DEF StepLoop!Stays
<1>6. StepLoop!Result(<<Root>>, ysteps, h, 0) = StepRound(h, 0, StepLoop!Result(<<Root>>, xsteps, h, 0), ysteps[l + 1])
  <2>1. l \in Nat /\ DOMAIN xsteps = 1 .. l /\ DOMAIN ysteps = 1 .. (l + 1)
    BY <1>2, <1>3
  <2>2. \A k \in 1 .. l : ysteps[k] = xsteps[k]
    BY <1>3
  <2> QED
    BY ONLY <1>5, <2>1, <2>2, StepLoop!LoopExtends
<1> QED
  BY <1>1, <1>2, <1>3, <1>6 DEF ys, xsteps, ysteps

LEMMA EvalNothing ==
  ASSUME NEW h, Shaped(h)
  PROVE  EvalSteps(h, <<Root>>, <<>>) = <<Root>>
<1> DEFINE Q == [k \in {0} |-> {<<Root>>}]
<1>1. EvalSteps(h, <<Root>>, <<>>) = StepLoop!Result(<<Root>>, <<>>, h, 0)
  BY DEF EvalSteps, Seqs!FoldLeft, Seqs!MapThenFoldSet, Seqs!Max, StepLoop!Result, StepLoop!IsLoop,
         StepLoop!Greatest, StepRound
<1>2. DOMAIN <<>> = 1 .. 0 /\ 1 .. 0 = {} /\ 0 \in Nat
  OBVIOUS
<1>3. StepLoop!Stays({<<Root>>}, <<Root>>, <<>>, h, 0)
  BY <1>2 DEF StepLoop!Stays
<1>4. StepLoop!Result(<<Root>>, <<>>, h, 0) \in {<<Root>>}
  BY <1>3, StepLoop!LoopKeeps
<1> QED
  BY <1>1, <1>4

LEMMA RootParsed ==
  ParseSteps(<<EmptySeg>>).ok = TRUE /\ ParseSteps(<<EmptySeg>>).steps = <<>>
<1> DEFINE start == [ok |-> TRUE, descendant |-> FALSE, steps |-> <<>>]
           S == [ok : {TRUE}, descendant : BOOLEAN, steps : {<<>>}]
           segs == <<EmptySeg>>
<1>1. ParseSteps(segs) = ParseLoop!Result(start, segs, 0, 0)
  BY DEF ParseSteps, Seqs!FoldLeft, Seqs!MapThenFoldSet, Seqs!Max, ParseLoop!Result, ParseLoop!IsLoop,
         ParseLoop!Greatest, ParseRound
<1>2. DOMAIN segs = 1 .. 1 /\ segs[1] = EmptySeg /\ 1 \in Nat
  OBVIOUS
<1>3. ASSUME NEW acc \in S PROVE ParseRound(0, 0, acc, EmptySeg) \in S
  <2>1. acc.ok = TRUE
    OBVIOUS
  <2>2. [acc EXCEPT !.descendant = TRUE] \in S
    OBVIOUS
  <2> HIDE DEF S
  <2> QED
    BY <2>1, <2>2 DEF ParseRound
<1>4. \A acc \in S : acc.ok = TRUE /\ acc.steps = <<>>
  OBVIOUS
<1>5. start \in S
  OBVIOUS
<1> HIDE DEF S, start, segs
<1>6. ParseLoop!Stays(S, start, segs, 0, 0)
  <2>1. \A acc \in S : \A k \in DOMAIN segs : ParseRound(0, 0, acc, segs[k]) \in S
    BY <1>2, <1>3
  <2>2. \E n \in Nat : DOMAIN segs = 1 .. n
    BY <1>2
  <2> QED
    BY <1>5, <2>1, <2>2 DEF ParseLoop!Stays
<1> QED
  BY <1>1, <1>4, <1>6, ParseLoop!LoopKeeps DEF segs

-----------------------------------------------------------------------------
(* What a path without predicates matches, as a set: the order and the       *)
(* duplicates that the evaluator's loops deal with are gone.                 *)
Listed(s, x) == \E i \in DOMAIN s : s[i] = x

(* x is among the first k of s. *)
Among(s, k, x) == \E i \in 1 .. k : s[i] = x

LEMMA AmongIs ==
  ASSUME NEW T, NEW s \in Seq(T)
  PROVE  /\ \A x : Listed(s, x) <=> Among(s, Len(s), x)
         /\ \A x : ~Among(s, 0, x)
         /\ \A k \in 1 .. Len(s) : \A x : Among(s, k, x) <=> Among(s, k - 1, x) \/ s[k] = x
         /\ \A x : Listed(s, x) => x \in T
<1>1. Len(s) \in Nat /\ DOMAIN s = 1 .. Len(s) /\ \A i \in 1 .. Len(s) : s[i] \in T
  OBVIOUS
<1>2. \A k \in 1 .. Len(s) : \A i : i \in 1 .. k <=> i \in 1 .. (k - 1) \/ i = k
  BY <1>1
<1>3. 1 .. 0 = {}
  OBVIOUS
<1> QED
  BY <1>1, <1>2, <1>3 DEF Listed, Among

LEMMA AppendedListed ==
  ASSUME NEW T, NEW s \in Seq(T), NEW y \in T
  PROVE  Append(s, y) \in Seq(T) /\ \A x : Listed(Append(s, y), x) <=> Listed(s, x) \/ x = y
<1> DEFINE n == Len(s)
           t == Append(s, y)
<1>1. /\ n \in Nat /\ DOMAIN s = 1 .. n /\ t \in Seq(T) /\ DOMAIN t = 1 .. (n + 1)
      /\ t[n + 1] = y /\ \A i \in 1 .. n : t[i] = s[i]
  OBVIOUS
<1> HIDE DEF n, t
<1>2. \A i : i \in 1 .. (n + 1) <=> i \in 1 .. n \/ i = n + 1
  BY <1>1
<1> QED
  BY <1>1, <1>2 DEF Listed, t

LEMMA ConcatListed ==
  ASSUME NEW T, NEW s \in Seq(T), NEW t \in Seq(T)
  PROVE  s \o t \in Seq(T) /\ \A x : Listed(s \o t, x) <=> Listed(s, x) \/ Listed(t, x)
<1> DEFINE n == Len(s)
           m == Len(t)
           r == s \o t
<1>1. /\ n \in Nat /\ m \in Nat /\ DOMAIN s = 1 .. n /\ DOMAIN t = 1 .. m
      /\ r \in Seq(T) /\ DOMAIN r = 1 .. (n + m)
      /\ \A i \in 1 .. (n + m) : r[i] = IF i <= n THEN s[i] ELSE t[i - n]
  OBVIOUS
<1> HIDE DEF n, m, r
<1>2. /\ \A i \in 1 .. n : i \in 1 .. (n + m) /\ r[i] = s[i]
      /\ \A i \in 1 .. m : n + i \in 1 .. (n + m) /\ r[n + i] = t[i]
      /\ \A i \in 1 .. (n + m) : i \in 1 .. n \/ (i - n \in 1 .. m /\ r[i] = t[i - n])
  BY <1>1
<1> QED
  BY <1>1, <1>2 DEF Listed, r

LEMMA NamedListed ==
  ASSUME NEW h, NEW T, NEW nodes \in Seq(T), NEW name
  PROVE  \A x : Listed(Named(h, nodes, name), x) <=> Listed(nodes, x) /\ NameMatch(name, h.label[x])
<1> DEFINE l == Len(nodes)
           found(k, x) == Among(nodes, k, x) /\ NameMatch(name, h.label[x])
           Q == [k \in 0 .. l |-> {out \in Seq(T) : \A x : Listed(out, x) <=> found(k, x)}]
<1>1. Named(h, nodes, name) = NamedLoop!Result(<<>>, nodes, h, name)
  BY DEF Named, Seqs!FoldLeft, Seqs!MapThenFoldSet, Seqs!Max, NamedLoop!Result, NamedLoop!IsLoop, NamedLoop!Greatest, NamedRound
<1>2. /\ <<>> \in Seq(T) /\ l \in Nat /\ DOMAIN nodes = 1 .. l
      /\ \A k \in 1 .. l : nodes[k] \in T
  OBVIOUS
<1>3. NamedLoop!Stays(Seq(T), <<>>, nodes, h, name)
  <2>1. \A out \in Seq(T) : \A k \in DOMAIN nodes : NamedRound(h, name, out, nodes[k]) \in Seq(T)
    BY <1>2 DEF NamedRound
  <2>2. \E n \in Nat : DOMAIN nodes = 1 .. n
    BY <1>2
  <2> QED
    BY <1>2, <2>1, <2>2 DEF NamedLoop!Stays
<1>4. <<>> \in Q[0]
  <2>1. 0 \in 0 .. l /\ \A x : ~Listed(<<>>, x) /\ ~Among(nodes, 0, x)
    BY <1>2, AmongIs DEF Listed
  <2> HIDE DEF l
  <2> QED
    BY <1>2, <2>1
<1>5. ASSUME NEW k \in 1 .. l, NEW out \in Seq(T), out \in Q[k - 1]
      PROVE  NamedRound(h, name, out, nodes[k]) \in Q[k]
  <2>1. k - 1 \in 0 .. l /\ k \in 0 .. l /\ nodes[k] \in T
    BY <1>2
  <2>2. \A x : Listed(out, x) <=> found(k - 1, x)
    BY <1>5, <2>1
  <2>3. \A x : Among(nodes, k, x) <=> Among(nodes, k - 1, x) \/ nodes[k] = x
    BY AmongIs
  <2>4. Append(out, nodes[k]) \in Seq(T) /\ \A x : Listed(Append(out, nodes[k]), x) <=> Listed(out, x) \/ x = nodes[k]
    BY <2>1, AppendedListed
  <2>5. CASE NameMatch(name, h.label[nodes[k]])
    <3>1. \A x : Listed(Append(out, nodes[k]), x) <=> found(k, x)
      BY <2>2, <2>3, <2>4, <2>5
    <3> QED
      BY <2>1, <2>4, <2>5, <3>1 DEF NamedRound
  <2>6. CASE ~NameMatch(name, h.label[nodes[k]])
    <3>1. \A x : Listed(out, x) <=> found(k, x)
      BY <2>2, <2>3, <2>6
    <3> QED
      BY <2>1, <2>6, <3>1 DEF NamedRound
  <2> QED
    BY <2>5, <2>6
<1>6. NamedLoop!Result(<<>>, nodes, h, name) \in Q[l]
  <2> HIDE DEF Q, l
  <2> QED
    BY <1>2, <1>3, <1>4, <1>5, NamedLoop!LoopReaches
<1>7. \A x : Listed(nodes, x) <=> Among(nodes, l, x)
  BY AmongIs
<1>8. l \in 0 .. l
  BY <1>2
<1> QED
  BY <1>1, <1>6, <1>7, <1>8

LEMMA DedupListed ==
  ASSUME NEW T, NEW nodes \in Seq(T)
  PROVE  \A x : Listed(Dedup(nodes), x) <=> Listed(nodes, x)
<1> DEFINE l == Len(nodes)
           Q == [k \in 0 .. l |-> {out \in Seq(T) : \A x : Listed(out, x) <=> Among(nodes, k, x)}]
<1>1. Dedup(nodes) = DedupLoop!Result(<<>>, nodes, 0, 0)
  BY DEF Dedup, Seqs!FoldLeft, Seqs!MapThenFoldSet, Seqs!Max, DedupLoop!Result, DedupLoop!IsLoop, DedupLoop!Greatest, DedupRound
<1>2. /\ <<>> \in Seq(T) /\ l \in Nat /\ DOMAIN nodes = 1 .. l
      /\ \A k \in 1 .. l : nodes[k] \in T
  OBVIOUS
<1>3. DedupLoop!Stays(Seq(T), <<>>, nodes, 0, 0)
  <2>1. \A out \in Seq(T) : \A k \in DOMAIN nodes : DedupRound(0, 0, out, nodes[k]) \in Seq(T)
    BY <1>2 DEF DedupRound
  <2>2. \E n \in Nat : DOMAIN nodes = 1 .. n
    BY <1>2
  <2> QED
    BY <1>2, <2>1, <2>2 DEF DedupLoop!Stays
<1>4. <<>> \in Q[0]
  <2>1. 0 \in 0 .. l /\ \A x : ~Listed(<<>>, x) /\ ~Among(nodes, 0, x)
    BY <1>2, AmongIs DEF Listed
  <2> HIDE DEF l
  <2> QED
    BY <1>2, <2>1
<1>5. ASSUME NEW k \in 1 .. l, NEW out \in Seq(T), out \in Q[k - 1]
      PROVE  DedupRound(0, 0, out, nodes[k]) \in Q[k]
  <2>1. k - 1 \in 0 .. l /\ k \in 0 .. l /\ nodes[k] \in T
    BY <1>2
  <2>2. \A x : Listed(out, x) <=> Among(nodes, k - 1, x)
    BY <1>5, <2>1
  <2>3. \A x : Among(nodes, k, x) <=> Among(nodes, k - 1, x) \/ nodes[k] = x
    BY AmongIs
  <2>4. Append(out, nodes[k]) \in Seq(T) /\ \A x : Listed(Append(out, nodes[k]), x) <=> Listed(out, x) \/ x = nodes[k]
    BY <2>1, AppendedListed
  <2>5. Seqs!Contains(out, nodes[k]) <=> Listed(out, nodes[k])
    BY DEF Seqs!Contains, Listed
  <2>6. CASE ~Listed(out, nodes[k])
    <3>1. \A x : Listed(Append(out, nodes[k]), x) <=> Among(nodes, k, x)
      BY <2>2, <2>3, <2>4
    <3> QED
      BY <2>1, <2>4, <2>5, <2>6, <3>1 DEF DedupRound
  <2>7. CASE Listed(out, nodes[k])
    <3>1. \A x : Listed(out, x) <=> Among(nodes, k, x)
      BY <2>2, <2>3, <2>7
    <3> QED
      BY <2>1, <2>5, <2>7, <3>1 DEF DedupRound
  <2> QED
    BY <2>6, <2>7
<1>6. DedupLoop!Result(<<>>, nodes, 0, 0) \in Q[l]
  <2> HIDE DEF Q, l
  <2> QED
    BY <1>2, <1>3, <1>4, <1>5, DedupLoop!LoopReaches
<1>7. \A x : Listed(nodes, x) <=> Among(nodes, l, x)
  BY AmongIs
<1>8. l \in 0 .. l
  BY <1>2
<1> QED
  BY <1>1, <1>6, <1>7, <1>8

(* x is in one of the first k of the sequences ss.                          *)
AmongAll(ss, k, x) == \E i \in 1 .. k : Listed(ss[i], x)

LEMMA FlattenListed ==
  ASSUME NEW T, NEW ss \in Seq(Seq(T))
  PROVE  \A x : Listed(Seqs!FlattenSeq(ss), x) <=> \E i \in DOMAIN ss : Listed(ss[i], x)
<1> DEFINE n == Len(ss)
<1>1. n \in Nat /\ DOMAIN ss = 1 .. n /\ (\A k \in 1 .. n : ss[k] \in Seq(T)) /\ <<>> \in Seq(T)
  OBVIOUS
<1>2. CASE n = 0
  <2>1. ss = <<>> /\ 1 .. n = {}
    BY <1>2
  <2>2. \A x : ~Listed(<<>>, x)
    BY DEF Listed
  <2> QED
    BY <1>1, <2>1, <2>2 DEF Seqs!FlattenSeq
<1>3. CASE n # 0
  <2>1. PICK flat : Flattens(flat, ss)
    BY <1>3, FlattenSteps
  <2> HIDE DEF n
  <2>2. Seqs!FlattenSeq(ss) = flat[n] /\ \A k \in 1 .. n : flat[k] = IF k = 1 THEN ss[k] ELSE flat[k - 1] \o ss[k]
    BY <2>1 DEF Flattens, n
  <2> DEFINE joins(k) == flat[k] \in Seq(T) /\ \A x : Listed(flat[k], x) <=> AmongAll(ss, k, x)
             I == {k \in Nat : k \in 1 .. n => joins(k)}
  <2>3. I \in SUBSET Nat /\ 0 \in I
    OBVIOUS
  <2>4. ASSUME NEW k \in I PROVE k + 1 \in I
    <3> SUFFICES ASSUME k + 1 \in 1 .. n PROVE joins(k + 1)
      OBVIOUS
    <3>1. k \in Nat /\ ss[k + 1] \in Seq(T)
      BY <1>1
    <3>2. \A i : i \in 1 .. (k + 1) <=> i \in 1 .. k \/ i = k + 1
      BY <3>1
    <3>3. \A x : AmongAll(ss, k + 1, x) <=> AmongAll(ss, k, x) \/ Listed(ss[k + 1], x)
      BY <3>2 DEF AmongAll
    <3>4. CASE k = 0
      <4>1. flat[k + 1] = ss[k + 1]
        BY <2>2, <3>4
      <4>2. \A x : ~AmongAll(ss, k, x)
        BY <3>4 DEF AmongAll
      <4> HIDE DEF I
      <4> QED
        BY <3>1, <3>3, <4>1, <4>2
    <3>5. CASE k # 0
      <4>1. k \in 1 .. n /\ k + 1 # 1 /\ (k + 1) - 1 = k
        BY <1>1, <3>1, <3>5
      <4>2. joins(k)
        BY <4>1
      <4>3. flat[k + 1] = flat[k] \o ss[k + 1]
        BY <2>2, <4>1
      <4>4. /\ flat[k] \o ss[k + 1] \in Seq(T)
            /\ \A x : Listed(flat[k] \o ss[k + 1], x) <=> Listed(flat[k], x) \/ Listed(ss[k + 1], x)
        BY <3>1, <4>2, ConcatListed
      <4> HIDE DEF I
      <4> QED
        BY <3>3, <4>2, <4>3, <4>4
    <3> QED
      BY <3>4, <3>5
  <2>5. n \in I
    <3> HIDE DEF I
    <3> QED
      BY <1>1, <2>3, <2>4, BelowRounds!InductiveSet
  <2>6. n \in 1 .. n
    BY <1>1, <1>3
  <2> QED
    BY <1>1, <2>2, <2>5, <2>6 DEF AmongAll
<1> QED
  BY <1>2, <1>3

-----------------------------------------------------------------------------
(* The descendants of a node: the least set that holds its children and      *)
(* theirs.                                                                   *)
Least(h, m, D) ==
  /\ D \in SUBSET h.used /\ (\A x : Under(h, m, x) => x \in D) /\ Closed(h, D)
  /\ \A T \in SUBSET h.used : (\A x : Under(h, m, x) => x \in T) /\ Closed(h, T) => D \subseteq T

LEMMA DescendsOnce ==
  ASSUME NEW h \in Heaps, Shaped(h), NEW D \in [Node -> Seq(h.used)], NEW k
  PROVE  /\ DescendantsRound(h, 0, D, k) \in [Node -> Seq(h.used)]
         /\ \A m \in Node : \A x : Listed(DescendantsRound(h, 0, D, k)[m], x)
              <=> \E c \in h.used : Under(h, m, c) /\ (x = c \/ Listed(D[c], x))
<1>1. h.used \in SUBSET Node
  BY DEF Heaps, Heap
<1> DEFINE Of(m) == [i \in 1 .. h.len[m] |-> LET c == Children(h, m)[i] IN <<c>> \o D[c]]
           E == DescendantsRound(h, 0, D, k)
<1>2. ASSUME NEW m \in Node
      PROVE  /\ Seqs!FlattenSeq(Of(m)) \in Seq(h.used)
             /\ \A x : Listed(Seqs!FlattenSeq(Of(m)), x)
                         <=> \E c \in h.used : Under(h, m, c) /\ (x = c \/ Listed(D[c], x))
  <2> DEFINE ss == Of(m)
             l == h.len[m]
  <2>1. l \in Nat /\ DOMAIN ss = 1 .. l /\ ss = [i \in 1 .. l |-> ss[i]]
    BY DEF Heaps, Heap
  <2>2. \A i \in 1 .. l : Children(h, m)[i] = Kid(h, m, i) /\ Kid(h, m, i) \in h.used
    BY ChildrenAre DEF Heaps, Shaped
  <2>3. ASSUME NEW i \in 1 .. l
        PROVE  /\ ss[i] \in Seq(h.used)
               /\ \A x : Listed(ss[i], x) <=> x = Kid(h, m, i) \/ Listed(D[Kid(h, m, i)], x)
    <3> DEFINE c == Kid(h, m, i)
    <3>1. ss[i] = <<c>> \o D[c]
      BY <2>2
    <3>2. c \in h.used /\ D[c] \in Seq(h.used)
      BY <1>1, <2>2
    <3> HIDE DEF c, ss
    <3>3. <<c>> \in Seq(h.used) /\ \A x : Listed(<<c>>, x) <=> x = c
      <4>1. DOMAIN <<c>> = {1} /\ <<c>>[1] = c
        OBVIOUS
      <4>2. \A x : Listed(<<c>>, x) <=> x = c
        BY <4>1 DEF Listed
      <4> QED
        BY <3>2, <4>2, OneIs
    <3>4. /\ <<c>> \o D[c] \in Seq(h.used)
          /\ \A x : Listed(<<c>> \o D[c], x) <=> Listed(<<c>>, x) \/ Listed(D[c], x)
      BY <3>2, <3>3, ConcatListed
    <3> QED
      BY <3>1, <3>3, <3>4 DEF c
  <2> HIDE DEF ss
  <2>4. ss \in Seq(Seq(h.used))
    <3>1. Lists(ss, l, Seq(h.used))
      BY <2>1, <2>3 DEF Lists
    <3> QED
      BY <2>1, <3>1, SequenceIs
  <2>5. Seqs!FlattenSeq(ss) \in Seq(h.used)
    BY <2>4, FlattenIs
  <2>6. \A x : Listed(Seqs!FlattenSeq(ss), x) <=> \E i \in 1 .. l : Listed(ss[i], x)
    BY <2>1, <2>4, FlattenListed
  <2>7. \A x : (\E i \in 1 .. l : Listed(ss[i], x))
                 <=> \E c \in h.used : Under(h, m, c) /\ (x = c \/ Listed(D[c], x))
    BY <2>2, <2>3 DEF Under
  <2> HIDE DEF l
  <2> QED
    BY <2>5, <2>6, <2>7 DEF ss
<1>3. E = [m \in Node |-> Seqs!FlattenSeq(Of(m))]
  BY DEF DescendantsRound
<1> HIDE DEF Of, E
<1> QED
  BY <1>2, <1>3 DEF E

(* Going down from the children is going on from the descendants.            *)
Deepens(h, N, T) ==
  /\ T \in [0 .. N -> [Node -> SUBSET h.used]]
  /\ \A m \in Node : T[0][m] = {}
  /\ \A k \in 0 .. N : k + 1 <= N => \A m \in Node : \A x :
       x \in T[k + 1][m] <=> \E c \in h.used : Under(h, m, c) /\ (x = c \/ x \in T[k][c])

LEMMA DeepensOn ==
  ASSUME NEW h \in Heaps, Shaped(h), NEW N \in Nat, NEW T, Deepens(h, N, T)
  PROVE  \A k \in 0 .. N : k + 1 <= N => \A m \in Node : \A x :
           /\ x \in T[k] [m] => x \in T[k + 1][m]
           /\ x \in T[k + 1][m] <=> Under(h, m, x) \/ \E y \in T[k][m] : Under(h, y, x)
<1> DEFINE goes(k) == \A m \in Node : \A x :
             /\ x \in T[k] [m] => x \in T[k + 1][m]
             /\ x \in T[k + 1][m] <=> Under(h, m, x) \/ \E y \in T[k][m] : Under(h, y, x)
           I == {k \in Nat : k + 1 <= N => goes(k)}
<1>1. h.used \subseteq Node /\ \A m \in Node : \A x : Under(h, m, x) => x \in h.used
  BY UnderIs DEF Heaps, Heap
<1>2. 0 \in I
  <2> SUFFICES ASSUME 0 + 1 <= N PROVE goes(0)
    OBVIOUS
  <2>1. \A m \in Node : T[0][m] = {}
    BY DEF Deepens
  <2>2. 0 \in 0 .. N
    OBVIOUS
  <2>3. \A m \in Node : \A x : x \in T[0 + 1][m] <=> \E c \in h.used : Under(h, m, c) /\ (x = c \/ x \in T[0][c])
    BY <2>2 DEF Deepens
  <2> QED
    BY <1>1, <2>1, <2>3
<1>3. ASSUME NEW k \in I PROVE k + 1 \in I
  <2> SUFFICES ASSUME (k + 1) + 1 <= N PROVE goes(k + 1)
    OBVIOUS
  <2>1. k \in 0 .. N /\ k + 1 <= N /\ k + 1 \in 0 .. N
    OBVIOUS
  <2>2. goes(k)
    BY <2>1
  <2>3. \A m \in Node : \A x : x \in T[k + 1][m] <=> \E c \in h.used : Under(h, m, c) /\ (x = c \/ x \in T[k][c])
    BY <2>1 DEF Deepens
  <2>4. \A m \in Node : \A x : x \in T[(k + 1) + 1][m] <=> \E c \in h.used : Under(h, m, c) /\ (x = c \/ x \in T[k + 1][c])
    BY <2>1 DEF Deepens
  <2>5. ASSUME NEW m \in Node, NEW x
        PROVE  x \in T[k + 1][m] => x \in T[(k + 1) + 1][m]
    BY <1>1, <2>2, <2>3, <2>4
  <2>6. ASSUME NEW m \in Node, NEW x, x \in T[(k + 1) + 1][m]
        PROVE  Under(h, m, x) \/ \E y \in T[k + 1][m] : Under(h, y, x)
    <3>1. PICK c \in h.used : Under(h, m, c) /\ (x = c \/ x \in T[k + 1][c])
      BY <2>4, <2>6
    <3>2. CASE x \in T[k + 1][c]
      <4>1. Under(h, c, x) \/ \E y \in T[k][c] : Under(h, y, x)
        BY <1>1, <2>2, <3>2
      <4>2. c \in T[k + 1][m] /\ \A y \in T[k][c] : y \in T[k + 1][m]
        BY <2>3, <3>1
      <4> QED
        BY <4>1, <4>2
    <3> QED
      BY <3>1, <3>2
  <2>7. ASSUME NEW m \in Node, NEW x, Under(h, m, x) \/ \E y \in T[k + 1][m] : Under(h, y, x)
        PROVE  x \in T[(k + 1) + 1][m]
    <3>1. CASE Under(h, m, x)
      BY <1>1, <2>4, <3>1
    <3>2. CASE \E y \in T[k + 1][m] : Under(h, y, x)
      <4>1. PICK y \in T[k + 1][m] : Under(h, y, x)
        BY <3>2
      <4>2. PICK c \in h.used : Under(h, m, c) /\ (y = c \/ y \in T[k][c])
        BY <2>3, <4>1
      <4>3. x \in T[k + 1][c]
        BY <1>1, <2>2, <4>1, <4>2
      <4> QED
        BY <2>4, <4>2, <4>3
    <3> QED
      BY <2>7, <3>1, <3>2
  <2> HIDE DEF I
  <2> QED
    BY <2>5, <2>6, <2>7
<1>4. I = Nat
  <2>1. I \in SUBSET Nat
    OBVIOUS
  <2> HIDE DEF I
  <2> QED
    BY <1>2, <1>3, <2>1, BelowRounds!InductiveSet
<1>5. ASSUME NEW k \in 0 .. N, k + 1 <= N PROVE goes(k)
  <2>1. k \in I
    <3> HIDE DEF I
    <3> QED
      BY <1>4
  <2> QED
    BY <1>5, <2>1
<1> HIDE DEF I
<1> QED
  BY <1>5

UnderRound(h, m, T, k) == T \cup {x \in h.used : Under(h, m, x) \/ \E y \in T : Under(h, y, x)}
UnderRounds == INSTANCE Loops WITH Body <- UnderRound

(* As many rounds as there are nodes are enough.                             *)
LEMMA DeepensToLeast ==
  ASSUME NEW h \in Heaps, Shaped(h), NEW T, Deepens(h, Cardinality(Node), T), NEW m \in Node
  PROVE  Least(h, m, T[Cardinality(h.used)][m])
<1> DEFINE N == Cardinality(Node)
           u == Cardinality(h.used)
           R == UnderRounds!Rounds({}, N, h, m)
<1>1. /\ h.used \in SUBSET Node /\ u \in 0 .. N /\ N \in Nat
      /\ UnderRounds!Measured(h.used, u)
  BY UsedMeasured DEF Heaps, Heap, UnderRounds!Measured, BelowRounds!Measured
<1>2. \A k \in Node : \A x : Under(h, k, x) => x \in h.used /\ k \in h.used
  BY UnderIs
<1> HIDE DEF N, u
<1>3. UnderRounds!StaysInRounds(SUBSET h.used, N, h, m)
  BY DEF UnderRounds!StaysInRounds, UnderRound
<1>4. R \in [0 .. N -> SUBSET h.used] /\ UnderRounds!IsRounds(R, {}, N, h, m)
  <2>1. {} \in SUBSET h.used
    OBVIOUS
  <2> QED
    BY <1>1, <1>3, <2>1, UnderRounds!RoundsStay
<1>5. R[0] = {} /\ \A k \in 0 .. N : k + 1 <= N => R[k + 1] = UnderRound(h, m, R[k], k + 1)
  <2> HIDE DEF R
  <2>1. \A k \in 0 .. N : k + 1 <= N => k + 1 \in 0 .. N /\ k + 1 # 0 /\ (k + 1) - 1 = k
    BY <1>1
  <2>2. 0 \in 0 .. N
    BY <1>1
  <2> QED
    BY <1>4, <2>1, <2>2 DEF UnderRounds!IsRounds
<1> HIDE DEF R
<1>6. \A k \in 0 .. N : k + 1 <= N => \A x :
        /\ x \in T[k][m] => x \in T[k + 1][m]
        /\ x \in T[k + 1][m] <=> Under(h, m, x) \/ \E y \in T[k][m] : Under(h, y, x)
  BY <1>1, DeepensOn DEF N
<1>7. T[0][m] = {} /\ \A k \in 0 .. N : T[k][m] \in SUBSET h.used
  BY <1>1 DEF Deepens, N
<1> DEFINE I == {k \in Nat : k <= N => R[k] = T[k][m]}
<1>8. 0 \in I
  BY <1>1, <1>5, <1>7
<1>9. ASSUME NEW k \in I PROVE k + 1 \in I
  <2> SUFFICES ASSUME k + 1 <= N PROVE R[k + 1] = T[k + 1][m]
    OBVIOUS
  <2>1. k \in 0 .. N /\ k + 1 \in 0 .. N /\ R[k] = T[k][m]
    BY <1>1
  <2>2. R[k + 1] = UnderRound(h, m, T[k][m], k + 1)
    BY <1>5, <2>1
  <2>3. \A x : x \in T[k + 1][m] <=> x \in UnderRound(h, m, T[k][m], k + 1)
    BY <1>6, <1>7, <2>1 DEF UnderRound
  <2>4. T[k + 1][m] = UnderRound(h, m, T[k][m], k + 1)
    BY <2>3
  <2> QED
    BY <2>2, <2>4
<1>10. R[u] = T[u][m]
  <2>1. I \in SUBSET Nat
    OBVIOUS
  <2> HIDE DEF I
  <2>2. I = Nat
    BY <1>8, <1>9, <2>1, BelowRounds!InductiveSet
  <2>3. u \in I
    BY <1>1, <2>2
  <2> QED
    BY <1>1, <2>3 DEF I
<1>11. UnderRounds!Grows(h.used, {}, N, h, m)
  BY DEF UnderRounds!Grows, UnderRound
<1>12. UnderRounds!Settled(T[u][m], h.used, {}, h, m)
  BY <1>1, <1>10, <1>11, UnderRounds!RoundsSettle DEF R
<1>13. T[u][m] \in SUBSET h.used /\ \A x \in h.used : Under(h, m, x) \/ (\E y \in T[u][m] : Under(h, y, x)) => x \in T[u][m]
  BY <1>12 DEF UnderRounds!Settled, UnderRound
<1>14. Closed(h, T[u][m]) /\ \A x : Under(h, m, x) => x \in T[u][m]
  BY <1>1, <1>2, <1>13 DEF Closed, Under
<1>15. ASSUME NEW S \in SUBSET h.used, \A x : Under(h, m, x) => x \in S, Closed(h, S)
       PROVE  T[u][m] \subseteq S
  <2>1. UnderRounds!Keeps(S, {}, N, h, m)
    BY <1>15 DEF UnderRounds!Keeps, UnderRound, Closed, Under
  <2>2. UnderRounds!Within(T[u][m], S)
    BY <1>1, <1>10, <2>1, UnderRounds!RoundsWithin DEF R
  <2> QED
    BY <2>2 DEF UnderRounds!Within
<1> QED
  BY <1>13, <1>14, <1>15 DEF Least, u

(* What "//" finds below a node, whatever the order.                         *)
DescendantsOf(h, n) == {x \in h.used : Listed(Descendants(h, n), x)}

LEMMA DescendantsListed ==
  ASSUME NEW h \in Heaps, Shaped(h), NEW n \in Node
  PROVE  Least(h, n, DescendantsOf(h, n))
<1> DEFINE N == Cardinality(Node)
           u == Cardinality(h.used)
           none == [m \in Node |-> <<>>]
           R == DescendantsRounds!Rounds(none, N, h, 0)
           T == [k \in 0 .. N |-> [m \in Node |-> {x \in h.used : Listed(R[k][m], x)}]]
<1>1. Descendants(h, n) = R[u][n]
  BY DEF Descendants, DescendantsRounds!Rounds, DescendantsRounds!IsRounds, DescendantsRound
<1>2. u \in 0 .. N /\ N \in Nat
  BY UsedMeasured DEF Heaps, Heap
<1>3. none \in [Node -> Seq(h.used)] /\ \A m \in Node : none[m] = <<>>
  OBVIOUS
<1> HIDE DEF N, u, none
<1>4. DescendantsRounds!StaysInRounds([Node -> Seq(h.used)], N, h, 0)
  BY DescendsOnce DEF DescendantsRounds!StaysInRounds
<1>5. R \in [0 .. N -> [Node -> Seq(h.used)]] /\ DescendantsRounds!IsRounds(R, none, N, h, 0)
  BY <1>2, <1>3, <1>4, DescendantsRounds!RoundsStay
<1> HIDE DEF R
<1>6. R[0] = none /\ \A k \in 0 .. N : k + 1 <= N => R[k + 1] = DescendantsRound(h, 0, R[k], k + 1)
  <2>1. \A k \in 0 .. N : k + 1 <= N => k + 1 \in 0 .. N /\ k + 1 # 0 /\ (k + 1) - 1 = k
    BY <1>2
  <2>2. 0 \in 0 .. N
    BY <1>2
  <2> QED
    BY <1>5, <2>1, <2>2 DEF DescendantsRounds!IsRounds
<1>7. T \in [0 .. N -> [Node -> SUBSET h.used]]
  OBVIOUS
<1>8. \A k \in 0 .. N : \A m \in Node : \A x : x \in T[k][m] <=> Listed(R[k][m], x)
  <2> SUFFICES ASSUME NEW k \in 0 .. N, NEW m \in Node, NEW x PROVE x \in T[k][m] <=> Listed(R[k][m], x)
    OBVIOUS
  <2>1. R[k][m] \in Seq(h.used)
    BY <1>5
  <2>2. Listed(R[k][m], x) => x \in h.used
    BY <2>1, AmongIs
  <2> QED
    BY <2>2
<1> HIDE DEF T
<1>9. Deepens(h, N, T)
  <2>1. \A m \in Node : T[0][m] = {}
    <3>1. 0 \in 0 .. N /\ \A x : ~Listed(<<>>, x)
      BY <1>2 DEF Listed
    <3> QED
      BY <1>3, <1>6, <1>8, <3>1
  <2>2. ASSUME NEW k \in 0 .. N, k + 1 <= N, NEW m \in Node, NEW x
        PROVE  x \in T[k + 1][m] <=> \E c \in h.used : Under(h, m, c) /\ (x = c \/ x \in T[k][c])
    <3>1. k + 1 \in 0 .. N /\ R[k] \in [Node -> Seq(h.used)] /\ R[k + 1] = DescendantsRound(h, 0, R[k], k + 1)
      BY <1>2, <1>5, <1>6, <2>2
    <3>2. x \in T[k + 1][m] <=> Listed(R[k + 1][m], x)
      BY <1>8, <3>1
    <3>3. Listed(R[k + 1][m], x) <=> \E c \in h.used : Under(h, m, c) /\ (x = c \/ Listed(R[k][c], x))
      BY <3>1, DescendsOnce
    <3>4. \A c \in h.used : c \in Node
      BY DEF Heaps, Heap
    <3> QED
      BY <1>8, <3>2, <3>3, <3>4
  <2> QED
    BY <1>7, <2>1, <2>2 DEF Deepens
<1>10. Least(h, n, T[u][n])
  BY <1>9, DeepensToLeast DEF N, u
<1>11. T[u][n] = DescendantsOf(h, n)
  <2>1. \A x : x \in T[u][n] <=> Listed(R[u][n], x)
    BY <1>2, <1>8
  <2>2. T[u][n] \subseteq h.used
    BY <1>2, <1>7
  <2> QED
    BY <1>1, <2>1, <2>2 DEF DescendantsOf
<1> QED
  BY <1>10, <1>11

-----------------------------------------------------------------------------
(* What a step finds from y.                                                 *)
Finds(h, y, s, x) ==
  \/ s.axis = "self" /\ x = y
  \/ s.axis = "parent" /\ h.parent[y] # Nil /\ x = h.parent[y]
  \/ s.axis = "descendant" /\ x \in DescendantsOf(h, y) /\ NameMatch(s.name, h.label[x])
  \/ s.axis = "child" /\ Under(h, y, x) /\ NameMatch(s.name, h.label[x])

LEMMA CandidatesListed ==
  ASSUME NEW h \in Heaps, Shaped(h), NEW y \in h.used, NEW s, s.axis \in Axes, NEW x
  PROVE  Listed(Candidates(h, y, s), x) <=> Finds(h, y, s, x)
<1>1. y \in Node /\ h.parent[y] \in h.used \cup {Nil}
  BY DEF Heaps, Heap, Shaped
<1>2. \A z : DOMAIN <<z>> = {1} /\ <<z>>[1] = z
  OBVIOUS
<1>3. \A z : Listed(<<z>>, x) <=> x = z
  BY <1>2 DEF Listed
<1>4. ~Listed(<<>>, x)
  BY DEF Listed
<1>5. CASE s.axis = "self"
  BY <1>3, <1>5 DEF Candidates, Finds
<1>6. CASE s.axis = "parent"
  <2>1. Candidates(h, y, s) = IF h.parent[y] = Nil THEN <<>> ELSE <<h.parent[y]>>
    BY <1>6 DEF Candidates
  <2> QED
    BY <1>3, <1>4, <1>6, <2>1 DEF Finds
<1>7. CASE s.axis = "descendant"
  <2>1. Descendants(h, y) \in Seq(h.used)
    BY <1>1, DescendantsIs DEF Heaps
  <2>2. Listed(Descendants(h, y), x) <=> x \in DescendantsOf(h, y)
    BY <2>1, AmongIs DEF DescendantsOf
  <2>3. Candidates(h, y, s) = Named(h, Descendants(h, y), s.name)
    BY <1>7 DEF Candidates
  <2> QED
    BY <1>7, <2>1, <2>2, <2>3, NamedListed DEF Finds
<1>8. CASE s.axis = "child"
  <2>1. Children(h, y) \in Seq(h.used) /\ (Listed(Children(h, y), x) <=> Under(h, y, x))
    <3>1. /\ Children(h, y) \in Seq(h.used) /\ DOMAIN Children(h, y) = 1 .. h.len[y]
          /\ \A i \in 1 .. h.len[y] : Children(h, y)[i] = Kid(h, y, i)
      BY <1>1, ChildrenAre DEF Heaps
    <3> QED
      BY <3>1 DEF Listed, Under
  <2>2. Candidates(h, y, s) = Named(h, Children(h, y), s.name)
    BY <1>8 DEF Candidates
  <2> QED
    BY <1>8, <2>1, <2>2, NamedListed DEF Finds
<1> QED
  BY <1>5, <1>6, <1>7, <1>8 DEF Axes

(* The steps of a path without predicates. *)
Plain(s) == s.axis \in Axes /\ s.preds = <<>>

LEMMA StepListed ==
  ASSUME NEW h \in Heaps, Shaped(h), NEW c \in Seq(h.used), NEW s, Plain(s)
  PROVE  /\ StepRound(h, 0, c, s) \in Seq(h.used)
         /\ \A x : Listed(StepRound(h, 0, c, s), x) <=> \E y \in h.used : Listed(c, y) /\ Finds(h, y, s, x)
<1> DEFINE ss == [i \in DOMAIN c |-> ApplyPreds(h, Candidates(h, c[i], s), s.preds)]
<1>0. s.axis \in Axes /\ s.preds = <<>>
  BY DEF Plain
<1>1. \A i \in DOMAIN c : c[i] \in h.used
  OBVIOUS
<1>2. ASSUME NEW i \in DOMAIN c
      PROVE  ss[i] \in Seq(h.used) /\ \A x : Listed(ss[i], x) <=> Finds(h, c[i], s, x)
  <2>1. Candidates(h, c[i], s) \in Seq(h.used)
    BY <1>0, <1>1, CandidatesIs DEF Heaps
  <2>2. ss[i] = Candidates(h, c[i], s)
    BY <1>0, <2>1, PredsPick
  <2> QED
    BY <1>0, <1>1, <2>1, <2>2, CandidatesListed
<1>3. ss \in Seq(Seq(h.used)) /\ DOMAIN ss = DOMAIN c
  <2>1. ss = [i \in DOMAIN c |-> ss[i]] /\ Len(c) \in Nat /\ DOMAIN c = 1 .. Len(c) /\ DOMAIN ss = DOMAIN c
    OBVIOUS
  <2> HIDE DEF ss
  <2>2. Lists(ss, Len(c), Seq(h.used))
    BY <1>2, <2>1 DEF Lists
  <2> QED
    BY <2>1, <2>2, SequenceIs
<1> HIDE DEF ss
<1>4. Seqs!FlattenSeq(ss) \in Seq(h.used) /\ \A x : Listed(Seqs!FlattenSeq(ss), x) <=> \E i \in DOMAIN c : Listed(ss[i], x)
  BY <1>3, FlattenIs, FlattenListed
<1>5. /\ Dedup(Seqs!FlattenSeq(ss)) \in Seq(h.used)
      /\ \A x : Listed(Dedup(Seqs!FlattenSeq(ss)), x) <=> Listed(Seqs!FlattenSeq(ss), x)
  BY <1>4, DedupIs, DedupListed
<1>6. StepRound(h, 0, c, s) = Dedup(Seqs!FlattenSeq(ss))
  BY DEF StepRound, ss
<1>7. \A x : (\E i \in DOMAIN c : Listed(ss[i], x)) <=> \E y \in h.used : Listed(c, y) /\ Finds(h, y, s, x)
  BY <1>1, <1>2 DEF Listed
<1> QED
  BY <1>4, <1>5, <1>6, <1>7

-----------------------------------------------------------------------------
(* f has all that g has among the nodes K, which g does not lead out of.     *)
Holds(K, g, f) ==
  /\ K \subseteq g.used /\ K \subseteq f.used
  /\ \A n \in K : /\ f.label[n] = g.label[n] /\ f.parent[n] = g.parent[n]
                  /\ g.parent[n] # Nil => g.parent[n] \in K
                  /\ \A x : Under(g, n, x) => x \in K /\ Under(f, n, x)

LEMMA FindsOn ==
  ASSUME NEW g \in Heaps, Shaped(g), NEW f \in Heaps, Shaped(f), NEW K, Holds(K, g, f),
         NEW y \in K, NEW s, NEW x, Finds(g, y, s, x)
  PROVE  x \in K /\ Finds(f, y, s, x)
<1>1. y \in Node /\ K \subseteq g.used /\ K \subseteq f.used
  BY DEF Holds, Heaps, Heap
<1>2. DescendantsOf(g, y) \subseteq DescendantsOf(f, y) \cap K
  <2> DEFINE T == DescendantsOf(f, y) \cap K
  <2>1. Least(g, y, DescendantsOf(g, y)) /\ Least(f, y, DescendantsOf(f, y))
    BY <1>1, DescendantsListed
  <2> HIDE DEF DescendantsOf
  <2>2. T \in SUBSET g.used
    BY <1>1
  <2>3. \A z : Under(g, y, z) => z \in T
    BY <2>1 DEF Holds, Least
  <2>4. \A m \in DescendantsOf(f, y) : \A z : Under(f, m, z) => z \in DescendantsOf(f, y)
    BY <2>1, ClosedIs DEF Least
  <2>5. \A m \in T : \A z : Under(g, m, z) => z \in T
    BY <2>4 DEF Holds
  <2>6. Closed(g, T)
    BY <2>5, ClosedIs
  <2> QED
    BY <2>1, <2>2, <2>3, <2>6 DEF Least
<1>3. \A z \in K : f.label[z] = g.label[z]
  BY DEF Holds
<1> HIDE DEF DescendantsOf
<1>4. CASE s.axis = "descendant" /\ x \in DescendantsOf(g, y) /\ NameMatch(s.name, g.label[x])
  BY <1>2, <1>3, <1>4 DEF Finds
<1>5. CASE s.axis = "child" /\ Under(g, y, x) /\ NameMatch(s.name, g.label[x])
  BY <1>3, <1>5 DEF Finds, Holds
<1>6. CASE s.axis = "parent" /\ g.parent[y] # Nil /\ x = g.parent[y]
  BY <1>6 DEF Finds, Holds
<1>7. CASE s.axis = "self" /\ x = y
  BY <1>7 DEF Finds
<1> QED
  BY <1>4, <1>5, <1>6, <1>7 DEF Finds

(* The steps of an evaluation without predicates.                            *)
LEMMA EvalTrace ==
  ASSUME NEW h \in Heaps, Shaped(h), NEW ctx \in Seq(h.used), NEW steps, NEW n \in Nat, DOMAIN steps = 1 .. n,
         \A k \in 1 .. n : Plain(steps[k])
  PROVE  \E v : StepLoop!IsTrace(v, Seq(h.used), ctx, steps, n, h, 0) /\ EvalSteps(h, ctx, steps) = v[n]
<1>1. EvalSteps(h, ctx, steps) = StepLoop!Result(ctx, steps, h, 0)
  BY DEF EvalSteps, Seqs!FoldLeft, Seqs!MapThenFoldSet, Seqs!Max, StepLoop!Result, StepLoop!IsLoop,
         StepLoop!Greatest, StepRound
<1>2. StepLoop!Stays(Seq(h.used), ctx, steps, h, 0)
  BY StepListed DEF StepLoop!Stays
<1>3. PICK v : StepLoop!IsTrace(v, Seq(h.used), ctx, steps, n, h, 0)
  BY <1>2, StepLoop!LoopTrace
<1>4. EvalSteps(h, ctx, steps) = v[n]
  BY <1>1, <1>3 DEF StepLoop!IsTrace
<1> QED
  BY <1>3, <1>4

(* What a path without predicates matches in g, it matches in f.             *)
LEMMA EvalOn ==
  ASSUME NEW g \in Heaps, Shaped(g), NEW f \in Heaps, Shaped(f), NEW K, Holds(K, g, f),
         NEW b \in K, NEW steps, NEW n \in Nat, DOMAIN steps = 1 .. n, \A k \in 1 .. n : Plain(steps[k]),
         NEW x, Listed(EvalSteps(g, <<b>>, steps), x)
  PROVE  x \in K /\ Listed(EvalSteps(f, <<b>>, steps), x)
<1>1. b \in g.used /\ b \in f.used /\ <<b>> \in Seq(g.used) /\ <<b>> \in Seq(f.used)
  BY OneIs DEF Holds
<1>2. PICK v : StepLoop!IsTrace(v, Seq(g.used), <<b>>, steps, n, g, 0) /\ EvalSteps(g, <<b>>, steps) = v[n]
  BY <1>1, EvalTrace
<1>3. PICK w : StepLoop!IsTrace(w, Seq(f.used), <<b>>, steps, n, f, 0) /\ EvalSteps(f, <<b>>, steps) = w[n]
  BY <1>1, EvalTrace
<1>4. /\ v \in [0 .. n -> Seq(g.used)] /\ v[0] = <<b>>
      /\ \A k \in 1 .. n : v[k] = StepRound(g, 0, v[k - 1], steps[k])
      /\ w \in [0 .. n -> Seq(f.used)] /\ w[0] = <<b>>
      /\ \A k \in 1 .. n : w[k] = StepRound(f, 0, w[k - 1], steps[k])
  BY <1>2, <1>3 DEF StepLoop!IsTrace
<1> DEFINE holds(k) == \A y : Listed(v[k], y) => y \in K /\ Listed(w[k], y)
           I == {k \in Nat : k <= n => holds(k)}
<1>5. 0 \in I
  <2>1. DOMAIN <<b>> = {1} /\ <<b>>[1] = b
    OBVIOUS
  <2> QED
    BY <1>4, <2>1 DEF Listed
<1>6. ASSUME NEW k \in I PROVE k + 1 \in I
  <2> SUFFICES ASSUME k + 1 <= n PROVE holds(k + 1)
    OBVIOUS
  <2>1. k + 1 \in 1 .. n /\ (k + 1) - 1 = k /\ k \in 0 .. n /\ holds(k)
    OBVIOUS
  <2> DEFINE s == steps[k + 1]
  <2>2. /\ v[k + 1] = StepRound(g, 0, v[k], s) /\ w[k + 1] = StepRound(f, 0, w[k], s) /\ Plain(s)
        /\ v[k] \in Seq(g.used) /\ w[k] \in Seq(f.used)
    BY <1>4, <2>1
  <2> HIDE DEF s
  <2>3. \A y : Listed(v[k + 1], y) <=> \E z \in g.used : Listed(v[k], z) /\ Finds(g, z, s, y)
    BY <2>2, StepListed
  <2>4. \A y : Listed(w[k + 1], y) <=> \E z \in f.used : Listed(w[k], z) /\ Finds(f, z, s, y)
    BY <2>2, StepListed
  <2>5. \A z \in K : \A y : Finds(g, z, s, y) => y \in K /\ Finds(f, z, s, y)
    BY FindsOn
  <2>6. K \subseteq f.used
    BY DEF Holds
  <2> QED
    BY <2>1, <2>3, <2>4, <2>5, <2>6
<1>7. I = Nat
  <2>1. I \in SUBSET Nat
    OBVIOUS
  <2> HIDE DEF I
  <2> QED
    BY <1>5, <1>6, <2>1, BelowRounds!InductiveSet
<1>8. holds(n)
  BY <1>7
<1> QED
  BY <1>2, <1>3, <1>8

-----------------------------------------------------------------------------
(* Evaluation does not leave a part of the heap that no link leads out of.   *)
Enclosed(h, K) == K \in SUBSET h.used /\ Closed(h, K) /\ ClosedUp(h, K)

LEMMA CandidatesWithin ==
  ASSUME NEW h \in Heaps, Shaped(h), NEW K, Enclosed(h, K), NEW ctx \in K, NEW s, s.axis \in Axes
  PROVE  Candidates(h, ctx, s) \in Seq(K)
<1>1. ctx \in Node /\ ctx \in h.used /\ h.len[ctx] \in Nat /\ K \in SUBSET h.used
  BY DEF Enclosed, Heaps, Heap
<1>2. <<ctx>> \in Seq(K)
  BY OneIs
<1>3. h.parent[ctx] # Nil => <<h.parent[ctx]>> \in Seq(K)
  BY OneIs DEF Enclosed, ClosedUp
<1>4. Named(h, Descendants(h, ctx), s.name) \in Seq(K)
  <2>1. Least(h, ctx, DescendantsOf(h, ctx))
    BY <1>1, DescendantsListed
  <2>2. \A x : Under(h, ctx, x) => x \in K
    BY ClosedIs DEF Enclosed
  <2>3. DescendantsOf(h, ctx) \subseteq K
    BY <1>1, <2>1, <2>2 DEF Least, Enclosed
  <2> DEFINE d == Descendants(h, ctx)
  <2>4. d \in Seq(h.used)
    BY <1>1, DescendantsIs DEF Heaps
  <2>5. \A i \in DOMAIN d : d[i] \in K
    <3> SUFFICES ASSUME NEW i \in DOMAIN d PROVE d[i] \in K
      OBVIOUS
    <3>1. d[i] \in h.used /\ Listed(d, d[i])
      BY <2>4 DEF Listed
    <3> QED
      BY <2>3, <3>1 DEF DescendantsOf
  <2> HIDE DEF d
  <2>5a. \A t \in Seq(h.used) : Len(t) \in Nat /\ DOMAIN t = 1 .. Len(t) /\ t = [i \in 1 .. Len(t) |-> t[i]]
    OBVIOUS
  <2>6. Len(d) \in Nat /\ Lists(d, Len(d), K)
    BY <2>4, <2>5, <2>5a DEF Lists
  <2>7. d \in Seq(K)
    BY <2>6, SequenceIs
  <2> QED
    BY <2>7, NamedIs DEF d
<1>5. Named(h, Children(h, ctx), s.name) \in Seq(K)
  <2> DEFINE d == Children(h, ctx)
  <2>1. d \in Seq(h.used) /\ Len(d) = h.len[ctx] /\ \A i \in 1 .. h.len[ctx] : d[i] = Kid(h, ctx, i)
    BY <1>1, ChildrenAre DEF Heaps
  <2>2. \A i \in 1 .. h.len[ctx] : Kid(h, ctx, i) \in K
    BY DEF Enclosed, Closed
  <2> HIDE DEF d
  <2>3. Lists(d, h.len[ctx], K)
    BY <1>1, <2>1, <2>2 DEF Lists
  <2>4. d \in Seq(K)
    BY <1>1, <2>3, SequenceIs
  <2> QED
    BY <2>4, NamedIs DEF d
<1>6. <<>> \in Seq(K)
  OBVIOUS
<1> QED
  BY <1>2, <1>3, <1>4, <1>5, <1>6 DEF Candidates, Axes

LEMMA StepWithin ==
  ASSUME NEW h \in Heaps, Shaped(h), NEW K, Enclosed(h, K), NEW c \in Seq(K),
         NEW s, s.axis \in Axes, NEW n \in Nat, DOMAIN s.preds = 1 .. n
  PROVE  StepRound(h, 0, c, s) \in Seq(K)
<1> DEFINE ss == [i \in DOMAIN c |-> ApplyPreds(h, Candidates(h, c[i], s), s.preds)]
<1>1. \A i \in DOMAIN c : ss[i] \in Seq(K)
  <2> SUFFICES ASSUME NEW i \in DOMAIN c PROVE ss[i] \in Seq(K)
    OBVIOUS
  <2>1. c[i] \in K
    OBVIOUS
  <2>2. Candidates(h, c[i], s) \in Seq(K)
    BY <2>1, CandidatesWithin
  <2>3. ApplyPreds(h, Candidates(h, c[i], s), s.preds) \in Seq(K)
    BY <2>2, ApplyPredsIs
  <2> QED
    BY <2>3
<1>2. ss \in Seq(Seq(K))
  <2>1. ss = [i \in DOMAIN c |-> ss[i]] /\ Len(c) \in Nat /\ DOMAIN c = 1 .. Len(c)
    OBVIOUS
  <2> HIDE DEF ss
  <2>2. Lists(ss, Len(c), Seq(K))
    BY <1>1, <2>1 DEF Lists
  <2> QED
    BY <2>1, <2>2, SequenceIs
<1> HIDE DEF ss
<1>3. Dedup(Seqs!FlattenSeq(ss)) \in Seq(K)
  <2>1. Seqs!FlattenSeq(ss) \in Seq(K)
    BY <1>2, FlattenIs
  <2> QED
    BY <2>1, DedupIs
<1> QED
  BY <1>3 DEF StepRound, ss

LEMMA StepsWithin ==
  ASSUME NEW h \in Heaps, Shaped(h), NEW K, Enclosed(h, K), NEW ctx \in Seq(K),
         NEW segs, SegsOK(segs)
  PROVE  EvalSteps(h, ctx, ParseSteps(segs).steps) \in Seq(K)
<1> DEFINE steps == ParseSteps(segs).steps
<1>0. steps \in Seq(StepsOf(segs))
  BY ParseStepsIs DEF Parsed
<1> HIDE DEF steps
<1>1. EvalSteps(h, ctx, steps) = StepLoop!Result(ctx, steps, h, 0)
  BY DEF EvalSteps, Seqs!FoldLeft, Seqs!MapThenFoldSet, Seqs!Max, StepLoop!Result, StepLoop!IsLoop,
         StepLoop!Greatest, StepRound
<1>2. ASSUME NEW c \in Seq(K), NEW s \in StepsOf(segs)
      PROVE  StepRound(h, 0, c, s) \in Seq(K)
  <2>1. PICK axis \in Axes, k \in DOMAIN segs : s = Step(axis, segs[k])
    BY DEF StepsOf
  <2>2. PICK n \in Nat : DOMAIN segs[k].preds = 1 .. n
    BY SeqIs DEF SegsOK
  <2>3. s.axis \in Axes /\ DOMAIN s.preds = 1 .. n
    BY <2>1, <2>2 DEF Step
  <2> QED
    BY <2>3, StepWithin
<1>3. StepLoop!Stays(Seq(K), ctx, steps, h, 0)
  <2>1. \E n \in Nat : DOMAIN steps = 1 .. n
    <3>1. Len(steps) \in Nat /\ DOMAIN steps = 1 .. Len(steps)
      BY <1>0
    <3> QED
      BY <3>1
  <2>2. \A k \in DOMAIN steps : steps[k] \in StepsOf(segs)
    BY <1>0
  <2> QED
    BY <1>2, <2>1, <2>2 DEF StepLoop!Stays
<1>4. EvalSteps(h, ctx, steps) \in Seq(K)
  BY <1>1, <1>3, StepLoop!LoopKeeps
<1> QED
  BY <1>4 DEF steps

(* A path leads within K when it begins at a variable that holds nodes of K, *)
(* or at the root if that is in K.                                           *)
LeadsWithin(K, vs, path) ==
  \A i \in DOMAIN path :
    IF path[i].lead \in {"/", ""} THEN Root \in K
    ELSE path[i].lead \in DOMAIN vs => vs[path[i].lead] \in Seq(K)

LEMMA EvalWithin ==
  ASSUME NEW h \in Heaps, Shaped(h), NEW K, Enclosed(h, K), NEW vs, NEW path, PathOK(path),
         LeadsWithin(K, vs, path)
  PROVE  Answered(K, Eval(h, vs, path))
<1> DEFINE rs == [i \in DOMAIN path |-> EvalOne(h, vs, path[i])]
           ss == [i \in DOMAIN rs |-> rs[i].nodes]
<1>1. Len(path) \in Nat /\ DOMAIN path = 1 .. Len(path)
  BY SeqIs DEF PathOK
<1>2. ASSUME NEW i \in DOMAIN path PROVE Answered(K, EvalOne(h, vs, path[i]))
  <2> DEFINE alt == path[i]
  <2>1. ASSUME NEW ctx \in Seq(K)
        PROVE  Answered(K, EvalParsed(h, ctx, ParseSteps(alt.segs)))
    <3>1. ParseSteps(alt.segs).ok \in BOOLEAN /\ SegsOK(alt.segs)
      BY ParseStepsIs DEF Parsed, PathOK
    <3>2. EvalSteps(h, ctx, ParseSteps(alt.segs).steps) \in Seq(K)
      BY <3>1, StepsWithin
    <3>3. <<>> \in Seq(K)
      OBVIOUS
    <3> QED
      BY <3>2, <3>3 DEF EvalParsed, Answered
  <2>2. Root \in K => <<Root>> \in Seq(K)
    BY OneIs
  <2>3. Answered(K, [ok |-> FALSE, nodes |-> <<>>])
    BY DEF Answered
  <2>4. CASE alt.lead \in {"/", ""}
    BY <2>1, <2>2, <2>4 DEF EvalOne, LeadsWithin
  <2>5. CASE alt.lead \notin {"/", ""} /\ alt.lead \in DOMAIN vs
    BY <2>1, <2>5 DEF EvalOne, LeadsWithin
  <2>6. CASE alt.lead \notin {"/", ""} /\ alt.lead \notin DOMAIN vs
    BY <2>3, <2>6 DEF EvalOne
  <2> QED
    BY <2>4, <2>5, <2>6
<1>3. ss \in Seq(Seq(K))
  <2>1. \A i \in 1 .. Len(path) : ss[i] \in Seq(K)
    BY <1>1, <1>2 DEF Answered
  <2>2. ss = [i \in 1 .. Len(path) |-> ss[i]]
    BY <1>1
  <2> HIDE DEF ss
  <2>3. Lists(ss, Len(path), Seq(K))
    BY <2>1, <2>2 DEF Lists
  <2> QED
    BY <1>1, <2>3, SequenceIs
<1>4. Dedup(Seqs!FlattenSeq(ss)) \in Seq(K)
  <2> HIDE DEF ss
  <2>1. Seqs!FlattenSeq(ss) \in Seq(K)
    BY <1>3, FlattenIs
  <2> QED
    BY <2>1, DedupIs
<1>5. Answered(K, [ok |-> TRUE, nodes |-> Dedup(Seqs!FlattenSeq(ss))])
  <2> HIDE DEF ss
  <2> QED
    BY <1>4 DEF Answered
<1>6. Answered(K, [ok |-> FALSE, nodes |-> <<>>])
  BY DEF Answered
<1>7. Answered(K, Union(rs))
  <2>1. Union(rs) = [ok |-> TRUE, nodes |-> Dedup(Seqs!FlattenSeq(ss))]
        \/ Union(rs) = [ok |-> FALSE, nodes |-> <<>>]
    <3> HIDE DEF rs
    <3> QED
      BY DEF Union
  <2> HIDE DEF rs, ss
  <2> QED
    BY <1>5, <1>6, <2>1
<1> QED
  BY <1>7 DEF Eval

-----------------------------------------------------------------------------
(* What createFrom returns is found by evaluating the names it went by.      *)

(* n lies k levels below b, under nodes of the labels segs names.            *)
Trail(h, b, segs, k, n) ==
  \E w \in [0 .. k -> h.used] :
    /\ w[0] = b /\ w[k] = n
    /\ \A i \in 1 .. k : Under(h, w[i - 1], w[i]) /\ h.label[w[i]] = segs[i].name

LEMMA TrailKept ==
  ASSUME NEW h \in Heaps, Shaped(h), NEW g, Sprouts(h, g), NEW b, NEW segs, NEW k \in Nat, NEW n,
         Trail(h, b, segs, k, n)
  PROVE  Trail(g, b, segs, k, n)
<1>1. PICK w \in [0 .. k -> h.used] :
        /\ w[0] = b /\ w[k] = n
        /\ \A i \in 1 .. k : Under(h, w[i - 1], w[i]) /\ h.label[w[i]] = segs[i].name
  BY DEF Trail
<1>2. w \in [0 .. k -> g.used] /\ h.used \subseteq Node
  BY DEF Sprouts, Heaps, Heap
<1>3. \A i \in 1 .. k : i \in 0 .. k /\ i - 1 \in 0 .. k
  OBVIOUS
<1>4. ASSUME NEW i \in 1 .. k PROVE Under(g, w[i - 1], w[i]) /\ g.label[w[i]] = segs[i].name
  <2>1. w[i] \in h.used /\ w[i - 1] \in Node
    BY <1>2, <1>3
  <2> QED
    BY <1>1, <2>1, OldKids DEF Sprouts, Extended
<1> QED
  BY <1>1, <1>2, <1>4 DEF Trail

LEMMA TrailOn ==
  ASSUME NEW h, NEW b, NEW segs, NEW k \in Nat, NEW m, Trail(h, b, segs, k, m),
         NEW n \in h.used, Under(h, m, n), h.label[n] = segs[k + 1].name
  PROVE  Trail(h, b, segs, k + 1, n)
<1>1. PICK w \in [0 .. k -> h.used] :
        /\ w[0] = b /\ w[k] = m
        /\ \A i \in 1 .. k : Under(h, w[i - 1], w[i]) /\ h.label[w[i]] = segs[i].name
  BY DEF Trail
<1> DEFINE v == [i \in 0 .. (k + 1) |-> IF i = k + 1 THEN n ELSE w[i]]
<1>2. /\ v \in [0 .. (k + 1) -> h.used] /\ v[k + 1] = n
      /\ \A i \in 0 .. k : v[i] = w[i]
  OBVIOUS
<1> HIDE DEF v
<1>3. ASSUME NEW i \in 1 .. (k + 1) PROVE Under(h, v[i - 1], v[i]) /\ h.label[v[i]] = segs[i].name
  <2>1. CASE i = k + 1
    <3>1. v[i - 1] = m /\ v[i] = n
      BY <1>1, <1>2, <2>1
    <3> QED
      BY <2>1, <3>1
  <2>2. CASE i # k + 1
    <3>1. i \in 1 .. k /\ v[i - 1] = w[i - 1] /\ v[i] = w[i]
      BY <1>2, <2>2
    <3> QED
      BY <1>1, <3>1
  <2> QED
    BY <2>1, <2>2
<1>4. v[0] = b
  BY <1>1, <1>2
<1> QED
  BY <1>2, <1>3, <1>4 DEF Trail

LEMMA TrailFound ==
  ASSUME NEW h \in Heaps, Shaped(h), NEW b \in h.used, NEW n \in Nat, NEW segs, NEW steps, DOMAIN steps = 1 .. n,
         \A k \in 1 .. n : Plain(steps[k]) /\ steps[k].axis = "child" /\ steps[k].name = segs[k].name,
         NEW x, Trail(h, b, segs, n, x)
  PROVE  Listed(EvalSteps(h, <<b>>, steps), x)
<1>1. PICK w \in [0 .. n -> h.used] :
        /\ w[0] = b /\ w[n] = x
        /\ \A i \in 1 .. n : Under(h, w[i - 1], w[i]) /\ h.label[w[i]] = segs[i].name
  BY DEF Trail
<1>2. <<b>> \in Seq(h.used)
  BY OneIs
<1>3. PICK v : StepLoop!IsTrace(v, Seq(h.used), <<b>>, steps, n, h, 0) /\ EvalSteps(h, <<b>>, steps) = v[n]
  BY <1>2, EvalTrace
<1>4. /\ v \in [0 .. n -> Seq(h.used)] /\ v[0] = <<b>>
      /\ \A k \in 1 .. n : v[k] = StepRound(h, 0, v[k - 1], steps[k])
  BY <1>3 DEF StepLoop!IsTrace
<1> DEFINE I == {k \in Nat : k <= n => Listed(v[k], w[k])}
<1>5. 0 \in I
  <2>1. DOMAIN <<b>> = {1} /\ <<b>>[1] = b
    OBVIOUS
  <2> QED
    BY <1>1, <1>4, <2>1 DEF Listed
<1>6. ASSUME NEW k \in I PROVE k + 1 \in I
  <2> SUFFICES ASSUME k + 1 <= n PROVE Listed(v[k + 1], w[k + 1])
    OBVIOUS
  <2>1. k + 1 \in 1 .. n /\ (k + 1) - 1 = k /\ k \in 0 .. n /\ Listed(v[k], w[k])
    OBVIOUS
  <2> DEFINE s == steps[k + 1]
  <2>2. /\ v[k + 1] = StepRound(h, 0, v[k], s) /\ Plain(s) /\ v[k] \in Seq(h.used) /\ w[k] \in h.used
        /\ s.axis = "child" /\ s.name = segs[k + 1].name
        /\ Under(h, w[k], w[k + 1]) /\ h.label[w[k + 1]] = segs[k + 1].name
    BY <1>1, <1>4, <2>1
  <2> HIDE DEF s
  <2>3. Finds(h, w[k], s, w[k + 1])
    BY <2>2 DEF Finds, NameMatch
  <2>4. \A y : Listed(v[k + 1], y) <=> \E z \in h.used : Listed(v[k], z) /\ Finds(h, z, s, y)
    BY <2>2, StepListed
  <2> QED
    BY <2>1, <2>2, <2>3, <2>4
<1>7. I = Nat
  <2>1. I \in SUBSET Nat
    OBVIOUS
  <2> HIDE DEF I
  <2> QED
    BY <1>5, <1>6, <2>1, BelowRounds!InductiveSet
<1>8. Listed(v[n], w[n])
  BY <1>7
<1> QED
  BY <1>1, <1>3, <1>8

LEMMA TrailMade ==
  ASSUME NEW h \in Heaps, Shaped(h), ChildLinks(h, h.used), NEW base \in h.used,
         NEW segs, SegsOK(segs), MakesLabels(segs),
         NEW c, c = CreateFrom(h, base, segs), c.ok, Lost \notin c.heap.used
  PROVE  /\ \A i \in DOMAIN segs : Creatable(segs[i])
         /\ Trail(c.heap, base, segs, Len(segs), c.node)
<1> DEFINE start == [ok |-> TRUE, heap |-> h, node |-> base]
           l == Len(segs)
           got(acc, k) == acc.ok /\ Lost \notin acc.heap.used =>
                            /\ \A i \in 1 .. k : Creatable(segs[i])
                            /\ Trail(acc.heap, base, segs, k, acc.node)
           Q == [k \in 0 .. l |-> {acc \in Creating(h, base) : got(acc, k)}]
<1>0. l \in Nat /\ DOMAIN segs = 1 .. l /\ IsSeq(segs)
  BY SeqIs DEF SegsOK
<1>1. /\ CreateFrom(h, base, segs) = CreateLoop!Result(start, segs, 0, 0)
      /\ CreateLoop!Stays(Creating(h, base), start, segs, 0, 0)
  BY <1>0, CreateStays
<1>2. start \in Q[0]
  <2>1. start \in Creating(h, base)
    BY <1>1 DEF CreateLoop!Stays
  <2>2. Trail(h, base, segs, 0, base)
    <3>1. [i \in 0 .. 0 |-> base] \in [0 .. 0 -> h.used] /\ [i \in 0 .. 0 |-> base][0] = base /\ 1 .. 0 = {}
      OBVIOUS
    <3> QED
      BY <3>1 DEF Trail
  <2>3. got(start, 0) /\ 0 \in 0 .. l
    BY <1>0, <2>2
  <2> HIDE DEF start, got, l
  <2> QED
    BY <2>1, <2>3
<1>3. ASSUME NEW k \in 1 .. l, NEW acc \in Creating(h, base), acc \in Q[k - 1]
      PROVE  CreateRound(0, 0, acc, segs[k]) \in Q[k]
  <2> DEFINE seg == segs[k]
             e == acc.heap
             next == FirstChild(e, acc.node, seg.name)
             new == Fresh(e)
             f == NewNode(e, seg.name)
             g == AppendChild(f, acc.node, new)
             r == CreateRound(0, 0, acc, seg)
  <2>1. r \in Creating(h, base)
    BY <1>0, <1>1 DEF CreateLoop!Stays
  <2>2. k \in 0 .. l /\ k - 1 \in 0 .. l /\ k - 1 \in Nat /\ (k - 1) + 1 = k
        /\ \A i \in 1 .. k : i \in 1 .. (k - 1) \/ i = k
    BY <1>0
  <2>3. got(acc, k - 1)
    BY <1>3, <2>2
  <2>4. /\ acc \in [ok : BOOLEAN, heap : Heaps, node : Node]
        /\ e \in Heaps /\ Shaped(e) /\ acc.node \in e.used /\ acc.node \in Node /\ Grown(h, e)
        /\ Lost \notin e.used => ChildLinks(e, e.used)
    BY DEF Creating, Grown, Edited, Heaps, Heap
  <2>5. next # Nil => e.label[next] = seg.name /\ Under(e, acc.node, next) /\ next \in e.used
    BY <2>4, FirstChildIs DEF Under, Heaps
  <2> HIDE DEF next, got, l, Q
  <2>6. got(r, k)
    <3>1. CASE ~acc.ok \/ ~Creatable(seg)
      <4>1. r = [acc EXCEPT !.ok = FALSE]
        BY <3>1 DEF CreateRound
      <4>2. ~r.ok
        BY <2>4, <4>1
      <4> QED
        BY <4>2 DEF got
    <3>2. CASE ~(~acc.ok \/ ~Creatable(seg)) /\ next # Nil
      <4>1. r = [acc EXCEPT !.node = next]
        BY <3>2 DEF CreateRound, next
      <4>2. r.heap = e /\ r.node = next
        BY <2>4, <4>1
      <4>3. Lost \notin e.used => Trail(e, base, segs, k, next) /\ \A i \in 1 .. k : Creatable(segs[i])
        BY <2>2, <2>3, <2>5, <3>2, TrailOn DEF got
      <4> QED
        BY <4>2, <4>3 DEF got
    <3>3. CASE ~(~acc.ok \/ ~Creatable(seg)) /\ next = Nil
      <4>1. r = [acc EXCEPT !.heap = g, !.node = new]
        BY <3>3 DEF CreateRound, next
      <4>2. r.heap = g /\ r.node = new
        BY <2>4, <4>1
      <4>3. seg.name \in Label
        BY <1>0, <3>3 DEF MakesLabels
      <4> HIDE DEF seg, e
      <4>4. Made(e, f) /\ f.label[new] = seg.name /\ new \in Node
        <5>1. Made(e, f)
          BY <2>4, <4>3, MadeIs
        <5>2. new \in Node
          BY <5>1 DEF Made
        <5>3. \A n \in Node : f.label[n] = IF n = new THEN seg.name ELSE e.label[n]
          BY <2>4, <4>3, NewNodeFields DEF Heaps
        <5> QED
          BY <5>1, <5>2, <5>3
      <4> HIDE DEF f, new
      <4>5. /\ Grown(e, g) /\ g.used = e.used \cup {new} /\ g.label = f.label
            /\ \E i \in 1 .. g.len[acc.node] : Kid(g, acc.node, i) = new
        BY <2>4, <4>4, AddedIs DEF new
      <4> HIDE DEF g
      <4>6. ASSUME Lost \notin g.used
            PROVE  Trail(g, base, segs, k, new) /\ \A i \in 1 .. k : Creatable(segs[i])
        <5>1. Lost \notin e.used /\ ChildLinks(e, e.used)
          BY <2>4, <4>5, <4>6
        <5>2. Sprouts(e, g)
          BY <2>4, <4>5, <4>6, <5>1, GrownIs
        <5>3. Trail(e, base, segs, k - 1, acc.node) /\ \A i \in 1 .. (k - 1) : Creatable(segs[i])
          BY <2>3, <3>3, <5>1 DEF got, e
        <5>4. Trail(g, base, segs, k - 1, acc.node)
          BY <2>2, <2>4, <5>2, <5>3, TrailKept
        <5>5. Under(g, acc.node, new) /\ new \in g.used /\ g.label[new] = segs[(k - 1) + 1].name
          BY <2>2, <4>4, <4>5 DEF Under, seg
        <5>6. Trail(g, base, segs, (k - 1) + 1, new)
          BY <2>2, <5>4, <5>5, TrailOn
        <5> QED
          BY <2>2, <3>3, <5>3, <5>6 DEF seg
      <4> QED
        BY <4>2, <4>6 DEF got
    <3> QED
      BY <3>1, <3>2, <3>3
  <2>7. Q[k] = {x \in Creating(h, base) : got(x, k)}
    BY <2>2 DEF Q
  <2> HIDE DEF r
  <2> QED
    BY <2>1, <2>6, <2>7 DEF r
<1> HIDE DEF start, Q, l, got
<1>4. CreateLoop!Result(start, segs, 0, 0) \in Q[l]
  BY <1>0, <1>1, <1>2, <1>3, CreateLoop!LoopReaches
<1>5. got(c, l)
  <2>1. Q[l] = {x \in Creating(h, base) : got(x, l)}
    BY <1>0 DEF Q
  <2> QED
    BY <1>1, <1>4, <2>1
<1> QED
  BY <1>0, <1>5 DEF got, l

LEMMA CreateFound ==
  ASSUME NEW h \in Heaps, Shaped(h), ChildLinks(h, h.used), NEW base \in h.used,
         NEW segs, SegsOK(segs), MakesLabels(segs), Downward(segs),
         NEW c, c = CreateFrom(h, base, segs), c.ok, Lost \notin c.heap.used
  PROVE  Listed(EvalSteps(c.heap, <<base>>, ParseSteps(segs).steps), c.node)
<1> DEFINE l == Len(segs)
<1>1. l \in Nat /\ DOMAIN segs = 1 .. l /\ segs = [i \in 1 .. l |-> segs[i]] /\ IsSeq(segs)
  <2>1. l \in Nat /\ DOMAIN segs = 1 .. l /\ IsSeq(segs)
    BY SeqIs DEF SegsOK
  <2>2. \A T : \A s \in Seq(T) : s = [i \in 1 .. Len(s) |-> s[i]]
    OBVIOUS
  <2> QED
    BY <2>1, <2>2 DEF IsSeq
<1>2. (\A i \in 1 .. l : Creatable(segs[i])) /\ Trail(c.heap, base, segs, l, c.node)
  BY <1>1, TrailMade
<1>3. ASSUME NEW i \in 1 .. l PROVE PlainSeg(segs[i]) /\ segs[i].preds = <<>>
  <2>1. segs[i].preds = <<>> /\ segs[i].name \in Nameable
    BY <1>1, <1>2, CreatableIs DEF MakesLabels, Downward, Nameable
  <2> QED
    BY <2>1 DEF PlainSeg, Positions
<1> HIDE DEF l
<1> DEFINE T == {segs[i] : i \in 1 .. l}
<1>4. segs \in Seq(T) /\ \A seg \in T : PlainSeg(seg)
  <2>1. Lists(segs, l, T)
    BY <1>1 DEF Lists
  <2>2. \A seg \in T : PlainSeg(seg)
    BY <1>3
  <2> HIDE DEF T
  <2> QED
    BY <1>1, <2>1, <2>2, SequenceIs
<1> DEFINE steps == PlainSteps(segs)
<1>5. ParseSteps(segs).steps = steps
  <2> HIDE DEF T
  <2> QED
    BY <1>4, PlainParsed
<1>6. DOMAIN steps = 1 .. l /\ \A k \in 1 .. l : steps[k] = Step("child", segs[k])
  BY DEF PlainSteps, l
<1> HIDE DEF steps, T
<1>7. \A k \in 1 .. l : Plain(steps[k]) /\ steps[k].axis = "child" /\ steps[k].name = segs[k].name
  BY <1>3, <1>6 DEF Plain, Step, Axes
<1>8. c.heap \in Heaps /\ Shaped(c.heap) /\ base \in c.heap.used
  <2>1. c \in Creating(h, base)
    BY <1>1, CreateFromIs
  <2> QED
    BY <2>1 DEF Creating, Grown, Edited
<1>9. Listed(EvalSteps(c.heap, <<base>>, steps), c.node)
  BY <1>1, <1>2, <1>6, <1>7, <1>8, TrailFound
<1> QED
  BY <1>5, <1>9

-----------------------------------------------------------------------------
(* What SetMultiple finds below a node.                                      *)
StepsAt(sub) == ParseSteps(sub).steps

LEMMA UnconditionalSteps ==
  ASSUME NEW sub, SegsOK(sub), Unconditional(sub)
  PROVE  \E n \in Nat : DOMAIN StepsAt(sub) = 1 .. n /\ \A k \in 1 .. n : Plain(StepsAt(sub)[k])
<1> DEFINE steps == StepsAt(sub)
<1>1. steps \in Seq(StepsOf(sub))
  BY ParseStepsIs DEF Parsed, StepsAt
<1>2. \A s \in StepsOf(sub) : Plain(s)
  BY DEF StepsOf, Step, Plain, Unconditional
<1> HIDE DEF steps
<1>3. Len(steps) \in Nat /\ DOMAIN steps = 1 .. Len(steps) /\ \A k \in 1 .. Len(steps) : steps[k] \in StepsOf(sub)
  BY <1>1
<1> QED
  BY <1>2, <1>3 DEF steps

LEMMA AtSubIs ==
  ASSUME NEW h, NEW b, NEW sub, NEW x
  PROVE  x \in AtSub(h, b, sub) <=> Listed(EvalSteps(h, <<b>>, StepsAt(sub)), x)
BY DEF AtSub, StepsAt, Seqs!ToSet, Listed
=============================================================================
