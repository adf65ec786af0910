--------------------------------- MODULE Loops ---------------------------------
(***************************************************************************)
(* Two shapes of Go loop over a state: a range over a slice, which the      *)
(* models write as a fold over a sequence, and a number of rounds, which    *)
(* they write as a recursive function.  Body(p, q, s, x) is one round: the  *)
(* state after s and the element (or the round's number) x, for a loop      *)
(* whose other variables are p and q.  A module about a loop instantiates   *)
(* this one with its body.                                                  *)
(*                                                                         *)
(* First induction over the natural numbers in first-order form: the       *)
(* library states it for an operator P(_), here it is about the set of     *)
(* numbers P holds of.                                                     *)
(***************************************************************************)
EXTENDS WellFoundedInduction, TLAPS

CONSTANT Body(_, _, _, _)

NatOrder == OpToRel(<, Nat)

(* A non-empty set of numbers has a least one. *)
LEMMA LeastNatural ==
  ASSUME NEW T \in SUBSET Nat, T # {}
  PROVE  \E x \in T : \A y \in T : x <= y
<1>1. IsWellFoundedOn(NatOrder, Nat)
  BY NatLessThanWellFounded DEF NatOrder
<1>2. PICK x \in T : \A y \in T : <<y, x>> \notin NatOrder
  BY <1>1, WFMin
<1>3. \A y \in T : ~(y < x)
  BY <1>2 DEF NatOrder, OpToRel
<1> QED
  BY <1>2, <1>3

(* A set of numbers that holds 0 and the successor of each of its members is *)
(* the set of all.                                                           *)
LEMMA InductiveSet ==
  ASSUME NEW I \in SUBSET Nat, 0 \in I, \A n \in I : n + 1 \in I
  PROVE  I = Nat
<1>1. SUFFICES ASSUME Nat \ I # {} PROVE FALSE
  OBVIOUS
<1>2. PICK x \in Nat \ I : \A y \in Nat \ I : x <= y
  BY <1>1, LeastNatural
<1>3. x # 0 /\ x - 1 \in Nat
  BY <1>2
<1>4. x - 1 \in I
  BY <1>2, <1>3
<1> QED
  BY <1>2, <1>3, <1>4

-----------------------------------------------------------------------------
(* A fold over a sequence of n elements is, in the community modules, a      *)
(* recursive function over the sets of positions: a set is folded without    *)
(* its greatest member, which is folded in last.                             *)
Greatest(t) == CHOOSE x \in t : \A y \in t : x >= y

LEMMA GreatestOf ==
  ASSUME NEW n \in Nat, NEW t \in SUBSET (1 .. n), t # {}
  PROVE  Greatest(t) \in t /\ \A y \in t : Greatest(t) >= y
<1> DEFINE T == {n - x : x \in t}
<1>1. T \in SUBSET Nat /\ T # {}
  <2>1. ASSUME NEW x \in t PROVE n - x \in Nat
    <3>1. x \in 1 .. n
      OBVIOUS
    <3> QED
      BY <3>1
  <2> QED
    BY <2>1
<1>2. PICK d \in T : \A e \in T : d <= e
  BY <1>1, LeastNatural
<1>3. PICK x \in t : d = n - x
  BY <1>2
<1>4. ASSUME NEW y \in t PROVE x >= y
  <2>1. n - y \in T
    OBVIOUS
  <2>2. d <= n - y
    BY <1>2, <2>1
  <2> QED
    BY <1>3, <2>2
<1>5. \E z \in t : \A y \in t : z >= y
  BY <1>4
<1> QED
  BY <1>5 DEF Greatest

(* it folds the steps G from base, over the positions up to n.               *)
IsFold(it, S, base, n, G) ==
  /\ it \in [SUBSET (1 .. n) -> S]
  /\ it[{}] = base
  /\ \A t \in SUBSET (1 .. n) :
       t # {} => it[t] = G[Greatest(t)][it[t \ {Greatest(t)}]]

(* Such a function exists: the recursion is well-founded.                    *)
LEMMA FoldExists ==
  ASSUME NEW S, NEW base \in S, NEW n \in Nat, NEW G \in [1 .. n -> [S -> S]]
  PROVE  \E it : IsFold(it, S, base, n, G)
<1> DEFINE Folds(k, it) == IsFold(it, S, base, k, G)
           I == {k \in Nat : k <= n => \E it : Folds(k, it)}
<1>1. 0 \in I
  <2> DEFINE it == [t \in SUBSET (1 .. 0) |-> base]
  <2>1. 1 .. 0 = {}
    OBVIOUS
  <2>2. Folds(0, it)
    BY <2>1 DEF IsFold
  <2> QED
    BY <2>2
<1>2. ASSUME NEW k \in I PROVE k + 1 \in I
  <2> HIDE DEF Folds
  <2>0. k \in Nat /\ (k <= n => \E it : Folds(k, it))
    OBVIOUS
  <2> SUFFICES ASSUME k + 1 <= n PROVE \E it : Folds(k + 1, it)
    BY <2>0
  <2>a. k <= n
    BY <2>0
  <2>1. PICK f : Folds(k, f)
    BY <2>0, <2>a
  <2> USE DEF Folds, IsFold
  <2> DEFINE it == [t \in SUBSET (1 .. (k + 1)) |->
                      IF k + 1 \in t THEN G[k + 1][f[t \ {k + 1}]] ELSE f[t]]
  <2>2. ASSUME NEW t \in SUBSET (1 .. (k + 1))
        PROVE  t \ {k + 1} \in SUBSET (1 .. k) /\ (k + 1 \notin t => t \in SUBSET (1 .. k))
    OBVIOUS
  <2>3. k + 1 \in 1 .. n /\ G[k + 1] \in [S -> S]
    BY <2>0
  <2>4. it \in [SUBSET (1 .. (k + 1)) -> S]
    <3>1. ASSUME NEW t \in SUBSET (1 .. (k + 1))
          PROVE  (IF k + 1 \in t THEN G[k + 1][f[t \ {k + 1}]] ELSE f[t]) \in S
      BY <2>1, <2>2, <2>3
    <3> QED
      BY <3>1
  <2>5. it[{}] = base
    BY <2>1
  <2>6. ASSUME NEW t \in SUBSET (1 .. (k + 1)), t # {}
        PROVE  it[t] = G[Greatest(t)][it[t \ {Greatest(t)}]]
    <3>0. k + 1 \in Nat /\ \A y \in t : y \in 1 .. (k + 1)
      BY <2>0
    <3>1. Greatest(t) \in t /\ \A y \in t : Greatest(t) >= y
      BY <2>6, <3>0, GreatestOf
    <3>2. CASE k + 1 \in t
      <4>1. Greatest(t) = k + 1
        <5>1. Greatest(t) \in 1 .. (k + 1) /\ Greatest(t) >= k + 1
          <6> HIDE DEF Folds, it
          <6> QED
            BY <3>0, <3>1, <3>2
        <5> QED
          BY <2>0, <5>1
      <4>2. it[t \ {k + 1}] = f[t \ {k + 1}]
        BY <2>2
      <4> QED
        BY <3>2, <4>1, <4>2
    <3>3. CASE k + 1 \notin t
      <4>1. it[t] = f[t] /\ t \in SUBSET (1 .. k)
        BY <2>2, <3>3
      <4>2. it[t \ {Greatest(t)}] = f[t \ {Greatest(t)}]
        BY <3>3
      <4> QED
        BY <2>1, <2>6, <4>1, <4>2
    <3> QED
      BY <3>2, <3>3
  <2>7. Folds(k + 1, it)
    BY <2>4, <2>5, <2>6
  <2> QED
    BY <2>7
<1>3. I = Nat
  <2> HIDE DEF Folds
  <2> QED
    BY <1>1, <1>2, InductiveSet
<1>4. PICK it : Folds(n, it)
  <2> HIDE DEF Folds
  <2>1. n \in I
    BY <1>3
  <2> QED
    BY <2>1
<1> QED
  BY <1>4

LEMMA GreatestOfInterval ==
  ASSUME NEW k \in Nat
  PROVE  Greatest(1 .. (k + 1)) = k + 1 /\ (1 .. (k + 1)) \ {k + 1} = 1 .. k
<1>1. /\ k + 1 \in Nat /\ k + 1 \in 1 .. (k + 1)
      /\ 1 .. (k + 1) \in SUBSET (1 .. (k + 1)) /\ 1 .. (k + 1) # {}
  OBVIOUS
<1>2. /\ Greatest(1 .. (k + 1)) \in 1 .. (k + 1)
      /\ \A y \in 1 .. (k + 1) : Greatest(1 .. (k + 1)) >= y
  BY <1>1, GreatestOf, Zenon
<1> QED
  BY <1>1, <1>2

(* What the base has and every step keeps, the result has.                   *)
LEMMA FoldStays ==
  ASSUME NEW S, NEW n \in Nat, NEW it, it[{}] \in S,
         \A t \in SUBSET (1 .. n) :
           t # {} /\ it[t \ {Greatest(t)}] \in S => it[t] \in S
  PROVE  it[1 .. n] \in S
<1> DEFINE I == {k \in Nat : k <= n => it[1 .. k] \in S}
<1>1. 0 \in I
  <2>1. 1 .. 0 = {}
    OBVIOUS
  <2> QED
    BY <2>1
<1>2. ASSUME NEW k \in I PROVE k + 1 \in I
  <2> SUFFICES ASSUME k + 1 <= n PROVE it[1 .. (k + 1)] \in S
    OBVIOUS
  <2>1. 1 .. (k + 1) \in SUBSET (1 .. n) /\ 1 .. (k + 1) # {}
    OBVIOUS
  <2>2. Greatest(1 .. (k + 1)) = k + 1 /\ (1 .. (k + 1)) \ {k + 1} = 1 .. k
    BY GreatestOfInterval
  <2>3. it[1 .. k] \in S
    OBVIOUS
  <2> QED
    BY <2>1, <2>2, <2>3
<1>3. I = Nat
  BY <1>1, <1>2, InductiveSet
<1> QED
  BY <1>3
-----------------------------------------------------------------------------
(* The same for a recursion over the numbers up to n.                        *)
IsIteration(it, S, base, n, G) ==
  /\ it \in [0 .. n -> S]
  /\ it[0] = base
  /\ \A k \in 1 .. n : it[k] = G[k][it[k - 1]]

LEMMA IterationExists ==
  ASSUME NEW S, NEW base \in S, NEW n \in Nat, NEW G \in [1 .. n -> [S -> S]]
  PROVE  \E it : IsIteration(it, S, base, n, G)
<1>1. PICK f : IsFold(f, S, base, n, G)
  BY FoldExists
<1> DEFINE it == [k \in 0 .. n |-> f[1 .. k]]
<1>2. \A k \in 0 .. n : 1 .. k \in SUBSET (1 .. n)
  OBVIOUS
<1>3. it \in [0 .. n -> S]
  BY <1>1, <1>2 DEF IsFold
<1>4. it[0] = base
  <2>1. 1 .. 0 = {}
    OBVIOUS
  <2> QED
    BY <1>1, <2>1 DEF IsFold
<1>5. ASSUME NEW k \in 1 .. n PROVE it[k] = G[k][it[k - 1]]
  <2>1. k - 1 \in Nat /\ k - 1 \in 0 .. n /\ k \in 0 .. n /\ (k - 1) + 1 = k
    OBVIOUS
  <2>2. Greatest(1 .. k) = k /\ (1 .. k) \ {k} = 1 .. (k - 1)
    BY <2>1, GreatestOfInterval
  <2>3. k \in 1 .. k
    OBVIOUS
  <2>4. 1 .. k # {} /\ 1 .. k \in SUBSET (1 .. n)
    BY <1>2, <2>1, <2>3
  <2>5. f[1 .. k] = G[k][f[1 .. (k - 1)]]
    <3> HIDE DEF it
    <3>1. f[1 .. k] = G[Greatest(1 .. k)][f[(1 .. k) \ {Greatest(1 .. k)}]]
      BY <1>1, <2>4 DEF IsFold
    <3> QED
      BY <2>2, <3>1
  <2> QED
    BY <2>1, <2>5
<1> QED
  BY <1>3, <1>4, <1>5 DEF IsIteration

LEMMA IterationStays ==
  ASSUME NEW S, NEW n \in Nat, NEW it, it[0] \in S,
         \A k \in 1 .. n : it[k - 1] \in S => it[k] \in S
  PROVE  \A k \in 0 .. n : it[k] \in S
<1> DEFINE I == {k \in Nat : k <= n => it[k] \in S}
<1>1. 0 \in I
  OBVIOUS
<1>2. ASSUME NEW k \in I PROVE k + 1 \in I
  <2>1. k + 1 <= n => k + 1 \in 1 .. n /\ (k + 1) - 1 = k /\ k <= n
    OBVIOUS
  <2> QED
    BY <2>1
<1>3. I = Nat
  BY <1>1, <1>2, InductiveSet
<1> QED
  BY <1>3

-----------------------------------------------------------------------------
(* A loop over the sequence xs that begins in S and whose rounds keep to S.  *)
Stays(S, base, xs, p, q) ==
  /\ base \in S
  /\ \E n \in Nat : DOMAIN xs = 1 .. n
  /\ \A s \in S : \A k \in DOMAIN xs : Body(p, q, s, xs[k]) \in S

StaysInRounds(S, n, p, q) == \A s \in S : \A k \in 1 .. n : Body(p, q, s, k) \in S

-----------------------------------------------------------------------------
(* The fold of SequencesExt, spelled out. *)
IsLoop(it, base, xs, p, q) ==
  it = [t \in SUBSET DOMAIN xs |->
          IF t = {} THEN base ELSE Body(p, q, it[t \ {Greatest(t)}], xs[Greatest(t)])]

Result(base, xs, p, q) == (CHOOSE it : IsLoop(it, base, xs, p, q))[DOMAIN xs]

(* What holds before a loop and is kept by every round holds after it.       *)
LEMMA LoopKeeps ==
  ASSUME NEW S, NEW base, NEW xs, NEW p, NEW q, Stays(S, base, xs, p, q)
  PROVE  Result(base, xs, p, q) \in S
<1>0. PICK n \in Nat : DOMAIN xs = 1 .. n
  BY DEF Stays
<1> DEFINE G == [k \in 1 .. n |-> [s \in S |-> Body(p, q, s, xs[k])]]
           loop == CHOOSE it : IsLoop(it, base, xs, p, q)
<1>1. base \in S /\ \A s \in S, k \in 1 .. n : Body(p, q, s, xs[k]) \in S
  BY <1>0 DEF Stays
<1>2. G \in [1 .. n -> [S -> S]]
  BY <1>1
<1>3. PICK f : IsFold(f, S, base, n, G)
  <2> HIDE DEF G
  <2> QED
    BY <1>1, <1>2, FoldExists
<1>4. IsLoop(f, base, xs, p, q)
  <2>1. ASSUME NEW t \in SUBSET (1 .. n), t # {}
        PROVE  f[t] = Body(p, q, f[t \ {Greatest(t)}], xs[Greatest(t)])
    <3>1. Greatest(t) \in 1 .. n
      BY <2>1, GreatestOf
    <3>2. f[t \ {Greatest(t)}] \in S
      BY <1>3 DEF IsFold
    <3>3. f[t] = G[Greatest(t)][f[t \ {Greatest(t)}]]
      BY <1>3, <2>1 DEF IsFold
    <3> QED
      BY <3>1, <3>2, <3>3
  <2>2. f \in [SUBSET (1 .. n) -> S] /\ f[{}] = base
    BY <1>3 DEF IsFold
  <2> QED
    BY <1>0, <2>1, <2>2 DEF IsLoop
<1>5. IsLoop(loop, base, xs, p, q)
  BY <1>4
<1>6. loop[{}] = base /\ \A t \in SUBSET (1 .. n) :
        t # {} => loop[t] = Body(p, q, loop[t \ {Greatest(t)}], xs[Greatest(t)])
  <2> HIDE DEF loop
  <2> QED
    BY <1>0, <1>5 DEF IsLoop
<1>7. \A t \in SUBSET (1 .. n) : t # {} => Greatest(t) \in 1 .. n
  BY GreatestOf
<1>8. loop[1 .. n] \in S
  <2> HIDE DEF loop
  <2>1. \A t \in SUBSET (1 .. n) : t # {} /\ loop[t \ {Greatest(t)}] \in S => loop[t] \in S
    BY <1>1, <1>6, <1>7
  <2> QED
    BY <1>1, <1>6, <2>1, FoldStays
<1> QED
  BY <1>0, <1>8 DEF Result

(* The same, by position: what holds of the state after k rounds, it is in   *)
(* Q[k].                                                                     *)
LEMMA LoopReaches ==
  ASSUME NEW S, NEW base, NEW xs, NEW p, NEW q, Stays(S, base, xs, p, q),
         NEW n \in Nat, DOMAIN xs = 1 .. n, NEW Q, base \in Q[0],
         \A k \in 1 .. n : \A s \in S : s \in Q[k - 1] => Body(p, q, s, xs[k]) \in Q[k]
  PROVE  Result(base, xs, p, q) \in Q[n]
<1> DEFINE G == [k \in 1 .. n |-> [s \in S |-> Body(p, q, s, xs[k])]]
           loop == CHOOSE it : IsLoop(it, base, xs, p, q)
<1>1. base \in S /\ \A s \in S, k \in 1 .. n : Body(p, q, s, xs[k]) \in S
  BY DEF Stays
<1>2. G \in [1 .. n -> [S -> S]]
  BY <1>1
<1>3. PICK f : IsFold(f, S, base, n, G)
  <2> HIDE DEF G
  <2> QED
    BY <1>1, <1>2, FoldExists
<1>4. \A t \in SUBSET (1 .. n) : t # {} => Greatest(t) \in 1 .. n
  BY GreatestOf
<1>5. \A t \in SUBSET (1 .. n) : t # {} => f[t] = Body(p, q, f[t \ {Greatest(t)}], xs[Greatest(t)])
  BY <1>3, <1>4 DEF IsFold
<1>6. IsLoop(f, base, xs, p, q)
  <2>1. f \in [SUBSET (1 .. n) -> S] /\ f[{}] = base
    BY <1>3 DEF IsFold
  <2> QED
    BY <1>5, <2>1 DEF IsLoop
<1>7. IsLoop(loop, base, xs, p, q)
  BY <1>6
<1>8. loop[{}] = base /\ \A t \in SUBSET (1 .. n) :
        t # {} => loop[t] = Body(p, q, loop[t \ {Greatest(t)}], xs[Greatest(t)])
  <2> HIDE DEF loop
  <2> QED
    BY <1>7 DEF IsLoop
<1> HIDE DEF loop, G
<1> DEFINE I == {k \in Nat : k <= n => loop[1 .. k] \in S /\ loop[1 .. k] \in Q[k]}
<1>9. 0 \in I
  <2>1. 1 .. 0 = {}
    OBVIOUS
  <2> QED
    BY <1>1, <1>8, <2>1
<1>10. ASSUME NEW k \in I PROVE k + 1 \in I
  <2> SUFFICES ASSUME k + 1 <= n PROVE loop[1 .. (k + 1)] \in S /\ loop[1 .. (k + 1)] \in Q[k + 1]
    OBVIOUS
  <2>1. 1 .. (k + 1) \in SUBSET (1 .. n) /\ 1 .. (k + 1) # {} /\ k + 1 \in 1 .. n /\ (k + 1) - 1 = k
    <3>1. k \in Nat
      OBVIOUS
    <3>2. \A m \in Nat : m + 1 <= n => m + 1 \in 1 .. n /\ (m + 1) - 1 = m /\ m + 1 \in 1 .. (m + 1)
      OBVIOUS
    <3>3. \A m \in Nat : m + 1 <= n => \A y \in 1 .. (m + 1) : y \in 1 .. n
      OBVIOUS
    <3> HIDE DEF I
    <3> QED
      BY <3>1, <3>2, <3>3
  <2>2. Greatest(1 .. (k + 1)) = k + 1 /\ (1 .. (k + 1)) \ {k + 1} = 1 .. k
    BY GreatestOfInterval
  <2>3. loop[1 .. k] \in S /\ loop[1 .. k] \in Q[k]
    OBVIOUS
  <2>4. loop[1 .. (k + 1)] = Body(p, q, loop[1 .. k], xs[k + 1])
    BY <1>8, <2>1, <2>2
  <2> QED
    BY <1>1, <2>1, <2>3, <2>4
<1>11. I = Nat
  BY <1>9, <1>10, InductiveSet
<1>12. loop[1 .. n] \in Q[n]
  BY <1>11
<1> QED
  BY <1>12 DEF Result, loop

(* The states a loop goes through, the last of them its result. *)
IsTrace(v, S, base, xs, n, p, q) ==
  /\ v \in [0 .. n -> S]
  /\ v[0] = base /\ v[n] = Result(base, xs, p, q)
  /\ \A k \in 1 .. n : v[k] = Body(p, q, v[k - 1], xs[k])

LEMMA LoopTrace ==
  ASSUME NEW S, NEW base, NEW xs, NEW p, NEW q, Stays(S, base, xs, p, q),
         NEW n \in Nat, DOMAIN xs = 1 .. n
  PROVE  \E v : IsTrace(v, S, base, xs, n, p, q)
<1> DEFINE G == [k \in 1 .. n |-> [s \in S |-> Body(p, q, s, xs[k])]]
<1>1. base \in S /\ \A s \in S, k \in 1 .. n : Body(p, q, s, xs[k]) \in S
  BY DEF Stays
<1>2. G \in [1 .. n -> [S -> S]]
  BY <1>1
<1>3. PICK v : IsIteration(v, S, base, n, G)
  <2> HIDE DEF G
  <2> QED
    BY <1>1, <1>2, IterationExists
<1>4. ASSUME NEW k \in 1 .. n PROVE v[k - 1] \in S /\ v[k] = Body(p, q, v[k - 1], xs[k])
  <2>1. k - 1 \in 0 .. n
    OBVIOUS
  <2>2. v[k - 1] \in S
    BY <1>3, <2>1 DEF IsIteration
  <2>3. v[k] = G[k][v[k - 1]]
    <3> HIDE DEF G
    <3> QED
      BY <1>3 DEF IsIteration
  <2> QED
    BY <2>2, <2>3
<1> DEFINE Q == [k \in 0 .. n |-> {v[k]}]
<1>5. base \in Q[0] /\ \A k \in 1 .. n : \A s \in S : s \in Q[k - 1] => Body(p, q, s, xs[k]) \in Q[k]
  BY <1>3, <1>4 DEF IsIteration
<1>6. Result(base, xs, p, q) \in Q[n]
  <2> HIDE DEF Q
  <2> QED
    BY <1>5, LoopReaches
<1>7. Result(base, xs, p, q) = v[n]
  BY <1>6
<1> QED
  BY <1>3, <1>4, <1>7 DEF IsIteration, IsTrace

(* One more element is one more round. *)
LEMMA LoopExtends ==
  ASSUME NEW S, NEW base, NEW xs, NEW ys, NEW p, NEW q, Stays(S, base, ys, p, q),
         NEW n \in Nat, DOMAIN xs = 1 .. n, DOMAIN ys = 1 .. (n + 1), \A k \in 1 .. n : ys[k] = xs[k]
  PROVE  Result(base, ys, p, q) = Body(p, q, Result(base, xs, p, q), ys[n + 1])
<1>1. PICK v : IsTrace(v, S, base, ys, n + 1, p, q)
  BY LoopTrace
<1>2. /\ v \in [0 .. n + 1 -> S] /\ v[0] = base /\ v[n + 1] = Result(base, ys, p, q)
      /\ \A k \in 1 .. (n + 1) : v[k] = Body(p, q, v[k - 1], ys[k])
  BY <1>1 DEF IsTrace
<1>3. Stays(S, base, xs, p, q)
  <2>1. \A k \in DOMAIN xs : k \in DOMAIN ys /\ xs[k] = ys[k]
    OBVIOUS
  <2> QED
    BY <2>1 DEF Stays
<1> DEFINE Q == [k \in 0 .. n |-> {v[k]}]
<1>4. base \in Q[0] /\ \A k \in 1 .. n : \A s \in S : s \in Q[k - 1] => Body(p, q, s, xs[k]) \in Q[k]
  BY <1>2
<1>5. Result(base, xs, p, q) \in Q[n]
  <2> HIDE DEF Q
  <2> QED
    BY <1>3, <1>4, LoopReaches
<1>6. Result(base, xs, p, q) = v[n] /\ n + 1 \in 1 .. (n + 1) /\ (n + 1) - 1 = n
  BY <1>5
<1> QED
  BY <1>2, <1>6

-----------------------------------------------------------------------------
(* A recursive function over the numbers up to n, spelled out. *)
IsRounds(it, base, n, p, q) ==
  it = [k \in 0 .. n |-> IF k = 0 THEN base ELSE Body(p, q, it[k - 1], k)]

Rounds(base, n, p, q) == CHOOSE it : IsRounds(it, base, n, p, q)

(* It is defined, stays where it started and is the result of its rounds.    *)
LEMMA RoundsStay ==
  ASSUME NEW S, NEW base \in S, NEW n \in Nat, NEW p, NEW q, StaysInRounds(S, n, p, q)
  PROVE  /\ Rounds(base, n, p, q) \in [0 .. n -> S]
         /\ IsRounds(Rounds(base, n, p, q), base, n, p, q)
<1> DEFINE G == [k \in 1 .. n |-> [s \in S |-> Body(p, q, s, k)]]
           rounds == Rounds(base, n, p, q)
<1>1. \A s \in S, k \in 1 .. n : Body(p, q, s, k) \in S
  BY DEF StaysInRounds
<1>2. G \in [1 .. n -> [S -> S]]
  BY <1>1
<1>3. PICK f : IsIteration(f, S, base, n, G)
  <2> HIDE DEF G
  <2> QED
    BY <1>2, IterationExists
<1>4. IsRounds(f, base, n, p, q)
  <2>1. ASSUME NEW k \in 0 .. n
        PROVE  f[k] = IF k = 0 THEN base ELSE Body(p, q, f[k - 1], k)
    <3>1. CASE k = 0
      BY <1>3, <3>1 DEF IsIteration
    <3>2. CASE k # 0
      <4>1. k \in 1 .. n /\ k - 1 \in 0 .. n
        BY <3>2
      <4>2. f[k - 1] \in S /\ f[k] = G[k][f[k - 1]]
        BY <1>3, <4>1 DEF IsIteration
      <4> QED
        BY <3>2, <4>1, <4>2
    <3> QED
      BY <3>1, <3>2
  <2>2. f = [k \in 0 .. n |-> f[k]]
    BY <1>3 DEF IsIteration
  <2> QED
    BY <2>1, <2>2 DEF IsRounds
<1>5. IsRounds(rounds, base, n, p, q)
  BY <1>4 DEF Rounds
<1>6. rounds[0] \in S /\ \A k \in 1 .. n : rounds[k - 1] \in S => rounds[k] \in S
  <2> HIDE DEF rounds
  <2>1. rounds[0] = base
    BY <1>5 DEF IsRounds
  <2>2. ASSUME NEW k \in 1 .. n, rounds[k - 1] \in S PROVE rounds[k] \in S
    <3>1. k \in 0 .. n /\ k # 0
      OBVIOUS
    <3>2. rounds[k] = Body(p, q, rounds[k - 1], k)
      BY <1>5, <3>1 DEF IsRounds
    <3> QED
      BY <1>1, <2>2, <3>2
  <2> QED
    BY <2>1, <2>2
<1>7. \A k \in 0 .. n : rounds[k] \in S
  <2> HIDE DEF rounds
  <2> QED
    BY <1>6, IterationStays
<1>8. DOMAIN rounds = 0 .. n /\ rounds = [k \in 0 .. n |-> rounds[k]]
  <2> HIDE DEF rounds
  <2> QED
    BY <1>5 DEF IsRounds
<1> QED
  BY <1>5, <1>7, <1>8

-----------------------------------------------------------------------------
(* Rounds that begin with some members of U, only add others, and are alike. *)
Grows(U, base, n, p, q) ==
  /\ base \subseteq U
  /\ \A T \in SUBSET U : /\ T \subseteq Body(p, q, T, 0) /\ Body(p, q, T, 0) \subseteq U
                         /\ \A k \in 1 .. n : Body(p, q, T, k) = Body(p, q, T, 0)

(* No chain of subsets of U has more than u steps.                           *)
Measured(U, u) ==
  \E size \in [SUBSET U -> 0 .. u] :
    \A S, T \in SUBSET U : S \subseteq T /\ S # T => size[S] < size[T]

Settled(T, U, base, p, q) ==
  T \subseteq U /\ base \subseteq T /\ Body(p, q, T, 0) = T

(* After u such rounds another one adds nothing.                             *)
LEMMA RoundsSettle ==
  ASSUME NEW U, NEW base, NEW n \in Nat, NEW u \in 0 .. n, Measured(U, u),
         NEW p, NEW q, Grows(U, base, n, p, q), NEW W, W = Rounds(base, n, p, q)[u]
  PROVE  Settled(W, U, base, p, q)
<1> DEFINE rounds == Rounds(base, n, p, q)
           more(T) == Body(p, q, T, 0)
<1>1. PICK size \in [SUBSET U -> 0 .. u] :
        \A S, T \in SUBSET U : S \subseteq T /\ S # T => size[S] < size[T]
  BY DEF Measured
<1>2. StaysInRounds(SUBSET U, n, p, q)
  BY DEF Grows, StaysInRounds
<1>3. rounds \in [0 .. n -> SUBSET U] /\ IsRounds(rounds, base, n, p, q)
  <2>1. base \in SUBSET U
    BY DEF Grows
  <2> QED
    BY <1>2, <2>1, RoundsStay
<1>4. rounds[0] = base /\ \A k \in 0 .. n : k + 1 <= n => rounds[k + 1] = more(rounds[k])
  <2> HIDE DEF rounds
  <2>1. rounds[0] = base
    BY <1>3 DEF IsRounds
  <2>2. ASSUME NEW k \in 0 .. n, k + 1 <= n PROVE rounds[k + 1] = more(rounds[k])
    <3>1. k + 1 \in 0 .. n /\ k + 1 # 0 /\ (k + 1) - 1 = k /\ k + 1 \in 1 .. n
      BY <2>2
    <3>2. rounds[k + 1] = Body(p, q, rounds[k], k + 1)
      BY <1>3, <3>1 DEF IsRounds
    <3>3. rounds[k] \in SUBSET U
      BY <1>3
    <3> QED
      BY <3>1, <3>2, <3>3 DEF Grows
  <2> QED
    BY <2>1, <2>2
<1> HIDE DEF rounds
<1>5. \A k \in 0 .. n : rounds[k] \in SUBSET U /\ size[rounds[k]] \in 0 .. u
  BY <1>1, <1>3
<1> DEFINE I == {k \in Nat : k <= n =>
                   base \subseteq rounds[k] /\ (more(rounds[k]) = rounds[k] \/ size[rounds[k]] >= k)}
<1>6. 0 \in I
  BY <1>1, <1>4, <1>5
<1>7. ASSUME NEW k \in I PROVE k + 1 \in I
  <2>1. SUFFICES ASSUME k + 1 <= n
                 PROVE  /\ base \subseteq rounds[k + 1]
                        /\ more(rounds[k + 1]) = rounds[k + 1] \/ size[rounds[k + 1]] >= k + 1
    OBVIOUS
  <2>2. k \in 0 .. n /\ k + 1 \in 0 .. n
    BY <1>1, <2>1
  <2>3. rounds[k + 1] = more(rounds[k]) /\ rounds[k] \subseteq rounds[k + 1]
    BY <1>4, <1>5, <2>1, <2>2 DEF Grows
  <2>4. base \subseteq rounds[k]
    BY <2>2
  <2>5. CASE rounds[k + 1] = rounds[k]
    BY <2>3, <2>4, <2>5
  <2>6. CASE rounds[k + 1] # rounds[k]
    <3>1. size[rounds[k]] >= k
      BY <2>2, <2>3, <2>6
    <3>2. size[rounds[k]] < size[rounds[k + 1]]
      BY <1>1, <1>5, <2>2, <2>3, <2>6
    <3>3. size[rounds[k]] \in 0 .. u /\ size[rounds[k + 1]] \in 0 .. u
      BY <1>5, <2>2
    <3> QED
      BY <2>3, <2>4, <3>1, <3>2, <3>3
  <2> QED
    BY <2>5, <2>6
<1>8. u \in I
  <2>1. I \in SUBSET Nat
    OBVIOUS
  <2> HIDE DEF I
  <2>2. I = Nat
    BY <1>6, <1>7, <2>1, InductiveSet
  <2> QED
    BY <1>1, <2>2
<1>9. base \subseteq rounds[u] /\ (more(rounds[u]) = rounds[u] \/ size[rounds[u]] >= u)
  BY <1>1, <1>8
<1>10. rounds[u] \in SUBSET U
  BY <1>5
<1>11. more(rounds[u]) = rounds[u]
  <2>1. SUFFICES ASSUME more(rounds[u]) # rounds[u] PROVE FALSE
    OBVIOUS
  <2>2. more(rounds[u]) \in SUBSET U /\ rounds[u] \subseteq more(rounds[u])
    BY <1>10 DEF Grows
  <2> HIDE DEF more
  <2>3. size[rounds[u]] < size[more(rounds[u])]
    BY <1>1, <1>10, <2>1, <2>2
  <2>4. size[more(rounds[u])] \in 0 .. u /\ size[rounds[u]] \in 0 .. u
    BY <1>1, <1>10, <2>2
  <2> QED
    BY <1>9, <2>1, <2>3, <2>4
<1> QED
  BY <1>9, <1>10, <1>11 DEF rounds, Settled

(* Rounds that begin inside T and do not lead out of it. *)
Keeps(T, base, n, p, q) ==
  base \subseteq T /\ \A X \in SUBSET T : \A k \in 1 .. n : Body(p, q, X, k) \subseteq T

Within(X, T) == X \subseteq T

LEMMA RoundsWithin ==
  ASSUME NEW T, NEW base, NEW n \in Nat, NEW u \in 0 .. n,
         NEW p, NEW q, Keeps(T, base, n, p, q), NEW W, W = Rounds(base, n, p, q)[u]
  PROVE  Within(W, T)
<1>1. base \in SUBSET T /\ StaysInRounds(SUBSET T, n, p, q)
  BY DEF Keeps, StaysInRounds
<1>2. Rounds(base, n, p, q) \in [0 .. n -> SUBSET T]
  BY <1>1, RoundsStay
<1> QED
  BY <1>2 DEF Within
=============================================================================
