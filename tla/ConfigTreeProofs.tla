-------------------------- MODULE ConfigTreeProofs --------------------------
(***************************************************************************)
(* For every set of identities, labels and values, the abstract tree stays *)
(* a rooted, ordered tree.  The three invariants are inductive only        *)
(* together: that what remains after Prune still hangs under the root      *)
(* needs Rooted of the tree before, and that parent stays a function into  *)
(* live needs the subtrees taken away to be whole.                         *)
(***************************************************************************)
EXTENDS ConfigTree, TLAPS

(* TypeOK by what it is about: the links, and what the nodes carry. *)
Links ==
  /\ live \in SUBSET Node
  /\ Root \in live
  /\ parent \in [Inner -> live]
  /\ older \in SUBSET (Inner \X Inner)

Contents ==
  /\ label \in [Inner -> Label]
  /\ value \in [live -> Value \cup {NoValue}]

Structure == Links /\ SiblingsInLine /\ Rooted

-----------------------------------------------------------------------------
(* The step Write, Prune and Store have in common: a part of the tree that   *)
(* is closed under parent is kept, and grounded new nodes are added.         *)
LEMMA RegrownLinks ==
  ASSUME Links,
         NEW keep \in SUBSET live, Root \in keep,
         \A n \in keep \ {Root} : parent[n] \in keep,
         NEW X \in SUBSET Free, NEW par \in [X -> keep \cup X],
         Regrown(keep, X, par)
  PROVE  Links'
<1>1. live' \in SUBSET Node /\ Root \in live'
  BY NodeAssumption DEF Regrown, Links, Free
<1>2. parent' \in [Inner' -> live']
  BY DEF Regrown, Links, Free, Inner
<1>3. older' \in SUBSET (Inner' \X Inner')
  <2>1. keep \ {Root} \subseteq Inner' /\ X \subseteq Inner'
    BY DEF Regrown, Links, Free, Inner
  <2>2. \A e \in older : e \in Inner \X Inner
    BY DEF Links
  <2>3. ASSUME NEW e \in older, e[1] \in keep, e[2] \in keep
        PROVE  e \in Inner' \X Inner'
    BY <2>1, <2>2, <2>3 DEF Inner
  <2>4. (keep \ {Root}) \X X \subseteq Inner' \X Inner' /\ X \X X \subseteq Inner' \X Inner'
    BY <2>1
  <2> QED BY <2>3, <2>4 DEF Regrown
<1> QED BY <1>1, <1>2, <1>3 DEF Links

(* New nodes behind the old siblings, among themselves in the order of their *)
(* numbers: the line stays a line, whatever became of the other links.       *)
LEMMA AppendedInLine ==
  ASSUME SiblingsInLine,
         NEW Old \in SUBSET Inner, NEW X \in SUBSET Nat, NEW par,
         Old \cap X = {}, Inner' = Old \cup X,
         \A m, n \in Old : parent'[m] = parent'[n] <=> parent[m] = parent[n],
         \A m \in Old, n \in X : parent'[m] = parent'[n] <=> parent[m] = par[n],
         \A n \in X : parent'[n] = par[n],
         \A m, n : <<m, n>> \in older' <=>
                     \/ m \in Old /\ n \in Old /\ <<m, n>> \in older
                     \/ m \in Old /\ n \in X /\ parent[m] = par[n]
                     \/ m \in X /\ n \in X /\ par[m] = par[n] /\ m < n
  PROVE  SiblingsInLine'
<1>1. ASSUME NEW m \in Inner', NEW n \in Inner', <<m, n>> \in older'
      PROVE  m # n /\ parent'[m] = parent'[n]
  <2>1. CASE m \in Old /\ n \in Old /\ <<m, n>> \in older
    <3>1. m # n /\ parent[m] = parent[n]
      BY <2>1 DEF SiblingsInLine
    <3> QED BY <2>1, <3>1
  <2>2. CASE m \in Old /\ n \in X /\ parent[m] = par[n]
    BY <2>2
  <2>3. CASE m \in X /\ n \in X /\ par[m] = par[n] /\ m < n
    BY <2>3
  <2> QED BY <1>1, <2>1, <2>2, <2>3
<1>2. ASSUME NEW m \in Inner', NEW n \in Inner', m # n, parent'[m] = parent'[n]
      PROVE  <<m, n>> \in older' <=> <<n, m>> \notin older'
  <2>1. CASE m \in Old /\ n \in Old
    BY <1>2, <2>1 DEF SiblingsInLine
  <2>2. CASE m \in Old /\ n \in X
    BY <1>2, <2>2
  <2>3. CASE m \in X /\ n \in Old
    BY <1>2, <2>3
  <2>4. CASE m \in X /\ n \in X
    BY <1>2, <2>4
  <2> QED BY <2>1, <2>2, <2>3, <2>4
<1>3. ASSUME NEW k \in Inner', NEW m \in Inner', NEW n \in Inner',
             <<k, m>> \in older', <<m, n>> \in older'
      PROVE  <<k, n>> \in older'
  <2>1. CASE n \in Old
    <3>1. k \in Old /\ m \in Old /\ <<k, m>> \in older /\ <<m, n>> \in older
      BY <1>3, <2>1
    <3>2. <<k, n>> \in older
      BY <2>1, <3>1 DEF SiblingsInLine
    <3> QED BY <2>1, <3>1, <3>2
  <2>2. CASE n \in X /\ k \in Old
    <3>1. parent'[k] = parent'[n]
      BY <1>1, <1>3
    <3> QED BY <2>2, <3>1
  <2>3. CASE n \in X /\ k \in X
    BY <1>3, <2>3
  <2> QED BY <2>1, <2>2, <2>3
<1> QED BY ONLY <1>1, <1>2, <1>3 DEF SiblingsInLine

(* Regrown in particular keeps the line: it only forgets nodes and appends.  *)
LEMMA RegrownInLine ==
  ASSUME Links, SiblingsInLine,
         NEW keep \in SUBSET live, Root \in keep,
         NEW X \in SUBSET Free, NEW par \in [X -> keep \cup X],
         Regrown(keep, X, par)
  PROVE  SiblingsInLine'
<1> DEFINE Old == keep \ {Root}
<1>1. Inner' = Old \cup X /\ Old \subseteq Inner /\ Old \cap X = {} /\ X \subseteq Nat
  BY NodeAssumption DEF Regrown, Links, Free, Inner
<1>2. /\ \A n \in Old : parent'[n] = parent[n]
      /\ \A n \in X : parent'[n] = par[n]
  BY <1>1 DEF Regrown, Free, Links
<1>3. \A m, n : <<m, n>> \in older' <=>
                  \/ m \in Old /\ n \in Old /\ <<m, n>> \in older
                  \/ m \in Old /\ n \in X /\ parent[m] = par[n]
                  \/ m \in X /\ n \in X /\ par[m] = par[n] /\ m < n
  <2>1. \A m, n : <<m, n>> \in older => m \in Inner /\ n \in Inner
    BY DEF Links
  <2> QED BY <1>1, <2>1 DEF Regrown, Inner
<1> HIDE DEF Old
<1>4. \A m, n \in Old : parent'[m] = parent'[n] <=> parent[m] = parent[n]
  BY <1>2
<1>5. \A m \in Old, n \in X : parent'[m] = parent'[n] <=> parent[m] = par[n]
  BY <1>2
<1>6. \A n \in X : parent'[n] = par[n]
  BY <1>2
<1>7. Old \in SUBSET Inner /\ X \in SUBSET Nat /\ SiblingsInLine
  BY <1>1
<1> QED BY <1>1, <1>3, <1>4, <1>5, <1>6, <1>7, AppendedInLine

(* What is kept is closed under parent and the new nodes are grounded, so    *)
(* that a set with the root that is closed downwards holds them all.         *)
LEMMA RegrownRooted ==
  ASSUME Links, Rooted,
         NEW keep \in SUBSET live, Root \in keep,
         \A n \in keep \ {Root} : parent[n] \in keep,
         NEW X \in SUBSET Free, NEW par \in [X -> keep \cup X],
         Grounded(X, par), Regrown(keep, X, par)
  PROVE  Rooted'
<1> SUFFICES ASSUME NEW S \in SUBSET live', Root \in S,
                    \A n \in Inner' : parent'[n] \in S => n \in S
             PROVE  S = live'
  BY DEF Rooted
<1>1. keep \ {Root} \subseteq Inner' /\ X \subseteq Inner' /\ keep \cap X = {} /\ live' = keep \cup X
  BY DEF Regrown, Links, Free, Inner
<1>2. /\ \A n \in keep \ {Root} : parent'[n] = parent[n]
      /\ \A n \in X : parent'[n] = par[n]
  BY <1>1 DEF Regrown, Links, Free
<1>3. keep \subseteq S
  <2> DEFINE Q == (S \cap keep) \cup (live \ keep)
  <2>1. Q \in SUBSET live /\ Root \in Q
    OBVIOUS
  <2>2. ASSUME NEW n \in Inner, parent[n] \in Q
        PROVE  n \in Q
    <3>1. CASE n \in keep
      <4>1. n \in keep \ {Root} /\ parent[n] \in keep
        BY <3>1 DEF Inner
      <4> QED BY <1>1, <1>2, <2>2, <4>1
    <3> QED BY <3>1 DEF Inner
  <2>3. Q = live
    BY <2>1, <2>2 DEF Rooted
  <2> QED BY <2>3
<1>4. X \subseteq S
  <2> SUFFICES ASSUME X \ S # {}
               PROVE  FALSE
    OBVIOUS
  <2>1. PICK x \in X \ S : par[x] \notin X \ S
    BY DEF Grounded
  <2>2. par[x] \in S
    BY <1>3, <2>1
  <2> QED BY <1>1, <1>2, <2>1, <2>2
<1> QED BY <1>1, <1>3, <1>4

(* The three together.                                                       *)
LEMMA RegrownStructure ==
  ASSUME Structure,
         NEW keep \in SUBSET live, Root \in keep,
         \A n \in keep \ {Root} : parent[n] \in keep,
         NEW X \in SUBSET Free, NEW par \in [X -> keep \cup X],
         Grounded(X, par), Regrown(keep, X, par)
  PROVE  Structure'
BY RegrownLinks, RegrownInLine, RegrownRooted DEF Structure

-----------------------------------------------------------------------------
(* Insert: the new sibling takes a place of its own in the line.             *)
LEMMA InsertStructure ==
  ASSUME Structure, NEW n \in Inner, NEW x \in Free, NEW before \in BOOLEAN,
         InsertBeside(n, x, before)
  PROVE  Structure'
<1> DEFINE ahead == {m \in Inner : <<m, n>> \in older \/ (~before /\ m = n)}
           behind == {m \in Inner : parent[m] = parent[n]} \ ahead
<1>1. /\ live' = live \cup {x} /\ x \in Node /\ x \notin live /\ x # Root
      /\ Inner' = Inner \cup {x}
      /\ x \notin Inner
  BY DEF InsertBeside, Structure, Links, Free, Inner
<1>2. /\ \A m \in Inner : parent'[m] = parent[m]
      /\ parent'[x] = parent[n]
      /\ parent[n] \in live
  BY <1>1 DEF InsertBeside, Structure, Links
<1>3. older' = older \cup (ahead \X {x}) \cup ({x} \X behind)
  BY DEF InsertBeside
<1>4. Links'
  <2>1. parent' \in [Inner' -> live']
    BY <1>1, <1>2 DEF InsertBeside, Structure, Links
  <2>2. older' \in SUBSET (Inner' \X Inner')
    BY <1>1, <1>3 DEF Structure, Links
  <2> QED BY <1>1, <2>1, <2>2 DEF Structure, Links
<1>5. SiblingsInLine'
  <2>1. ASSUME NEW p, NEW q
        PROVE  <<p, q>> \in older' <=> \/ <<p, q>> \in older
                                       \/ p \in ahead /\ q = x
                                       \/ p = x /\ q \in behind
    BY <1>3
  <2>2. \A p, q : <<p, q>> \in older => p \in Inner /\ q \in Inner
    BY DEF Structure, Links
  <2>3. \A m \in ahead : m \in Inner /\ parent[m] = parent[n]
    BY DEF Structure, SiblingsInLine
  <2>4. \A m \in behind : m \in Inner /\ parent[m] = parent[n] /\ m \notin ahead
    OBVIOUS
  <2>5. \A m \in Inner : parent[m] = parent[n] => m \in ahead \/ m \in behind
    OBVIOUS
  <2>6. \A k \in Inner, m \in ahead : <<k, m>> \in older => k \in ahead
    BY DEF Structure, SiblingsInLine
  <2>7. \A k \in behind, m \in Inner : <<k, m>> \in older => m \in behind
    <3> SUFFICES ASSUME NEW k \in behind, NEW m \in Inner, <<k, m>> \in older
                 PROVE  m \in behind
      OBVIOUS
    <3>1. parent[m] = parent[n]
      BY <2>4 DEF Structure, SiblingsInLine
    <3>2. m \in ahead => k \in ahead
      BY <2>4, <2>6
    <3> QED BY <2>4, <2>5, <3>1, <3>2
  <2>8. \A k \in ahead, m \in behind : <<k, m>> \in older
    <3> SUFFICES ASSUME NEW k \in ahead, NEW m \in behind
                 PROVE  <<k, m>> \in older
      OBVIOUS
    <3>1. k # m /\ parent[k] = parent[m] /\ k \in Inner /\ m \in Inner
      BY <2>3, <2>4
    <3>2. <<m, k>> \notin older
      BY <2>4, <2>6, <3>1
    <3> QED BY <3>1, <3>2 DEF Structure, SiblingsInLine
  <2> HIDE DEF ahead, behind
  <2>9. ASSUME NEW p \in Inner', NEW q \in Inner', <<p, q>> \in older'
        PROVE  p # q /\ parent'[p] = parent'[q]
    <3>1. CASE <<p, q>> \in older
      BY <1>2, <2>2, <3>1 DEF Structure, SiblingsInLine
    <3>2. CASE p \in ahead /\ q = x
      BY <1>1, <1>2, <2>3, <3>2
    <3>3. CASE p = x /\ q \in behind
      BY <1>1, <1>2, <2>4, <3>3
    <3> QED BY <2>1, <2>9, <3>1, <3>2, <3>3
  <2>10. ASSUME NEW p \in Inner', NEW q \in Inner', p # q, parent'[p] = parent'[q]
         PROVE  <<p, q>> \in older' <=> <<q, p>> \notin older'
    <3>1. CASE p \in Inner /\ q \in Inner
      BY <1>1, <1>2, <2>1, <2>10, <3>1 DEF Structure, SiblingsInLine
    <3>2. CASE p = x
      BY <1>1, <1>2, <2>1, <2>2, <2>3, <2>4, <2>5, <2>10, <3>2
    <3>3. CASE q = x
      BY <1>1, <1>2, <2>1, <2>2, <2>3, <2>4, <2>5, <2>10, <3>3
    <3> QED BY <1>1, <3>1, <3>2, <3>3
  <2>11. ASSUME NEW k \in Inner', NEW p \in Inner', NEW q \in Inner',
                <<k, p>> \in older', <<p, q>> \in older'
         PROVE  <<k, q>> \in older'
    <3>1. CASE p = x
      BY <1>1, <2>1, <2>2, <2>3, <2>4, <2>8, <2>11, <3>1
    <3>2. CASE p # x /\ k = x
      BY <1>1, <2>1, <2>2, <2>3, <2>4, <2>7, <2>11, <3>2
    <3>3. CASE p # x /\ q = x
      BY <1>1, <2>1, <2>2, <2>3, <2>4, <2>6, <2>11, <3>3
    <3>4. CASE p # x /\ k # x /\ q # x
      BY <1>1, <2>1, <2>11, <3>4 DEF Structure, SiblingsInLine
    <3> QED BY <3>1, <3>2, <3>3, <3>4
  <2> QED BY <2>9, <2>10, <2>11 DEF SiblingsInLine
<1>6. Rooted'
  <2> SUFFICES ASSUME NEW S \in SUBSET live', Root \in S,
                      \A m \in Inner' : parent'[m] \in S => m \in S
               PROVE  S = live'
    BY DEF Rooted
  <2>1. \A m \in Inner : parent[m] \in S \ {x} => m \in S \ {x}
    BY <1>1, <1>2
  <2>2. S \ {x} = live
    BY <1>1, <2>1 DEF Structure, Rooted
  <2>3. x \in S
    BY <1>1, <1>2, <2>2
  <2> QED BY <1>1, <2>2, <2>3
<1> QED BY <1>4, <1>5, <1>6 DEF Structure

-----------------------------------------------------------------------------
(* Move.  The lemma names the sets and the function the action quantifies    *)
(* over.  U hangs below s, T below an existing d, X is what createPath made. *)
LEMMA MoveStructure ==
  ASSUME Structure,
         NEW s \in Inner, NEW d \in Node,
         NEW T \in SUBSET Inner, NEW U \in SUBSET Inner, NEW X \in SUBSET Free,
         HangsUnder(U, s), d # s, d \notin U, d \in live \cup X,
         IF d \in X THEN T = {} ELSE X = {} /\ HangsUnder(T, d),
         live' = (((live \ T) \ {s}) \cup U) \cup X,
         NEW par \in [X -> (live \ (U \cup {s})) \cup X],
         Grounded(X, par), \A x \in X : par[x] # d, Rehung(s, d, U, X, par)
  PROVE  Structure'
<1> DEFINE Old == (live' \ X) \ {Root}
<1>1. /\ X \cap live = {} /\ X \subseteq Nat /\ X \subseteq Node /\ Root \notin X
      /\ s # Root /\ s \in live /\ s \notin U
      /\ Root \in live' /\ live' \in SUBSET Node
      /\ Inner' = Old \cup X /\ Old \subseteq Inner /\ Old \cap X = {}
      /\ d \in live'
  <2>1. d \in X \/ (d \in live /\ d \notin T)
    BY DEF HangsUnder
  <2> QED BY <2>1, NodeAssumption DEF Structure, Links, Free, Inner, HangsUnder
<1>2. \A n \in Inner : n \in U <=> parent[n] \in U \cup {s}
  BY DEF HangsUnder
<1>3. \A n \in Inner : parent[n] \in T => n \in T
  BY DEF HangsUnder
<1>4. ASSUME NEW n \in Old
      PROVE  /\ parent[n] = s => n \in U /\ parent'[n] = d
             /\ parent[n] # s => parent'[n] = parent[n]
             /\ parent[n] # s => parent[n] \in live'
  <2>1. parent[n] = s => n \in U
    BY <1>1, <1>2
  <2>2. parent'[n] = IF n \in U /\ parent[n] = s THEN d ELSE parent[n]
    BY <1>1 DEF Rehung
  <2>3. ASSUME parent[n] # s PROVE parent[n] \in live'
    <3>1. parent[n] \in live
      BY <1>1 DEF Structure, Links
    <3>2. CASE n \in U
      BY <1>1, <1>2, <2>3, <3>2
    <3>3. CASE n \notin U
      <4>1. n \notin T
        BY <1>1, <3>3
      <4> QED BY <1>1, <1>3, <2>3, <3>1, <4>1 DEF HangsUnder
    <3> QED BY <3>2, <3>3
  <2> QED BY <2>1, <2>2, <2>3
<1>5. ASSUME NEW x \in X
      PROVE  /\ parent'[x] = par[x] /\ par[x] # d /\ par[x] # s /\ par[x] \notin U
             /\ par[x] \in live'
  <2>1. T = {}
    OBVIOUS
  <2>2. par[x] \in (live \ (U \cup {s})) \cup X /\ par[x] # d
    OBVIOUS
  <2>3. x \in live' \ {Root}
    BY <1>1
  <2>4. X \cap U = {} /\ s \notin X
    BY <1>1 DEF Inner
  <2>5. parent'[x] = par[x]
    BY <2>3, <2>4 DEF Rehung
  <2>6. live \ (U \cup {s}) \subseteq live' /\ X \subseteq live'
    BY <2>1
  <2> QED BY <2>2, <2>4, <2>5, <2>6
(* No old node but the children of s hangs under d now. *)
<1>6. ASSUME NEW n \in Old, parent[n] = d
      PROVE  FALSE
  <2>1. n \in Inner /\ parent[n] \in live
    BY <1>1 DEF Structure, Links
  <2>2. d \notin X /\ HangsUnder(T, d)
    BY <1>1, <1>6, <2>1
  <2>3. n \in T
    BY <1>6, <2>1, <2>2 DEF HangsUnder
  <2>4. n \in U
    BY <1>1, <2>3
  <2> QED BY <1>2, <1>6, <2>1, <2>4
<1>7. Links'
  <2>1. parent' \in [Inner' -> live']
    <3>1. \A n \in Inner' : parent'[n] \in live'
      BY <1>1, <1>4, <1>5
    <3>2. parent' = [n \in Inner' |-> parent'[n]]
      BY DEF Inner, Rehung
    <3> QED BY <3>1, <3>2
  <2>2. older' \in SUBSET (Inner' \X Inner')
    <3>1. ASSUME NEW e \in older, e[1] \in live', e[2] \in live'
          PROVE  e \in Inner' \X Inner'
      <4>1. e \in Inner \X Inner
        BY DEF Structure, Links
      <4> QED BY <3>1, <4>1 DEF Inner
    <3>2. Old \X X \subseteq Inner' \X Inner' /\ X \X X \subseteq Inner' \X Inner'
      BY <1>1
    <3> QED BY <3>1, <3>2 DEF Rehung
  <2> QED BY <1>1, <2>1, <2>2 DEF Links
<1>8. SiblingsInLine'
  <2>1. \A m, n : <<m, n>> \in older' <=>
                    \/ m \in Old /\ n \in Old /\ <<m, n>> \in older
                    \/ m \in Old /\ n \in X /\ parent[m] = par[n]
                    \/ m \in X /\ n \in X /\ par[m] = par[n] /\ m < n
    <3>1. \A m, n : <<m, n>> \in older => m \in Inner /\ n \in Inner
      BY DEF Structure, Links
    <3> QED BY <1>1, <3>1 DEF Inner, Rehung
  <2> HIDE DEF Old
  <2>2. ASSUME NEW m \in Old, NEW n \in Old
        PROVE  parent'[m] = parent'[n] <=> parent[m] = parent[n]
    <3>1. CASE parent[m] = s /\ parent[n] = s
      BY <1>4, <3>1
    <3>2. CASE parent[m] # s /\ parent[n] # s
      BY <1>4, <3>2
    <3>3. CASE parent[m] = s /\ parent[n] # s
      BY <1>4, <1>6, <3>3
    <3>4. CASE parent[m] # s /\ parent[n] = s
      BY <1>4, <1>6, <3>4
    <3> QED BY <3>1, <3>2, <3>3, <3>4
  <2>3. ASSUME NEW m \in Old, NEW n \in X
        PROVE  parent'[m] = parent'[n] <=> parent[m] = par[n]
    BY <1>4, <1>5
  <2>4. \A n \in X : parent'[n] = par[n]
    BY <1>5
  <2>5. Old \in SUBSET Inner /\ X \in SUBSET Nat /\ SiblingsInLine
    BY <1>1 DEF Structure
  <2> QED BY <1>1, <2>1, <2>2, <2>3, <2>4, <2>5, AppendedInLine
<1>9. Rooted'
  <2> SUFFICES ASSUME NEW S \in SUBSET live', Root \in S,
                      \A n \in Inner' : parent'[n] \in S => n \in S
               PROVE  S = live'
    BY DEF Rooted
  <2> HIDE DEF Old
  <2>1. live \ ((T \cup U) \cup {s}) \subseteq S
    <3> DEFINE Q == (S \cap live) \cup ((T \cup U) \cup {s})
    <3>1. Q \in SUBSET live /\ Root \in Q
      BY <1>1 DEF Inner
    <3>2. ASSUME NEW n \in Inner, parent[n] \in Q
          PROVE  n \in Q
      <4>1. CASE n \in T \/ n \in U \/ n = s
        BY <4>1
      <4>2. CASE n \notin T /\ n \notin U /\ n # s
        <5>1. n \in Old
          BY <1>1, <4>2 DEF Old, Inner
        <5>2. parent[n] # s /\ parent[n] \notin U /\ parent[n] \notin T
          BY <1>2, <1>3, <4>2
        <5>3. parent'[n] \in S
          BY <1>4, <3>2, <5>1, <5>2
        <5> QED BY <1>1, <5>1, <5>3
      <4> QED BY <4>1, <4>2
    <3>3. Q = live
      BY <3>1, <3>2 DEF Structure, Rooted
    <3> QED BY <3>3
  <2>2. X \subseteq S
    <3> SUFFICES ASSUME X \ S # {}
                 PROVE  FALSE
      OBVIOUS
    <3>1. PICK x \in X \ S : par[x] \notin X \ S
      BY DEF Grounded
    <3>2. T = {}
      OBVIOUS
    <3>3. par[x] \in S
      BY <2>1, <3>1, <3>2
    <3> QED BY <1>1, <1>5, <3>1, <3>3
  <2>3. d \in S
    BY <2>1, <2>2 DEF HangsUnder
  <2>4. U \subseteq S
    <3> DEFINE Q == (live \ U) \cup (S \cap U)
    <3>1. Q \in SUBSET live /\ Root \in Q
      BY <1>1 DEF Inner
    <3>2. ASSUME NEW n \in Inner, parent[n] \in Q
          PROVE  n \in Q
      <4>1. CASE n \in U
        <5>1. n \in Old
          BY <1>1, <4>1 DEF Old, Inner
        <5>2. parent[n] = s \/ parent[n] \in S
          BY <1>2, <3>2, <4>1
        <5> QED BY <1>1, <1>4, <2>3, <4>1, <5>1, <5>2
      <4> QED BY <4>1 DEF Inner
    <3>3. Q = live
      BY <3>1, <3>2 DEF Structure, Rooted
    <3> QED BY <3>3 DEF Inner
  <2> QED BY <2>1, <2>2, <2>4
<1> QED BY <1>7, <1>8, <1>9 DEF Structure

-----------------------------------------------------------------------------
(* The five kinds of step.  A step of Set, SetMultiple or DefineNode keeps   *)
(* the whole tree.                                                           *)
LEMMA WriteStep == Structure /\ Contents /\ Write => Structure' /\ Contents'
<1> SUFFICES ASSUME Structure, Contents, Write
             PROVE  Structure' /\ Contents'
  OBVIOUS
<1>1. PICK X \in SUBSET Free :
        /\ live' = live \cup X
        /\ \E par \in [X -> live \cup X] : Grounded(X, par) /\ Regrown(live, X, par)
        /\ Labelled(live, X)
        /\ \E N \in SUBSET (live \cup X), v \in Value :
             value' = [n \in live \cup X |-> CASE n \in N -> v
                                               [] n \in X \ N -> NoValue
                                               [] OTHER -> value[n]]
  BY DEF Write
<1>2. PICK par \in [X -> live \cup X] : Grounded(X, par) /\ Regrown(live, X, par)
  BY <1>1
<1>3. Structure'
  <2>1. live \in SUBSET live /\ Root \in live /\ \A n \in live \ {Root} : parent[n] \in live
    BY DEF Structure, Links, Inner
  <2> QED BY <1>2, <2>1, RegrownStructure
<1>4. label' \in [Inner' -> Label]
  BY <1>1 DEF Labelled, Contents, Inner
<1>5. value' \in [live' -> Value \cup {NoValue}]
  <2>1. PICK N \in SUBSET (live \cup X), v \in Value :
          value' = [n \in live \cup X |-> CASE n \in N -> v
                                            [] n \in X \ N -> NoValue
                                            [] OTHER -> value[n]]
    BY <1>1
  <2>2. \A n \in live \cup X : value'[n] \in Value \cup {NoValue}
    <3> SUFFICES ASSUME NEW n \in live \cup X
                 PROVE  value'[n] \in Value \cup {NoValue}
      OBVIOUS
    <3>1. CASE n \in N
      BY <2>1, <3>1
    <3>2. CASE n \in X \ N
      BY <2>1, <3>2
    <3>3. CASE n \notin N /\ n \notin X
      BY <2>1, <3>3 DEF Contents
    <3> QED BY <3>1, <3>2, <3>3
  <2> QED BY <1>1, <2>1, <2>2
<1> QED BY <1>3, <1>4, <1>5 DEF Contents

(* A step of Insert.                                                         *)
LEMMA InsertStep ==
  ASSUME Structure, Contents, NEW n \in Inner, NEW x \in Free, NEW before \in BOOLEAN,
         InsertBeside(n, x, before)
  PROVE  Structure' /\ Contents'
<1>1. Structure'
  BY InsertStructure
<1>2. live' = live \cup {x} /\ Labelled(live, {x})
  BY DEF InsertBeside
<1>3. label' \in [Inner' -> Label]
  BY <1>2 DEF Labelled, Contents, Inner
<1>4. value' \in [live' -> Value \cup {NoValue}]
  BY <1>2 DEF InsertBeside, Contents
<1> QED BY <1>1, <1>3, <1>4 DEF Contents

(* A step of Remove: what stays is closed under parent.                      *)
LEMMA PruneStep == Structure /\ Contents /\ Prune => Structure' /\ Contents'
<1> SUFFICES ASSUME Structure, Contents, Prune
             PROVE  Structure' /\ Contents'
  OBVIOUS
<1>1. PICK T \in SUBSET Inner :
        /\ live' = live \ T
        /\ \A n \in Inner : parent[n] \in T => n \in T
        /\ Regrown(live \ T, {}, [x \in {} |-> Root])
        /\ label' = [n \in Inner \ T |-> label[n]]
        /\ value' = [n \in live \ T |-> value[n]]
  BY DEF Prune
<1>2. Structure'
  <2> DEFINE keep == live \ T
             none == [x \in {} |-> Root]
  <2>1. keep \in SUBSET live /\ Root \in keep /\ \A n \in keep \ {Root} : parent[n] \in keep
    BY <1>1 DEF Structure, Links, Inner
  <2>2. {} \in SUBSET Free /\ none \in [{} -> keep \cup {}] /\ Grounded({}, none)
    BY DEF Grounded
  <2>3. Regrown(keep, {}, none)
    BY <1>1
  <2> HIDE DEF keep, none
  <2> QED BY <2>1, <2>2, <2>3, RegrownStructure
<1>3. Inner' = Inner \ T
  BY <1>1 DEF Inner
<1> QED BY <1>1, <1>2, <1>3 DEF Contents

(* A step of TextStore, Load or LoadFile: T is whole, so what stays is       *)
(* closed under parent, and the parsed nodes are grounded.                   *)
LEMMA StoreStep == Structure /\ Contents /\ Store => Structure' /\ Contents'
<1> SUFFICES ASSUME Structure, Contents, Store
             PROVE  Structure' /\ Contents'
  OBVIOUS
<1>1. PICK T \in SUBSET Inner, X \in SUBSET Free :
        /\ live' = (live \ T) \cup X
        /\ T = {} \/ \E d \in live : HangsUnder(T, d)
        /\ \E par \in [X -> (live \ T) \cup X] : Grounded(X, par) /\ Regrown(live \ T, X, par)
        /\ Labelled(live \ T, X)
        /\ \E val \in [X -> Value \cup {NoValue}] :
             value' = [n \in (live \ T) \cup X |-> IF n \in X THEN val[n] ELSE value[n]]
  BY DEF Store
<1>2. Structure'
  <2> DEFINE keep == live \ T
  <2>1. PICK par \in [X -> keep \cup X] : Grounded(X, par) /\ Regrown(keep, X, par)
    BY <1>1
  <2>2. \A n \in Inner : parent[n] \in T => n \in T
    BY <1>1 DEF HangsUnder
  <2>3. keep \in SUBSET live /\ Root \in keep /\ \A n \in keep \ {Root} : parent[n] \in keep
    BY <1>1, <2>2 DEF Structure, Links, Inner
  <2> HIDE DEF keep
  <2> QED BY <2>1, <2>3, RegrownStructure
<1>3. label' \in [Inner' -> Label]
  BY <1>1 DEF Labelled, Contents, Inner
<1>4. value' \in [live' -> Value \cup {NoValue}]
  BY <1>1 DEF Contents
<1> QED BY <1>2, <1>3, <1>4 DEF Contents

(* A step of Move.                                                           *)
LEMMA MoveStep ==
  ASSUME Structure, Contents, NEW s \in Inner, NEW d \in Node, Move(s, d)
  PROVE  Structure' /\ Contents'
<1>1. PICK T \in SUBSET Inner, U \in SUBSET Inner, X \in SUBSET Free :
        /\ HangsUnder(U, s)
        /\ d # s /\ d \notin U
        /\ d \in live \cup X
        /\ X # {} => d \in X
        /\ IF d \in X THEN T = {} ELSE HangsUnder(T, d)
        /\ live' = (((live \ T) \ {s}) \cup U) \cup X
        /\ \E par \in [X -> (live \ (U \cup {s})) \cup X] :
             Grounded(X, par) /\ (\A x \in X : par[x] # d) /\ Rehung(s, d, U, X, par)
        /\ Labelled(live' \ X, X)
        /\ value' = [n \in live' |-> CASE n = d -> value[s]
                                       [] n \in X \ {d} -> NoValue
                                       [] OTHER -> value[n]]
  BY DEF Move
<1>2. PICK par \in [X -> (live \ (U \cup {s})) \cup X] :
        Grounded(X, par) /\ (\A x \in X : par[x] # d) /\ Rehung(s, d, U, X, par)
  BY <1>1
<1>3. Structure'
  <2>1. IF d \in X THEN T = {} ELSE X = {} /\ HangsUnder(T, d)
    BY <1>1
  <2> QED BY <1>1, <1>2, <2>1, MoveStructure
<1>4. X \subseteq live' /\ live' \ X \subseteq live
  BY <1>1 DEF Inner
<1>5. label' \in [Inner' -> Label]
  BY <1>1, <1>4 DEF Labelled, Contents, Inner
<1>6. value' \in [live' -> Value \cup {NoValue}]
  <2>1. \A n \in live' : value'[n] \in Value \cup {NoValue}
    <3> SUFFICES ASSUME NEW n \in live'
                 PROVE  value'[n] \in Value \cup {NoValue}
      OBVIOUS
    <3>1. CASE n = d
      <4>1. s \in live
        BY DEF Inner
      <4> QED BY <1>1, <3>1, <4>1 DEF Contents
    <3>2. CASE n \in X \ {d}
      BY <1>1, <3>2
    <3>3. CASE n # d /\ n \notin X
      BY <1>1, <1>4, <3>3 DEF Contents
    <3> QED BY <3>1, <3>2, <3>3
  <2> QED BY <1>1, <2>1
<1> QED BY <1>3, <1>5, <1>6 DEF Contents

-----------------------------------------------------------------------------
(* Links and Contents are TypeOK in two parts: only the former is needed     *)
(* for the shape of the tree.                                                *)
LEMMA TypeOKSplit == TypeOK <=> Links /\ Contents
BY DEF TypeOK, Links, Contents

(* The tree of New, the root alone.                                          *)
LEMMA InitialTree == Init => Structure /\ Contents
<1> SUFFICES ASSUME Init
             PROVE  Structure /\ Contents
  OBVIOUS
<1>1. Inner = {}
  BY DEF Init, Inner
<1>2. Links /\ Contents
  BY <1>1, NodeAssumption DEF Init, Links, Contents
<1>3. SiblingsInLine
  BY <1>1 DEF SiblingsInLine
<1>4. Rooted
  BY DEF Init, Rooted
<1> QED BY <1>2, <1>3, <1>4 DEF Structure

(* Every step, a stuttering one included, keeps the inductive invariant.     *)
LEMMA NextTree == Structure /\ Contents /\ [Next]_doc => Structure' /\ Contents'
<1> SUFFICES ASSUME Structure, Contents, [Next]_doc
             PROVE  Structure' /\ Contents'
  OBVIOUS
<1>1. CASE Write
  BY <1>1, WriteStep
<1>2. CASE \E n \in Inner, x \in Free, before \in BOOLEAN : InsertBeside(n, x, before)
  BY <1>2, InsertStep
<1>3. CASE Prune
  BY <1>3, PruneStep
<1>4. CASE Store
  BY <1>4, StoreStep
<1>5. CASE \E s \in Inner, d \in Node : Move(s, d)
  BY <1>5, MoveStep
<1>6. CASE UNCHANGED doc
  BY <1>6 DEF doc, Structure, Contents, Links, SiblingsInLine, Rooted, Inner
<1> QED BY <1>1, <1>2, <1>3, <1>4, <1>5, <1>6 DEF Next

(* Structure and Contents are the inductive invariant.                       *)
LEMMA TreeInvariant == Spec => [](Structure /\ Contents)
BY InitialTree, NextTree, PTL DEF Spec

(* The tree has its type in every reachable state: every node but the root   *)
(* hangs under a node of the tree, whatever Remove, TextStore and Move took  *)
(* away.                                                                     *)
THEOREM TypeCorrect == Spec => []TypeOK
<1>1. Structure /\ Contents => TypeOK
  BY TypeOKSplit DEF Structure
<1> QED BY <1>1, TreeInvariant, PTL

(* The children of every node stand in one line in every reachable state.    *)
THEOREM LineCorrect == Spec => []SiblingsInLine
<1>1. Structure /\ Contents => SiblingsInLine
  BY DEF Structure
<1> QED BY <1>1, TreeInvariant, PTL

(* No call ever cuts a node of the tree off from the root.                   *)
THEOREM RootedCorrect == Spec => []Rooted
<1>1. Structure /\ Contents => Rooted
  BY DEF Structure
<1> QED BY <1>1, TreeInvariant, PTL

(* No node is, through any number of parents, its own ancestor: a set of     *)
(* nodes without the root has a member that hangs under a node outside it,   *)
(* so that buildPath and isDescendant, which climb Parent, come to an end.   *)
THEOREM Acyclic ==
  Spec => [](\A S \in SUBSET Inner : S # {} => \E n \in S : parent[n] \notin S)
<1>1. Structure => \A S \in SUBSET Inner : S # {} => \E n \in S : parent[n] \notin S
  <2> SUFFICES ASSUME Structure, NEW S \in SUBSET Inner, \A n \in S : parent[n] \in S
               PROVE  S = {}
    OBVIOUS
  <2>1. \A n \in Inner : parent[n] \in live \ S => n \in live \ S
    BY DEF Inner
  <2>2. live \ S = live
    BY <2>1 DEF Structure, Links, Rooted, Inner
  <2> QED BY <2>2 DEF Inner
<1> QED BY <1>1, TreeInvariant, PTL

-----------------------------------------------------------------------------
(* What each kind of step does to the order: of the pairs that were there,   *)
(* it forgets at most those with a node that left the tree.                  *)
LEMMA OrderKept ==
  ASSUME Links, [Next]_doc, NEW m \in Inner \cap Inner', NEW n \in Inner \cap Inner',
         <<m, n>> \in older
  PROVE  <<m, n>> \in older'
<1>1. ASSUME NEW keep, NEW X \in SUBSET Free, NEW par, Regrown(keep, X, par)
      PROVE  <<m, n>> \in older'
  <2>1. m \in keep /\ n \in keep
    BY <1>1 DEF Regrown, Free, Inner
  <2>2. <<m, n>> \in {e \in older : e[1] \in keep /\ e[2] \in keep}
    BY <2>1
  <2> QED BY <1>1, <2>2 DEF Regrown
<1>2. CASE Write
  BY <1>1, <1>2 DEF Write
<1>3. CASE \E k \in Inner, x \in Free, before \in BOOLEAN : InsertBeside(k, x, before)
  BY <1>3 DEF InsertBeside
<1>4. CASE Prune
  <2>1. \E keep : Regrown(keep, {}, [x \in {} |-> Root])
    BY <1>4 DEF Prune
  <2> QED BY <1>1, <2>1
<1>5. CASE Store
  <2>1. \E T \in SUBSET Inner, X \in SUBSET Free : \E par : Regrown(live \ T, X, par)
    BY <1>5 DEF Store
  <2> QED BY <1>1, <2>1
<1>6. CASE \E s \in Inner, d \in Node : Move(s, d)
  <2>1. PICK s \in Inner, d \in Node, U \in SUBSET Inner, X \in SUBSET Free :
          \E par : Rehung(s, d, U, X, par)
    BY <1>6 DEF Move
  <2>2. <<m, n>> \in {e \in older : e[1] \in live' /\ e[2] \in live'}
    BY DEF Inner
  <2> QED BY <2>1, <2>2 DEF Rehung
<1>7. CASE UNCHANGED doc
  BY <1>7 DEF doc
<1> QED BY <1>2, <1>3, <1>4, <1>5, <1>6, <1>7 DEF Next

(* No call ever changes the order of two siblings that stay siblings.        *)
THEOREM OrderCorrect == Spec => OrderStable
<1>1. Links /\ [Next]_doc =>
        [\A m, n \in Inner \cap Inner' :
           parent[m] = parent[n] /\ <<m, n>> \in older /\ parent'[m] = parent'[n]
             => <<m, n>> \in older']_doc
  BY OrderKept
<1>2. Structure /\ Contents => Links
  BY DEF Structure
<1> QED BY <1>1, <1>2, TreeInvariant, PTL DEF Spec, OrderStable
=============================================================================
