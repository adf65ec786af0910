--------------------------- MODULE FileSyncProofs ---------------------------
(***************************************************************************)
(* Proofs about FileSync, for any number of handles, files, keys and       *)
(* values, texts of any length and any number of changes.                  *)
(*                                                                         *)
(* First the laws of the keyed lens its files are read and written with    *)
(* (KeyedLens): what put writes get reads back, and a text that was not    *)
(* edited is written as it was.  Then the handles, which save through it.  *)
(***************************************************************************)
EXTENDS FileSync, FiniteSetTheorems, SequenceTheorems, FunctionTheorems, WellFoundedInduction, TLAPS

(* A prefix of an interval, given as a set closed downwards, ends somewhere. *)
LEMMA PrefixIsInterval ==
  ASSUME NEW n \in Nat, NEW P \in SUBSET (1 .. n),
         \A i \in P : \A j \in 1 .. i : j \in P
  PROVE  \E k \in 0 .. n : P = 1 .. k
<1>1. \A i \in P : i \in 1 .. n
  OBVIOUS
<1>2. CASE \A i \in 1 .. n : i \in P
  <2>1. P = 1 .. n
    BY <1>1, <1>2
  <2> QED
    BY <2>1
<1>3. CASE \E i \in 1 .. n : i \notin P
  <2> DEFINE T == {i \in 1 .. n : i \notin P}
  <2>1. T \in SUBSET Nat /\ T # {}
    BY <1>3
  <2>2. PICK x \in T : \A y \in T : x <= y
    <3> HIDE DEF T
    <3>1. IsWellFoundedOn(OpToRel(<, Nat), Nat)
      BY NatLessThanWellFounded
    <3>2. PICK x \in T : \A y \in T : <<y, x>> \notin OpToRel(<, Nat)
      BY <2>1, <3>1, WFMin
    <3>3. ASSUME NEW y \in T PROVE x <= y
      <4>1. ~(y < x)
        BY <2>1, <3>2 DEF OpToRel
      <4>2. x \in Nat /\ y \in Nat
        BY <2>1
      <4> QED
        BY <4>1, <4>2
    <3> QED
      BY <3>3
  <2>3. x \in 1 .. n /\ x \notin P
    BY <2>2
  <2>4. ASSUME NEW i \in 1 .. n
        PROVE  i \in P <=> i < x
    <3>1. i < x => i \in P
      BY <2>2, <2>3
    <3>2. i \in P => i < x
      <4> SUFFICES ASSUME i \in P, ~(i < x) PROVE FALSE
        OBVIOUS
      <4>1. x \in 1 .. i
        BY <2>3
      <4> QED
        BY <2>3, <4>1
    <3> QED
      BY <3>1, <3>2
  <2>5. \A i \in P : i \in 1 .. (x - 1)
    BY <1>1, <2>3, <2>4
  <2>6. \A i \in 1 .. (x - 1) : i \in P
    BY <2>3, <2>4
  <2>7. P = 1 .. (x - 1)
    BY <2>5, <2>6
  <2>8. x - 1 \in 0 .. n
    BY <2>3
  <2> QED
    BY <2>7, <2>8
<1> QED
  BY <1>2, <1>3

(* The loops over a text and over a forest stop somewhere in it. *)
LEMMA EntriesArePrefix ==
  ASSUME NEW text \in Seq(TextLine)
  PROVE  \E k \in 0 .. Len(text) : Entries(text) = 1 .. k
<1>1. Len(text) \in Nat /\ DOMAIN text = 1 .. Len(text)
  BY LenProperties
<1>2. Entries(text) \in SUBSET (1 .. Len(text))
  BY <1>1 DEF Entries
<1>3. ASSUME NEW i \in Entries(text), NEW j \in 1 .. i
      PROVE  j \in Entries(text)
  <2>1. j \in DOMAIN text /\ 1 .. j \subseteq 1 .. i
    BY <1>1, <1>2
  <2> QED
    BY <2>1 DEF Entries
<1> QED
  BY <1>1, <1>2, <1>3, PrefixIsInterval

LEMMA CoveredIsPrefix ==
  ASSUME NEW forest \in Seq(TreeNode)
  PROVE  \E k \in 0 .. Len(forest) : Covered(forest) = 1 .. k
<1>1. Len(forest) \in Nat /\ DOMAIN forest = 1 .. Len(forest)
  BY LenProperties
<1>2. Covered(forest) \in SUBSET (1 .. Len(forest))
  BY <1>1 DEF Covered
<1>3. ASSUME NEW i \in Covered(forest), NEW j \in 1 .. i
      PROVE  j \in Covered(forest)
  <2>1. j \in DOMAIN forest /\ 1 .. j \subseteq 1 .. i
    BY <1>1, <1>2
  <2> QED
    BY <2>1 DEF Covered
<1> QED
  BY <1>1, <1>2, <1>3, PrefixIsInterval

(* get returns a forest of proper nodes, whatever the text. *)
LEMMA GetType ==
  ASSUME NEW text \in Seq(TextLine)
  PROVE  /\ Get(text).ok \in BOOLEAN
         /\ Get(text).forest \in Seq(TreeNode)
         /\ DOMAIN Get(text).forest = Entries(text)
         /\ \A i \in Entries(text) :
              Get(text).forest[i] = [label |-> text[i].key, value |-> text[i].value]
         /\ \A i \in Entries(text) : text[i].key \in Key /\ text[i].value \in Value
<1> DEFINE forest == [i \in Entries(text) |-> [label |-> text[i].key, value |-> text[i].value]]
<1>1. PICK k \in 0 .. Len(text) : Entries(text) = 1 .. k
  BY EntriesArePrefix
<1>2. Len(text) \in Nat /\ DOMAIN text = 1 .. Len(text) /\ text \in [1 .. Len(text) -> TextLine]
  BY LenProperties
<1>3. ASSUME NEW i \in Entries(text)
      PROVE  text[i].key \in Key /\ text[i].value \in Value
  <2>1. i \in 1 .. i /\ i \in DOMAIN text
    BY <1>1, <1>2
  <2>2. EntryMatches(text[i]) /\ text[i] \in TextLine
    BY <1>2, <2>1 DEF Entries
  <2> QED
    BY <2>2 DEF EntryMatches, TextLine
<1>4. forest \in [1 .. k -> TreeNode]
  <2>1. \A i \in Entries(text) : [label |-> text[i].key, value |-> text[i].value] \in TreeNode
    BY <1>3 DEF TreeNode
  <2> QED
    BY <1>1, <2>1
<1>5. forest \in Seq(TreeNode)
  BY <1>1, <1>2, <1>4, SeqDef
<1>6. Get(text).forest = forest /\ Get(text).ok = (Entries(text) = DOMAIN text)
  BY DEF Get
<1> QED
  BY <1>3, <1>5, <1>6

(* A text parses exactly when each of its lines matches. *)
LEMMA ParsesIffAllMatch ==
  ASSUME NEW text \in Seq(TextLine)
  PROVE  Get(text).ok <=> \A i \in DOMAIN text : text[i].key \in Key
<1>1. Len(text) \in Nat /\ DOMAIN text = 1 .. Len(text)
  BY LenProperties
<1>2. Get(text).ok <=> Entries(text) = DOMAIN text
  BY DEF Get
<1>3. ASSUME Entries(text) = DOMAIN text
      PROVE  \A i \in DOMAIN text : text[i].key \in Key
  BY <1>3, GetType
<1>4. ASSUME \A i \in DOMAIN text : text[i].key \in Key
      PROVE  Entries(text) = DOMAIN text
  BY <1>1, <1>4 DEF Entries, EntryMatches
<1> QED
  BY <1>2, <1>3, <1>4

-----------------------------------------------------------------------------
(* The lines that share a key up to a position, and the nodes, are finitely  *)
(* many.                                                                     *)
LEMMA LinesLikeFinite ==
  ASSUME NEW text, NEW i \in Nat
  PROVE  IsFiniteSet(LinesLike(text, i))
<1>1. IsFiniteSet(1 .. i) /\ LinesLike(text, i) \in SUBSET (1 .. i)
  BY FS_Interval DEF LinesLike
<1> QED
  BY <1>1, FS_Subset

(* No two entries of one label have the same rank. *)
LEMMA RanksDiffer ==
  ASSUME NEW text, NEW p \in Nat \ {0}, NEW q \in Nat, p < q, text[p].key = text[q].key
  PROVE  Cardinality(LinesLike(text, p)) # Cardinality(LinesLike(text, q))
<1>1. LinesLike(text, p) \subseteq LinesLike(text, q)
  BY DEF LinesLike
<1>2. q \in LinesLike(text, q) /\ q \notin LinesLike(text, p)
  BY DEF LinesLike
<1>3. LinesLike(text, p) # LinesLike(text, q)
  BY <1>2
<1> QED
  BY <1>1, <1>3, LinesLikeFinite, FS_Subset

(* The dictionary has one skel for a label and a rank at most: the line  *)
(* of that rank.                                                             *)
LEMMA SkeletonOfRank ==
  ASSUME NEW text \in Seq(TextLine), NEW p \in Entries(text)
  PROVE  Skeletons(text, text[p].key, Cardinality(LinesLike(text, p))) = {p}
<1> DEFINE found == Skeletons(text, text[p].key, Cardinality(LinesLike(text, p)))
<1>1. \A q \in Entries(text) : q \in Nat \ {0}
  BY EntriesArePrefix, LenProperties
<1>2. p \in found
  BY DEF Skeletons
<1>3. ASSUME NEW q \in found PROVE q = p
  <2>1. /\ q \in Entries(text)
        /\ text[q].key = text[p].key
        /\ Cardinality(LinesLike(text, q)) = Cardinality(LinesLike(text, p))
    BY <1>3 DEF Skeletons
  <2>2. p \in Nat \ {0} /\ q \in Nat \ {0}
    BY <1>1, <2>1
  <2>3. ~(p < q) /\ ~(q < p)
    BY <2>1, <2>2, RanksDiffer
  <2> QED
    BY <2>2, <2>3
<1> QED
  BY <1>2, <1>3

(* The r-th node of a label is written with the layout of the r-th line of   *)
(* that label in the skel: reordering other labels, or changing values,  *)
(* does not make a line take another's layout.                               *)
THEOREM LayoutFollowsRank ==
  ASSUME NEW nodes, NEW i, NEW skel \in Seq(TextLine), NEW p \in Entries(skel),
         skel[p].key = nodes[i].label,
         Cardinality(LinesLike(skel, p)) = Cardinality(NodesLike(nodes, i))
  PROVE  Line(nodes, i, skel)
           = [key |-> nodes[i].label, gap |-> skel[p].gap, value |-> nodes[i].value]
<1>1. Skeletons(skel, nodes[i].label, Cardinality(NodesLike(nodes, i))) = {p}
  BY SkeletonOfRank
<1>2. (CHOOSE q \in {p} : TRUE) = p
  OBVIOUS
<1> QED
  BY <1>1, <1>2 DEF Line

-----------------------------------------------------------------------------
(* A covered node is written as a proper line, whatever the skel. *)
LEMMA LineType ==
  ASSUME NEW forest \in Seq(TreeNode), NEW i \in Covered(forest),
         NEW skel \in Seq(TextLine)
  PROVE  /\ Line(forest, i, skel) \in TextLine
         /\ Line(forest, i, skel).key = forest[i].label
         /\ Line(forest, i, skel).value = forest[i].value
         /\ forest[i].label \in Key
<1> DEFINE found == Skeletons(skel, forest[i].label, Cardinality(NodesLike(forest, i)))
           gap == IF found = {} THEN Canonical ELSE skel[CHOOSE p \in found : TRUE].gap
<1>1. i \in 1 .. i
  BY CoveredIsPrefix, LenProperties
<1>2. forest[i].label \in Key /\ forest[i].value \in Value
  BY <1>1 DEF Covered, NodeMatches
<1>3. ASSUME NEW p \in found PROVE skel[p].gap \in Gap
  <2>1. p \in DOMAIN skel
    BY <1>3 DEF Skeletons, Entries
  <2>2. skel[p] \in TextLine
    BY <2>1, LenProperties
  <2> QED
    BY <2>2 DEF TextLine
<1>4. gap \in Gap
  BY <1>3, LensAssumption
<1>5. Line(forest, i, skel) = [key |-> forest[i].label, gap |-> gap, value |-> forest[i].value]
  BY DEF Line
<1> HIDE DEF gap
<1> QED
  BY <1>2, <1>4, <1>5 DEF TextLine

(* put writes a proper text, one line for each covered node. *)
LEMMA PutType ==
  ASSUME NEW forest \in Seq(TreeNode), NEW skel \in Seq(TextLine)
  PROVE  /\ Put(forest, skel) \in Seq(TextLine)
         /\ DOMAIN Put(forest, skel) = Covered(forest)
         /\ \A i \in Covered(forest) : Put(forest, skel)[i] = Line(forest, i, skel)
<1>1. PICK k \in 0 .. Len(forest) : Covered(forest) = 1 .. k
  BY CoveredIsPrefix
<1>2. k \in Nat
  BY <1>1, LenProperties
<1>3. \A i \in Covered(forest) : Line(forest, i, skel) \in TextLine
  BY LineType
<1>4. Put(forest, skel) = [i \in Covered(forest) |-> Line(forest, i, skel)]
  BY DEF Put
<1>5. Put(forest, skel) \in [1 .. k -> TextLine]
  BY <1>1, <1>3, <1>4
<1> QED
  BY <1>2, <1>4, <1>5, SeqDef

(* PutGet: for any forest and any skel, also one of another file, what   *)
(* put writes parses, to the nodes put covers.  Those it does not cover are  *)
(* lost without an error (dropped_nodes).                                    *)
THEOREM PutGet ==
  ASSUME NEW forest \in Seq(TreeNode), NEW skel \in Seq(TextLine)
  PROVE  Get(Put(forest, skel))
           = [ok |-> TRUE, forest |-> [i \in Covered(forest) |-> forest[i]]]
<1> DEFINE text == Put(forest, skel)
<1>1. /\ text \in Seq(TextLine)
      /\ DOMAIN text = Covered(forest)
      /\ \A i \in Covered(forest) : text[i] = Line(forest, i, skel)
  BY PutType
<1>2. ASSUME NEW i \in Covered(forest)
      PROVE  /\ text[i].key = forest[i].label
             /\ text[i].value = forest[i].value
             /\ text[i].key \in Key
  BY <1>1, LineType
<1> HIDE DEF text
<1>3. Get(text).ok
  BY <1>1, <1>2, ParsesIffAllMatch
<1>4. Entries(text) = Covered(forest)
  BY <1>1, <1>3 DEF Get
<1>5. ASSUME NEW i \in Covered(forest)
      PROVE  [label |-> text[i].key, value |-> text[i].value] = forest[i]
  <2>1. i \in DOMAIN forest
    BY DEF Covered
  <2>2. forest[i] \in TreeNode
    BY <2>1, LenProperties
  <2> QED
    BY <1>2, <2>2 DEF TreeNode
<1>6. [i \in Entries(text) |-> [label |-> text[i].key, value |-> text[i].value]]
        = [i \in Covered(forest) |-> forest[i]]
  BY <1>4, <1>5
<1>7. Get(text) = [ok |-> TRUE, forest |-> [i \in Covered(forest) |-> forest[i]]]
  BY <1>3, <1>6, <1>4, <1>1 DEF Get
<1> QED
  BY <1>7 DEF text

(* put loses no node of a forest whose nodes all match. *)
LEMMA CoversMatching ==
  ASSUME NEW forest \in Seq(TreeNode), \A i \in DOMAIN forest : NodeMatches(forest[i])
  PROVE  /\ Covered(forest) = DOMAIN forest
         /\ [i \in Covered(forest) |-> forest[i]] = forest
<1>1. DOMAIN forest = 1 .. Len(forest) /\ Len(forest) \in Nat
      /\ forest \in [1 .. Len(forest) -> TreeNode]
  BY LenProperties
<1>2. Covered(forest) = DOMAIN forest
  BY <1>1 DEF Covered
<1> QED
  BY <1>1, <1>2

(* GetPut: a text that parsed is written as it was, spacing and all, when    *)
(* its nodes were not edited.                                                *)
THEOREM GetPut ==
  ASSUME NEW text \in Seq(TextLine), Get(text).ok
  PROVE  Put(Get(text).forest, text) = text
<1> DEFINE forest == Get(text).forest
<1>1. Entries(text) = DOMAIN text
  BY DEF Get
<1>2. /\ forest \in Seq(TreeNode)
      /\ DOMAIN forest = DOMAIN text
      /\ \A i \in DOMAIN text :
           /\ forest[i] = [label |-> text[i].key, value |-> text[i].value]
           /\ text[i].key \in Key /\ text[i].value \in Value
  BY <1>1, GetType
<1> HIDE DEF forest
<1>3. DOMAIN text = 1 .. Len(text) /\ Len(text) \in Nat /\ text \in [1 .. Len(text) -> TextLine]
  BY LenProperties
<1>4. Covered(forest) = DOMAIN text
  BY <1>2, CoversMatching DEF NodeMatches
<1>5. ASSUME NEW i \in DOMAIN text
      PROVE  Line(forest, i, text) = text[i]
  <2>1. forest[i].label = text[i].key /\ forest[i].value = text[i].value
    BY <1>2
  <2>2. NodesLike(forest, i) = LinesLike(text, i)
    <3>1. \A j \in 1 .. i : j \in DOMAIN text
      BY <1>3
    <3>2. \A j \in 1 .. i : forest[j].label = text[j].key
      BY <1>2, <3>1
    <3> QED
      BY <2>1, <3>2 DEF NodesLike, LinesLike
  <2>3. Line(forest, i, text)
          = [key |-> forest[i].label, gap |-> text[i].gap, value |-> forest[i].value]
    BY <1>1, <2>1, <2>2, LayoutFollowsRank
  <2>4. text[i] \in TextLine
    BY <1>3
  <2> QED
    BY <2>1, <2>3, <2>4 DEF TextLine
<1>6. Put(forest, text) = [i \in DOMAIN text |-> text[i]]
  BY <1>4, <1>5 DEF Put
<1> QED
  BY <1>3, <1>6 DEF forest

-----------------------------------------------------------------------------
(* The only element of a set of positions. *)
LEMMA OnlyOne ==
  ASSUME NEW n \in Nat, NEW S \in SUBSET (1 .. n), NEW x \in S, Cardinality(S) = 1
  PROVE  S = {x}
<1>1. IsFiniteSet(1 .. n)
  BY FS_Interval
<1>2. IsFiniteSet(S)
  BY <1>1, FS_Subset
<1> QED
  BY <1>2, FS_Singleton

(* A line whose label occurs once in the old text and once in the forest,    *)
(* with the value it had, is written as it was: wherever the node has moved  *)
(* to and whatever became of the others.                                     *)
THEOREM UntouchedLineKept ==
  ASSUME NEW old \in Seq(TextLine), Get(old).ok,
         NEW forest \in Seq(TreeNode),
         NEW q \in DOMAIN old, NEW i \in DOMAIN forest,
         Cardinality({j \in DOMAIN old : old[j].key = old[q].key}) = 1,
         Cardinality({j \in DOMAIN forest : forest[j].label = old[q].key}) = 1,
         forest[i] = [label |-> old[q].key, value |-> old[q].value]
  PROVE  Line(forest, i, old) = old[q]
<1>1. /\ DOMAIN old = 1 .. Len(old) /\ Len(old) \in Nat /\ old \in [1 .. Len(old) -> TextLine]
      /\ DOMAIN forest = 1 .. Len(forest) /\ Len(forest) \in Nat
  BY LenProperties
<1>2. {j \in DOMAIN old : old[j].key = old[q].key} = {q}
  BY <1>1, OnlyOne
<1>3. {j \in DOMAIN forest : forest[j].label = old[q].key} = {i}
  <2> DEFINE S == {j \in DOMAIN forest : forest[j].label = old[q].key}
  <2>1. S \in SUBSET (1 .. Len(forest)) /\ i \in S
    BY <1>1
  <2> HIDE DEF S
  <2>2. S = {i}
    BY <1>1, <2>1, OnlyOne DEF S
  <2> QED
    BY <2>2 DEF S
<1>4. LinesLike(old, q) = {q}
  <2>1. \A j \in 1 .. q : j \in DOMAIN old
    BY <1>1
  <2>2. \A j \in 1 .. q : old[j].key = old[q].key => j = q
    BY <1>2, <2>1
  <2> QED
    BY <1>1, <2>2 DEF LinesLike
<1>5. NodesLike(forest, i) = {i}
  <2>1. \A j \in 1 .. i : j \in DOMAIN forest
    BY <1>1
  <2>2. \A j \in 1 .. i : forest[j].label = forest[i].label => j = i
    BY <1>3, <2>1
  <2> QED
    BY <1>1, <2>2 DEF NodesLike
<1>6. Cardinality(LinesLike(old, q)) = Cardinality(NodesLike(forest, i))
  BY <1>4, <1>5, FS_Singleton
<1>7. q \in Entries(old)
  BY DEF Get
<1>8. Line(forest, i, old) = [key |-> old[q].key, gap |-> old[q].gap, value |-> old[q].value]
  BY <1>6, <1>7, LayoutFollowsRank
<1>9. old[q] \in TextLine
  BY <1>1
<1> QED
  BY <1>8, <1>9 DEF TextLine

-----------------------------------------------------------------------------
(* The handles.  A node the lens can write: *)
FittingNode == [label : Key, value : Value]

(* The caller inserts only nodes the lens can write. *)
CallersFit == NewNode \subseteq FittingNode

(* Every node in a tree can be written. *)
TreesFit == tree \in [Handle -> [File -> Seq(FittingNode) \cup {Absent}]]

-----------------------------------------------------------------------------
(* The files a glob finds, as a sequence. *)
LEMMA SetToSeqType ==
  ASSUME NEW S, NEW T, S \subseteq T, IsFiniteSet(S)
  PROVE  SetToSeq(S) \in Seq(T)
<1>1. Cardinality(S) \in Nat /\ ExistsBijection(1 .. Cardinality(S), S)
  BY FS_CardinalityType
<1>2. PICK h \in Bijection(1 .. Cardinality(S), S) : TRUE
  BY <1>1, Fun_ExistsBij
<1>3. h \in [1 .. Cardinality(S) -> S] /\ \A a, b \in 1 .. Cardinality(S) : h[a] = h[b] => a = b
  BY <1>2, Fun_BijectionProperties
<1>4. h \in [1 .. Cardinality(S) -> S] /\ IsInjective(h)
  BY <1>3 DEF IsInjective
<1>5. SetToSeq(S) \in [1 .. Cardinality(S) -> S]
  BY <1>4 DEF SetToSeq
<1>6. SetToSeq(S) \in [1 .. Cardinality(S) -> T]
  BY <1>5
<1> QED
  BY <1>1, <1>6, SeqDef

(* An edit keeps the type of a forest, whatever type of node holds the       *)
(* inserted nodes and any value.                                             *)
LEMMA EditsType ==
  ASSUME NEW L, NEW V, Value \subseteq V, NewNode \subseteq [label : L, value : V],
         NEW forest \in Seq([label : L, value : V]),
         NEW edited \in Edits(forest)
  PROVE  edited \in Seq([label : L, value : V])
<1> DEFINE N == [label : L, value : V]
<1>1. DOMAIN forest = 1 .. Len(forest) /\ Len(forest) \in Nat /\ forest \in [1 .. Len(forest) -> N]
  BY LenProperties
<1>2. CASE \E i \in DOMAIN forest, v \in Value : edited = [forest EXCEPT ![i].value = v]
  <2>1. PICK i \in DOMAIN forest, v \in Value : edited = [forest EXCEPT ![i].value = v]
    BY <1>2
  <2>2. [forest[i] EXCEPT !.value = v] \in N
    BY <1>1
  <2>3. edited = [forest EXCEPT ![i] = [forest[i] EXCEPT !.value = v]]
    BY <2>1
  <2>4. i \in 1 .. Len(forest) /\ forest \in Seq(N)
    BY <1>1
  <2> HIDE DEF N
  <2>5. [forest EXCEPT ![i] = [forest[i] EXCEPT !.value = v]] \in Seq(N)
    BY <2>2, <2>4, ExceptSeq
  <2> QED
    BY <2>3, <2>5 DEF N
<1>3. CASE \E i \in DOMAIN forest : edited = RemoveAt(forest, i)
  <2>1. PICK i \in DOMAIN forest : edited = RemoveAt(forest, i)
    BY <1>3
  <2> HIDE DEF N
  <2>2. SubSeq(forest, 1, i - 1) \in Seq(N)
    BY <1>1, SubSeqProperties
  <2>3. SubSeq(forest, i + 1, Len(forest)) \in Seq(N)
    BY <1>1, SubSeqProperties
  <2> QED
    BY <2>1, <2>2, <2>3, ConcatProperties DEF RemoveAt, N
<1>4. CASE \E i \in 1 .. Len(forest) + 1, n \in NewNode : edited = InsertAt(forest, i, n)
  <2>1. PICK i \in 1 .. Len(forest) + 1, n \in NewNode : edited = InsertAt(forest, i, n)
    BY <1>4
  <2>2. n \in N
    OBVIOUS
  <2> HIDE DEF N
  <2>3. SubSeq(forest, 1, i - 1) \in Seq(N)
    BY <1>1, SubSeqProperties
  <2>4. SubSeq(forest, i, Len(forest)) \in Seq(N)
    BY <1>1, SubSeqProperties
  <2>5. <<n>> \in Seq(N)
    BY <2>2
  <2>6. SubSeq(forest, 1, i - 1) \o <<n>> \in Seq(N)
    BY <2>3, <2>5, ConcatProperties
  <2> QED
    BY <2>1, <2>4, <2>6, ConcatProperties DEF InsertAt, N
<1> QED
  BY <1>2, <1>3, <1>4 DEF Edits

(* The next round of the loop leaves a proper rest of the work. *)
LEMMA NextFileType ==
  ASSUME TypeOK, NEW g \in Handle, todo[g] # Empty, NextFile(g)
  PROVE  /\ todo' \in [Handle -> Seq(File)]
         /\ pc' \in [Handle -> {"idle", "read", "parse", "write"}]
         /\ \A h \in Handle : h # g => pc'[h] = pc[h] /\ todo'[h] = todo[h]
         /\ pc'[g] \in {"idle", "read"}
         /\ pc'[g] = "idle" <=> todo'[g] = Empty
         /\ Head(todo[g]) \in File
<1>1. todo[g] \in Seq(File) /\ todo \in [Handle -> Seq(File)]
      /\ pc \in [Handle -> {"idle", "read", "parse", "write"}]
  BY DEF TypeOK
<1>2. Head(todo[g]) \in File /\ Tail(todo[g]) \in Seq(File)
      /\ Len(Tail(todo[g])) = Len(todo[g]) - 1 /\ Len(todo[g]) \in Nat \ {0}
  BY <1>1, HeadTailProperties, EmptySeq DEF Empty
<1>3. todo'[g] = Tail(todo[g]) /\ pc'[g] = IF Len(todo[g]) = 1 THEN "idle" ELSE "read"
  BY <1>1 DEF NextFile, TypeOK
<1>4. Tail(todo[g]) = Empty <=> Len(todo[g]) = 1
  <2>1. Tail(todo[g]) = Empty => Len(Tail(todo[g])) = 0
    BY EmptySeq DEF Empty
  <2>2. Tail(todo[g]) # Empty => Len(Tail(todo[g])) # 0
    BY <1>2, EmptySeq DEF Empty
  <2> QED
    BY <1>2, <2>1, <2>2
<1> QED
  BY <1>1, <1>2, <1>3, <1>4 DEF NextFile

-----------------------------------------------------------------------------
LEMMA TypeInit == Init => TypeOK
<1> SUFFICES ASSUME Init PROVE TypeOK
  OBVIOUS
<1>1. Empty \in Seq(TextLine) /\ Empty \in Seq(File)
  BY EmptySeq DEF Empty
<1> QED
  BY <1>1, FilesAssumption DEF Init, TypeOK

(* Every step keeps the types and the discipline of a call: it has a file to *)
(* work on until it returns.                                                 *)
LEMMA TypeStep == TypeOK /\ [Next]_sync => TypeOK'
<1> SUFFICES ASSUME TypeOK, [Next]_sync PROVE TypeOK'
  OBVIOUS
<1>1. Empty \in Seq(TextLine)
  BY EmptySeq DEF Empty
<1>2. ASSUME NEW g \in Handle, LoadGlob(g)
      PROVE  TypeOK'
  <2> DEFINE files == SetToSeq({f \in Pattern[g] : disk[f] # Missing})
  <2>1. files \in Seq(File)
    <3>1. {f \in Pattern[g] : disk[f] # Missing} \in SUBSET Pattern[g]
      OBVIOUS
    <3>2. IsFiniteSet({f \in Pattern[g] : disk[f] # Missing})
      BY <3>1, FilesAssumption, FS_Subset
    <3> QED
      BY <3>2, FilesAssumption, SetToSeqType
  <2> HIDE DEF files
  <2>2. CASE UNCHANGED sync
    BY <2>2 DEF TypeOK, sync
  <2>3. CASE /\ pc[g] = "idle"
             /\ files # Empty
             /\ todo' = [todo EXCEPT ![g] = files]
             /\ pc' = [pc EXCEPT ![g] = "read"]
             /\ UNCHANGED <<disk, skeleton, tree, errors, buffer, loaded, changes>>
    BY <2>1, <2>3 DEF TypeOK
  <2> QED
    BY <1>2, <2>2, <2>3 DEF LoadGlob, files
<1>3. ASSUME NEW g \in Handle, LoadRead(g)
      PROVE  TypeOK'
  <2>1. todo[g] # Empty
    BY <1>3 DEF TypeOK, LoadRead
  <2>2. Head(todo[g]) \in File
    BY <2>1, HeadTailProperties DEF TypeOK, Empty
  <2>3. CASE /\ disk[Head(todo[g])] # Missing
             /\ buffer' = [buffer EXCEPT ![g] = disk[Head(todo[g])]]
             /\ pc' = [pc EXCEPT ![g] = "parse"]
             /\ UNCHANGED <<todo, errors>>
    <3>1. disk[Head(todo[g])] \in Seq(TextLine)
      BY <2>2, <2>3 DEF TypeOK
    <3> QED
      BY <1>3, <2>1, <2>3, <3>1 DEF TypeOK, LoadRead
  <2>4. CASE /\ RecordError(g, Head(todo[g]))
             /\ NextFile(g)
             /\ UNCHANGED buffer
    <3>1. errors' \in [Handle -> SUBSET File]
      BY <2>2, <2>4 DEF TypeOK, RecordError
    <3>2. buffer[g] = Empty
      BY <1>3 DEF TypeOK, LoadRead
    <3> QED
      BY <1>3, <2>1, <2>4, <3>1, <3>2, NextFileType DEF TypeOK, LoadRead
  <2> QED
    BY <1>3, <2>3, <2>4 DEF LoadRead
<1>4. ASSUME NEW g \in Handle, LoadParse(g)
      PROVE  TypeOK'
  <2> DEFINE f == Head(todo[g])
             parsed == Get(buffer[g])
  <2>1. todo[g] # Empty /\ NextFile(g) /\ buffer' = [buffer EXCEPT ![g] = Empty]
        /\ UNCHANGED <<disk, changes>>
    BY <1>4 DEF TypeOK, LoadParse
  <2>2. /\ todo' \in [Handle -> Seq(File)]
        /\ pc' \in [Handle -> {"idle", "read", "parse", "write"}]
        /\ \A h \in Handle : h # g => pc'[h] = pc[h] /\ todo'[h] = todo[h]
        /\ pc'[g] \in {"idle", "read"}
        /\ pc'[g] = "idle" <=> todo'[g] = Empty
        /\ f \in File
    BY <2>1, NextFileType
  <2>3. buffer[g] \in Seq(TextLine) /\ buffer' \in [Handle -> Seq(TextLine)] /\ buffer'[g] = Empty
        /\ \A h \in Handle : h # g => buffer'[h] = buffer[h]
    BY <1>1, <2>1 DEF TypeOK
  <2>4. disk' \in [File -> Seq(TextLine) \cup {Missing}]
    BY <2>1 DEF TypeOK
  <2>5. CASE /\ skeleton' = buffer[g]
             /\ tree' = [tree EXCEPT ![g][f] = parsed.forest]
             /\ loaded' = [loaded EXCEPT ![g][f] = buffer[g]]
             /\ UNCHANGED errors
    <3>1. parsed.forest \in Seq(TreeNode)
      BY <2>3, GetType
    <3>2. parsed.forest # Absent /\ buffer[g] # Absent
      BY <2>3, <3>1, FilesAssumption
    <3> HIDE DEF f, parsed
    <3>3. /\ tree' \in [Handle -> [File -> Seq(TreeNode) \cup {Absent}]]
          /\ loaded' \in [Handle -> [File -> Seq(TextLine) \cup {Absent}]]
          /\ skeleton' \in Seq(TextLine)
          /\ errors' \in [Handle -> SUBSET File]
      BY <2>2, <2>3, <2>5, <3>1 DEF TypeOK
    <3>4. \A h \in Handle, e \in File : tree'[h][e] = Absent <=> loaded'[h][e] = Absent
      BY <2>2, <2>5, <3>2 DEF TypeOK
    <3> QED
      BY <2>2, <2>3, <2>4, <3>3, <3>4 DEF TypeOK
  <2>6. CASE RecordError(g, f) /\ UNCHANGED <<skeleton, tree, loaded>>
    <3>1. errors' \in [Handle -> SUBSET File]
      BY <2>2, <2>6 DEF TypeOK, RecordError
    <3> HIDE DEF f
    <3> QED
      BY <2>2, <2>3, <2>4, <2>6, <3>1 DEF TypeOK
  <2>7. CASE skeleton' = buffer[g] /\ RecordError(g, f) /\ UNCHANGED <<tree, loaded>>
    <3>1. errors' \in [Handle -> SUBSET File]
      BY <2>2, <2>7 DEF TypeOK, RecordError
    <3> HIDE DEF f
    <3> QED
      BY <2>2, <2>3, <2>4, <2>7, <3>1 DEF TypeOK
  <2> QED
    BY <1>4, <2>5, <2>6, <2>7 DEF LoadParse
<1>5. ASSUME NEW g \in Handle, SaveWrite(g)
      PROVE  TypeOK'
  <2>1. todo[g] # Empty /\ NextFile(g) /\ buffer' = [buffer EXCEPT ![g] = Empty]
        /\ UNCHANGED <<skeleton, tree, errors, loaded, changes>>
    BY <1>5 DEF TypeOK, SaveWrite
  <2>2. disk' \in [File -> Seq(TextLine) \cup {Missing}]
    <3>1. Head(todo[g]) \in File
      BY <2>1, NextFileType
    <3>2. PICK text \in {buffer[g], disk[Head(todo[g])], Empty} :
            disk' = [disk EXCEPT ![Head(todo[g])] = text]
      BY <1>5 DEF SaveWrite
    <3>3. text \in Seq(TextLine) \cup {Missing}
      BY <1>1, <3>1, <3>2 DEF TypeOK
    <3> QED
      BY <3>1, <3>2, <3>3 DEF TypeOK
  <2> QED
    BY <1>1, <2>1, <2>2, NextFileType DEF TypeOK
<1>6. ASSUME NEW g \in Handle, NEW f \in File, SaveBuild(g, f)
      PROVE  TypeOK'
  <2>1. Put(tree[g][f], skeleton) \in Seq(TextLine)
    BY <1>6, PutType DEF SaveBuild, TypeOK
  <2>2. <<f>> \in Seq(File) /\ <<f>> # Empty
    BY DEF Empty
  <2> QED
    BY <1>6, <2>1, <2>2 DEF SaveBuild, TypeOK
<1>7. ASSUME NEW g \in Handle, NEW f \in File, Edit(g, f)
      PROVE  TypeOK'
  <2>1. tree[g][f] \in Seq(TreeNode)
    BY <1>7 DEF Edit, TypeOK
  <2>2. PICK forest \in Edits(tree[g][f]) : tree' = [tree EXCEPT ![g][f] = forest]
    BY <1>7 DEF Edit
  <2>3. forest \in Seq(TreeNode)
    BY <2>1, <2>2, FilesAssumption, EditsType DEF TreeNode
  <2>4. forest # Absent
    BY <2>3, FilesAssumption
  <2>5. tree' \in [Handle -> [File -> Seq(TreeNode) \cup {Absent}]]
    BY <2>2, <2>3 DEF TypeOK
  <2>6. \A h \in Handle, e \in File : tree'[h][e] = Absent <=> tree[h][e] = Absent
    BY <1>7, <2>2, <2>4 DEF Edit, TypeOK
  <2> QED
    BY <1>7, <2>5, <2>6 DEF Edit, TypeOK
<1>8. ASSUME NEW f \in File, Outside(f)
      PROVE  TypeOK'
  <2>1. PICK text \in Text \cup {Missing} : disk' = [disk EXCEPT ![f] = text]
    BY <1>8 DEF Outside
  <2>2. disk' \in [File -> Seq(TextLine) \cup {Missing}]
    BY <2>1, FilesAssumption DEF TypeOK
  <2> QED
    BY <1>8, <2>2 DEF Outside, TypeOK
<1>9. CASE UNCHANGED sync
  BY <1>9 DEF TypeOK, sync
<1> QED
  BY <1>2, <1>3, <1>4, <1>5, <1>6, <1>7, <1>8, <1>9 DEF Next, Step

(* The types hold in every state, and with them the discipline of the calls. *)
THEOREM TypeCorrect == Spec => []TypeOK
BY TypeInit, TypeStep, PTL DEF Spec

-----------------------------------------------------------------------------
LEMMA SkeletonInit == Init => SkeletonParses
<1> SUFFICES ASSUME Init PROVE SkeletonParses
  OBVIOUS
<1>1. skeleton = << >> /\ << >> \in Seq(TextLine) /\ DOMAIN << >> = {}
  BY EmptySeq DEF Init, Empty
<1> QED
  BY <1>1, ParsesIffAllMatch DEF SkeletonParses

LEMMA SkeletonStep == SkeletonParses /\ [Next]_sync => SkeletonParses'
<1> SUFFICES ASSUME SkeletonParses, [Next]_sync PROVE SkeletonParses'
  OBVIOUS
<1>1. ASSUME NEW g \in Handle, LoadParse(g)
      PROVE  Get(skeleton').ok
  <2>1. CASE Get(buffer[g]).ok /\ skeleton' = buffer[g]
    BY <2>1
  <2>2. CASE UNCHANGED skeleton
    BY <2>2 DEF SkeletonParses
  <2> QED
    BY <1>1, <2>1, <2>2 DEF LoadParse
<1>2. ASSUME ~ \E g \in Handle : LoadParse(g)
      PROVE  UNCHANGED skeleton
  BY <1>2 DEF Next, Step, LoadGlob, LoadRead, SaveWrite, SaveBuild, Edit, Outside, sync
<1>3. CASE UNCHANGED skeleton
  BY <1>3 DEF SkeletonParses
<1> QED
  BY <1>1, <1>2, <1>3 DEF SkeletonParses

(* A failing Parse, of any file by any goroutine, never leaves the lens with *)
(* a skeleton that covers only part of its text.                             *)
THEOREM SkeletonCorrect == Spec => []SkeletonParses
BY SkeletonInit, SkeletonStep, PTL DEF Spec

-----------------------------------------------------------------------------
(* What get returns, put can write. *)
LEMMA GetFits ==
  ASSUME NEW text \in Seq(TextLine)
  PROVE  Get(text).forest \in Seq(FittingNode)
<1>1. PICK k \in 0 .. Len(text) : Entries(text) = 1 .. k
  BY EntriesArePrefix
<1>2. k \in Nat
  BY <1>1, LenProperties
<1>3. ASSUME NEW i \in 1 .. k
      PROVE  Get(text).forest[i] \in FittingNode
  <2>1. /\ Get(text).forest[i] = [label |-> text[i].key, value |-> text[i].value]
        /\ text[i].key \in Key /\ text[i].value \in Value
    BY <1>1, GetType
  <2> QED
    BY <2>1 DEF FittingNode
<1>4. Get(text).forest \in [1 .. k -> FittingNode]
  BY <1>1, <1>3 DEF Get
<1> QED
  BY <1>2, <1>4, SeqDef

LEMMA FitInit == Init => TreesFit
BY DEF Init, TreesFit

(* As long as callers insert only nodes the lens can write, every node of    *)
(* every tree is one: parsing and editing make no others.                    *)
LEMMA FitStep ==
  ASSUME CallersFit, TypeOK, TreesFit, [Next]_sync
  PROVE  TreesFit'
<1>1. ASSUME NEW g \in Handle, LoadParse(g)
      PROVE  TreesFit'
  <2> DEFINE f == Head(todo[g])
             parsed == Get(buffer[g])
  <2>1. parsed.forest \in Seq(FittingNode)
    BY GetFits DEF TypeOK
  <2> HIDE DEF f, parsed
  <2>2. CASE tree' = [tree EXCEPT ![g][f] = parsed.forest]
    BY <2>1, <2>2 DEF TreesFit
  <2>3. CASE UNCHANGED tree
    BY <2>3 DEF TreesFit
  <2> QED
    BY <1>1, <2>2, <2>3 DEF LoadParse, f, parsed
<1>2. ASSUME NEW g \in Handle, NEW f \in File, Edit(g, f)
      PROVE  TreesFit'
  <2>1. tree[g][f] \in Seq(FittingNode)
    BY <1>2 DEF Edit, TreesFit
  <2>2. PICK forest \in Edits(tree[g][f]) : tree' = [tree EXCEPT ![g][f] = forest]
    BY <1>2 DEF Edit
  <2>3. forest \in Seq(FittingNode)
    BY CallersFit, <2>1, <2>2, EditsType DEF CallersFit, FittingNode
  <2> QED
    BY <2>2, <2>3 DEF TreesFit
<1>3. ASSUME ~ \E g \in Handle : LoadParse(g),
             ~ \E g \in Handle, f \in File : Edit(g, f)
      PROVE  UNCHANGED tree
  BY <1>3 DEF Next, Step, LoadGlob, LoadRead, SaveWrite, SaveBuild, Outside, sync
<1>4. CASE UNCHANGED tree
  BY <1>4 DEF TreesFit
<1> QED
  BY <1>1, <1>2, <1>3, <1>4

LEMMA FitHolds == ASSUME CallersFit PROVE Spec => [](TypeOK /\ SkeletonParses /\ TreesFit)
<1>1. Init => TypeOK /\ SkeletonParses /\ TreesFit
  BY TypeInit, SkeletonInit, FitInit
<1>2. TypeOK /\ SkeletonParses /\ TreesFit /\ [Next]_sync
        => (TypeOK /\ SkeletonParses /\ TreesFit)'
  BY CallersFit, TypeStep, SkeletonStep, FitStep
<1> QED
  BY <1>1, <1>2, PTL DEF Spec

(* A tree of such nodes is covered from end to end. *)
LEMMA FitIsCovered ==
  ASSUME NEW forest \in Seq(FittingNode)
  PROVE  /\ forest \in Seq(TreeNode)
         /\ Covered(forest) = DOMAIN forest
         /\ [i \in Covered(forest) |-> forest[i]] = forest
<1>1. FittingNode \subseteq TreeNode
  BY DEF FittingNode, TreeNode
<1>2. forest \in Seq(TreeNode)
  BY <1>1, SeqMonotonic
<1>3. \A i \in DOMAIN forest : NodeMatches(forest[i])
  <2>1. \A i \in DOMAIN forest : forest[i] \in FittingNode
    BY LenProperties
  <2> QED
    BY <2>1 DEF NodeMatches, FittingNode
<1> QED
  BY <1>2, <1>3, CoversMatching

(* What Build writes parses back to the tree it was built from, whichever    *)
(* file, goroutine and moment the skeleton came from.                        *)
LEMMA BuildStep ==
  ASSUME TypeOK, TreesFit, NEW g \in Handle, NEW f \in File, SaveBuild(g, f)
  PROVE  Get(buffer[g]') = [ok |-> TRUE, forest |-> tree[g][f]]
<1>1. tree[g][f] \in Seq(FittingNode) /\ skeleton \in Seq(TextLine)
  BY DEF SaveBuild, TreesFit, TypeOK
<1>2. buffer[g]' = Put(tree[g][f], skeleton)
  BY DEF SaveBuild, TypeOK
<1>3. /\ tree[g][f] \in Seq(TreeNode)
      /\ [i \in Covered(tree[g][f]) |-> tree[g][f][i]] = tree[g][f]
  BY <1>1, FitIsCovered
<1>4. Get(Put(tree[g][f], skeleton))
        = [ok |-> TRUE, forest |-> [i \in Covered(tree[g][f]) |-> tree[g][f][i]]]
  BY <1>1, <1>3, PutGet
<1> QED
  BY <1>2, <1>3, <1>4

THEOREM BuildCorrect == ASSUME CallersFit PROVE Spec => BuildReproducesTree
<1>1. TypeOK /\ TreesFit /\ [Next]_sync
        => [\A g \in Handle, f \in File :
              SaveBuild(g, f) => Get(buffer[g]') = [ok |-> TRUE, forest |-> tree[g][f]]]_sync
  BY BuildStep
<1> QED
  BY CallersFit, FitHolds, <1>1, PTL DEF Spec, BuildReproducesTree

(* The lines the tree did not change are written as they were. *)
LEMMA LayoutStep ==
  ASSUME TypeOK, SkeletonParses, TreesFit,
         NEW g \in Handle, NEW f \in File, SaveBuild(g, f), skeleton = loaded[g][f]
  PROVE  Untouched(loaded[g][f], tree[g][f]) \subseteq ToSet(buffer[g]')
<1> DEFINE old == loaded[g][f]
           forest == tree[g][f]
<1>1. forest \in Seq(FittingNode) /\ old \in Seq(TextLine) /\ Get(old).ok
  BY DEF SaveBuild, TreesFit, TypeOK, SkeletonParses
<1>2. buffer[g]' = Put(forest, old)
  BY DEF SaveBuild, TypeOK
<1>3. forest \in Seq(TreeNode) /\ Covered(forest) = DOMAIN forest
  BY <1>1, FitIsCovered
<1> HIDE DEF old, forest
<1>4. ASSUME NEW x \in Untouched(old, forest)
      PROVE  x \in ToSet(Put(forest, old))
  <2>1. PICK q \in DOMAIN old : x = old[q]
    BY <1>4 DEF Untouched, ToSet
  <2>2. /\ Cardinality({j \in DOMAIN old : old[j].key = old[q].key}) = 1
        /\ Cardinality({j \in DOMAIN forest : forest[j].label = old[q].key}) = 1
        /\ \E i \in DOMAIN forest : forest[i] = [label |-> old[q].key, value |-> old[q].value]
    BY <1>4, <2>1 DEF Untouched
  <2>3. PICK i \in DOMAIN forest : forest[i] = [label |-> old[q].key, value |-> old[q].value]
    BY <2>2
  <2>4. Line(forest, i, old) = old[q]
    BY <1>1, <1>3, <2>2, <2>3, UntouchedLineKept
  <2>5. i \in DOMAIN Put(forest, old) /\ Put(forest, old)[i] = old[q]
    BY <1>1, <1>3, <2>4, PutType
  <2> QED
    BY <2>1, <2>5 DEF ToSet
<1> QED
  BY <1>2, <1>4 DEF old, forest

THEOREM LayoutCorrect == ASSUME CallersFit PROVE Spec => OwnLayoutKept
<1>1. TypeOK /\ SkeletonParses /\ TreesFit /\ [Next]_sync
        => [\A g \in Handle, f \in File :
              SaveBuild(g, f) /\ skeleton = loaded[g][f]
                => Untouched(loaded[g][f], tree[g][f]) \subseteq ToSet(buffer[g]')]_sync
  BY LayoutStep
<1> QED
  BY CallersFit, FitHolds, <1>1, PTL DEF Spec, OwnLayoutKept

-----------------------------------------------------------------------------
(* Whatever nodes callers insert, what Build returns parses, and the nodes   *)
(* it leaves out are those from the first one on that the lens cannot write. *)
BuildLeavesOutMisfits ==
  [][\A g \in Handle, f \in File :
       SaveBuild(g, f)
         => Get(buffer[g]')
              = [ok |-> TRUE, forest |-> [i \in Covered(tree[g][f]) |-> tree[g][f][i]]]]_sync

THEOREM LeavesOutOnlyMisfits == Spec => BuildLeavesOutMisfits
<1>1. ASSUME TypeOK, NEW g \in Handle, NEW f \in File, SaveBuild(g, f)
      PROVE  Get(buffer[g]')
               = [ok |-> TRUE, forest |-> [i \in Covered(tree[g][f]) |-> tree[g][f][i]]]
  <2>1. tree[g][f] \in Seq(TreeNode) /\ skeleton \in Seq(TextLine)
    BY <1>1 DEF SaveBuild, TypeOK
  <2>2. buffer[g]' = Put(tree[g][f], skeleton)
    BY <1>1 DEF SaveBuild, TypeOK
  <2> QED
    BY <2>1, <2>2, PutGet
<1>2. TypeOK /\ [Next]_sync
        => [\A g \in Handle, f \in File :
              SaveBuild(g, f)
                => Get(buffer[g]')
                     = [ok |-> TRUE,
                        forest |-> [i \in Covered(tree[g][f]) |-> tree[g][f][i]]]]_sync
  BY <1>1
<1> QED
  BY TypeCorrect, <1>2, PTL DEF Spec, BuildLeavesOutMisfits

(* A file the lens parsed last and nobody edited is built as it was read,    *)
(* also when labels repeat.                                                  *)
UneditedBuiltAsRead ==
  [][\A g \in Handle, f \in File :
       SaveBuild(g, f) /\ skeleton = loaded[g][f] /\ tree[g][f] = Get(loaded[g][f]).forest
         => buffer[g]' = loaded[g][f]]_sync

THEOREM UneditedKept == Spec => UneditedBuiltAsRead
<1>1. ASSUME TypeOK, SkeletonParses, NEW g \in Handle, NEW f \in File, SaveBuild(g, f),
             skeleton = loaded[g][f], tree[g][f] = Get(loaded[g][f]).forest
      PROVE  buffer[g]' = loaded[g][f]
  <2>1. skeleton \in Seq(TextLine) /\ Get(skeleton).ok
    BY <1>1 DEF TypeOK, SkeletonParses
  <2>2. buffer[g]' = Put(Get(skeleton).forest, skeleton)
    BY <1>1 DEF SaveBuild, TypeOK
  <2> QED
    BY <1>1, <2>1, <2>2, GetPut
<1>2. TypeOK /\ SkeletonParses /\ [Next]_sync
        => [\A g \in Handle, f \in File :
              SaveBuild(g, f) /\ skeleton = loaded[g][f] /\ tree[g][f] = Get(loaded[g][f]).forest
                => buffer[g]' = loaded[g][f]]_sync
  BY <1>1
<1> QED
  BY TypeCorrect, SkeletonCorrect, <1>2, PTL DEF Spec, UneditedBuiltAsRead
=============================================================================
