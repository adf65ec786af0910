----------------------------- MODULE KeyedLens -----------------------------
(***************************************************************************)
(* get and put of internal/interp for the commonest shape of lens: an      *)
(* iteration of one-line entries,                                          *)
(*                                                                         *)
(*   [ key . del gap . store ] *                                           *)
(*                                                                         *)
(* A text is a sequence of lines [key, gap, value]; a line the entry does  *)
(* not match has the key Junk.  gap is all of the line the tree does not   *)
(* hold (spacing, separator).  A forest is a sequence of nodes             *)
(* [label, value].                                                         *)
(***************************************************************************)
EXTENDS Naturals, Sequences, FiniteSets

CONSTANTS Key,       \* what the key lens matches
          Value,     \* what the store lens matches
          Gap,       \* what the del lens matches
          Junk,      \* a line, or a label, the lens does not match
          NoValue,   \* the nil *string
          Canonical  \* the gap a created line gets: the del lens' default

(* Of a sound lens: the code builds any del lens, also one whose default its *)
(* own expression does not match (makePrim); upstream's type checker, which  *)
(* the lenses of the corpus have passed, refuses that.                       *)
ASSUME LensAssumption == Junk \notin Key /\ Canonical \in Gap

TextLine == [key : Key \cup {Junk}, gap : Gap, value : Value]
TreeNode == [label : Key \cup {Junk}, value : Value \cup {NoValue}]

EntryMatches(line) == line.key \in Key
NodeMatches(node) == node.label \in Key /\ node.value \in Value

(* The positions the loops of getStar and parseStar reach in a text: they    *)
(* stop at the first line that does not match.                               *)
Entries(text) == {i \in DOMAIN text : \A j \in 1 .. i : EntryMatches(text[j])}

(* splitIter: the nodes the iteration covers.  putStar writes those and      *)
(* looks for no others.                                                      *)
Covered(forest) == {i \in DOMAIN forest : \A j \in 1 .. i : NodeMatches(forest[j])}

-----------------------------------------------------------------------------
(* getStar, getSubtree, LnsGet: what is left over is an error.               *)
Get(text) ==
  [ok |-> Entries(text) = DOMAIN text,
   forest |-> [i \in Entries(text) |-> [label |-> text[i].key, value |-> text[i].value]]]

(* The lines up to i, or nodes, that share its key.                          *)
LinesLike(text, i) == {j \in 1 .. i : text[j].key = text[i].key}
NodesLike(forest, i) == {j \in 1 .. i : forest[j].label = forest[i].label}

(* parseStar, parseSubtree: the dictionary keeps the skeletons of a label in *)
(* the order of the text.  What is left over is ignored.  There is one line  *)
(* of the label that has the rank, or none.                                  *)
Skeletons(text, label, rank) ==
  {p \in Entries(text) : text[p].key = label /\ Cardinality(LinesLike(text, p)) = rank}

(* Mutant: skeletons are handed out by position.                             *)
LineByPosition(nodes, i, skeleton) ==
  [key |-> nodes[i].label,
   gap |-> IF i <= Len(skeleton) THEN skeleton[i].gap ELSE Canonical,
   value |-> nodes[i].value]

(* putSubtree: the i-th node of a label takes the i-th skeleton of the label *)
(* (pdict.lookup hands them out in order); a node beyond them is created.    *)
Line(nodes, i, skeleton) ==
  LET found == Skeletons(skeleton, nodes[i].label, Cardinality(NodesLike(nodes, i)))
  IN  [key |-> nodes[i].label,
       gap |-> IF found = {} THEN Canonical ELSE skeleton[CHOOSE p \in found : TRUE].gap,
       value |-> nodes[i].value]

(* Mutant: the loop of putStar over created nodes is missing.                *)
PutShort(forest, skeleton) ==
  [i \in {j \in Covered(forest) : j <= Len(skeleton)} |-> Line(forest, i, skeleton)]

(* LnsPut. *)
Put(forest, skeleton) == [i \in Covered(forest) |-> Line(forest, i, skeleton)]
=============================================================================
