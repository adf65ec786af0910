------------------------------ MODULE PathText ------------------------------
(***************************************************************************)
(* Paths as text: what buildPath writes for a node, and how eval reads a   *)
(* text into the alternatives, segments and predicates of PathExpr.        *)
(*                                                                         *)
(* A text is a sequence of tokens: words, marks (Ch) and the numbers of    *)
(* positions (Num).  buildPath joins labels as they are; the reader cuts   *)
(* where it finds a mark, whoever put it there.  No label is spelled with  *)
(* "$", "=", "=~" or "last()", so what those mean is left out here.        *)
(***************************************************************************)
EXTENDS PathExpr, Integers

Num(k) == [num |-> k]

OneWord(name) == name \notin DOMAIN Spelling \cup Mark \cup {""}

-----------------------------------------------------------------------------
(* splitTop: cut at the separators outside brackets and quotes. *)
Scan(sep, s, x) ==
  IF x = sep /\ ~s.quoted /\ s.depth = 0
  THEN [s EXCEPT !.out = Append(@, s.piece), !.piece = <<>>]
  ELSE [s EXCEPT !.piece = Append(@, x),
                 !.quoted = IF x = Ch("'") THEN ~@ ELSE @,
                 !.depth = IF s.quoted THEN @
                           ELSE IF x = Ch("[") THEN @ + 1
                           ELSE IF x = Ch("]") THEN @ - 1 ELSE @]

Scanned(t, sep) ==
  Seqs!FoldLeft(LAMBDA s, x : Scan(sep, s, x),
                [out |-> <<>>, piece |-> <<>>, quoted |-> FALSE, depth |-> 0], t)

SplitTop(t, sep) == Append(Scanned(t, sep).out, Scanned(t, sep).piece)

(* TrimSpace *)
Space == Ch(" ")

Trim(t) ==
  LET solid == {i \in DOMAIN t : t[i] # Space}
  IN  IF solid = {} THEN <<>> ELSE SubSeq(t, Seqs!Min(solid), Seqs!Max(solid))

(* The name spelled t.  NoLabel stands for a name that no node below the     *)
(* root has.                                                                 *)
NameOf(t) ==
  LET names == {l \in DOMAIN Spelling : Spelling[l] = t}
  IN  CASE names # {}                                     -> CHOOSE l \in names : TRUE
        [] names = {} /\ t = <<>>                          -> ""
        [] names = {} /\ Len(t) = 1 /\ DOMAIN t[1] = {"ch"} -> t[1].ch
        [] OTHER                                          -> NoLabel

-----------------------------------------------------------------------------
(* parsePredicate, of the text between two brackets. *)
Predicate(body) ==
  LET b == Trim(body)
      names == SplitTop(b, Ch("/"))
  IN  CASE b = <<>>                                -> [kind |-> "bad"]
        [] Len(b) = 1 /\ DOMAIN b[1] = {"num"}      ->
             IF b[1].num < 1 THEN [kind |-> "bad"] ELSE [kind |-> "pos", n |-> b[1].num]
        [] OTHER                                   ->
             [kind |-> "exists", path |-> [i \in DOMAIN names |-> NameOf(names[i])]]

(* parseStep: a name, then brackets and nothing between or behind them. *)
ReadToken(s, x) ==
  CASE s.at = "name"   -> IF x = Ch("[") THEN [s EXCEPT !.at = "body"]
                          ELSE [s EXCEPT !.name = Append(@, x)]
    [] s.at = "body"   -> IF x = Ch("]")
                          THEN [s EXCEPT !.at = "behind", !.body = <<>>,
                                         !.preds = Append(@, Predicate(s.body))]
                          ELSE [s EXCEPT !.body = Append(@, x)]
    [] s.at = "behind" -> [s EXCEPT !.at = IF x = Ch("[") THEN "body" ELSE "bad"]
    [] s.at = "bad"    -> s

TokensRead(t) ==
  Seqs!FoldLeft(ReadToken, [at |-> "name", name |-> <<>>, body |-> <<>>, preds |-> <<>>], t)

ReadSeg(t) ==
  LET r == TokensRead(t)
  IN  Seg(NameOf(r.name), IF r.at \in {"body", "bad"} THEN <<[kind |-> "bad"]>> ELSE r.preds)

(* evalOne: a text that begins with a slash has nothing before its first one. *)
ReadAlt(t) ==
  LET pieces == SplitTop(t, Ch("/"))
      segs == [i \in DOMAIN pieces |-> ReadSeg(pieces[i])]
  IN  IF Len(pieces) > 1 /\ pieces[1] = <<>> THEN [lead |-> "/", segs |-> Tail(segs)]
      ELSE [lead |-> "", segs |-> segs]

(* eval, of a text that is not blank: the operands of "|". *)
Read(t) ==
  LET alts == SplitTop(Trim(t), Ch("|"))
  IN  [i \in DOMAIN alts |-> ReadAlt(Trim(alts[i]))]

-----------------------------------------------------------------------------
(* segment: the label as it is, and a position where siblings share it. *)
Segment(h, n) ==
  LET ix == Index(h, n)
  IN  Spell(h.label[n]) \o (IF ix[2] > 1 THEN <<Ch("["), Num(ix[1]), Ch("]")>> ELSE <<>>)

(* buildPath: the segments from the root down to n.  It climbs Parent until  *)
(* the root or a node without one.  A Parent cycle never ends the climb; the *)
(* climb here stops after one round of all identities.                       *)
BuildPath(h, n) ==
  LET top(m) == m = Root \/ h.parent[m] = Nil
      B[k \in 0 .. Cardinality(Node)] ==
        [m \in Node |-> IF k = 0 \/ top(m) THEN <<>>
                        ELSE B[k - 1][h.parent[m]] \o (<<Ch("/")>> \o Segment(h, m))]
      text == B[Cardinality(Node)][n]
  IN  IF top(n) THEN <<Ch("/")>> ELSE text
=============================================================================
