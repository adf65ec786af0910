----------------------------- MODULE ConfigTree -----------------------------
(***************************************************************************)
(* What the editing methods of augeas.go promise about the tree a caller   *)
(* sees: an ordered, labelled tree, free of Parent pointers that lie, of   *)
(* slices and of nodes nobody can reach.  Augeas implements it; the        *)
(* refinement is stated in AugeasProperties.                               *)
(*                                                                         *)
(* The order of siblings is the relation older: <<m, n>> \in older when m  *)
(* stands before n among the children of one node.  Identities are         *)
(* numbers, handed out upwards within a call, so that nodes made by one    *)
(* call line up by number behind those that were there.                    *)
(***************************************************************************)
EXTENDS Naturals

CONSTANTS Node, Root, Label, Value, NoValue

ASSUME NodeAssumption == Node \subseteq Nat /\ Root \in Node

VARIABLES live,    \* the nodes of the tree
          parent,  \* the node each of them but the root hangs under
          older,   \* the order among siblings
          label,
          value

doc == <<live, parent, older, label, value>>

Inner == live \ {Root}
Free == Node \ live

-----------------------------------------------------------------------------
Init ==
  /\ live = {Root}
  /\ parent = [n \in {} |-> Root]
  /\ older = {}
  /\ label = [n \in {} |-> Root]
  /\ value = [n \in {Root} |-> NoValue]

(* T is everything strictly below d. *)
HangsUnder(T, d) ==
  /\ d \notin T
  /\ \A n \in Inner : n \in T <=> parent[n] \in T \cup {d}

(* Mutant: new nodes only hang under nodes of the new tree.                  *)
GroundedLocally(X, par) == \A x \in X : par[x] # x

(* Every new node descends from one of keep, no matter through how many      *)
(* other new ones: no set of new nodes hangs from itself.                    *)
Grounded(X, par) == \A S \in SUBSET X : S # {} => \E x \in S : par[x] \notin S

(* Mutant: the children of every node are put in the order of their making.  *)
RegrownSorted(keep, X, par) ==
  /\ live' = keep \cup X
  /\ parent' = [n \in (keep \cup X) \ {Root} |-> IF n \in X THEN par[n] ELSE parent[n]]
  /\ older' = {e \in (live' \ {Root}) \X (live' \ {Root}) :
                 parent'[e[1]] = parent'[e[2]] /\ e[1] < e[2]}

(* The tree with the nodes X added, each under par[x], behind its older      *)
(* siblings, and with only the nodes keep left of the old ones.              *)
Regrown(keep, X, par) ==
  /\ live' = keep \cup X
  /\ parent' = [n \in (keep \cup X) \ {Root} |-> IF n \in X THEN par[n] ELSE parent[n]]
  /\ older' = {e \in older : e[1] \in keep /\ e[2] \in keep}
       \cup {e \in (keep \ {Root}) \X X : parent[e[1]] = par[e[2]]}
       \cup {e \in X \X X : par[e[1]] = par[e[2]] /\ e[1] < e[2]}

Labelled(keep, X) ==
  \E lab \in [X -> Label] :
    label' = [n \in (keep \cup X) \ {Root} |-> IF n \in X THEN lab[n] ELSE label[n]]

-----------------------------------------------------------------------------
(* Set, SetMultiple and DefineNode, failing or not: some nodes are added,    *)
(* and the nodes N get one value.                                            *)
Write ==
  \E X \in SUBSET Free :
    /\ live' = live \cup X
    /\ \E par \in [X -> live \cup X] : Grounded(X, par) /\ Regrown(live, X, par)
    /\ Labelled(live, X)
    /\ \E N \in SUBSET (live \cup X), v \in Value :
         value' = [n \in live \cup X |-> CASE n \in N -> v
                                           [] n \in X \ N -> NoValue
                                           [] OTHER -> value[n]]

(* Mutant: x is put behind those ahead of it and not before the others.      *)
InsertBehind(n, x, before) ==
  LET ahead == {m \in Inner : \/ <<m, n>> \in older
                              \/ ~before /\ m = n}
  IN  /\ live' = live \cup {x}
      /\ parent' = [m \in Inner \cup {x} |-> IF m = x THEN parent[n] ELSE parent[m]]
      /\ older' = older \cup (ahead \X {x})
      /\ Labelled(live, {x})
      /\ value' = [m \in live \cup {x} |-> IF m = x THEN NoValue ELSE value[m]]

(* Insert: a new node x next to n. *)
InsertBeside(n, x, before) ==
  LET ahead == {m \in Inner : \/ <<m, n>> \in older
                              \/ ~before /\ m = n}
      behind == {m \in Inner : parent[m] = parent[n]} \ ahead
  IN  /\ live' = live \cup {x}
      /\ parent' = [m \in Inner \cup {x} |-> IF m = x THEN parent[n] ELSE parent[m]]
      /\ older' = older \cup (ahead \X {x}) \cup ({x} \X behind)
      /\ Labelled(live, {x})
      /\ value' = [m \in live \cup {x} |-> IF m = x THEN NoValue ELSE value[m]]

(* Remove: whole subtrees go, nothing else changes. *)
Prune ==
  \E T \in SUBSET Inner :
    /\ live' = live \ T
    /\ \A n \in Inner : parent[n] \in T => n \in T
    /\ Regrown(live \ T, {}, [x \in {} |-> Root])
    /\ label' = [n \in Inner \ T |-> label[n]]
    /\ value' = [n \in live \ T |-> value[n]]

(* TextStore, Load and LoadFile: everything below d makes way for the nodes  *)
(* a lens parsed; d and its missing ancestors may be new themselves.         *)
Store ==
  \E T \in SUBSET Inner, X \in SUBSET Free :
    /\ live' = (live \ T) \cup X
    /\ T = {} \/ \E d \in live : HangsUnder(T, d)
    /\ \E par \in [X -> (live \ T) \cup X] : Grounded(X, par) /\ Regrown(live \ T, X, par)
    /\ Labelled(live \ T, X)
    /\ \E val \in [X -> Value \cup {NoValue}] :
         value' = [n \in (live \ T) \cup X |-> IF n \in X THEN val[n] ELSE value[n]]

(* The links after the children of s, the topmost of U, came under d. *)
Rehung(s, d, U, X, par) ==
  /\ parent' = [n \in live' \ {Root} |-> CASE n \in X -> par[n]
                                           [] n \in U /\ parent[n] = s -> d
                                           [] OTHER -> parent[n]]
  /\ older' = {e \in older : e[1] \in live' /\ e[2] \in live'}
       \cup {e \in ((live' \ X) \ {Root}) \X X : parent[e[1]] = par[e[2]]}
       \cup {e \in X \X X : par[e[1]] = par[e[2]] /\ e[1] < e[2]}

(* Move: s goes, and what hung below it hangs below d instead, in its order, *)
(* with s's value.  What hung below d goes.  d is in the tree or is made,    *)
(* with its missing ancestors, by this call; it is never inside s.           *)
Move(s, d) ==
  \E T \in SUBSET Inner, U \in SUBSET Inner, X \in SUBSET Free :
    /\ HangsUnder(U, s)
    /\ d # s /\ d \notin U
    /\ d \in live \cup X
    /\ X # {} => d \in X
    /\ IF d \in X THEN T = {} ELSE HangsUnder(T, d)
    /\ live' = (((live \ T) \ {s}) \cup U) \cup X
    /\ \E par \in [X -> (live \ (U \cup {s})) \cup X] :
         Grounded(X, par) /\ (\A x \in X : par[x] # d) /\ Rehung(s, d, U, X, par)
    /\ Labelled(live' \ X, X)
    /\ value' = [n \in live' |-> CASE n = d -> value[s]
                                   [] n \in X \ {d} -> NoValue
                                   [] OTHER -> value[n]]

Next ==
  \/ Write
  \/ \E n \in Inner, x \in Free, before \in BOOLEAN : InsertBeside(n, x, before)
  \/ Prune
  \/ Store
  \/ \E s \in Inner, d \in Node : Move(s, d)

Spec == Init /\ [][Next]_doc

-----------------------------------------------------------------------------
TypeOK ==
  /\ live \in SUBSET Node
  /\ Root \in live
  /\ parent \in [Inner -> live]
  /\ older \in SUBSET (Inner \X Inner)
  /\ label \in [Inner -> Label]
  /\ value \in [live -> Value \cup {NoValue}]

(* The children of a node stand in one line: older relates siblings only,    *)
(* any two of them one way round, and transitively.                          *)
SiblingsInLine ==
  /\ \A m, n \in Inner : <<m, n>> \in older => m # n /\ parent[m] = parent[n]
  /\ \A m, n \in Inner :
       m # n /\ parent[m] = parent[n] => (<<m, n>> \in older <=> <<n, m>> \notin older)
  /\ \A k, m, n \in Inner : <<k, m>> \in older /\ <<m, n>> \in older => <<k, n>> \in older

(* Every node hangs, directly or not, under the root: nothing is orphaned,   *)
(* and nothing hangs from itself.                                            *)
Rooted ==
  \A S \in SUBSET live :
    (Root \in S /\ \A n \in Inner : parent[n] \in S => n \in S) => S = live

(* Two siblings that stay siblings never change places. *)
OrderStable ==
  [][\A m, n \in Inner \cap Inner' :
       parent[m] = parent[n] /\ <<m, n>> \in older /\ parent'[m] = parent'[n]
         => <<m, n>> \in older']_doc
=============================================================================
