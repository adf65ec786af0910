----------------------------- MODULE LensSession -----------------------------
(***************************************************************************)
(* One lens of the corpus in use by one goroutine (interpLens of           *)
(* corpus.go): texts are parsed, the tree is edited, and a text is built   *)
(* from it with what the lens remembers of the last text it parsed.        *)
(* Which lenses, texts and trees a behaviour sees is up to Name, LensOf,   *)
(* Texts and Trees; FileSync has several goroutines and files, over one    *)
(* shape of lens.                                                          *)
(***************************************************************************)
EXTENDS LensPut

CONSTANTS Name,      \* names of lenses
          LensOf(_), \* the lens of a name
          Texts(_),  \* texts offered to it
          Trees(_)   \* trees made by a caller

VARIABLES lensName,  \* the lens of this behaviour
          skeleton,  \* the text of the last successful Parse
          tree,      \* the forest the caller holds
          call       \* the last call, for the properties: [op, ok, text]

session == <<lensName, skeleton, tree, call>>

lens == LensOf(lensName)

Returned(op, ok, text) == call' = [op |-> op, ok |-> ok, text |-> text]

Init ==
  /\ lensName \in Name
  /\ skeleton = <<>>
  /\ tree = <<>>
  /\ call = [op |-> "none", ok |-> TRUE, text |-> <<>>]

(* What get makes of each text: it depends on nothing else.                  *)
Parsed == [n \in Name |-> [t \in Texts(n) |-> LnsGet(LensOf(n), t)]]

(* Mutant: the text is remembered before get has succeeded. *)
RememberEager(t, got) ==
  /\ skeleton' = t
  /\ \/ got.ok /\ tree' = got.forest
     \/ ~got.ok /\ UNCHANGED tree
  /\ Returned("parse", got.ok, t)
  /\ UNCHANGED lensName

(* Parse: the skeleton is remembered once get has succeeded. *)
Remember(t, got) ==
  /\ \/ got.ok /\ skeleton' = t /\ tree' = got.forest
     \/ ~got.ok /\ UNCHANGED <<skeleton, tree>>
  /\ Returned("parse", got.ok, t)
  /\ UNCHANGED lensName

ParseText(t) == Remember(t, Parsed[lensName][t])

(* The caller edits its tree: any step of the handle, or several.            *)
Edit(forest) ==
  /\ tree' = forest
  /\ Returned("edit", TRUE, <<>>)
  /\ UNCHANGED <<lensName, skeleton>>

(* Build *)
Hand(put) ==
  /\ Returned("build", put.ok, put.out)
  /\ UNCHANGED <<lensName, skeleton, tree>>

BuildText == Hand(LnsPut(lens, tree, skeleton))

Next ==
  \/ \E t \in Texts(lensName) : ParseText(t)
  \/ \E f \in Trees(lensName) : Edit(f)
  \/ BuildText

Spec == Init /\ [][Next]_session
=============================================================================
