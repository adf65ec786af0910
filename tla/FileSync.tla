------------------------------ MODULE FileSync ------------------------------
(***************************************************************************)
(* Load and Save of fs.go over a lens of the corpus (interpLens of         *)
(* corpus.go).  Several handles, each driven by its own goroutine, share   *)
(* one lens, which remembers the text it parsed last (skeleton, guarded by *)
(* mu), and one file system, which other programs change too.              *)
(*                                                                         *)
(* A goroutine's steps touch shared state one at a time: a file is read in *)
(* one step and parsed in the next, a text is built in one step and        *)
(* written in the next.  A handle's own tree needs no such care; it holds  *)
(* one node per file here, the one at mount/base.                          *)
(***************************************************************************)
EXTENDS KeyedLens, SequencesExt

CONSTANTS Handle,
          File,
          Pattern,       \* Pattern[g]: the files the glob of handle g covers
          Refused,       \* files whose base name createFrom refuses: it holds
                         \* one of "[", "]", "*" and "|"
          Disk,          \* Disk[f]: the text of f at first
          Text,          \* what other programs write
          NewNode,       \* nodes a caller inserts
          Missing,       \* no such file
          Absent,        \* no such node
          ChangeBound    \* edits, saves and changes by other programs, at most

ASSUME FilesAssumption ==
  /\ \A g \in Handle : Pattern[g] \subseteq File /\ IsFiniteSet(Pattern[g])
  /\ Refused \subseteq File
  /\ Disk \in [File -> Seq(TextLine) \cup {Missing}]
  /\ \A t \in Text : t \in Seq(TextLine)
  /\ NewNode \subseteq TreeNode
  /\ Absent \notin Seq(TreeNode) /\ Absent \notin Seq(TextLine)

VARIABLES disk,      \* disk[f]: the text of f, or Missing
          skeleton,  \* the text the lens parsed last
          tree,      \* tree[g][f]: the nodes below mount/base, or Absent
          errors,    \* errors[g]: files with a node under /augeas/files
          pc,        \* pc[g]: what the goroutine of g does next
          todo,      \* todo[g]: the files its call has still to process
          buffer,    \* buffer[g]: the text it has read, or is to write
          loaded,    \* loaded[g][f]: the text tree[g][f] was parsed from
                     \* (for the properties; no code reads it)
          changes    \* edits, saves and changes by other programs so far

sync == <<disk, skeleton, tree, errors, pc, todo, buffer, loaded, changes>>

Empty == <<>>

Init ==
  /\ disk = Disk
  /\ skeleton = Empty
  /\ tree = [g \in Handle |-> [f \in File |-> Absent]]
  /\ errors = [g \in Handle |-> {}]
  /\ pc = [g \in Handle |-> "idle"]
  /\ todo = [g \in Handle |-> Empty]
  /\ buffer = [g \in Handle |-> Empty]
  /\ loaded = [g \in Handle |-> [f \in File |-> Absent]]
  /\ changes = 0

-----------------------------------------------------------------------------
(* Load: the files the glob finds.  With none, or a failing glob, the call   *)
(* returns at once and changes no more than lastError.                       *)
LoadGlob(g) ==
  LET files == SetToSeq({f \in Pattern[g] : disk[f] # Missing})
  IN  /\ pc[g] = "idle"
      /\ \/ /\ files # Empty
            /\ todo' = [todo EXCEPT ![g] = files]
            /\ pc' = [pc EXCEPT ![g] = "read"]
            /\ UNCHANGED <<disk, skeleton, tree, errors, buffer, loaded, changes>>
         \/ UNCHANGED sync

(* Mutant: the loop ends one round late.                                     *)
NextFileLate(g) ==
  /\ todo' = [todo EXCEPT ![g] = Tail(@)]
  /\ pc' = [pc EXCEPT ![g] = IF Len(todo[g]) = 0 THEN "idle" ELSE "read"]

(* The next round of the loop over the files; after the last the call returns. *)
NextFile(g) ==
  /\ todo' = [todo EXCEPT ![g] = Tail(@)]
  /\ pc' = [pc EXCEPT ![g] = IF Len(todo[g]) = 1 THEN "idle" ELSE "read"]

(* Mutant: a failure leaves no trace.                                        *)
RecordNothing(g, f) == UNCHANGED errors

(* recordError; nothing ever removes the node it leaves.  For a base name    *)
(* that createFrom refuses there is none, and recordError returns.           *)
RecordError(g, f) == errors' = [errors EXCEPT ![g] = @ \cup ({f} \ Refused)]

(* loadOne, to ReadFile.  It fails when the file went away since the glob,   *)
(* or for any other reason the system gives.                                 *)
LoadRead(g) ==
  LET f == Head(todo[g])
  IN  /\ pc[g] = "read"
      /\ \/ /\ disk[f] # Missing
            /\ buffer' = [buffer EXCEPT ![g] = disk[f]]
            /\ pc' = [pc EXCEPT ![g] = "parse"]
            /\ UNCHANGED <<todo, errors>>
         \/ /\ RecordError(g, f)
            /\ NextFile(g)
            /\ UNCHANGED buffer
      /\ UNCHANGED <<disk, skeleton, tree, loaded, changes>>

(* Mutant: the skeleton is recorded before the text is known to parse.       *)
LoadParseEager(g) ==
  LET f == Head(todo[g])
      parsed == Get(buffer[g])
  IN  /\ pc[g] = "parse"
      /\ skeleton' = buffer[g]
      /\ \/ /\ parsed.ok /\ f \notin Refused
            /\ tree' = [tree EXCEPT ![g][f] = parsed.forest]
            /\ loaded' = [loaded EXCEPT ![g][f] = buffer[g]]
            /\ UNCHANGED errors
         \/ /\ ~parsed.ok \/ f \in Refused
            /\ RecordError(g, f)
            /\ UNCHANGED <<tree, loaded>>
      /\ NextFile(g)
      /\ buffer' = [buffer EXCEPT ![g] = Empty]
      /\ UNCHANGED <<disk, changes>>

(* loadOne, from Parse: interpLens records the skeleton once interp.Get has  *)
(* succeeded, and the parsed nodes replace the children of mount/base.  When *)
(* it fails, or createFrom refuses mount/base, the old children stay.        *)
LoadParse(g) ==
  LET f == Head(todo[g])
      parsed == Get(buffer[g])
  IN  /\ pc[g] = "parse"
      /\ \/ /\ parsed.ok /\ f \notin Refused
            /\ skeleton' = buffer[g]
            /\ tree' = [tree EXCEPT ![g][f] = parsed.forest]
            /\ loaded' = [loaded EXCEPT ![g][f] = buffer[g]]
            /\ UNCHANGED errors
         \/ /\ parsed.ok /\ f \in Refused
            /\ skeleton' = buffer[g]
            /\ RecordError(g, f)
            /\ UNCHANGED <<tree, loaded>>
         \/ /\ ~parsed.ok
            /\ RecordError(g, f)
            /\ UNCHANGED <<skeleton, tree, loaded>>
      /\ NextFile(g)
      /\ buffer' = [buffer EXCEPT ![g] = Empty]
      /\ UNCHANGED <<disk, changes>>

-----------------------------------------------------------------------------
(* Save, to Build, which takes the skeleton under the lock.  Without a node  *)
(* at the mount the call returns and changes no more than lastError.         *)
SaveBuild(g, f) ==
  /\ pc[g] = "idle"
  /\ tree[g][f] # Absent
  /\ changes < ChangeBound
  /\ changes' = changes + 1
  /\ buffer' = [buffer EXCEPT ![g] = Put(tree[g][f], skeleton)]
  /\ todo' = [todo EXCEPT ![g] = <<f>>]
  /\ pc' = [pc EXCEPT ![g] = "write"]
  /\ UNCHANGED <<disk, skeleton, tree, errors, loaded>>

(* Save, WriteFile.  os.WriteFile truncates the file first: when it fails it *)
(* leaves the old text, or none of the new one.                              *)
SaveWrite(g) ==
  LET f == Head(todo[g])
  IN  /\ pc[g] = "write"
      /\ \E text \in {buffer[g], disk[f], Empty} : disk' = [disk EXCEPT ![f] = text]
      /\ NextFile(g)
      /\ buffer' = [buffer EXCEPT ![g] = Empty]
      /\ UNCHANGED <<skeleton, tree, errors, loaded, changes>>

-----------------------------------------------------------------------------
(* What the caller does between Load and Save: set the value of a node,      *)
(* remove one, insert one.                                                   *)
Edits(forest) ==
  {[forest EXCEPT ![i].value = v] : i \in DOMAIN forest, v \in Value}
    \cup {RemoveAt(forest, i) : i \in DOMAIN forest}
    \cup {InsertAt(forest, i, n) : i \in 1 .. Len(forest) + 1, n \in NewNode}

Edit(g, f) ==
  /\ pc[g] = "idle"
  /\ tree[g][f] # Absent
  /\ changes < ChangeBound
  /\ changes' = changes + 1
  /\ tree' \in {[tree EXCEPT ![g][f] = forest] : forest \in Edits(tree[g][f])}
  /\ UNCHANGED <<disk, skeleton, errors, pc, todo, buffer, loaded>>

(* Another program writes or deletes a file. *)
Outside(f) ==
  /\ changes < ChangeBound
  /\ changes' = changes + 1
  /\ disk' \in {[disk EXCEPT ![f] = text] : text \in Text \cup {Missing}}
  /\ UNCHANGED <<skeleton, tree, errors, pc, todo, buffer, loaded>>

-----------------------------------------------------------------------------
(* The steps of a call under way. *)
Step(g) == LoadRead(g) \/ LoadParse(g) \/ SaveWrite(g)

Next ==
  \/ \E g \in Handle : LoadGlob(g)
  \/ \E g \in Handle : Step(g)
  \/ \E g \in Handle, f \in File : SaveBuild(g, f)
  \/ \E g \in Handle, f \in File : Edit(g, f)
  \/ \E f \in File : Outside(f)

(* The Go scheduler runs every goroutine that can run: a call under way goes *)
(* on, file operations return.  Nobody has to make a call.                   *)
Fairness == \A g \in Handle : WF_sync(Step(g))

Spec == Init /\ [][Next]_sync /\ Fairness

-----------------------------------------------------------------------------
(* Texts hold lines and trees hold nodes; a call under way has a file to     *)
(* work on, an idle handle has none and no text in hand; a tree that is      *)
(* there was parsed from some text.                                          *)
TypeOK ==
  /\ disk \in [File -> Seq(TextLine) \cup {Missing}]
  /\ skeleton \in Seq(TextLine)
  /\ tree \in [Handle -> [File -> Seq(TreeNode) \cup {Absent}]]
  /\ errors \in [Handle -> SUBSET File]
  /\ pc \in [Handle -> {"idle", "read", "parse", "write"}]
  /\ todo \in [Handle -> Seq(File)]
  /\ buffer \in [Handle -> Seq(TextLine)]
  /\ loaded \in [Handle -> [File -> Seq(TextLine) \cup {Absent}]]
  /\ \A g \in Handle :
       /\ pc[g] = "idle" <=> todo[g] = Empty
       /\ pc[g] \in {"idle", "read"} => buffer[g] = Empty
       /\ \A f \in File : tree[g][f] = Absent <=> loaded[g][f] = Absent

(* The lens never remembers a text it cannot parse, so that the skeleton     *)
(* covers the whole of it: a failing Parse of any file, by any goroutine,    *)
(* leaves the skeleton alone.                                                *)
SkeletonParses == Get(skeleton).ok

(* The lines of old that the tree did not change: of a label that occurs     *)
(* once in old and once in the forest, with the value it had.                *)
Untouched(old, forest) ==
  {x \in ToSet(old) :
     /\ Cardinality({i \in DOMAIN old : old[i].key = x.key}) = 1
     /\ Cardinality({i \in DOMAIN forest : forest[i].label = x.key}) = 1
     /\ \E i \in DOMAIN forest : forest[i] = [label |-> x.key, value |-> x.value]}

(* Build writes the lines the tree did not change as they were, spacing and  *)
(* all, when the lens parsed this file last.                                 *)
OwnLayoutKept ==
  [][\A g \in Handle, f \in File :
       SaveBuild(g, f) /\ skeleton = loaded[g][f]
         => Untouched(loaded[g][f], tree[g][f]) \subseteq ToSet(buffer[g]')]_sync

(* A text Build returns parses back to the tree it was built from, whichever *)
(* file and goroutine the skeleton came from.                                *)
BuildReproducesTree ==
  [][\A g \in Handle, f \in File :
       SaveBuild(g, f) => Get(buffer[g]') = [ok |-> TRUE, forest |-> tree[g][f]]]_sync

(* Every file the glob found ends up in the tree or has its error recorded,  *)
(* whatever becomes of the other files, and whatever is saved, edited or     *)
(* deleted meanwhile.  Of the files createFrom refuses no more is true than  *)
(* that they do not keep Load from the others: recordError fails as well.    *)
EveryFileAccountedFor ==
  \A g \in Handle, f \in File \ Refused :
    (pc[g] = "read" /\ f \in ToSet(todo[g])) ~> (tree[g][f] # Absent \/ f \in errors[g])
=============================================================================
