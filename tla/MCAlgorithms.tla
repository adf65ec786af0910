---------------------------- MODULE MCAlgorithms ----------------------------
(* The pure algorithms of the interpreter, each against its laws.  A behaviour is
   about one of them: a subtraction, a forest and the commands on it, or a module
   that is written or typed. *)
EXTENDS MCRegexp, MCTreeCmd, MCSyntax

vars == <<left, right, forest, term, toks>>

NoTokens == term = NoTerm /\ toks = <<>>

Init ==
    \/ SomeMinus /\ forest = NoForest /\ NoTokens
    \/ NoMinus /\ SomeForest /\ NoTokens
    \/ NoMinus /\ forest = NoForest /\ SomeTokens

Next ==
    \/ Command /\ UNCHANGED <<left, right, term, toks>>
    \/ SomeKey /\ UNCHANGED <<left, right, forest>>

Spec == Init /\ [][Next]_vars
=============================================================================
