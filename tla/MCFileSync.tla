----------------------------- MODULE MCFileSync -----------------------------
(* Two files of one or two lines and one that createFrom refuses, two        *)
(* goroutines, one lens.                                                     *)
EXTENDS FileSync, Sequences

Ln(k, gap, v) == [key |-> k, gap |-> gap, value |-> v]
Node(k, v) == [label |-> k, value |-> v]

Wide == <<Ln("k", "wide", "u"), Ln("l", "tab", "u")>>
Narrow == <<Ln("k", "narrow", "u")>>
Broken == <<Ln("l", "wide", "u"), Ln("junk", "none", "u")>>
TwoFiles == [f \in File |-> IF f = "e" THEN Wide ELSE Narrow]
SomeTexts == {Wide, Narrow, Broken}

OneEach == [g \in Handle |-> IF g = "g1" THEN {"e", "f"} ELSE {"f"}]
WithRefused == [g \in Handle |-> IF g = "g1" THEN {"e", "f", "x*"} ELSE {"f"}]
Stored == {Node("k", "v")}
Valueless == {Node("k", NoValue)}
=============================================================================
