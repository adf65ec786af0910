------------------------------ MODULE MCAugeas ------------------------------
(***************************************************************************)
(* Small inputs for Augeas: a tree edited through paths from the root, the *)
(* same with a variable, and one set of inputs for each finding.           *)
(***************************************************************************)
EXTENDS AugeasProperties, Naturals, Sequences

(* Labels that are not one word: the bar is read as a union. *)
NoSpelling == [l \in {} |-> <<>>]
OddSpelling == [l \in {"x|y"} |-> <<Ch("x"), Ch("|"), Ch("y")>>]

N(name) == Seg(name, <<>>)
At(name, k) == Seg(name, <<[kind |-> "pos", n |-> k]>>)
Last(name) == Seg(name, <<[kind |-> "last"]>>)
Having(name, sub) == Seg(name, <<[kind |-> "exists", path |-> sub]>>)
Valued(name, sub, vs) == Seg(name, <<[kind |-> "values", path |-> sub, values |-> vs]>>)
Broken(name) == Seg(name, <<[kind |-> "bad"]>>)

Body(lead, segs) == <<[lead |-> lead, segs |-> segs]>>
Abs(segs) == Body("/", segs)

A == Abs(<<N("a")>>)
B == Abs(<<N("b")>>)
AB == Abs(<<N("a"), N("b")>>)
AA == Abs(<<N("a"), N("a")>>)
BA == Abs(<<N("b"), N("a")>>)
RootPath == Abs(<<EmptySeg>>)
A2 == Abs(<<At("a", 2)>>)
A1B == Abs(<<At("a", 1), N("b")>>)
ALast == Abs(<<Last("a")>>)
Any == Abs(<<N("*")>>)
AllAny == Abs(<<EmptySeg, N("*")>>)
AllA == Abs(<<EmptySeg, N("a")>>)
AllB == Abs(<<EmptySeg, N("b")>>)
ASlash == Abs(<<N("a"), EmptySeg>>)
ASlashB == Abs(<<N("a"), EmptySeg, N("b")>>)
AOrB == <<A[1], B[1]>>
AUp == Abs(<<N("a"), Up>>)
BUpA == Abs(<<N("b"), Up, N("a")>>)
ASelf == Abs(<<N("a"), Self>>)
AHavingB == Abs(<<Having("a", <<"b">>)>>)
AIsV == Abs(<<Valued("a", <<".">>, {"v"})>>)
RelA == Body("", <<N("a")>>)
BadA == Abs(<<Broken("a")>>)

TreeSet == {A, B, AB, BA, ASlash, ASlashB, RelA, AOrB, BadA, AHavingB}
TreeSub == {<<Any, <<N("*")>>>>, <<A2, <<Up, N("b")>>>>, <<Any, <<N("b")>>>>, <<AllA, <<N("a"), EmptySeg, N("b")>>>>}
TreeInsert == {<<A, "x|y", TRUE>>, <<A, "a", TRUE>>, <<ALast, "b", FALSE>>, <<AB, "b", FALSE>>, <<RootPath, "a", TRUE>>, <<A, "*", TRUE>>}
TreeRemove == {A, AllB, AllAny, A2, AUp, Any, AIsV, RootPath, BadA}
(* Pairs that keep the doc comment's rule, plus pairs the code refuses. *)
TreeMove == {<<A, B>>, <<B, A>>, <<AB, B>>, <<AB, A>>, <<A, A1B>>, <<A2, A1B>>, <<B, AA>>, <<A, AUp>>, <<AllB, ALast>>, <<RootPath, A>>, <<B, ASlashB>>}
TreeRead == {AllA, BadA}
Entries == {[ok |-> TRUE, entries |-> <<>>],
            [ok |-> TRUE, entries |-> <<[label |-> "b", value |-> NoValue], [label |-> "a", value |-> "v"]>>],
            [ok |-> FALSE, entries |-> <<>>]}
TreeStore == {A, ASlash} \X Entries
NoInput == {}

(* Paths through a variable. *)
X == Body("x", <<EmptySeg>>)
XB == Body("x", <<N("b")>>)
XUp == Body("x", <<Up>>)
XAny == Body("x", <<N("*")>>)
XDeep == Body("x", <<EmptySeg, N("b")>>)

VarSet == {AB, X, XB}
VarSub == {<<X, <<N("b")>>>>, <<XAny, <<N("a")>>>>}
VarInsert == {<<X, "a", FALSE>>, <<XAny, "b", TRUE>>}
VarRemove == {A, XB, XUp, AllB}
VarMove == {<<A, X>>, <<AllB, X>>}
VarBind == {A, AllB, XAny, BadA}
VarRead == {X, BadA}

(* A sibling inserted under a label with a bar in it. *)
OddSet == {A, AB}
OddInsert == {<<A, "x|y", FALSE>>, <<AB, "x|y", TRUE>>}
OddRead == {RootPath}

(* Move to a path that does not exist yet and lies below the source. *)
InsideSet == {AA}
InsideMove == {<<A, AB>>}

(* A variable bound below a node that TextStore then empties. *)
EmptiedSet == {AB}
EmptiedBind == {AB}
EmptiedStore == {A} \X Entries
EmptiedInsert == {<<X, "a", FALSE>>}

(* A variable bound to the source of a Move. *)
MovedSet == {AA, AB, BA}
MovedRemove == {AB}
MovedBind == {A}
MovedMove == {<<A, B>>}
MovedSub == {<<X, <<N("b")>>>>}
=============================================================================
