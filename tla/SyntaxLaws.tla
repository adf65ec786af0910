----------------------------- MODULE SyntaxLaws -----------------------------
(* What the parser promises: a term written down with the fewest brackets is
   read back as that term, and what is read from any tokens says all of them.
   Somebody writes a module, token by token or in one piece. *)
EXTENDS Parser, FiniteSets, SequencesExt

CONSTANTS
    Modules,    \* terms to write down and read back
    Beginnings, \* tokens to go on from
    Keys,       \* the tokens that may be appended
    MaxTyped    \* bound of the model: how many

VARIABLES
    term,       \* the module that was written in one piece, or NoTerm
    toks        \* none when nothing is written

NoTerm == [name |-> <<>>, autoload |-> <<>>, decls |-> <<>>]

-----------------------------------------------------------------------------
(* The grammar backwards.  A term binds at a level: 0 for let, 1 to 5 for the
   operators, then a repetition, then what needs no brackets anywhere.  A tree
   constant is a union of one. *)
LevelOf(t) ==
    CASE t[1] = "let" -> 0
      [] t[1] \in ToSet(Tag) -> CHOOSE n \in DOMAIN Tag : Tag[n] = t[1]
      [] t[1] = "tree" -> 2
      [] t[1] = "rep" -> 6
      [] OTHER -> 7

NameToken(name) ==
    CASE name \in {<<"get">>, <<"put">>} -> name
      [] Len(name) = 2 -> <<"QIDENT", name>>
      [] OTHER -> <<"LIDENT", name>>

WriteParams(params) ==
    FlattenSeq([i \in DOMAIN params |->
        <<<<"(">>, NameToken(params[i]), <<":">>, <<"string">>, <<")">>>>])

RECURSIVE WriteNodes(_)
WriteNodes(nodes) ==
    FlattenSeq([i \in DOMAIN nodes |->
        <<<<"{">>>>
          \o (IF nodes[i][1] = <<>> THEN <<>> ELSE <<<<"DQUOTED", nodes[i][1][1]>>>>)
          \o (IF nodes[i][2] = <<>> THEN <<>>
              ELSE <<<<"=">>, <<"DQUOTED", nodes[i][2][1]>>>>)
          \o WriteNodes(nodes[i][3]) \o <<<<"}">>>>])

RECURSIVE Write(_, _)
(* The right operand of an operator stands one level above it, save a tree
   constant in a union. *)
WriteBinary(n, t) ==
    Write(t[2], n)
      \o (IF n = AppLevel THEN <<>> ELSE <<<<Operator[n]>>>>)
      \o Write(t[3], IF Tag[n] = "union" /\ t[3][1] = "tree" THEN n ELSE n + 1)
WriteBare(t) ==
    CASE t[1] = "let" ->
            <<<<"let">>, NameToken(t[2])>> \o WriteParams(t[3]) \o <<<<"=">>>>
              \o Write(t[4], 0) \o <<<<"in">>>> \o Write(t[5], 0)
      [] t[1] \in ToSet(Tag) -> WriteBinary(LevelOf(t), t)
      [] t[1] = "tree" -> WriteNodes(t[2])
      [] t[1] = "rep" -> Append(Write(t[2], 7), <<t[3]>>)
      [] t[1] = "ident" -> <<NameToken(t[2])>>
      [] t[1] = "string" -> <<<<"DQUOTED", t[2]>>>>
      [] t[1] = "regexp" -> <<<<"REGEXP", t[2]>>>>
      [] t[1] = "unit" -> <<<<"(">>, <<")">>>>
      [] t[1] = "bracket" -> <<<<"[">>>> \o Write(t[2], 0) \o <<<<"]">>>>
Write(t, n) ==
    IF LevelOf(t) < n THEN <<<<"(">>>> \o WriteBare(t) \o <<<<")">>>> ELSE WriteBare(t)

RECURSIVE ParamsOf(_), BodyOf(_)
ParamsOf(t) == IF t[1] = "func" THEN <<t[2]>> \o ParamsOf(t[3]) ELSE <<>>
BodyOf(t) == IF t[1] = "func" THEN BodyOf(t[3]) ELSE t

WriteTest(d) ==
    LET e == d[2]
    IN  <<<<"test">>>> \o Write(e[2], 7)
          \o (IF e[1] = "gettest" THEN <<<<"get">>>> \o Write(e[3], 0)
              ELSE <<<<"put">>>> \o Write(e[3], 7) \o <<<<"after">>>> \o Write(e[4], 0))
          \o <<<<"=">>>>
          \o (CASE d[3] = "print" -> <<<<"?">>>>
                [] d[3] = "fails" -> <<<<"*">>>>
                [] d[3] = "is" -> Write(d[4], 0))

WriteDecl(d) ==
    CASE d[1] = "bind" ->
            <<<<"let">>, NameToken(d[2])>> \o WriteParams(ParamsOf(d[3]))
              \o <<<<"=">>>> \o Write(BodyOf(d[3]), 0)
      [] d[1] = "letrec" ->
            <<<<"let rec">>, NameToken(d[2]), <<"=">>>> \o Write(d[3], 0)
      [] d[1] = "test" -> WriteTest(d)

WriteModule(m) ==
    <<<<"module">>, <<"UIDENT", m.name>>, <<"=">>>>
      \o (IF m.autoload = <<>> THEN <<>> ELSE <<<<"autoload">>, NameToken(m.autoload)>>)
      \o FlattenSeq([i \in DOMAIN m.decls |-> WriteDecl(m.decls[i])])

-----------------------------------------------------------------------------
SomeTokens ==
    \/ term \in Modules /\ toks = WriteModule(term)
    \/ term = NoTerm /\ toks \in Beginnings

Type(k) ==
    /\ term = NoTerm
    /\ \E b \in Beginnings : IsPrefix(b, toks) /\ Len(toks) < Len(b) + MaxTyped
    /\ toks' = Append(toks, k)
    /\ UNCHANGED term

SomeKey == \E k \in Keys : Type(k)

-----------------------------------------------------------------------------
Parsed == ParseModule(Append(toks, <<"EOF">>))

(* A module that is written down with brackets only where the levels need them
   is read back as it was: the operators bind and associate as intended. *)
ReadsBack == term # NoTerm => Parsed.ok /\ Parsed.t = term

(* All tokens but the round brackets around an expression or a type. *)
Plain(ts) ==
    LET said(i) ==
          CASE ts[i] = <<"(">> -> i < Len(ts) /\ ts[i + 1] = <<")">>
            [] ts[i] = <<")">> -> i > 1 /\ ts[i - 1] = <<"(">>
            [] OTHER -> TRUE
        kept == SelectSeq([i \in DOMAIN ts |-> i], said)
    IN  [i \in DOMAIN kept |-> ts[kept[i]]]

(* Whatever tokens the parser accepts, the module it returns says all of them in
   their order: none is passed over, and none read twice. *)
NothingIsLost == Parsed.ok => Plain(WriteModule(Parsed.t)) = Plain(toks)
=============================================================================
