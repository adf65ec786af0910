------------------------------- MODULE Parser -------------------------------
(* The recursive descent parser of lens modules (internal/interp/parser.go)
   over the tokens of the lexer, and the terms it builds (ast.go).

   A token is <<kind>>, or <<kind, value>> for names, strings and regexps; a
   name is <<"x">> or <<"M", "x">>.  A term is a tuple whose first element is
   its kind.  Every function of the parser decides by the next tokens what it
   expects; here the tokens and functions that it then calls for, in order, are
   its Symbols, and the term it makes of what they return is its Meaning. *)
EXTENDS Naturals, Sequences, SequencesExt

Err == [ok |-> FALSE]
Got(t, p) == [ok |-> TRUE, t |-> t, p |-> p]

T(kind) == <<"token", kind>>
N(name) == <<"call", <<name>>>>
AtLevel(name, n) == <<"call", <<name, n>>>>
Fails == <<T("error")>>     \* no token is of this kind

(* The tokens that begin an argument of an application. *)
StartsAExp ==
    {"LIDENT", "QIDENT", "get", "put", "DQUOTED", "REGEXP", "(", "["}

(* A name may be that of a keyword which the lexer takes for a token of its
   own. *)
IdName(tok) == IF tok[1] \in {"get", "put"} THEN <<tok[1]>> ELSE tok[2]

(* The binary operators, the weakest first, and application as the last. *)
Operator == <<";", "|", "-", ".">>
AppLevel == 5
Tag == <<"compose", "union", "minus", "concat", "app">>
Joins(n, tok) ==
    IF n = AppLevel THEN tok[1] \in StartsAExp ELSE tok[1] = Operator[n]

(* "(" starts a parameter only if a name and ":" follow. *)
AtParam(toks, p) ==
    /\ toks[p] = <<"(">>
    /\ toks[p + 1][1] \in {"LIDENT", "get", "put"}
    /\ toks[p + 2] = <<":">>

-----------------------------------------------------------------------------
(* parseStart, parseDecls, parseTestExp *)
ModuleSymbols(s, k) ==
    CASE s = "Module" ->
            <<T("module"), T("UIDENT"), T("="), N("Autoload"), N("Decls"), T("EOF")>>
      [] s = "Autoload" -> IF k = "autoload" THEN <<T(k), T("LIDENT")>> ELSE <<>>
      [] s = "Decls" ->
            IF k \in {"let", "let rec", "test"} THEN <<N("Decl"), N("Decls")>> ELSE <<>>
      [] s = "Decl" ->
            (CASE k = "let" -> <<T(k), T("LIDENT"), N("Params"), T("="), N("Exp")>>
               [] k = "let rec" -> <<T(k), T("LIDENT"), T("="), N("Exp")>>
               [] k = "test" -> <<T(k), N("AExp"), N("TestExp"), T("="), N("TestResult")>>)
      [] s = "TestExp" ->
            (CASE k = "get" -> <<T(k), N("Exp")>>
               [] k = "put" -> <<T(k), N("AExp"), T("after"), N("Exp")>>
               [] OTHER -> Fails)
      [] s = "TestResult" -> IF k \in {"?", "*"} THEN <<T(k)>> ELSE <<N("Exp")>>

(* parseParamList, skipType, skipAType *)
TypeSymbols(s, toks, p) ==
    LET k == toks[p][1]
    IN  CASE s = "Params" ->
                IF AtParam(toks, p)
                THEN <<T("("), T(toks[p + 1][1]), T(":"), N("Type"), T(")"), N("Params")>>
                ELSE <<>>
          [] s = "Type" -> <<N("AType"), N("TypeRest")>>
          [] s = "TypeRest" -> IF k = "->" THEN <<T(k), N("AType"), N("TypeRest")>> ELSE <<>>
          [] s = "AType" ->
                CASE k \in {"string", "regexp", "lens"} -> <<T(k)>>
                  [] k = "(" -> <<T(k), N("Type"), T(")")>>
                  [] OTHER -> Fails

(* parseExp *)
ExpSymbols(k) ==
    IF k = "let"
    THEN <<T(k), T("LIDENT"), N("Params"), T("="), N("Exp"), T("in"), N("Exp")>>
    ELSE <<AtLevel("Level", 1)>>

(* parseCompose, parseUnion, parseMinus, parseCat and parseApp: an operand, and
   as long as the operator follows, another one. *)
LevelSymbols(s, n, tok) ==
    CASE s = "Level" -> <<AtLevel("Operand", n), AtLevel("Rest", n)>>
      [] s = "Rest" ->
            (CASE ~Joins(n, tok) -> <<>>
               [] n = AppLevel -> <<AtLevel("Operand", n), AtLevel("Rest", n)>>
               [] OTHER -> <<T(tok[1]), AtLevel("Operand", n), AtLevel("Rest", n)>>)
      [] s = "Operand" ->
            CASE n = AppLevel -> <<N("AExp"), N("Quant")>>
              [] Tag[n] = "union" /\ tok = <<"{">> -> <<N("TreeConst")>>
              [] OTHER -> <<AtLevel("Level", n + 1)>>

(* Mutant of QuantSymbols: any number of signs, of which the first counts. *)
ManyQuantSymbols(k) == IF k \in {"*", "+", "?"} THEN <<T(k), N("Quant")>> ELSE <<>>

QuantSymbols(k) == IF k \in {"*", "+", "?"} THEN <<T(k)>> ELSE <<>>

(* parseRexp, parseAExp: one repetition sign at most *)
AtomSymbols(s, toks, p) ==
    LET k == toks[p][1]
    IN  CASE s = "Quant" -> QuantSymbols(k)
          [] s = "AExp" ->
                CASE k = "(" -> IF toks[p + 1] = <<")">> THEN <<T(k), T(")")>>
                                ELSE <<T(k), N("Exp"), T(")")>>
                  [] k = "[" -> <<T(k), N("Exp"), T("]")>>
                  [] k \in StartsAExp \ {"(", "["} -> <<T(k)>>
                  [] OTHER -> Fails

(* parseTreeConst, parseTreeBranch: label, value and children may be missing *)
TreeSymbols(s, k) ==
    CASE s = "TreeConst" -> <<N("Branches")>>
      [] s = "Branches" ->
            IF k = "{"
            THEN <<T(k), N("Label"), N("Value"), N("Branches"), T("}"), N("Branches")>>
            ELSE <<>>
      [] s = "Label" -> IF k = "DQUOTED" THEN <<T(k)>> ELSE <<>>
      [] s = "Value" -> IF k = "=" THEN <<T(k), T("DQUOTED")>> ELSE <<>>

Symbols(f, toks, p) ==
    LET s == f[1]
        k == toks[p][1]
    IN  CASE s \in {"Module", "Autoload", "Decls", "Decl", "TestExp", "TestResult"} ->
                ModuleSymbols(s, k)
          [] s \in {"Params", "Type", "TypeRest", "AType"} -> TypeSymbols(s, toks, p)
          [] s = "Exp" -> ExpSymbols(k)
          [] s \in {"Level", "Rest", "Operand"} -> LevelSymbols(s, f[2], toks[p])
          [] s \in {"Quant", "AExp"} -> AtomSymbols(s, toks, p)
          [] s \in {"TreeConst", "Branches", "Label", "Value"} -> TreeSymbols(s, k)

-----------------------------------------------------------------------------
(* f x y = e is f = fun x -> fun y -> e. *)
BuildFunc(params, body) ==
    FoldRight(LAMBDA x, t : <<"func", x, t>>, params, body)

(* Mutant of Joined: to the right. *)
JoinedToTheRight(n, left, rights) ==
    IF rights = <<>> THEN left
    ELSE FoldRight(LAMBDA l, r : <<Tag[n], l, r>>, <<left>> \o Front(rights), Last(rights))

(* Operators associate to the left. *)
Joined(n, left, rights) ==
    FoldLeft(LAMBDA l, r : <<Tag[n], l, r>>, left, rights)

Repeated(a, quant) == IF quant = <<>> THEN a ELSE <<"rep", a, quant[1]>>

DeclMeaning(v) ==
    CASE v[1] = <<"let">> -> <<"bind", v[2][2], BuildFunc(v[3], v[5])>>
      [] v[1] = <<"let rec">> -> <<"letrec", v[2][2], v[4]>>
      [] v[1] = <<"test">> -> <<"test", <<v[3][1], v[2]>> \o Tail(v[3])>> \o v[5]

TestMeaning(v) ==
    IF v[1] = <<"get">> THEN <<"gettest", v[2]>> ELSE <<"puttest", v[2], v[4]>>

ResultMeaning(v) ==
    CASE v[1] = <<"?">> -> <<"print">>
      [] v[1] = <<"*">> -> <<"fails">>
      [] OTHER -> <<"is", v[1]>>

AtomMeaning(v) ==
    CASE v[1][1] \in {"LIDENT", "QIDENT", "get", "put"} -> <<"ident", IdName(v[1])>>
      [] v[1][1] = "DQUOTED" -> <<"string", v[1][2]>>
      [] v[1][1] = "REGEXP" -> <<"regexp", v[1][2]>>
      [] v[1][1] = "(" -> IF Len(v) = 2 THEN <<"unit">> ELSE v[2]
      [] v[1][1] = "[" -> <<"bracket", v[2]>>

(* What a function returns, of what its symbols returned.  Types are forgotten:
   the interpreter is dynamically typed. *)
Meaning(f, v) ==
    LET s == f[1]
    IN  CASE s = "Module" -> [name |-> v[2][2], autoload |-> v[4], decls |-> v[5]]
          [] s = "Autoload" -> IF v = <<>> THEN <<>> ELSE v[2][2]
          [] s = "Decls" -> IF v = <<>> THEN <<>> ELSE <<v[1]>> \o v[2]
          [] s = "Decl" -> DeclMeaning(v)
          [] s = "TestExp" -> TestMeaning(v)
          [] s = "TestResult" -> ResultMeaning(v)
          [] s = "Params" -> IF v = <<>> THEN <<>> ELSE <<IdName(v[2])>> \o v[6]
          [] s = "Exp" ->
                IF Len(v) = 1 THEN v[1] ELSE <<"let", v[2][2], v[3], v[5], v[7]>>
          [] s = "Level" -> Joined(f[2], v[1], v[2])
          [] s = "Rest" -> IF v = <<>> THEN <<>> ELSE <<v[Len(v) - 1]>> \o Last(v)
          [] s = "Operand" -> IF Len(v) = 2 THEN Repeated(v[1], v[2]) ELSE v[1]
          [] s = "Quant" -> IF v = <<>> THEN <<>> ELSE v[1]
          [] s = "AExp" -> AtomMeaning(v)
          [] s = "TreeConst" -> <<"tree", v[1]>>
          [] s = "Branches" -> IF v = <<>> THEN <<>> ELSE <<<<v[2], v[3], v[4]>>>> \o v[6]
          [] s \in {"Label", "Value"} -> IF v = <<>> THEN <<>> ELSE <<Last(v)[2]>>
          [] OTHER -> <<>>

Means(f, r) == IF r.ok THEN Got(Meaning(f, r.t), r.p) ELSE Err

(* expect: one token of that kind, or an error. *)
Expect(toks, p, k) == IF toks[p][1] = k THEN Got(toks[p], p + 1) ELSE Err

RECURSIVE ParseAll(_, _, _, _)
Parse(f, toks, p) == Means(f, ParseAll(Symbols(f, toks, p), toks, p, <<>>))
ParseOne(y, toks, p) ==
    IF y[1] = "token" THEN Expect(toks, p, y[2]) ELSE Parse(y[2], toks, p)
ParseFurther(ys, toks, v, r) ==
    IF r.ok THEN ParseAll(ys, toks, r.p, Append(v, r.t)) ELSE Err
ParseAll(ys, toks, p, v) ==
    IF ys = <<>> THEN Got(v, p)
    ELSE ParseFurther(Tail(ys), toks, v, ParseOne(Head(ys), toks, p))

ParseModule(toks) == Parse(<<"Module">>, toks, 1)
=============================================================================
