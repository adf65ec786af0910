------------------------------- MODULE Interp -------------------------------
(* The interpreter of lens modules (internal/interp: eval.go, thunk.go, rec.go,
   value.go, builtins.go), in one goroutine.  A step is one Go function up to
   its next call of eval, force or apply; frames is what is left to do when such
   a call returns.

   Terms are those of Parser.  Values are tuples <<kind, ...>>: strings are
   sequences, regexps and lenses say how they were made (Lens and Automata have
   what that computes), a closure is <<"closure", param, body, env>>, and an
   error is a value too.  An env is the module at its root with the bindings of
   the scopes below it, the innermost last. *)
EXTENDS Naturals, Sequences, FiniteSetsExt, SequencesExt

CONSTANTS
    Source,         \* per base name, what parseModule returns for its text
    BadSyntax,      \* an error of the lexer or the parser
    Base,           \* per module name that is asked for, that name in lower case
    Leaves(_, _),   \* the difference of two regexps is not empty (FaMinus)
    Computed(_, _)  \* what get (LensPut), the tree commands (TreeCmd) and
                    \*   Sys.getenv return for arguments of the right kinds

VARIABLES
    loaded,         \* interp.modules, by the name that was asked for
    forcing, done,  \* thunk.forcing, thunk.done
    val,            \* thunk.val or thunk.err
    ctl,            \* the call or the return that comes next
    frames

machine == <<loaded, forcing, done, val, ctl, frames>>

Idle == <<"idle">>
None == <<"none">>
Error(kind) == <<"error", kind>>
IsError(v) == v[1] = "error"

-----------------------------------------------------------------------------
(* LoadModule.  A module that does not load is not cached, one that does is
   cached under the name it was asked for by. *)
ModuleOf(m) == Source[Base[m]]

Provided(m) == m \in DOMAIN Base /\ Base[m] \in DOMAIN Source

LoadError(m) ==
    CASE ~Provided(m) -> "missing"
      [] Provided(m) /\ ModuleOf(m) = BadSyntax -> "syntax"
      [] OTHER -> IF Base[ModuleOf(m).name] # Base[m] THEN "misnamed" ELSE "none"

Loadable == {m \in DOMAIN Base : LoadError(m) = "none"}

LoadThen(m, next) ==
    IF LoadError(m) = "none"
    THEN loaded' = loaded \cup {m} /\ ctl' = next
    ELSE UNCHANGED loaded /\ ctl' = <<"value", Error(LoadError(m))>>

(* The declarations of a name; the last one overwrites the others. *)
DeclsOf(m, n) ==
    {i \in DOMAIN ModuleOf(m).decls :
        ModuleOf(m).decls[i][1] # "test" /\ ModuleOf(m).decls[i][2] = n}

Thunk == UNION {{m} \X {i \in DOMAIN ModuleOf(m).decls :
                          ModuleOf(m).decls[i][1] # "test"} : m \in Loadable}
DeclOf(b) == ModuleOf(b[1]).decls[b[2]]

-----------------------------------------------------------------------------
(* The kinds of the arguments of the native functions. *)
Takes ==
    [del |-> <<"re", "string">>, store |-> <<"re">>, key |-> <<"re">>,
     label |-> <<"string">>, value |-> <<"string">>,
     seq |-> <<"string">>, counter |-> <<"string">>,
     square |-> <<"lens", "lens", "lens">>,
     incl |-> <<"string">>, excl |-> <<"string">>,
     transform |-> <<"lens", "filter">>, get |-> <<"lens", "string">>,
     print_string |-> <<"any">>, print_regexp |-> <<"any">>,
     print_endline |-> <<"any">>, print_tree |-> <<"any">>,
     lens_ctype |-> <<"lens">>, lens_atype |-> <<"lens">>,
     lens_ktype |-> <<"lens">>, lens_vtype |-> <<"lens">>,
     set |-> <<"string", "string", "tree">>, clear |-> <<"string", "tree">>,
     rm |-> <<"string", "tree">>, insa |-> <<"string", "string", "tree">>,
     insb |-> <<"string", "string", "tree">>, getenv |-> <<"any">>]

IsNative(n) ==
    \/ n = <<"Sys", "getenv">>
    \/ Len(n) = 1 /\ n[1] \in DOMAIN Takes \ {"getenv"}

Is(v, kind) ==
    \/ kind \in {"any", v[1]}
    \/ kind = "re" /\ v[1] \in {"string", "regexp"}

(* asRegexp *)
AsRegexp(v) == IF v[1] = "string" THEN <<"literal", v[2]>> ELSE v[2]

NativeValue(f, a) ==
    CASE f = "del" -> <<"lens", <<f, AsRegexp(a[1]), a[2][2]>>>>
      [] f \in {"store", "key"} -> <<"lens", <<f, AsRegexp(a[1])>>>>
      [] f \in {"label", "value", "seq", "counter"} -> <<"lens", <<f, a[1][2]>>>>
      [] f = "square" -> <<"lens", <<f, a[1][2], a[2][2], a[3][2]>>>>
      [] f \in {"incl", "excl"} -> <<"filter", <<<<f, a[1][2]>>>>>>
      [] f = "transform" -> <<"transform", a[1][2], a[2][2]>>
      [] f \in {"lens_ctype", "lens_atype", "lens_ktype", "lens_vtype"} ->
            <<"regexp", <<"ctype", a[1][2]>>>>
      [] f \in {"print_string", "print_regexp", "print_endline"} -> <<"unit">>
      [] f = "print_tree" -> a[1]
      [] OTHER -> Computed(f, a)

Called(f, a) ==
    IF \A i \in DOMAIN a : Is(a[i], Takes[f][i]) THEN NativeValue(f, a)
    ELSE Error("argument")

(* A native function with some of its arguments, or its result with all. *)
Applied(f, args) ==
    IF Len(args) < Len(Takes[f]) THEN <<"native", f, args>> ELSE Called(f, args)

-----------------------------------------------------------------------------
IsFunc(v) == v[1] \in {"closure", "native", "composed"}

(* concatValues, unionValues, minusValues *)
Joined(op, l, r) ==
    CASE op # "minus" /\ Is(l, "lens") /\ Is(r, "lens") -> <<"lens", <<op, l[2], r[2]>>>>
      [] op = "concat" /\ Is(l, "filter") /\ Is(r, "filter") -> <<"filter", l[2] \o r[2]>>
      [] op = "concat" /\ Is(l, "string") /\ Is(r, "string") -> <<"string", l[2] \o r[2]>>
      [] Is(l, "re") /\ Is(r, "re") /\ ~(op = "concat" /\ Is(l, "string") /\ Is(r, "string")) ->
            IF op = "minus" /\ ~Leaves(AsRegexp(l), AsRegexp(r)) THEN Error("nothing left")
            ELSE <<"regexp", <<op, AsRegexp(l), AsRegexp(r)>>>>
      [] OTHER -> Error("operands")

(* evalRep *)
Repeated(v, quant) ==
    CASE Is(v, "lens") -> <<"lens", <<"rep", v[2], quant>>>>
      [] Is(v, "re") -> <<"regexp", <<"rep", AsRegexp(v), quant>>>>
      [] OTHER -> Error("repetition")

(* Inside its own definition a recursive lens is a placeholder. *)
Placeholder(b) == <<"lens", <<"placeholder", b>>>>

(* What a frame makes of the value returned to it, when it calls nothing. *)
Made(f, v) ==
    CASE f[1] = "bracket" -> IF Is(v, "lens") THEN <<"lens", <<"subtree", v[2]>>>>
                             ELSE Error("bracket")
      [] f[1] = "rep" -> Repeated(v, f[2])
      [] f[1] = "rec" -> IF Is(v, "lens") THEN <<"lens", <<"rec", f[2], v[2]>>>>
                         ELSE Error("let rec")
      [] f[1] = "right" -> IF f[2] = "compose" THEN <<"composed", f[3], v>>
                           ELSE Joined(f[2], f[3], v)

-----------------------------------------------------------------------------
ModuleEnv(m) == [mod |-> m, locals |-> <<>>]
Bind(e, n, v) == [e EXCEPT !.locals = Append(@, <<n, v>>)]
Locals(e, n) == {i \in DOMAIN e.locals : e.locals[i][1] = n}

(* env.lookup: what comes next when the name is found, force of a thunk if it is
   a binding of the module. *)
Lookup(e, n) ==
    CASE Locals(e, n) # {} -> <<"value", e.locals[Max(Locals(e, n))][2]>>
      [] Locals(e, n) = {} /\ DeclsOf(e.mod, n) # {} ->
            <<"force", <<e.mod, Max(DeclsOf(e.mod, n))>>>>
      [] OTHER -> IF IsNative(n) THEN <<"value", <<"native", Last(n), <<>>>>>>
                  ELSE <<"value", Error("unbound")>>

(* f x y = e is f = fun x -> fun y -> e (Parser.BuildFunc). *)
BuildFunc(params, body) == FoldRight(LAMBDA x, t : <<"func", x, t>>, params, body)

(* What eval first evaluates of a term, and what waits for it. *)
FirstPart(t) == IF t[1] = "let" THEN BuildFunc(t[3], t[4]) ELSE t[2]
Waiting(t, e) ==
    CASE t[1] = "let" -> <<"let", t[2], t[5], e>>
      [] t[1] = "bracket" -> <<"bracket">>
      [] t[1] = "rep" -> <<"rep", t[3]>>
      [] OTHER -> <<"left", t[1], t[3], e>>

-----------------------------------------------------------------------------
Pop == frames' = Front(frames)
Push(f) == frames' = Append(frames, f)
Return(v) == ctl' = <<"value", v>>

Evaluates(kinds) == ctl[1] = "eval" /\ ctl[2][1] \in kinds

EvalLiteral ==
    /\ Evaluates({"string", "regexp", "unit", "tree"})
    /\ Return(ctl[2])
    /\ UNCHANGED <<loaded, forcing, done, val, frames>>

EvalFunc ==
    /\ Evaluates({"func"})
    /\ Return(<<"closure", ctl[2][2], ctl[2][3], ctl[3]>>)
    /\ UNCHANGED <<loaded, forcing, done, val, frames>>

(* evalIdent: a dotted name that is not in scope belongs to another module,
   which is loaded if need be. *)
EvalIdent ==
    /\ Evaluates({"ident"})
    /\ LET n == ctl[2][2]
       IN  IF Len(n) = 2 /\ ~IsNative(n)
           THEN LoadThen(n[1], Lookup(ModuleEnv(n[1]), <<n[2]>>))
           ELSE ctl' = Lookup(ctl[3], n) /\ UNCHANGED loaded
    /\ UNCHANGED <<forcing, done, val, frames>>

EvalPart ==
    /\ Evaluates({"let", "bracket", "rep", "app", "compose", "concat", "union", "minus"})
    /\ Push(Waiting(ctl[2], ctl[3]))
    /\ ctl' = <<"eval", FirstPart(ctl[2]), ctl[3]>>
    /\ UNCHANGED <<loaded, forcing, done, val>>

(* thunk.force *)
Reuse ==
    /\ ctl[1] = "force"
    /\ done[ctl[2]]
    /\ Return(val[ctl[2]])
    /\ UNCHANGED <<loaded, forcing, done, val, frames>>

(* Mutant of Report: the second call waits for the first. *)
ReportNever ==
    /\ ctl[1] = "force"
    /\ ~done[ctl[2]]
    /\ forcing[ctl[2]]
    /\ UNCHANGED machine

Report ==
    /\ ctl[1] = "force"
    /\ ~done[ctl[2]]
    /\ forcing[ctl[2]]
    /\ Return(Error("cycle"))
    /\ UNCHANGED <<loaded, forcing, done, val, frames>>

(* Mutant of Check: forcing is not asked for. *)
CheckDone ==
    /\ ctl[1] = "force"
    /\ ~done[ctl[2]]
    /\ Push(ctl)
    /\ ctl' = <<"enter", ctl[2]>>
    /\ UNCHANGED <<loaded, forcing, done, val>>

Check ==
    /\ ctl[1] = "force"
    /\ ~done[ctl[2]]
    /\ ~forcing[ctl[2]]
    /\ Push(ctl)
    /\ ctl' = <<"enter", ctl[2]>>
    /\ UNCHANGED <<loaded, forcing, done, val>>

(* Mutant of Enter: a binding is marked done before it has its value. *)
EnterDone ==
    /\ ctl[1] = "enter"
    /\ forcing' = [forcing EXCEPT ![ctl[2]] = TRUE]
    /\ done' = [done EXCEPT ![ctl[2]] = TRUE]
    /\ ctl' = <<"eval", DeclOf(ctl[2])[3], ModuleEnv(ctl[2][1])>>
    /\ UNCHANGED <<loaded, val, frames>>

(* evalRec, if the binding is recursive, or eval *)
Enter ==
    /\ ctl[1] = "enter"
    /\ forcing' = [forcing EXCEPT ![ctl[2]] = TRUE]
    /\ LET b == ctl[2]
           d == DeclOf(b)
           e == ModuleEnv(b[1])
       IN  IF d[1] = "letrec"
           THEN /\ Push(<<"rec", b>>)
                /\ ctl' = <<"eval", d[3], Bind(e, d[2], Placeholder(b))>>
           ELSE /\ UNCHANGED frames
                /\ ctl' = <<"eval", d[3], e>>
    /\ UNCHANGED <<loaded, done, val>>

Returns(kinds) == ctl[1] = "value" /\ frames # <<>> /\ Last(frames)[1] \in kinds

Store ==
    /\ Returns({"force"})
    /\ val' = [val EXCEPT ![Last(frames)[2]] = ctl[2]]
    /\ forcing' = [forcing EXCEPT ![Last(frames)[2]] = FALSE]
    /\ ctl' = <<"finish", ctl[2]>>
    /\ UNCHANGED <<loaded, done, frames>>

Finish ==
    /\ ctl[1] = "finish"
    /\ done' = [done EXCEPT ![Last(frames)[2]] = TRUE]
    /\ Return(ctl[2])
    /\ Pop
    /\ UNCHANGED <<loaded, forcing, val>>

(* Mutant of Unwind: force returns an error at once too, with forcing left set. *)
UnwindAll ==
    /\ Returns({"let", "bracket", "rep", "rec", "left", "right", "then", "force"})
    /\ IsError(ctl[2])
    /\ Pop
    /\ UNCHANGED <<loaded, forcing, done, val, ctl>>

(* Every caller but force returns an error as it is. *)
Unwind ==
    /\ Returns({"let", "bracket", "rep", "rec", "left", "right", "then"})
    /\ IsError(ctl[2])
    /\ Pop
    /\ UNCHANGED <<loaded, forcing, done, val, ctl>>

Resumes(kinds) == Returns(kinds) /\ ~IsError(ctl[2])

LetBody ==
    /\ Resumes({"let"})
    /\ LET f == Last(frames)
       IN  ctl' = <<"eval", f[3], Bind(f[4], f[2], ctl[2])>>
    /\ Pop
    /\ UNCHANGED <<loaded, forcing, done, val>>

(* The right operand.  The left one of a composition that is no function was
   evaluated for its effect. *)
RightOperand ==
    /\ Resumes({"left"})
    /\ LET f == Last(frames)
       IN  /\ frames' = IF f[2] = "compose" /\ ~IsFunc(ctl[2]) THEN Front(frames)
                        ELSE Append(Front(frames), <<"right", f[2], ctl[2]>>)
           /\ ctl' = <<"eval", f[3], f[4]>>
    /\ UNCHANGED <<loaded, forcing, done, val>>

Make ==
    /\ Resumes({"bracket", "rep", "rec", "right"})
    /\ Last(frames)[1] = "right" => Last(frames)[2] # "app"
    /\ Return(Made(Last(frames), ctl[2]))
    /\ Pop
    /\ UNCHANGED <<loaded, forcing, done, val>>

(* The argument of an application, or what the first of two composed functions
   made of it. *)
Argument ==
    /\ Resumes({"right", "then"})
    /\ Last(frames)[1] = "right" => Last(frames)[2] = "app"
    /\ ctl' = <<"apply", Last(Last(frames)), ctl[2]>>
    /\ Pop
    /\ UNCHANGED <<loaded, forcing, done, val>>

(* Mutant of Apply: a body sees the module, and not where the function was made. *)
ApplyInModule ==
    /\ ctl[1] = "apply"
    /\ ctl[2][1] \in {"closure", "native"}
    /\ LET f == ctl[2]
           a == ctl[3]
       IN  IF f[1] = "closure"
           THEN ctl' = <<"eval", f[3], Bind(ModuleEnv(f[4].mod), f[2], a)>>
           ELSE Return(Applied(f[2], Append(f[3], a)))
    /\ UNCHANGED <<loaded, forcing, done, val, frames>>

(* apply *)
Apply ==
    /\ ctl[1] = "apply"
    /\ LET f == ctl[2]
           a == ctl[3]
       IN  CASE f[1] = "closure" ->
                  ctl' = <<"eval", f[3], Bind(f[4], f[2], a)>> /\ UNCHANGED frames
             [] f[1] = "native" ->
                  Return(Applied(f[2], Append(f[3], a))) /\ UNCHANGED frames
             [] f[1] = "composed" ->
                  ctl' = <<"apply", f[2], a>> /\ Push(<<"then", f[3]>>)
             [] OTHER -> Return(Error("application")) /\ UNCHANGED frames
    /\ UNCHANGED <<loaded, forcing, done, val>>

MachineInit ==
    /\ loaded = {}
    /\ forcing = [b \in Thunk |-> FALSE]
    /\ done = [b \in Thunk |-> FALSE]
    /\ val = [b \in Thunk |-> None]
    /\ ctl = Idle
    /\ frames = <<>>

Step ==
    \/ EvalLiteral \/ EvalFunc \/ EvalIdent \/ EvalPart
    \/ Reuse \/ Report \/ Check \/ Enter \/ Store \/ Finish
    \/ Unwind \/ LetBody \/ RightOperand \/ Make \/ Argument \/ Apply
=============================================================================
