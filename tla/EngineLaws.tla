------------------------------ MODULE EngineLaws ------------------------------
(* What the engine promises, against a meaning of lens modules that has no
   cache, no thunks and no calls before it. *)
EXTENDS Engine

(* The value of an expression <<"term", term, scope, ctx>>, by recursion over the
   term.  A scope sees the first upto declarations of its module: all of them in
   the interpreter, the earlier ones in an evaluation in the order of the text.
   A ctx is that choice with the bindings whose value is being asked for. *)
Scope(m, upto) == [mod |-> m, locals |-> <<>>, upto |-> upto]
Whole(m) == Scope(m, Len(ModuleOf(m).decls))
Visible(e, n) == {i \in DeclsOf(e.mod, n) : i <= e.upto}

Ctx(lazy, busy) == [lazy |-> lazy, busy |-> busy]
Term(t, e, ctx) == <<"term", t, e, ctx>>
Known(v) == <<"known", v>>

(* What stands for an expression that is a name, or the body of a function. *)
OfDecl(b, ctx) ==
    LET d == DeclOf(b)
        e == IF ctx.lazy THEN Whole(b[1]) ELSE Scope(b[1], b[2] - 1)
        within == Ctx(ctx.lazy, ctx.busy \cup {b})
    IN  CASE b \in ctx.busy -> Known(Error("cycle"))
          [] b \notin ctx.busy /\ d[1] = "letrec" ->
                <<"rec", b, Term(d[3], Bind(e, d[2], Placeholder(b)), within)>>
          [] OTHER -> Term(d[3], e, within)

InScope(e, n, ctx) ==
    CASE Locals(e, n) # {} -> Known(e.locals[Max(Locals(e, n))][2])
      [] Locals(e, n) = {} /\ Visible(e, n) # {} ->
            OfDecl(<<e.mod, Max(Visible(e, n))>>, ctx)
      [] OTHER -> Known(IF IsNative(n) THEN <<"native", Last(n), <<>>>>
                        ELSE Error("unbound"))

InModule(m, n, ctx) ==
    IF LoadError(m) = "none" THEN InScope(Whole(m), n, ctx) ELSE Known(Error(LoadError(m)))

OfName(n, e, ctx) ==
    IF Len(n) = 2 /\ ~IsNative(n) THEN InModule(n[1], <<n[2]>>, ctx) ELSE InScope(e, n, ctx)

OfCall(f, a, ctx) ==
    CASE IsError(a) -> Known(a)
      [] f[1] = "closure" /\ ~IsError(a) -> Term(f[3], Bind(f[4], f[2], a), ctx)
      [] f[1] = "native" /\ ~IsError(a) -> Known(Applied(f[2], Append(f[3], a)))
      [] OTHER -> Known(Error("application"))

(* What is left of a term when its first part, and its second, has a value. *)
AfterFirst(t, e, ctx, v) ==
    CASE IsError(v) -> Known(v)
      [] t[1] = "let" /\ ~IsError(v) -> Term(t[5], Bind(e, t[2], v), ctx)
      [] t[1] \in {"bracket", "rep"} /\ ~IsError(v) -> Known(Made(Waiting(t, e), v))
      [] OTHER -> <<"second", t, e, ctx, v>>

AfterSecond(t, ctx, v, w) ==
    CASE IsError(w) -> Known(w)
      [] t[1] = "app" /\ ~IsError(w) -> <<"call", v, w, ctx>>
      [] t[1] = "compose" /\ ~IsError(w) ->
            Known(IF IsFunc(v) THEN <<"composed", v, w>> ELSE w)
      [] OTHER -> Known(Joined(t[1], v, w))

Finished(b, v) == IF IsError(v) THEN v ELSE Made(<<"rec", b>>, v)

IsTerm(x, kinds) == x[1] = "term" /\ x[2][1] \in kinds
Literals == {"string", "regexp", "unit", "tree"}

RECURSIVE Value(_)
Value(x) ==
    CASE x[1] = "known" -> x[2]
      [] IsTerm(x, Literals) -> x[2]
      [] IsTerm(x, {"func"}) -> <<"closure", x[2][2], x[2][3], x[3]>>
      [] IsTerm(x, {"ident"}) -> Value(OfName(x[2][2], x[3], x[4]))
      [] x[1] = "second" ->
            Value(AfterSecond(x[2], x[4], x[5], Value(Term(x[2][3], x[3], x[4]))))
      [] x[1] = "rec" -> Finished(x[2], Value(x[3]))
      [] x[1] = "call" ->
            IF x[2][1] = "composed"
            THEN Value(<<"call", x[2][3], Value(<<"call", x[2][2], x[3], x[4]>>), x[4]>>)
            ELSE Value(OfCall(x[2], x[3], x[4]))
      [] OTHER ->
            Value(AfterFirst(x[2], x[3], x[4], Value(Term(FirstPart(x[2]), x[3], x[4]))))

(* A binding of a module, and the autoload of one. *)
BindingValue(m, n, lazy) == Value(InModule(m, n, Ctx(lazy, {})))
AutoloadValue(m) ==
    IF LoadError(m) = "none" /\ ModuleOf(m).autoload = <<>> THEN Error("no autoload")
    ELSE BindingValue(m, ModuleOf(m).autoload, TRUE)

-----------------------------------------------------------------------------
(* Whatever was asked before, and whatever failed: a call for a lens returns the
   meaning of the binding.  Neither the cache of modules nor a thunk, with its
   value or its error, shows in any answer. *)
LensMeaning(m, n) ==
    LET v == BindingValue(m, n, TRUE)
    IN  IF IsError(v) \/ Is(v, "lens") THEN v ELSE Error("not a lens")

AnswersAreMeanings ==
    \A i \in DOMAIN answers :
        LET r == answers[i][1]
            v == LensMeaning(r[2], r[3])
        IN  r[1] = "Parse" =>
              answers[i][2] = IF IsError(v) THEN v ELSE ParsedBy(r[2], v[2], r[4])

(* LoadFile takes the lens of the first module of the corpus that has a transform
   for the path, and no other, however many modules before it fail to load. *)
ChosenFor(p) ==
    LET candidates == {i \in DOMAIN CorpusModules :
                          Selects(AutoloadValue(CorpusModules[i]), p)}
    IN  IF candidates = {} THEN "no lens" ELSE CorpusModules[Min(candidates)]

ChoiceIsRight ==
    \A i \in DOMAIN answers :
        LET r == answers[i][1]
            v == answers[i][2]
        IN  r[1] = "LoadFile" =>
              /\ v[1] = "module" =>
                    /\ v[2] = ChosenFor(r[2])
                    /\ tree[r[2]] = <<"nodes", AutoloadValue(v[2])[2], Disk[r[2]]>>
              /\ v = Error("no lens") <=> ChosenFor(r[2]) = "no lens"

(* Evaluating bindings when they are used "preserves behavioural compatibility
   for every binding that is used" (eval.go:65): one that an evaluation in the
   order of the text gives a value has the same value here.  It is true of
   modules that bind no name twice, nor that of a native function that they use,
   as those of the corpus. *)
AgreesWithUpstream ==
    \A i \in DOMAIN answers :
        LET r == answers[i][1]
            v == BindingValue(r[2], r[3], FALSE)
        IN  r[1] = "Parse" /\ Is(v, "lens") =>
              answers[i][2] = ParsedBy(r[2], v[2], r[4])

(* A call that has begun returns, also when bindings depend on themselves or on
   each other across modules. *)
EveryCallReturns == ctl # Idle ~> ctl = Idle

-----------------------------------------------------------------------------
(* The names a term mentions. *)
RECURSIVE Mentions(_)
Mentions(t) ==
    CASE t[1] = "ident" -> {t[2]}
      [] t[1] = "func" -> Mentions(t[3])
      [] t[1] = "let" -> Mentions(t[4]) \cup Mentions(t[5])
      [] t[1] \in {"bracket", "rep"} -> Mentions(t[2])
      [] t[1] \in {"app", "compose", "concat", "union", "minus"} ->
            Mentions(t[2]) \cup Mentions(t[3])
      [] OTHER -> {}

(* A binding may force what its term mentions, and what the functions mentioned
   there mention.  A recursive binding does not force itself. *)
MentionedBy(b) ==
    {c \in Thunk : \E n \in Mentions(DeclOf(b)[3]) :
        /\ c[1] = IF Len(n) = 2 THEN n[1] ELSE b[1]
        /\ c[2] \in DeclsOf(c[1], <<Last(n)>>)
        /\ DeclOf(b)[1] = "letrec" => n # DeclOf(b)[2]}

RECURSIVE Used(_)
Used(S) ==
    LET more == S \cup UNION {MentionedBy(c) : c \in S}
    IN  IF more = S THEN S ELSE Used(more)
Uses == UNION {{b} \X Used(MentionedBy(b)) : b \in Thunk}

TheGoroutine == "g"
ForceFrames == SelectSeq(frames, LAMBDA f : f[1] = "force")

(* The evaluator, in its one goroutine, forces bindings by the protocol of
   LazyBindings.  That "binding %s depends on itself" (thunk.go:32) is only ever
   said of such a binding, or of one that uses it, then follows by the theorem
   CycleErrorsTrueAlone. *)
Bindings == INSTANCE LazyBindings WITH
    Binding <- Thunk,
    Goroutine <- {TheGoroutine},
    outcome <- [b \in Thunk |->
                  CASE val[b] = None -> "none"
                    [] val[b] = Error("cycle") -> "cycle"
                    [] IsError(val[b]) /\ val[b] # Error("cycle") -> "error"
                    [] OTHER -> "value"],
    stack <- [g \in {TheGoroutine} |->
                [i \in DOMAIN ForceFrames |-> ForceFrames[i][2]]],
    pc <- [g \in {TheGoroutine} |->
             IF ctl[1] \in {"enter", "finish"} THEN ctl[1] ELSE "eval"],
    failing <- [g \in {TheGoroutine} |->
                  /\ ctl[1] \in {"value", "finish"}
                  /\ ctl[2] = Error("cycle")
                  /\ ForceFrames # <<>>]

ImplementsBindings == Bindings!Spec
=============================================================================
