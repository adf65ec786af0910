------------------------------- MODULE Engine -------------------------------
(* The engine of the embedded corpus (corpus.go, and api.go of internal/interp):
   a caller gets a lens by its name and parses a text with it, or has LoadFile
   choose the first lens of the corpus whose autoload transform includes the
   file.  One interpreter serves all calls; its module cache and the thunks in
   it are what one call leaves to the next. *)
EXTENDS Interp

CONSTANTS
    CorpusModules,      \* corpusModuleNames: the modules LoadFile tries, in order
    Disk,               \* the text of every file that can be read
    GlobMatch(_, _),    \* path.Match of a glob and a path
    Accepts(_, _),      \* Get of a lens and a text succeeds (LensLaws)
    Unsupported,        \* per name before the first dot, the texts Parse refuses
    Requests,           \* <<"Parse", module, binding, text>> and <<"LoadFile", path>>
    MaxCalls            \* bound of the model: calls in a run

ASSUME EngineAssumption ==
    /\ \A r \in Requests : \/ r[1] = "Parse" /\ r = <<r[1], r[2], r[3], r[4]>>
                           \/ r[1] = "LoadFile" /\ r = <<r[1], r[2]>>
    /\ CorpusModules \in Seq(DOMAIN Base)
    /\ MaxCalls \in Nat

VARIABLES
    tree,               \* per path, what LoadFile left under /files
    answers             \* the calls made, each with what it returned

vars == <<machine, tree, answers>>

RequestsFor(kind) == {r \in Requests : r[1] = kind}

EngineInit ==
    /\ MachineInit
    /\ tree = [p \in {r[2] : r \in RequestsFor("LoadFile")} |-> None]
    /\ answers = <<>>

Ready == ctl = Idle /\ Len(answers) < MaxCalls

Answer(r, v) ==
    /\ answers' = Append(answers, <<r, v>>)
    /\ ctl' = Idle
    /\ frames' = <<>>

AtBottom(kind) == ctl[1] = "value" /\ Len(frames) = 1 /\ frames[1][1] = kind

(* interpLens.Parse: a lens goes by the module and binding it was asked for, or
   by the module alone when it was autoloaded; the checks of the text go by the
   module. *)
ParsedBy(m, lens, text) ==
    CASE m \in DOMAIN Unsupported /\ text \in Unsupported[m] -> Error("refused")
      [] ~(m \in DOMAIN Unsupported /\ text \in Unsupported[m]) /\ ~Accepts(lens, text) ->
            Error("get")
      [] OTHER -> <<"nodes", lens, text>>

-----------------------------------------------------------------------------
(* Engine.Lens, LensValue, and Parse of the lens *)
AskLens ==
    /\ Ready
    /\ \E r \in RequestsFor("Parse") :
         /\ frames' = <<r>>
         /\ LoadThen(r[2], Lookup(ModuleEnv(r[2]), r[3]))
    /\ UNCHANGED <<forcing, done, val, tree, answers>>

GetLens ==
    /\ AtBottom("Parse")
    /\ LET r == frames[1]
           v == ctl[2]
       IN  Answer(r, CASE IsError(v) -> v
                       [] Is(v, "lens") -> ParsedBy(r[2], v[2], r[4])
                       [] OTHER -> Error("not a lens"))
    /\ UNCHANGED <<loaded, forcing, done, val, tree>>

-----------------------------------------------------------------------------
(* LoadFile: fileLens tries the modules of the corpus one after the other. *)
Try(r, i) == frames' = <<Append(r, i)>> /\ ctl' = <<"try">>

LoadFile ==
    /\ Ready
    /\ \E r \in RequestsFor("LoadFile") : Try(r, 1)
    /\ UNCHANGED <<loaded, forcing, done, val, tree, answers>>

AutoloadOf(m) ==
    IF ModuleOf(m).autoload = <<>> THEN <<"value", Error("no autoload")>>
    ELSE Lookup(ModuleEnv(m), ModuleOf(m).autoload)

Autoload ==
    /\ ctl = <<"try">>
    /\ frames[1][3] \in DOMAIN CorpusModules
    /\ LoadThen(CorpusModules[frames[1][3]], AutoloadOf(CorpusModules[frames[1][3]]))
    /\ UNCHANGED <<forcing, done, val, frames, tree, answers>>

NoLens ==
    /\ ctl = <<"try">>
    /\ frames[1][3] \notin DOMAIN CorpusModules
    /\ Answer(Front(frames[1]), Error("no lens"))
    /\ UNCHANGED <<loaded, forcing, done, val, tree>>

(* filterMatches: some glob includes the path, and none excludes it. *)
FilterMatches(filter, p) ==
    LET matching(kind) ==
          \E i \in DOMAIN filter : filter[i][1] = kind /\ GlobMatch(filter[i][2], p)
    IN  matching("incl") /\ ~matching("excl")

Selects(v, p) == Is(v, "transform") /\ FilterMatches(v[3], p)

(* Mutant of PassOver: a module that fails ends the search. *)
PassOverOrStop ==
    /\ AtBottom("LoadFile")
    /\ ~Selects(ctl[2], frames[1][2])
    /\ IF IsError(ctl[2])
       THEN Answer(Front(frames[1]), Error("no lens"))
       ELSE Try(Front(frames[1]), frames[1][3] + 1) /\ UNCHANGED answers
    /\ UNCHANGED <<loaded, forcing, done, val, tree>>

(* A module that has no transform, or that fails, is passed over. *)
PassOver ==
    /\ AtBottom("LoadFile")
    /\ ~Selects(ctl[2], frames[1][2])
    /\ Try(Front(frames[1]), frames[1][3] + 1)
    /\ UNCHANGED <<loaded, forcing, done, val, tree, answers>>

(* The file is read and parsed before the tree is touched; createFrom fails when
   the tree has two nodes of one name on the way to the file. *)
StoreFile(clash) ==
    /\ AtBottom("LoadFile")
    /\ LET p == frames[1][2]
           m == CorpusModules[frames[1][3]]
           made == IF p \in DOMAIN Disk THEN ParsedBy(m, ctl[2][2], Disk[p])
                   ELSE Error("unreadable")
       IN  /\ Selects(ctl[2], p)
           /\ Answer(Front(frames[1]),
                     IF IsError(made) THEN made
                     ELSE IF clash THEN Error("ambiguous") ELSE <<"module", m>>)
           /\ tree' = IF IsError(made) \/ clash THEN tree ELSE [tree EXCEPT ![p] = made]
    /\ UNCHANGED <<loaded, forcing, done, val>>

-----------------------------------------------------------------------------
MachineStep == Step /\ UNCHANGED <<tree, answers>>

Next ==
    \/ AskLens \/ GetLens
    \/ LoadFile \/ Autoload \/ NoLens \/ PassOver
    \/ \E clash \in BOOLEAN : StoreFile(clash)
    \/ MachineStep

(* A call that has begun goes on; nobody has to make one. *)
InCall == ctl # Idle /\ Next

Spec == EngineInit /\ [][Next]_vars /\ WF_vars(InCall)

-----------------------------------------------------------------------------
(* Only modules that load are in the cache.  A call under way has its request at
   the bottom of the frames, LoadFile with the module it tries; between calls
   there are no frames. *)
CallUnderWay(f, c) ==
    \/ f \in RequestsFor("Parse")
    \/ \E r \in RequestsFor("LoadFile"), i \in 1..Len(CorpusModules) + 1 :
         f = Append(r, i) /\ (i \notin DOMAIN CorpusModules => c = <<"try">>)

TypeOK ==
    /\ loaded \subseteq Loadable
    /\ forcing \in [Thunk -> BOOLEAN]
    /\ done \in [Thunk -> BOOLEAN]
    /\ DOMAIN val = Thunk
    /\ ctl[1] \in {"idle", "eval", "value", "force", "enter", "finish", "apply", "try"}
    /\ ctl[1] = "idle" <=> frames = <<>>
    /\ frames # <<>> => CallUnderWay(frames[1], ctl) /\ Len(answers) < MaxCalls
    /\ Len(answers) <= MaxCalls

(* A binding is marked as being evaluated exactly while the call under way is
   evaluating it, whatever fails on the way: what one call leaves behind never
   makes a later one report that a binding depends on itself (thunk.go:32). *)
ForcedBy(b) == {i \in DOMAIN frames : frames[i][1] = "force" /\ frames[i][2] = b}

ForcingIsOwn ==
    \A b \in Thunk :
        forcing[b] <=>
            \E i \in ForcedBy(b) : i = Len(frames) => ctl[1] \notin {"enter", "finish"}

(* The value, or the error, a binding was first given is the one every later use
   of it gets, also within the call and the cycle in which it was evaluated. *)
MemoIsFinal ==
    [][\A b \in Thunk : done[b] => done'[b] /\ val'[b] = val[b]]_vars
=============================================================================
