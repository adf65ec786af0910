---------------------------- MODULE LazyBindings ----------------------------
(* The protocol by which the bindings of a module are evaluated on first use
   (internal/interp/thunk.go), for any number of goroutines that share the
   interpreter: force takes no lock.  What a binding's expression computes is
   abstracted to the bindings it may use; Interp is the evaluator that
   implements this specification, in one goroutine. *)
EXTENDS Naturals, Sequences

CONSTANTS
    Binding,    \* the thunks of all loaded modules
    Goroutine,
    Uses        \* <<a, b>>: evaluating the expression of a may force b

VARIABLES
    forcing,    \* thunk.forcing
    done,       \* thunk.done
    outcome,    \* thunk.val and thunk.err: what the evaluation left
    stack,      \* per goroutine, the bindings whose force it is in, outermost first
    pc,         \* per goroutine, where in the innermost of them it is
    failing     \* the evaluation on top of the stack met a cycle error

vars == <<forcing, done, outcome, stack, pc, failing>>

Outcome == {"none", "value", "error", "cycle"}

TypeOK ==
    /\ forcing \in [Binding -> BOOLEAN]
    /\ done \in [Binding -> BOOLEAN]
    /\ outcome \in [Binding -> Outcome]
    /\ stack \in [Goroutine -> Seq(Binding)]
    /\ pc \in [Goroutine -> {"eval", "enter", "finish"}]
    /\ failing \in [Goroutine -> BOOLEAN]

Top(g) == stack[g][Len(stack[g])]

Init ==
    /\ forcing = [b \in Binding |-> FALSE]
    /\ done = [b \in Binding |-> FALSE]
    /\ outcome = [b \in Binding |-> "none"]
    /\ stack = [g \in Goroutine |-> <<>>]
    /\ pc = [g \in Goroutine |-> "eval"]
    /\ failing = [g \in Goroutine |-> FALSE]

(* g calls force on b: for a caller of the API, or from the expression of the
   binding it is evaluating.  An evaluation that met an error goes no further. *)
Calls(g, b) ==
    /\ pc[g] = "eval"
    /\ ~failing[g]
    /\ stack[g] # <<>> => <<Top(g), b>> \in Uses

(* b has been evaluated: its value, or its error, is returned again. *)
Reuse(g, b) ==
    /\ Calls(g, b)
    /\ done[b]
    /\ failing' = [failing EXCEPT ![g] = stack[g] # <<>> /\ outcome[b] = "cycle"]
    /\ UNCHANGED <<forcing, done, outcome, stack, pc>>

(* b is being evaluated: "binding %s depends on itself". *)
Report(g, b) ==
    /\ Calls(g, b)
    /\ ~done[b]
    /\ forcing[b]
    /\ failing' = [failing EXCEPT ![g] = stack[g] # <<>>]
    /\ UNCHANGED <<forcing, done, outcome, stack, pc>>

(* Neither: both checks pass, and forcing is still to be set. *)
Check(g, b) ==
    /\ Calls(g, b)
    /\ ~done[b]
    /\ ~forcing[b]
    /\ stack' = [stack EXCEPT ![g] = Append(@, b)]
    /\ pc' = [pc EXCEPT ![g] = "enter"]
    /\ UNCHANGED <<forcing, done, outcome, failing>>

Enter(g) ==
    /\ pc[g] = "enter"
    /\ forcing' = [forcing EXCEPT ![Top(g)] = TRUE]
    /\ pc' = [pc EXCEPT ![g] = "eval"]
    /\ UNCHANGED <<done, outcome, stack, failing>>

(* Mutant of Store: an error is returned at once, with forcing left set. *)
StoreValueOnly(g) ==
    /\ pc[g] = "eval"
    /\ stack[g] # <<>>
    /\ \/ /\ ~failing[g]
          /\ outcome' = [outcome EXCEPT ![Top(g)] = "value"]
          /\ forcing' = [forcing EXCEPT ![Top(g)] = FALSE]
          /\ pc' = [pc EXCEPT ![g] = "finish"]
          /\ UNCHANGED <<done, stack, failing>>
       \/ /\ stack' = [stack EXCEPT ![g] = SubSeq(@, 1, Len(@) - 1)]
          /\ UNCHANGED <<forcing, done, outcome, pc, failing>>

(* The evaluation returns, and forcing is reset.  A cycle error met on the way
   is the error of the binding; it may also fail for a reason of its own. *)
Store(g) ==
    /\ pc[g] = "eval"
    /\ stack[g] # <<>>
    /\ \E o \in IF failing[g] THEN {"cycle"} ELSE {"value", "error"} :
         outcome' = [outcome EXCEPT ![Top(g)] = o]
    /\ forcing' = [forcing EXCEPT ![Top(g)] = FALSE]
    /\ pc' = [pc EXCEPT ![g] = "finish"]
    /\ UNCHANGED <<done, stack, failing>>

(* done is set, and val and err are returned to the evaluation below. *)
Finish(g) ==
    /\ pc[g] = "finish"
    /\ done' = [done EXCEPT ![Top(g)] = TRUE]
    /\ stack' = [stack EXCEPT ![g] = SubSeq(@, 1, Len(@) - 1)]
    /\ failing' = [failing EXCEPT ![g] =
                     Len(stack[g]) > 1 /\ outcome[Top(g)] = "cycle"]
    /\ pc' = [pc EXCEPT ![g] = "eval"]
    /\ UNCHANGED <<forcing, outcome>>

Next ==
    \E g \in Goroutine :
        \/ \E b \in Binding : Reuse(g, b) \/ Report(g, b) \/ Check(g, b)
        \/ Enter(g)
        \/ Store(g)
        \/ Finish(g)

Spec == Init /\ [][Next]_vars

-----------------------------------------------------------------------------
(* Reaches(a, b): a uses b, directly or through others.  b is in every set that
   holds what a uses and all that its own elements use. *)
Reaches(a, b) ==
    \A S \in SUBSET Binding :
        (\A x, y \in Binding :
            <<x, y>> \in Uses /\ (x = a \/ x \in S) => y \in S) => b \in S

OnCycle(b) == Reaches(b, b)

Doomed(a) == \E c \in Binding : OnCycle(c) /\ (c = a \/ Reaches(a, c))

(* A binding that failed with "depends on itself" (thunk.go:32) does use,
   directly or not, a binding that depends on itself.  One goroutine keeps
   this; two that force the same binding need not. *)
CycleErrorsAreTrue == \A b \in Binding : outcome[b] = "cycle" => Doomed(b)

(* Whoever is told that a binding depends on itself is told the truth, unless
   another goroutine is evaluating that binding at the time. *)
FalseReportNeedsOther ==
    [][\A g \in Goroutine : \A b \in Binding :
         Report(g, b) =>
            \/ OnCycle(b)
            \/ \E h \in Goroutine \ {g} :
                 \E i \in DOMAIN stack[h] : stack[h][i] = b]_vars

=============================================================================
