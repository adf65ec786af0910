------------------------- MODULE LazyBindingsProofs -------------------------
(* Proofs about LazyBindings, for every set of bindings, every relation Uses
   and, but where a lone goroutine is assumed, every set of goroutines. *)
EXTENDS LazyBindings, SequenceTheorems, TLAPS

(* What a goroutine evaluates reaches what it evaluates above it. *)
StackReaches ==
    \A g \in Goroutine : \A i, j \in 1..Len(stack[g]) :
        i < j => Reaches(stack[g][i], stack[g][j])

(* A binding marked as being evaluated has an evaluation under way. *)
ForcingOnStack ==
    \A b \in Binding : forcing[b] =>
        \E g \in Goroutine : \E i \in 1..Len(stack[g]) :
            /\ stack[g][i] = b
            /\ i = Len(stack[g]) => pc[g] = "eval"

InForce == \A g \in Goroutine : pc[g] # "eval" => stack[g] # <<>>

IInv == TypeOK /\ InForce /\ StackReaches /\ ForcingOnStack

(* What a cycle error that is on its way says of the evaluation it reached. *)
FailingIsDoomed ==
    \A g \in Goroutine : failing[g] => stack[g] # <<>> /\ Doomed(Top(g))

LoneGoroutine == \A g, h \in Goroutine : g = h

-----------------------------------------------------------------------------
LEMMA ReachesUses ==
    ASSUME NEW a \in Binding, NEW b \in Binding, <<a, b>> \in Uses
    PROVE  Reaches(a, b)
BY DEF Reaches

LEMMA ReachesTrans ==
    ASSUME NEW a \in Binding, NEW b \in Binding, NEW c \in Binding,
           Reaches(a, b), Reaches(b, c)
    PROVE  Reaches(a, c)
<1> SUFFICES ASSUME NEW S \in SUBSET Binding,
                    \A x, y \in Binding :
                        <<x, y>> \in Uses /\ (x = a \/ x \in S) => y \in S
             PROVE  c \in S
    BY DEF Reaches
<1>1. b \in S
    BY DEF Reaches
<1>2. \A x, y \in Binding : <<x, y>> \in Uses /\ (x = b \/ x \in S) => y \in S
    BY <1>1
<1> QED
    BY <1>2 DEF Reaches

LEMMA DoomedUses ==
    ASSUME NEW a \in Binding, NEW b \in Binding, <<a, b>> \in Uses, Doomed(b)
    PROVE  Doomed(a)
<1>1. PICK c \in Binding : OnCycle(c) /\ (c = b \/ Reaches(b, c))
    BY DEF Doomed
<1>2. Reaches(a, c)
    BY <1>1, ReachesUses, ReachesTrans
<1> QED
    BY <1>1, <1>2 DEF Doomed

(* Removing the last element of a sequence. *)
LEMMA FrontIs ==
    ASSUME NEW S, NEW s \in Seq(S), s # <<>>
    PROVE  /\ SubSeq(s, 1, Len(s) - 1) \in Seq(S)
           /\ Len(SubSeq(s, 1, Len(s) - 1)) = Len(s) - 1
           /\ \A i \in 1..Len(s) - 1 : SubSeq(s, 1, Len(s) - 1)[i] = s[i]
           /\ Len(s) \in Nat \ {0}
           /\ s[Len(s)] \in S
<1>1. Len(s) \in Nat \ {0} /\ s \in [1..Len(s) -> S]
    OBVIOUS
<1>2. s[Len(s)] \in S
    BY <1>1
<1>3. \A i \in 1..Len(s) - 1 : s[i] \in S
    BY <1>1
<1> QED
    BY <1>1, <1>2, <1>3, SubSeqProperties

(* The evaluation of a reported binding is below in the reporter's own stack,
   and then the binding is on a cycle, or it is another goroutine's. *)
LEMMA ReportIsTrueOrForeign ==
    ASSUME IInv, NEW g \in Goroutine, NEW b \in Binding, Report(g, b)
    PROVE  OnCycle(b) \/ \E h \in Goroutine \ {g} :
                            \E i \in DOMAIN stack[h] : stack[h][i] = b
<1>1. PICK h \in Goroutine : \E i \in 1..Len(stack[h]) : stack[h][i] = b
    BY DEF IInv, ForcingOnStack, Report
<1>2. CASE h # g
    <2>1. stack[h] \in Seq(Binding)
        BY DEF IInv, TypeOK
    <2> QED
        BY <1>1, <1>2, <2>1
<1>3. CASE h = g
    <2>1. PICK i \in 1..Len(stack[g]) : stack[g][i] = b
        BY <1>1, <1>3
    <2>2. stack[g] \in Seq(Binding) /\ Len(stack[g]) \in Nat
        BY DEF IInv, TypeOK
    <2>3. stack[g] # <<>>
        BY <2>1, <2>2
    <2>4. Top(g) \in Binding /\ <<Top(g), b>> \in Uses
        BY <2>2, <2>3 DEF Report, Calls, Top
    <2>5. i = Len(stack[g]) \/ i < Len(stack[g])
        BY <2>1, <2>2
    <2>6. Top(g) = b \/ Reaches(b, Top(g))
        <3>1. CASE i = Len(stack[g])
            BY <2>1, <3>1 DEF Top
        <3>2. CASE i < Len(stack[g])
            <4>1. Len(stack[g]) \in 1..Len(stack[g])
                BY <2>1, <2>2
            <4>2. Reaches(stack[g][i], stack[g][Len(stack[g])])
                BY <2>1, <3>2, <4>1 DEF IInv, StackReaches
            <4> QED
                BY <2>1, <4>2 DEF Top
        <3> QED
            BY <2>5, <3>1, <3>2
    <2>7. Reaches(Top(g), b)
        BY <2>4, ReachesUses
    <2> QED
        BY <2>4, <2>6, <2>7, ReachesTrans DEF OnCycle
<1> QED
    BY <1>2, <1>3

-----------------------------------------------------------------------------
LEMMA InitIInv == Init => IInv
<1> SUFFICES ASSUME Init PROVE IInv
    OBVIOUS
<1>1. TypeOK
    BY DEF Init, TypeOK, Outcome
<1>2. InForce
    BY DEF Init, InForce
<1>3. StackReaches
    BY DEF Init, StackReaches
<1>4. ForcingOnStack
    BY DEF Init, ForcingOnStack
<1> QED
    BY <1>1, <1>2, <1>3, <1>4 DEF IInv

LEMMA NextIInv == IInv /\ [Next]_vars => IInv'
<1> SUFFICES ASSUME IInv, [Next]_vars PROVE IInv'
    OBVIOUS
<1> USE DEF IInv
<1>1. ASSUME NEW g \in Goroutine, NEW b \in Binding, Reuse(g, b) \/ Report(g, b)
      PROVE  IInv'
    <2>1. UNCHANGED <<forcing, done, outcome, stack, pc>>
        BY <1>1 DEF Reuse, Report
    <2>2. failing' \in [Goroutine -> BOOLEAN]
        BY <1>1 DEF Reuse, Report, TypeOK
    <2>3. TypeOK'
        BY <2>1, <2>2 DEF TypeOK
    <2> QED
        BY <2>1, <2>3 DEF InForce, StackReaches, ForcingOnStack, Reaches
<1>2. ASSUME NEW g \in Goroutine, NEW b \in Binding, Check(g, b)
      PROVE  IInv'
    <2>1. /\ stack' = [stack EXCEPT ![g] = Append(@, b)]
          /\ pc' = [pc EXCEPT ![g] = "enter"]
          /\ pc[g] = "eval"
          /\ UNCHANGED <<forcing, done, outcome, failing>>
        BY <1>2 DEF Check, Calls
    <2>2. TypeOK'
        BY <2>1 DEF TypeOK
    <2>3. /\ stack[g] \in Seq(Binding)
          /\ Len(stack[g]) \in Nat
          /\ stack'[g] = Append(stack[g], b)
          /\ Len(stack'[g]) = Len(stack[g]) + 1
          /\ \A i \in 1..Len(stack[g]) : stack'[g][i] = stack[g][i]
          /\ stack'[g][Len(stack[g]) + 1] = b
        BY <2>1 DEF TypeOK
    <2>4. \A h \in Goroutine : h # g => stack'[h] = stack[h] /\ pc'[h] = pc[h]
        BY <2>1 DEF TypeOK
    <2>5. InForce'
        BY <2>3, <2>4 DEF InForce
    <2>6. StackReaches'
        <3> SUFFICES ASSUME NEW h \in Goroutine,
                            NEW i \in 1..Len(stack'[h]), NEW j \in 1..Len(stack'[h]),
                            i < j
                     PROVE  Reaches(stack'[h][i], stack'[h][j])
            BY DEF StackReaches, Reaches
        <3>1. CASE h # g
            BY <2>4, <3>1 DEF StackReaches
        <3>2. CASE h = g /\ j \in 1..Len(stack[g])
            BY <2>3, <3>2 DEF StackReaches
        <3>3. CASE h = g /\ j = Len(stack[g]) + 1
            <4>1. i \in 1..Len(stack[g]) /\ stack[g] # <<>>
                BY <2>3, <3>3
            <4>2. /\ Len(stack[g]) \in 1..Len(stack[g])
                  /\ Top(g) \in Binding
                  /\ stack[g][i] \in Binding
                  /\ Len(stack[g]) = i \/ i < Len(stack[g])
                BY <2>3, <4>1 DEF Top
            <4>3. <<Top(g), b>> \in Uses
                BY <1>2, <4>1 DEF Check, Calls
            <4>4. Reaches(Top(g), b)
                BY <4>2, <4>3, ReachesUses
            <4>5. stack[g][i] = Top(g) \/ Reaches(stack[g][i], Top(g))
                BY <4>1, <4>2 DEF StackReaches, Top
            <4>6. Reaches(stack[g][i], b)
                BY <4>2, <4>4, <4>5, ReachesTrans
            <4> QED
                BY <2>3, <3>3, <4>1, <4>6
        <3> QED
            BY <2>3, <3>1, <3>2, <3>3
    <2>7. ForcingOnStack'
        <3> SUFFICES ASSUME NEW c \in Binding, forcing[c]
                     PROVE  \E h \in Goroutine : \E i \in 1..Len(stack'[h]) :
                                /\ stack'[h][i] = c
                                /\ i = Len(stack'[h]) => pc'[h] = "eval"
            BY <2>1 DEF ForcingOnStack
        <3>1. PICK h \in Goroutine : \E i \in 1..Len(stack[h]) :
                        /\ stack[h][i] = c
                        /\ i = Len(stack[h]) => pc[h] = "eval"
            BY DEF ForcingOnStack
        <3>2. CASE h = g
            <4>1. PICK i \in 1..Len(stack[g]) : stack[g][i] = c
                BY <3>1, <3>2
            <4>2. i \in 1..Len(stack'[g]) /\ i # Len(stack'[g]) /\ stack'[g][i] = c
                BY <2>3, <4>1
            <4> QED
                BY <4>2
        <3>3. CASE h # g
            BY <2>4, <3>1, <3>3
        <3> QED
            BY <3>2, <3>3
    <2> QED
        BY <2>2, <2>5, <2>6, <2>7
<1>3. ASSUME NEW g \in Goroutine, Enter(g)
      PROVE  IInv'
    <2>1. /\ forcing' = [forcing EXCEPT ![Top(g)] = TRUE]
          /\ pc' = [pc EXCEPT ![g] = "eval"]
          /\ pc[g] = "enter"
          /\ UNCHANGED <<done, outcome, stack, failing>>
        BY <1>3 DEF Enter
    <2>2. stack[g] # <<>> /\ stack[g] \in Seq(Binding)
        BY <2>1 DEF InForce, TypeOK
    <2>3. TypeOK'
        BY <2>1 DEF TypeOK
    <2>4. InForce'
        BY <2>1 DEF InForce, TypeOK
    <2>5. StackReaches'
        BY <2>1 DEF StackReaches, Reaches
    <2>6. ForcingOnStack'
        <3> SUFFICES ASSUME NEW c \in Binding, forcing'[c]
                     PROVE  \E h \in Goroutine : \E i \in 1..Len(stack[h]) :
                                /\ stack[h][i] = c
                                /\ i = Len(stack[h]) => pc'[h] = "eval"
            BY <2>1 DEF ForcingOnStack
        <3>1. CASE c = Top(g)
            <4>1. Len(stack[g]) \in 1..Len(stack[g])
                BY <2>2
            <4>2. pc'[g] = "eval"
                BY <2>1 DEF TypeOK
            <4> QED
                BY <3>1, <4>1, <4>2 DEF Top
        <3>2. CASE c # Top(g)
            <4>1. forcing[c]
                BY <2>1, <3>2 DEF TypeOK
            <4>2. \A h \in Goroutine : pc[h] = "eval" => pc'[h] = "eval"
                BY <2>1 DEF TypeOK
            <4> QED
                BY <4>1, <4>2 DEF ForcingOnStack
        <3> QED
            BY <3>1, <3>2
    <2> QED
        BY <2>3, <2>4, <2>5, <2>6
<1>4. ASSUME NEW g \in Goroutine, Store(g)
      PROVE  IInv'
    <2>1. PICK o \in Outcome : outcome' = [outcome EXCEPT ![Top(g)] = o]
        BY <1>4 DEF Store, Outcome
    <2>2. /\ forcing' = [forcing EXCEPT ![Top(g)] = FALSE]
          /\ pc' = [pc EXCEPT ![g] = "finish"]
          /\ pc[g] = "eval"
          /\ stack[g] # <<>>
          /\ UNCHANGED <<done, stack, failing>>
        BY <1>4 DEF Store
    <2>3. TypeOK'
        BY <2>1, <2>2 DEF TypeOK
    <2>4. InForce'
        BY <2>2 DEF InForce, TypeOK
    <2>5. StackReaches'
        BY <2>2 DEF StackReaches, Reaches
    <2>6. ForcingOnStack'
        <3> SUFFICES ASSUME NEW c \in Binding, forcing'[c]
                     PROVE  \E h \in Goroutine : \E i \in 1..Len(stack[h]) :
                                /\ stack[h][i] = c
                                /\ i = Len(stack[h]) => pc'[h] = "eval"
            BY <2>2 DEF ForcingOnStack
        <3>1. Top(g) \in Binding /\ Top(g) = stack[g][Len(stack[g])]
            BY <2>2 DEF TypeOK, Top
        <3>2. c # Top(g) /\ forcing[c]
            BY <2>2, <3>1 DEF TypeOK
        <3>3. PICK h \in Goroutine : \E i \in 1..Len(stack[h]) :
                        /\ stack[h][i] = c
                        /\ i = Len(stack[h]) => pc[h] = "eval"
            BY <3>2 DEF ForcingOnStack
        <3>4. CASE h = g
            BY <3>1, <3>2, <3>3, <3>4
        <3>5. CASE h # g
            <4>1. pc'[h] = pc[h]
                BY <2>2, <3>5 DEF TypeOK
            <4> QED
                BY <3>3, <4>1
        <3> QED
            BY <3>4, <3>5
    <2> QED
        BY <2>3, <2>4, <2>5, <2>6
<1>5. ASSUME NEW g \in Goroutine, Finish(g)
      PROVE  IInv'
    <2>1. /\ pc[g] = "finish"
          /\ done' = [done EXCEPT ![Top(g)] = TRUE]
          /\ stack' = [stack EXCEPT ![g] = SubSeq(@, 1, Len(@) - 1)]
          /\ pc' = [pc EXCEPT ![g] = "eval"]
          /\ UNCHANGED <<forcing, outcome>>
        BY <1>5 DEF Finish
    <2>2. failing' \in [Goroutine -> BOOLEAN]
        BY <1>5 DEF Finish, TypeOK
    <2>3. stack[g] # <<>> /\ stack[g] \in Seq(Binding)
        BY <2>1 DEF InForce, TypeOK
    <2>4. /\ stack'[g] \in Seq(Binding)
          /\ Len(stack'[g]) = Len(stack[g]) - 1
          /\ \A i \in 1..Len(stack[g]) - 1 : stack'[g][i] = stack[g][i]
          /\ Len(stack[g]) \in Nat \ {0}
        <3>1. stack'[g] = SubSeq(stack[g], 1, Len(stack[g]) - 1)
            BY <2>1 DEF TypeOK
        <3> QED
            BY <2>3, <3>1, FrontIs
    <2>5. \A h \in Goroutine : h # g => stack'[h] = stack[h] /\ pc'[h] = pc[h]
        BY <2>1 DEF TypeOK
    <2>6. TypeOK'
        BY <2>1, <2>2, <2>4, <2>5 DEF TypeOK
    <2>7. InForce'
        BY <2>1, <2>5 DEF InForce, TypeOK
    <2>8. StackReaches'
        <3> SUFFICES ASSUME NEW h \in Goroutine,
                            NEW i \in 1..Len(stack'[h]), NEW j \in 1..Len(stack'[h]),
                            i < j
                     PROVE  Reaches(stack'[h][i], stack'[h][j])
            BY DEF StackReaches, Reaches
        <3>1. CASE h # g
            BY <2>5, <3>1 DEF StackReaches
        <3>2. CASE h = g
            <4>1. /\ i \in 1..Len(stack[g]) /\ j \in 1..Len(stack[g])
                  /\ stack'[g][i] = stack[g][i] /\ stack'[g][j] = stack[g][j]
                BY <2>4, <3>2
            <4> QED
                BY <3>2, <4>1 DEF StackReaches
        <3> QED
            BY <3>1, <3>2
    <2>9. ForcingOnStack'
        <3> SUFFICES ASSUME NEW c \in Binding, forcing[c]
                     PROVE  \E h \in Goroutine : \E i \in 1..Len(stack'[h]) :
                                /\ stack'[h][i] = c
                                /\ i = Len(stack'[h]) => pc'[h] = "eval"
            BY <2>1 DEF ForcingOnStack
        <3>1. PICK h \in Goroutine : \E i \in 1..Len(stack[h]) :
                        /\ stack[h][i] = c
                        /\ i = Len(stack[h]) => pc[h] = "eval"
            BY DEF ForcingOnStack
        <3>2. CASE h = g
            <4>1. PICK i \in 1..Len(stack[g]) :
                        stack[g][i] = c /\ i # Len(stack[g])
                BY <2>1, <3>1, <3>2
            <4>2. i \in 1..Len(stack'[g]) /\ stack'[g][i] = c
                BY <2>4, <4>1
            <4>3. pc'[g] = "eval"
                BY <2>1 DEF TypeOK
            <4> QED
                BY <4>2, <4>3
        <3>3. CASE h # g
            BY <2>5, <3>1, <3>3
        <3> QED
            BY <3>2, <3>3
    <2> QED
        BY <2>6, <2>7, <2>8, <2>9
<1>6. CASE UNCHANGED vars
    <2>1. UNCHANGED <<forcing, done, outcome, stack, pc, failing>>
        BY <1>6 DEF vars
    <2>2. TypeOK' /\ InForce'
        BY <2>1 DEF TypeOK, InForce
    <2>3. StackReaches'
        BY <2>1 DEF StackReaches, Reaches
    <2>4. ForcingOnStack'
        BY <2>1 DEF ForcingOnStack
    <2> QED
        BY <2>2, <2>3, <2>4
<1> QED
    BY <1>1, <1>2, <1>3, <1>4, <1>5, <1>6 DEF Next

THEOREM IInvHolds == Spec => []IInv
BY InitIInv, NextIInv, PTL DEF Spec

-----------------------------------------------------------------------------
(* Whoever is told that a binding depends on itself is told the truth, unless
   another goroutine is evaluating that binding: for every set of goroutines
   that share the thunks of thunk.go. *)
THEOREM ReportsAreTrueOrForeign == Spec => FalseReportNeedsOther
<1>1. IInv /\ [Next]_vars =>
        [\A g \in Goroutine : \A b \in Binding :
             Report(g, b) =>
                \/ OnCycle(b)
                \/ \E h \in Goroutine \ {g} :
                     \E i \in DOMAIN stack[h] : stack[h][i] = b]_vars
    BY ReportIsTrueOrForeign
<1> QED
    BY <1>1, IInvHolds, PTL DEF Spec, FalseReportNeedsOther

LEMMA NextDoomed ==
    ASSUME LoneGoroutine, IInv, FailingIsDoomed, CycleErrorsAreTrue, [Next]_vars
    PROVE  FailingIsDoomed' /\ CycleErrorsAreTrue'
<1> USE DEF IInv
<1>0. ASSUME NEW g \in Goroutine
      PROVE  stack[g] # <<>> => Top(g) \in Binding
    BY DEF TypeOK, Top
<1>1. ASSUME NEW g \in Goroutine, NEW b \in Binding, Reuse(g, b)
      PROVE  FailingIsDoomed' /\ CycleErrorsAreTrue'
    <2>1. /\ failing' = [failing EXCEPT ![g] =
                           stack[g] # <<>> /\ outcome[b] = "cycle"]
          /\ stack[g] # <<>> => <<Top(g), b>> \in Uses
          /\ UNCHANGED <<stack, outcome>>
        BY <1>1 DEF Reuse, Calls
    <2>2. ASSUME NEW h \in Goroutine, failing'[h]
          PROVE  stack'[h] # <<>> /\ Doomed(Top(h)')
        <3>1. h = g /\ stack[g] # <<>> /\ outcome[b] = "cycle"
            BY <2>1, <2>2 DEF LoneGoroutine, TypeOK
        <3>2. Doomed(b)
            BY <3>1 DEF CycleErrorsAreTrue
        <3>3. Doomed(Top(g))
            BY <1>0, <2>1, <3>1, <3>2, DoomedUses
        <3> QED
            BY <2>1, <3>1, <3>3 DEF Top
    <2> QED
        BY <2>1, <2>2 DEF FailingIsDoomed, CycleErrorsAreTrue, Doomed, OnCycle,
                          Reaches, Top
<1>2. ASSUME NEW g \in Goroutine, NEW b \in Binding, Report(g, b)
      PROVE  FailingIsDoomed' /\ CycleErrorsAreTrue'
    <2>1. /\ failing' = [failing EXCEPT ![g] = stack[g] # <<>>]
          /\ stack[g] # <<>> => <<Top(g), b>> \in Uses
          /\ UNCHANGED <<stack, outcome>>
        BY <1>2 DEF Report, Calls
    <2>2. OnCycle(b)
        BY <1>2, ReportIsTrueOrForeign DEF LoneGoroutine
    <2>3. Doomed(b)
        BY <2>2 DEF Doomed
    <2>4. ASSUME NEW h \in Goroutine, failing'[h]
          PROVE  stack'[h] # <<>> /\ Doomed(Top(h)')
        <3>1. h = g /\ stack[g] # <<>>
            BY <2>1, <2>4 DEF LoneGoroutine, TypeOK
        <3>2. Doomed(Top(g))
            BY <1>0, <2>1, <2>3, <3>1, DoomedUses
        <3> QED
            BY <2>1, <3>1, <3>2 DEF Top
    <2> QED
        BY <2>1, <2>4 DEF FailingIsDoomed, CycleErrorsAreTrue, Doomed, OnCycle,
                          Reaches, Top
<1>3. ASSUME NEW g \in Goroutine, NEW b \in Binding, Check(g, b)
      PROVE  FailingIsDoomed' /\ CycleErrorsAreTrue'
    <2>1. /\ ~failing[g]
          /\ UNCHANGED <<outcome, failing>>
        BY <1>3 DEF Check, Calls
    <2>2. \A h \in Goroutine : ~failing'[h]
        BY <2>1 DEF LoneGoroutine
    <2> QED
        BY <2>1, <2>2 DEF FailingIsDoomed, CycleErrorsAreTrue, Doomed, OnCycle,
                          Reaches
<1>4. ASSUME NEW g \in Goroutine, Enter(g)
      PROVE  FailingIsDoomed' /\ CycleErrorsAreTrue'
    <2>1. UNCHANGED <<outcome, failing, stack>>
        BY <1>4 DEF Enter
    <2> QED
        BY <2>1 DEF FailingIsDoomed, CycleErrorsAreTrue, Doomed, OnCycle, Reaches, Top
<1>5. ASSUME NEW g \in Goroutine, Store(g)
      PROVE  FailingIsDoomed' /\ CycleErrorsAreTrue'
    <2>1. PICK o : /\ outcome' = [outcome EXCEPT ![Top(g)] = o]
                   /\ o = "cycle" => failing[g]
        BY <1>5 DEF Store
    <2>2. stack[g] # <<>> /\ UNCHANGED <<stack, failing>>
        BY <1>5 DEF Store
    <2>3. ASSUME NEW b \in Binding, outcome'[b] = "cycle"
          PROVE  Doomed(b)
        <3>1. CASE b = Top(g)
            <4>1. failing[g]
                BY <2>1, <2>3, <3>1 DEF TypeOK
            <4> QED
                BY <3>1, <4>1 DEF FailingIsDoomed
        <3>2. CASE b # Top(g)
            <4>1. outcome[b] = "cycle"
                BY <2>1, <2>3, <3>2 DEF TypeOK
            <4> QED
                BY <4>1 DEF CycleErrorsAreTrue
        <3> QED
            BY <3>1, <3>2
    <2> QED
        BY <2>2, <2>3 DEF FailingIsDoomed, CycleErrorsAreTrue, Doomed, OnCycle,
                          Reaches, Top
<1>6. ASSUME NEW g \in Goroutine, Finish(g)
      PROVE  FailingIsDoomed' /\ CycleErrorsAreTrue'
    <2>1. /\ pc[g] = "finish"
          /\ stack' = [stack EXCEPT ![g] = SubSeq(@, 1, Len(@) - 1)]
          /\ failing' = [failing EXCEPT ![g] =
                           Len(stack[g]) > 1 /\ outcome[Top(g)] = "cycle"]
          /\ UNCHANGED outcome
        BY <1>6 DEF Finish
    <2>2. stack[g] # <<>> /\ stack[g] \in Seq(Binding)
        BY <2>1 DEF InForce, TypeOK
    <2>3. ASSUME NEW h \in Goroutine, failing'[h]
          PROVE  stack'[h] # <<>> /\ Doomed(Top(h)')
        <3>1. h = g /\ Len(stack[g]) > 1 /\ outcome[Top(g)] = "cycle"
            BY <2>1, <2>3 DEF LoneGoroutine, TypeOK
        <3> DEFINE n == Len(stack[g])
                   u == stack[g][n - 1]
        <3>2. /\ stack'[g] = SubSeq(stack[g], 1, n - 1)
              /\ n \in Nat /\ n - 1 \in 1..n /\ n \in 1..n /\ n - 1 < n
              /\ u \in Binding /\ Top(g) \in Binding
            BY <2>1, <2>2, <3>1 DEF TypeOK, Top
        <3>3. /\ Len(stack'[g]) = n - 1
              /\ stack'[g] # <<>>
              /\ Top(g)' = u
            <4>1. Len(stack'[g]) = n - 1 /\ stack'[g][n - 1] = u
                BY <2>2, <3>2, FrontIs
            <4> QED
                BY <3>1, <3>2, <4>1 DEF Top
        <3>4. Reaches(u, Top(g))
            BY <3>2 DEF StackReaches, Top
        <3>5. Doomed(Top(g))
            BY <3>1, <3>2 DEF CycleErrorsAreTrue
        <3>6. PICK c \in Binding : OnCycle(c) /\ (c = Top(g) \/ Reaches(Top(g), c))
            BY <3>5 DEF Doomed
        <3>7. Reaches(u, c)
            BY <3>2, <3>4, <3>6, ReachesTrans
        <3>8. Doomed(u)
            BY <3>6, <3>7 DEF Doomed
        <3> QED
            BY <3>1, <3>3, <3>8
    <2> QED
        BY <2>1, <2>3 DEF FailingIsDoomed, CycleErrorsAreTrue, Doomed, OnCycle,
                          Reaches
<1>7. CASE UNCHANGED vars
    BY <1>7 DEF vars, FailingIsDoomed, CycleErrorsAreTrue, Doomed, OnCycle, Reaches,
                Top
<1> QED
    BY <1>1, <1>2, <1>3, <1>4, <1>5, <1>6, <1>7 DEF Next

(* In one goroutine, a binding that failed with "depends on itself" uses a
   binding that does depend on itself: whatever the module graph is. *)
THEOREM CycleErrorsTrueAlone ==
    ASSUME LoneGoroutine
    PROVE  Spec => []CycleErrorsAreTrue
<1>1. Init => FailingIsDoomed /\ CycleErrorsAreTrue
    BY DEF Init, FailingIsDoomed, CycleErrorsAreTrue
<1>2. IInv /\ (FailingIsDoomed /\ CycleErrorsAreTrue) /\ [Next]_vars
        => (FailingIsDoomed /\ CycleErrorsAreTrue)'
    BY NextDoomed
<1> QED
    BY <1>1, <1>2, IInvHolds, PTL DEF Spec
=============================================================================
