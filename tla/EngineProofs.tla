---------------------------- MODULE EngineProofs ----------------------------
(* Proofs about Engine, for every corpus of modules, every sequence of requests
   and any number of calls. *)
EXTENDS Engine, SequenceTheorems, TLAPS

(* Sequences whose elements have no common type. *)
IsSeq(s) == s \in Seq({s[i] : i \in DOMAIN s})

(* Between its check and its return force has its frame on top; the binding it
   entered is the frame's. *)
PhasesOfForce ==
    /\ ctl[1] \in {"enter", "finish"} => frames # <<>> /\ Last(frames)[1] = "force"
    /\ ctl[1] = "enter" => Last(frames)[2] = ctl[2]

(* A binding is evaluated once: it has one frame at most, and none any more when
   it is done. *)
OneForceEach ==
    \A b \in Thunk :
        /\ \A i, j \in ForcedBy(b) : i = j
        /\ done[b] => ForcedBy(b) = {}

(* Only LoadFile goes back to the next module, from an empty machine. *)
TryIsBottom == ctl[1] = "try" => ctl = <<"try">> /\ Len(frames) = 1 /\ frames[1][1] = "LoadFile"

IInv ==
    /\ TypeOK
    /\ IsSeq(frames)
    /\ IsSeq(answers)
    /\ PhasesOfForce
    /\ ForcingIsOwn
    /\ OneForceEach
    /\ TryIsBottom

-----------------------------------------------------------------------------
(* Sequences grow and shrink at their end. *)
LEMMA IsSeqProperties ==
    ASSUME NEW s, IsSeq(s)
    PROVE  /\ Len(s) \in Nat
           /\ DOMAIN s = 1..Len(s)
           /\ s = <<>> <=> Len(s) = 0
BY LenProperties, EmptySeq DEF IsSeq

LEMMA IsSeqIntro ==
    ASSUME NEW S, NEW s \in Seq(S)
    PROVE  IsSeq(s)
<1> DEFINE T == {s[i] : i \in DOMAIN s}
<1>1. Len(s) \in Nat /\ DOMAIN s = 1..Len(s) /\ s \in [1..Len(s) -> S]
    BY LenProperties
<1>2. \A i \in 1..Len(s) : s[i] \in T
    BY <1>1
<1>3. s \in [1..Len(s) -> T]
    BY <1>1, <1>2
<1> HIDE DEF T
<1>4. s \in Seq(T)
    BY <1>1, <1>3, SeqDef
<1> QED
    BY <1>4 DEF T, IsSeq

LEMMA AppendProps ==
    ASSUME NEW s, IsSeq(s), NEW e
    PROVE  /\ IsSeq(Append(s, e))
           /\ Len(Append(s, e)) = Len(s) + 1
           /\ DOMAIN Append(s, e) = 1..(Len(s) + 1)
           /\ \A i \in 1..Len(s) : Append(s, e)[i] = s[i]
           /\ Append(s, e)[Len(s) + 1] = e
           /\ Last(Append(s, e)) = e
           /\ Append(s, e) # <<>>
           /\ Front(Append(s, e)) = s
<1> DEFINE S == {s[i] : i \in DOMAIN s} \cup {e}
           t == Append(s, e)
<1>1. {s[i] : i \in DOMAIN s} \subseteq S
    OBVIOUS
<1>2. s \in Seq(S) /\ e \in S
    BY <1>1, SeqMonotonic DEF IsSeq
<1> HIDE DEF S
<1>3. t \in Seq(S) /\ Len(t) = Len(s) + 1 /\ Len(s) \in Nat
      /\ \A i \in 1..Len(s) : t[i] = s[i]
      /\ t[Len(s) + 1] = e
    BY <1>2
<1>4. IsSeq(t) /\ DOMAIN t = 1..(Len(s) + 1)
    BY <1>3, IsSeqIntro, LenProperties
<1>5. Last(t) = e /\ t # <<>>
    BY <1>3, EmptySeq DEF Last
<1>6. Front(t) = s
  <2>1. Front(t) = SubSeq(t, 1, Len(s))
    BY <1>3 DEF Front
  <2>2. \A i \in 1..Len(s) : t[i] \in S
    BY <1>2, <1>3, LenProperties
  <2>3. /\ SubSeq(t, 1, Len(s)) \in Seq(S)
        /\ Len(SubSeq(t, 1, Len(s))) = Len(s)
        /\ \A i \in 1..Len(s) : SubSeq(t, 1, Len(s))[i] = t[i]
    BY <1>3, <2>2, SubSeqProperties
  <2> QED
    BY <1>2, <1>3, <2>1, <2>3, SeqEqual
<1> QED
    BY <1>3, <1>4, <1>5, <1>6

LEMMA FrontProps ==
    ASSUME NEW s, IsSeq(s), s # <<>>
    PROVE  /\ IsSeq(Front(s))
           /\ Len(Front(s)) = Len(s) - 1
           /\ DOMAIN Front(s) = 1..(Len(s) - 1)
           /\ \A i \in 1..(Len(s) - 1) : Front(s)[i] = s[i]
           /\ Last(s) = s[Len(s)]
           /\ Len(s) \in Nat \ {0}
<1> DEFINE S == {s[i] : i \in DOMAIN s}
<1>1. s \in Seq(S)
    BY DEF IsSeq
<1> HIDE DEF S
<1>2. Len(s) \in Nat \ {0} /\ s \in [1..Len(s) -> S]
    BY <1>1, EmptySeq, LenProperties
<1> DEFINE n == Len(s) - 1
<1>3. n \in Nat /\ 1..n \subseteq 1..Len(s) /\ n = Len(s) - 1
    BY <1>2
<1> HIDE DEF n
<1>4. \A i \in 1..n : s[i] \in S
    BY <1>2, <1>3
<1>5. /\ SubSeq(s, 1, n) \in Seq(S)
      /\ Len(SubSeq(s, 1, n)) = n
      /\ \A i \in 1..n : SubSeq(s, 1, n)[i] = s[i]
    BY <1>3, <1>4, SubSeqProperties
<1>6. Front(s) = SubSeq(s, 1, n) /\ Last(s) = s[Len(s)]
    BY <1>3 DEF Front, Last
<1>7. IsSeq(Front(s)) /\ DOMAIN Front(s) = 1..n
    BY <1>5, <1>6, IsSeqIntro, LenProperties
<1> QED
    BY <1>2, <1>3, <1>5, <1>6, <1>7

-----------------------------------------------------------------------------
LEMMA LookupKinds ==
    ASSUME NEW e, NEW n
    PROVE  Lookup(e, n)[1] \in {"value", "force"}
BY DEF Lookup, Error

(* A request, and one with the number of the module that LoadFile tries. *)
LEMMA RequestShape ==
    ASSUME NEW r \in RequestsFor("LoadFile"), NEW i
    PROVE  /\ Append(r, i)[1] = "LoadFile"
           /\ Append(r, i)[2] = r[2]
           /\ Append(r, i)[3] = i
           /\ Front(Append(r, i)) = r
<1>1. r = <<r[1], r[2]>> /\ r[1] = "LoadFile"
    BY EngineAssumption DEF RequestsFor
<1>2. <<r[1], r[2]>> \in Seq({r[1], r[2]})
    OBVIOUS
<1>3. IsSeq(r) /\ Len(r) = 2
    BY <1>1, <1>2, IsSeqIntro
<1>4. \A j \in 1..Len(r) : Append(r, i)[j] = r[j]
    BY <1>3, AppendProps
<1>5. Append(r, i)[Len(r) + 1] = i
    BY <1>3, AppendProps
<1>6. Front(Append(r, i)) = r
    BY <1>3, AppendProps
<1> QED
    BY <1>1, <1>3, <1>4, <1>5, <1>6

(* The request at the bottom is no frame of the interpreter. *)
LEMMA BottomIsRequest ==
    ASSUME NEW f, NEW c, CallUnderWay(f, c)
    PROVE  f[1] \in {"Parse", "LoadFile"}
BY RequestShape DEF CallUnderWay, RequestsFor

LEMMA TopIsNotBottom ==
    ASSUME IInv, frames # <<>>, Last(frames)[1] \notin {"Parse", "LoadFile"}
    PROVE  Len(frames) \in Nat /\ Len(frames) > 1 /\ Last(frames) = frames[Len(frames)]
<1>1. CallUnderWay(frames[1], ctl) /\ Last(frames) = frames[Len(frames)] /\ Len(frames) \in Nat \ {0}
    BY FrontProps DEF IInv, TypeOK
<1>2. frames[1][1] \in {"Parse", "LoadFile"}
    BY <1>1, BottomIsRequest
<1> QED
    BY <1>1, <1>2

-----------------------------------------------------------------------------
Calmly == {"eval", "value", "force", "apply"}

(* A step outside of force that neither adds nor takes a frame of force. *)
LEMMA Calm ==
    ASSUME IInv, ctl[1] \in Calmly, ctl'[1] \in Calmly,
           loaded' \subseteq Loadable, UNCHANGED <<forcing, done, val, answers>>,
           IsSeq(frames'), frames' # <<>>, frames'[1] = frames[1],
           \A i \in DOMAIN frames' :
               frames'[i][1] = "force" => i \in DOMAIN frames /\ frames'[i] = frames[i],
           \A i \in DOMAIN frames :
               frames[i][1] = "force" => i \in DOMAIN frames' /\ frames'[i] = frames[i]
    PROVE  IInv'
<1>1. ctl[1] \notin {"idle", "try", "enter", "finish"} /\ ctl'[1] \notin {"idle", "try", "enter", "finish"}
    BY DEF Calmly
<1>2. ctl # <<"try">>
    BY <1>1
<1>3. CallUnderWay(frames[1], ctl) /\ Len(answers) < MaxCalls
    BY <1>1 DEF IInv, TypeOK
<1>4. CallUnderWay(frames'[1], ctl')
    BY <1>2, <1>3 DEF CallUnderWay
<1>5. TypeOK'
    BY <1>1, <1>3, <1>4 DEF IInv, TypeOK, Calmly
<1>6. \A b \in Thunk : ForcedBy(b)' = ForcedBy(b)
    BY DEF ForcedBy
<1>7. ForcingIsOwn'
  <2>1. \A b \in Thunk : forcing[b] <=> ForcedBy(b) # {}
    BY <1>1 DEF IInv, ForcingIsOwn
  <2>2. \A b \in Thunk : forcing'[b] <=> ForcedBy(b)' # {}
    BY <1>6, <2>1
  <2> QED
    BY <1>1, <2>2 DEF ForcingIsOwn
<1>8. OneForceEach'
    BY <1>6 DEF IInv, OneForceEach
<1> QED
    BY <1>1, <1>5, <1>7, <1>8 DEF IInv, PhasesOfForce, TryIsBottom

LEMMA CalmKeep ==
    ASSUME IInv, ctl[1] \in Calmly, ctl'[1] \in Calmly,
           loaded' \subseteq Loadable, UNCHANGED <<forcing, done, val, frames, answers>>
    PROVE  IInv'
<1>1. frames # <<>> /\ IsSeq(frames)
    BY DEF IInv, TypeOK, Calmly
<1> QED
    BY <1>1, Calm

LEMMA CalmPush ==
    ASSUME IInv, ctl[1] \in Calmly, ctl'[1] \in Calmly, NEW f, f[1] # "force", Push(f),
           UNCHANGED <<loaded, forcing, done, val, answers>>
    PROVE  IInv'
<1>1. frames # <<>> /\ IsSeq(frames) /\ loaded' \subseteq Loadable
    BY DEF IInv, TypeOK, Calmly
<1>2. Len(frames) \in Nat \ {0} /\ DOMAIN frames = 1..Len(frames)
    BY <1>1, IsSeqProperties
<1>3. /\ IsSeq(frames') /\ frames' # <<>>
      /\ DOMAIN frames' = 1..(Len(frames) + 1)
      /\ \A i \in 1..Len(frames) : frames'[i] = frames[i]
      /\ frames'[Len(frames) + 1] = f
    BY <1>1, AppendProps DEF Push
<1>4. frames'[1] = frames[1]
    BY <1>2, <1>3
<1>5. \A i \in DOMAIN frames' :
        frames'[i][1] = "force" => i \in DOMAIN frames /\ frames'[i] = frames[i]
  <2> SUFFICES ASSUME NEW i \in 1..(Len(frames) + 1), frames'[i][1] = "force"
               PROVE  i \in 1..Len(frames)
    BY <1>2, <1>3
  <2>1. i # Len(frames) + 1
    BY <1>3
  <2> QED
    BY <1>2, <2>1
<1>6. \A i \in DOMAIN frames : i \in DOMAIN frames' /\ frames'[i] = frames[i]
    BY <1>2, <1>3
<1> QED
    BY <1>1, <1>3, <1>4, <1>5, <1>6, Calm

LEMMA CalmPop ==
    ASSUME IInv, ctl[1] \in Calmly, ctl'[1] \in Calmly,
           frames # <<>>, Last(frames)[1] \notin {"Parse", "LoadFile", "force"}, Pop,
           UNCHANGED <<loaded, forcing, done, val, answers>>
    PROVE  IInv'
<1>1. IsSeq(frames) /\ loaded' \subseteq Loadable
    BY DEF IInv, TypeOK
<1>2. Len(frames) \in Nat /\ Len(frames) > 1 /\ frames[Len(frames)][1] # "force"
    BY TopIsNotBottom
<1>3. /\ IsSeq(frames') /\ Len(frames') = Len(frames) - 1
      /\ DOMAIN frames = 1..Len(frames)
      /\ DOMAIN frames' = 1..(Len(frames) - 1)
      /\ \A i \in 1..(Len(frames) - 1) : frames'[i] = frames[i]
    BY <1>1, FrontProps, IsSeqProperties DEF Pop
<1>4. frames' # <<>> /\ frames'[1] = frames[1]
    BY <1>2, <1>3, IsSeqProperties
<1>5. \A i \in DOMAIN frames' : i \in DOMAIN frames /\ frames'[i] = frames[i]
    BY <1>2, <1>3
<1>6. \A i \in DOMAIN frames :
        frames[i][1] = "force" => i \in DOMAIN frames' /\ frames'[i] = frames[i]
  <2> SUFFICES ASSUME NEW i \in 1..Len(frames), frames[i][1] = "force"
               PROVE  i \in 1..(Len(frames) - 1)
    BY <1>3
  <2>1. i # Len(frames)
    BY <1>2
  <2> QED
    BY <1>2, <2>1
<1> QED
    BY <1>1, <1>3, <1>4, <1>5, <1>6, Calm

LEMMA CalmReplace ==
    ASSUME IInv, ctl[1] \in Calmly, ctl'[1] \in Calmly,
           frames # <<>>, Last(frames)[1] \notin {"Parse", "LoadFile", "force"},
           NEW f, f[1] # "force", frames' = Append(Front(frames), f),
           UNCHANGED <<loaded, forcing, done, val, answers>>
    PROVE  IInv'
<1>1. IsSeq(frames) /\ loaded' \subseteq Loadable
    BY DEF IInv, TypeOK
<1>2. Len(frames) \in Nat /\ Len(frames) > 1 /\ frames[Len(frames)][1] # "force"
    BY TopIsNotBottom
<1>3. /\ IsSeq(Front(frames)) /\ Len(Front(frames)) = Len(frames) - 1
      /\ DOMAIN frames = 1..Len(frames)
      /\ \A i \in 1..(Len(frames) - 1) : Front(frames)[i] = frames[i]
    BY <1>1, FrontProps, IsSeqProperties
<1>4. /\ IsSeq(frames') /\ frames' # <<>>
      /\ DOMAIN frames' = 1..Len(frames)
      /\ \A i \in 1..(Len(frames) - 1) : frames'[i] = frames[i]
      /\ frames'[Len(frames)] = f
  <2>1. (Len(frames) - 1) + 1 = Len(frames)
    BY <1>2
  <2> QED
    BY <1>3, <2>1, AppendProps
<1>5. frames'[1] = frames[1]
    BY <1>2, <1>4
<1>6. ASSUME NEW i \in 1..Len(frames), frames'[i][1] = "force" \/ frames[i][1] = "force"
      PROVE  frames'[i] = frames[i]
  <2>1. i # Len(frames)
    BY <1>2, <1>4, <1>6
  <2> QED
    BY <1>2, <1>4, <2>1
<1> QED
    BY <1>1, <1>3, <1>4, <1>5, <1>6, Calm

-----------------------------------------------------------------------------
LEMMA LoadsLoadable ==
    ASSUME NEW m, LoadError(m) = "none"
    PROVE  m \in Loadable
<1>1. Provided(m)
    BY DEF LoadError
<1> QED
    BY <1>1 DEF Provided, Loadable

LEMMA LoadThenType ==
    ASSUME loaded \subseteq Loadable, NEW m, NEW next, LoadThen(m, next)
    PROVE  loaded' \subseteq Loadable /\ (ctl' = next \/ ctl'[1] = "value")
BY LoadsLoadable DEF LoadThen

LEMMA EvalInv ==
    ASSUME IInv, UNCHANGED answers, EvalLiteral \/ EvalFunc \/ EvalIdent \/ EvalPart
    PROVE  IInv'
<1>1. ctl[1] \in Calmly
    BY DEF EvalLiteral, EvalFunc, EvalIdent, EvalPart, Evaluates, Calmly
<1>2. loaded \subseteq Loadable
    BY DEF IInv, TypeOK
<1>3. CASE EvalLiteral \/ EvalFunc
  <2>1. ctl'[1] \in Calmly /\ UNCHANGED <<loaded, forcing, done, val, frames>>
    BY <1>3 DEF EvalLiteral, EvalFunc, Return, Calmly
  <2> QED
    BY <1>1, <1>2, <2>1, CalmKeep
<1>4. CASE EvalIdent
  <2>1. UNCHANGED <<forcing, done, val, frames>>
    BY <1>4 DEF EvalIdent
  <2>2. CASE LoadThen(ctl[2][2][1], Lookup(ModuleEnv(ctl[2][2][1]), <<ctl[2][2][2]>>))
    <3>1. loaded' \subseteq Loadable /\ ctl'[1] \in Calmly
        BY <1>2, <2>2, LoadThenType, LookupKinds DEF Calmly
    <3> QED
        BY <1>1, <2>1, <3>1, CalmKeep
  <2>3. CASE ctl' = Lookup(ctl[3], ctl[2][2]) /\ UNCHANGED loaded
    <3>1. ctl'[1] \in Calmly
        BY <2>3, LookupKinds DEF Calmly
    <3> QED
        BY <1>1, <1>2, <2>1, <2>3, <3>1, CalmKeep
  <2> QED
    BY <1>4, <2>2, <2>3 DEF EvalIdent
<1>5. CASE EvalPart
  <2>1. ctl'[1] \in Calmly /\ Push(Waiting(ctl[2], ctl[3]))
        /\ UNCHANGED <<loaded, forcing, done, val>>
    BY <1>5 DEF EvalPart, Calmly
  <2>2. Waiting(ctl[2], ctl[3])[1] # "force"
    BY DEF Waiting
  <2> QED
    BY <1>1, <2>1, <2>2, CalmPush
<1> QED
    BY <1>3, <1>4, <1>5

LEMMA ReturnInv ==
    ASSUME IInv, UNCHANGED answers,
           Unwind \/ LetBody \/ RightOperand \/ Make \/ Argument
    PROVE  IInv'
<1> DEFINE kinds == {"let", "bracket", "rep", "rec", "left", "right", "then"}
<1>1. /\ ctl[1] \in Calmly /\ frames # <<>> /\ Last(frames)[1] \in kinds
      /\ UNCHANGED <<loaded, forcing, done, val>>
    BY DEF Unwind, LetBody, RightOperand, Make, Argument, Returns, Resumes, Calmly
<1>2. Last(frames)[1] \notin {"Parse", "LoadFile", "force"}
    BY <1>1
<1>3. CASE Unwind \/ LetBody \/ Make \/ Argument
  <2>1. Pop /\ ctl'[1] \in Calmly
    BY <1>1, <1>3 DEF Unwind, LetBody, Make, Argument, Return, Calmly
  <2> QED
    BY <1>1, <1>2, <2>1, CalmPop
<1>4. CASE RightOperand
  <2>1. ctl'[1] \in Calmly
    BY <1>4 DEF RightOperand, Calmly
  <2>2. CASE Pop
    BY <1>1, <1>2, <2>1, <2>2, CalmPop
  <2>3. CASE frames' = Append(Front(frames), <<"right", Last(frames)[2], ctl[2]>>)
    <3>1. <<"right", Last(frames)[2], ctl[2]>>[1] # "force"
        OBVIOUS
    <3> QED
        BY <1>1, <1>2, <2>1, <2>3, <3>1, CalmReplace
  <2> QED
    BY <1>4, <2>2, <2>3 DEF RightOperand, Pop
<1> QED
    BY <1>3, <1>4

LEMMA ApplyInv ==
    ASSUME IInv, UNCHANGED answers, Apply
    PROVE  IInv'
<1>1. ctl[1] \in Calmly /\ UNCHANGED <<loaded, forcing, done, val>> /\ loaded \subseteq Loadable
    BY DEF Apply, Calmly, IInv, TypeOK
<1>2. /\ ctl'[1] \in Calmly
      /\ UNCHANGED frames \/ Push(<<"then", ctl[2][3]>>)
    BY DEF Apply, Return, Calmly
<1>3. CASE UNCHANGED frames
    BY <1>1, <1>2, <1>3, CalmKeep
<1>4. CASE Push(<<"then", ctl[2][3]>>)
  <2>1. <<"then", ctl[2][3]>>[1] # "force"
    OBVIOUS
  <2> QED
    BY <1>1, <1>2, <1>4, <2>1, CalmPush
<1> QED
    BY <1>2, <1>3, <1>4

-----------------------------------------------------------------------------
(* thunk.force, step by step. *)
LEMMA ReuseReportInv ==
    ASSUME IInv, UNCHANGED answers, Reuse \/ Report
    PROVE  IInv'
<1>1. /\ ctl[1] \in Calmly /\ ctl'[1] \in Calmly
      /\ UNCHANGED <<loaded, forcing, done, val, frames>>
      /\ loaded \subseteq Loadable
    BY DEF Reuse, Report, Return, Calmly, IInv, TypeOK
<1> QED
    BY <1>1, CalmKeep

(* What stays true of the call under way while a step changes other things. *)
LEMMA StillUnderWay ==
    ASSUME IInv, ctl[1] \notin {"idle", "try"}, frames'[1] = frames[1], UNCHANGED answers
    PROVE  CallUnderWay(frames'[1], ctl') /\ Len(answers) < MaxCalls
<1>1. CallUnderWay(frames[1], ctl) /\ Len(answers) < MaxCalls
    BY DEF IInv, TypeOK
<1>2. ctl # <<"try">>
    OBVIOUS
<1> QED
    BY <1>1, <1>2 DEF CallUnderWay

LEMMA CheckInv ==
    ASSUME IInv, UNCHANGED answers, Check
    PROVE  IInv'
<1>1. /\ ctl[1] = "force" /\ ctl' = <<"enter", ctl[2]>> /\ frames' = Append(frames, ctl)
      /\ ~done[ctl[2]] /\ ~forcing[ctl[2]]
      /\ UNCHANGED <<loaded, forcing, done, val>>
    BY DEF Check, Push
<1>2. frames # <<>> /\ IsSeq(frames)
    BY <1>1 DEF IInv, TypeOK
<1>3. Len(frames) \in Nat \ {0} /\ DOMAIN frames = 1..Len(frames)
    BY <1>2, IsSeqProperties
<1>4. /\ IsSeq(frames') /\ frames' # <<>> /\ Last(frames') = ctl
      /\ Len(frames') = Len(frames) + 1
      /\ DOMAIN frames' = 1..(Len(frames) + 1)
      /\ \A i \in 1..Len(frames) : frames'[i] = frames[i]
      /\ frames'[Len(frames) + 1] = ctl
    BY <1>1, <1>2, AppendProps
<1>5. frames'[1] = frames[1]
    BY <1>3, <1>4
<1>6. CallUnderWay(frames'[1], ctl') /\ Len(answers) < MaxCalls
    BY <1>1, <1>5, StillUnderWay
<1>7. TypeOK'
    BY <1>1, <1>4, <1>6 DEF IInv, TypeOK
<1>8. ASSUME NEW b \in Thunk
      PROVE  ForcedBy(b)' = IF b = ctl[2] THEN ForcedBy(b) \cup {Len(frames) + 1} ELSE ForcedBy(b)
  <2>1. \A i \in 1..Len(frames) : i \in ForcedBy(b)' <=> i \in ForcedBy(b)
    BY <1>3, <1>4 DEF ForcedBy
  <2>2. Len(frames) + 1 \in ForcedBy(b)' <=> b = ctl[2]
    BY <1>1, <1>3, <1>4 DEF ForcedBy
  <2>3. ForcedBy(b) \subseteq 1..Len(frames) /\ ForcedBy(b)' \subseteq 1..(Len(frames) + 1)
    BY <1>3, <1>4 DEF ForcedBy
  <2>4. \A i \in 1..(Len(frames) + 1) : i \in 1..Len(frames) \/ i = Len(frames) + 1
    BY <1>3
  <2>5. CASE b = ctl[2]
    <3>1. \A i \in ForcedBy(b)' : i \in ForcedBy(b) \cup {Len(frames) + 1}
        BY <2>1, <2>3, <2>4
    <3>2. \A i \in ForcedBy(b) \cup {Len(frames) + 1} : i \in ForcedBy(b)'
        BY <2>1, <2>2, <2>3, <2>5
    <3>3. ForcedBy(b)' = ForcedBy(b) \cup {Len(frames) + 1}
        BY <3>1, <3>2
    <3> QED
        BY <2>5, <3>3
  <2>6. CASE b # ctl[2]
    <3>1. \A i \in ForcedBy(b)' : i \in ForcedBy(b)
        BY <2>1, <2>2, <2>3, <2>4, <2>6
    <3>2. \A i \in ForcedBy(b) : i \in ForcedBy(b)'
        BY <2>1, <2>3
    <3>3. ForcedBy(b)' = ForcedBy(b)
        BY <3>1, <3>2
    <3> QED
        BY <2>6, <3>3
  <2> QED
    BY <2>5, <2>6
<1>9. \A b \in Thunk : forcing[b] <=> ForcedBy(b) # {}
    BY <1>1 DEF IInv, ForcingIsOwn
<1>10. \A b \in Thunk : b = ctl[2] => ForcedBy(b) = {}
    BY <1>1, <1>9
<1>11. ForcingIsOwn'
  <2> SUFFICES ASSUME NEW b \in Thunk
               PROVE  forcing'[b] <=>
                        \E i \in ForcedBy(b)' : i = Len(frames') => ctl'[1] \notin {"enter", "finish"}
    BY DEF ForcingIsOwn
  <2>1. ctl'[1] = "enter" /\ forcing'[b] = forcing[b]
    BY <1>1
  <2>2. CASE b = ctl[2]
    BY <1>1, <1>4, <1>8, <1>10, <2>1, <2>2
  <2>3. CASE b # ctl[2]
    <3>1. ForcedBy(b)' = ForcedBy(b) /\ \A i \in ForcedBy(b) : i # Len(frames')
        BY <1>3, <1>4, <1>8, <2>3 DEF ForcedBy
    <3> QED
        BY <1>9, <2>1, <3>1
  <2> QED
    BY <2>2, <2>3
<1>12. OneForceEach'
    BY <1>1, <1>8, <1>10 DEF IInv, OneForceEach
<1>13. PhasesOfForce' /\ TryIsBottom'
    BY <1>1, <1>4 DEF PhasesOfForce, TryIsBottom
<1> QED
    BY <1>4, <1>7, <1>11, <1>12, <1>13 DEF IInv

LEMMA EnterInv ==
    ASSUME IInv, UNCHANGED answers, Enter
    PROVE  IInv'
<1>1. /\ ctl[1] = "enter" /\ ctl'[1] = "eval"
      /\ forcing' = [forcing EXCEPT ![ctl[2]] = TRUE]
      /\ UNCHANGED <<loaded, done, val>>
      /\ UNCHANGED frames \/ frames' = Append(frames, <<"rec", ctl[2]>>)
    BY DEF Enter, Push
<1>2. frames # <<>> /\ IsSeq(frames) /\ Last(frames)[1] = "force" /\ Last(frames)[2] = ctl[2]
    BY <1>1 DEF IInv, TypeOK, PhasesOfForce
<1>3. Len(frames) \in Nat \ {0} /\ DOMAIN frames = 1..Len(frames)
      /\ Last(frames) = frames[Len(frames)]
    BY <1>2, IsSeqProperties, FrontProps
<1>4. /\ IsSeq(frames') /\ frames' # <<>> /\ DOMAIN frames \subseteq DOMAIN frames'
      /\ \A i \in 1..Len(frames) : frames'[i] = frames[i]
      /\ \A i \in DOMAIN frames' : frames'[i][1] = "force" => i \in 1..Len(frames)
  <2>1. CASE UNCHANGED frames
    BY <1>2, <1>3, <2>1
  <2>2. CASE frames' = Append(frames, <<"rec", ctl[2]>>)
    <3>1. /\ IsSeq(frames') /\ frames' # <<>>
          /\ DOMAIN frames' = 1..(Len(frames) + 1)
          /\ \A i \in 1..Len(frames) : frames'[i] = frames[i]
          /\ frames'[Len(frames) + 1] = <<"rec", ctl[2]>>
        BY <1>2, <2>2, AppendProps
    <3>2. \A i \in 1..(Len(frames) + 1) : i \in 1..Len(frames) \/ i = Len(frames) + 1
        BY <1>3
    <3> QED
        BY <1>3, <3>1, <3>2
  <2> QED
    BY <1>1, <2>1, <2>2
<1>5. frames'[1] = frames[1]
    BY <1>3, <1>4
<1>6. CallUnderWay(frames'[1], ctl') /\ Len(answers) < MaxCalls
    BY <1>1, <1>5, StillUnderWay
<1>7. TypeOK'
    BY <1>1, <1>4, <1>6 DEF IInv, TypeOK
<1>8. \A b \in Thunk : ForcedBy(b)' = ForcedBy(b)
  <2> SUFFICES ASSUME NEW b \in Thunk PROVE ForcedBy(b)' = ForcedBy(b)
    OBVIOUS
  <2>1. \A i \in ForcedBy(b)' : i \in ForcedBy(b)
    BY <1>3, <1>4 DEF ForcedBy
  <2>2. \A i \in ForcedBy(b) : i \in ForcedBy(b)'
    BY <1>3, <1>4 DEF ForcedBy
  <2> QED
    BY <2>1, <2>2
<1>9. ForcingIsOwn'
  <2> SUFFICES ASSUME NEW b \in Thunk
               PROVE  forcing'[b] <=> ForcedBy(b) # {}
    BY <1>1, <1>8 DEF ForcingIsOwn
  <2>1. CASE b = ctl[2]
    <3>1. Len(frames) \in ForcedBy(b)
        BY <1>2, <1>3, <2>1 DEF ForcedBy
    <3>2. forcing'[b]
        BY <1>1, <2>1 DEF IInv, TypeOK
    <3> QED
        BY <3>1, <3>2
  <2>2. CASE b # ctl[2]
    <3>1. forcing'[b] = forcing[b]
        BY <1>1, <2>2 DEF IInv, TypeOK
    <3>2. \A i \in ForcedBy(b) : i # Len(frames)
        BY <1>2, <1>3, <2>2 DEF ForcedBy
    <3>3. forcing[b] <=> ForcedBy(b) # {}
        BY <3>2 DEF IInv, ForcingIsOwn
    <3> QED
        BY <3>1, <3>3
  <2> QED
    BY <2>1, <2>2
<1>10. OneForceEach'
    BY <1>1, <1>8 DEF IInv, OneForceEach
<1>11. PhasesOfForce' /\ TryIsBottom'
    BY <1>1 DEF PhasesOfForce, TryIsBottom
<1> QED
    BY <1>4, <1>7, <1>9, <1>10, <1>11 DEF IInv

LEMMA StoreInv ==
    ASSUME IInv, UNCHANGED answers, Store
    PROVE  IInv'
<1> DEFINE c == Last(frames)[2]
<1>1. /\ ctl[1] = "value" /\ ctl'[1] = "finish" /\ frames # <<>> /\ Last(frames)[1] = "force"
      /\ val' = [val EXCEPT ![c] = ctl[2]]
      /\ forcing' = [forcing EXCEPT ![c] = FALSE]
      /\ UNCHANGED <<loaded, done, frames>>
    BY DEF Store, Returns
<1>2. IsSeq(frames)
    BY DEF IInv
<1>3. Len(frames) \in Nat \ {0} /\ DOMAIN frames = 1..Len(frames)
      /\ Last(frames) = frames[Len(frames)]
    BY <1>1, <1>2, IsSeqProperties, FrontProps
<1>4. CallUnderWay(frames'[1], ctl') /\ Len(answers) < MaxCalls
    BY <1>1, StillUnderWay
<1>5. TypeOK'
    BY <1>1, <1>4 DEF IInv, TypeOK
<1>6. \A b \in Thunk : ForcedBy(b)' = ForcedBy(b)
    BY <1>1 DEF ForcedBy
<1>7. \A b \in Thunk : forcing[b] <=> ForcedBy(b) # {}
    BY <1>1 DEF IInv, ForcingIsOwn
<1>8. ForcingIsOwn'
  <2> SUFFICES ASSUME NEW b \in Thunk
               PROVE  forcing'[b] <=> \E i \in ForcedBy(b) : i # Len(frames)
    BY <1>1, <1>6 DEF ForcingIsOwn
  <2>1. CASE b = c
    <3>1. Len(frames) \in ForcedBy(b)
        BY <1>1, <1>3, <2>1 DEF ForcedBy
    <3>2. \A i \in ForcedBy(b) : i = Len(frames)
        BY <3>1 DEF IInv, OneForceEach
    <3>3. ~forcing'[b]
        BY <1>1, <2>1 DEF IInv, TypeOK
    <3> QED
        BY <3>2, <3>3
  <2>2. CASE b # c
    <3>1. forcing'[b] = forcing[b]
        BY <1>1, <2>2 DEF IInv, TypeOK
    <3>2. \A i \in ForcedBy(b) : i # Len(frames)
        BY <1>3, <2>2 DEF ForcedBy
    <3> QED
        BY <1>7, <3>1, <3>2
  <2> QED
    BY <2>1, <2>2
<1>9. OneForceEach'
    BY <1>1, <1>6 DEF IInv, OneForceEach
<1>10. PhasesOfForce' /\ TryIsBottom'
    BY <1>1 DEF PhasesOfForce, TryIsBottom
<1> QED
    BY <1>1, <1>2, <1>5, <1>8, <1>9, <1>10 DEF IInv

LEMMA FinishInv ==
    ASSUME IInv, UNCHANGED answers, Finish
    PROVE  IInv'
<1> DEFINE c == Last(frames)[2]
<1>1. /\ ctl[1] = "finish" /\ ctl'[1] = "value" /\ frames' = Front(frames)
      /\ done' = [done EXCEPT ![c] = TRUE]
      /\ UNCHANGED <<loaded, forcing, val>>
    BY DEF Finish, Return, Pop
<1>2. IsSeq(frames) /\ frames # <<>> /\ Last(frames)[1] = "force"
    BY <1>1 DEF IInv, PhasesOfForce
<1>3. Len(frames) \in Nat /\ Len(frames) > 1 /\ Last(frames) = frames[Len(frames)]
    BY <1>2, TopIsNotBottom
<1>4. /\ IsSeq(frames') /\ Len(frames') = Len(frames) - 1
      /\ DOMAIN frames = 1..Len(frames)
      /\ DOMAIN frames' = 1..(Len(frames) - 1)
      /\ \A i \in 1..(Len(frames) - 1) : frames'[i] = frames[i]
    BY <1>1, <1>2, FrontProps, IsSeqProperties
<1>5. frames' # <<>> /\ frames'[1] = frames[1]
    BY <1>3, <1>4, IsSeqProperties
<1>6. CallUnderWay(frames'[1], ctl') /\ Len(answers) < MaxCalls
    BY <1>1, <1>5, StillUnderWay
<1>7. TypeOK'
    BY <1>1, <1>5, <1>6 DEF IInv, TypeOK
<1>8. ASSUME NEW b \in Thunk
      PROVE  /\ b = c => ForcedBy(b)' = {} /\ ~forcing[b]
             /\ b # c => ForcedBy(b)' = ForcedBy(b)
  <2>1. \A i \in ForcedBy(b)' : i \in ForcedBy(b) /\ i # Len(frames)
    BY <1>3, <1>4 DEF ForcedBy
  <2>2. \A i \in ForcedBy(b) : i = Len(frames) \/ i \in ForcedBy(b)'
    BY <1>3, <1>4 DEF ForcedBy
  <2>3. CASE b = c
    <3>1. Len(frames) \in ForcedBy(b)
        BY <1>2, <1>3, <1>4, <2>3 DEF ForcedBy
    <3>2. \A i \in ForcedBy(b) : i = Len(frames)
        BY <3>1 DEF IInv, OneForceEach
    <3>3. ~forcing[b]
        BY <1>1, <3>2 DEF IInv, ForcingIsOwn
    <3> QED
        BY <2>1, <2>3, <3>2, <3>3
  <2>4. CASE b # c
    <3>1. Len(frames) \notin ForcedBy(b)
        BY <1>3, <2>4 DEF ForcedBy
    <3> QED
        BY <2>1, <2>2, <2>4, <3>1
  <2> QED
    BY <2>3, <2>4
<1>9. ForcingIsOwn'
  <2> SUFFICES ASSUME NEW b \in Thunk
               PROVE  forcing[b] <=> ForcedBy(b)' # {}
    BY <1>1 DEF ForcingIsOwn
  <2>1. CASE b = c
    BY <1>8, <2>1
  <2>2. CASE b # c
    <3>1. \A i \in ForcedBy(b) : i # Len(frames)
        BY <1>3, <2>2 DEF ForcedBy
    <3> QED
        BY <1>8, <2>2, <3>1 DEF IInv, ForcingIsOwn
  <2> QED
    BY <2>1, <2>2
<1>10. OneForceEach'
  <2> SUFFICES ASSUME NEW b \in Thunk
               PROVE  /\ \A i, j \in ForcedBy(b)' : i = j
                      /\ done'[b] => ForcedBy(b)' = {}
    BY DEF OneForceEach
  <2>1. CASE b = c
    BY <1>8, <2>1
  <2>2. CASE b # c
    <3>1. done'[b] = done[b]
        BY <1>1, <2>2 DEF IInv, TypeOK
    <3> QED
        BY <1>8, <2>2, <3>1 DEF IInv, OneForceEach
  <2> QED
    BY <2>1, <2>2
<1>11. PhasesOfForce' /\ TryIsBottom'
    BY <1>1 DEF PhasesOfForce, TryIsBottom
<1> QED
    BY <1>4, <1>7, <1>9, <1>10, <1>11 DEF IInv

LEMMA MachineStepInv ==
    ASSUME IInv, MachineStep
    PROVE  IInv'
<1>1. UNCHANGED answers
    BY DEF MachineStep
<1> QED
    BY <1>1, EvalInv, ReturnInv, ApplyInv, ReuseReportInv, CheckInv, EnterInv, StoreInv, FinishInv
       DEF MachineStep, Step

-----------------------------------------------------------------------------
(* The calls. *)
LEMMA NoForceFrames ==
    ASSUME IInv, UNCHANGED <<forcing, done>>,
           \A i \in DOMAIN frames : frames[i][1] # "force",
           \A i \in DOMAIN frames' : frames'[i][1] # "force"
    PROVE  ForcingIsOwn' /\ OneForceEach'
<1>1. \A b \in Thunk : ForcedBy(b) = {} /\ ForcedBy(b)' = {}
    BY DEF ForcedBy
<1> QED
    BY <1>1 DEF IInv, ForcingIsOwn, OneForceEach

LEMMA OneFrame ==
    ASSUME NEW f
    PROVE  IsSeq(<<f>>) /\ DOMAIN <<f>> = {1} /\ <<f>>[1] = f /\ Len(<<f>>) = 1 /\ <<f>> # <<>>
<1>1. <<f>> \in Seq({f})
    OBVIOUS
<1>2. Len(<<f>>) = 1 /\ <<f>>[1] = f
    OBVIOUS
<1>3. DOMAIN <<f>> = {1}
    OBVIOUS
<1> QED
    BY <1>1, <1>2, <1>3, IsSeqIntro, EmptySeq

(* A call that has its request at the bottom of an otherwise empty machine. *)
LEMMA AtBottomInv ==
    ASSUME IInv, NEW f, f[1] \in {"Parse", "LoadFile"}, frames' = <<f>>,
           CallUnderWay(f, ctl'),
           \A i \in DOMAIN frames : frames[i][1] # "force",
           ctl'[1] \in {"value", "force"} \/ (ctl' = <<"try">> /\ f[1] = "LoadFile"),
           loaded' \subseteq Loadable, Len(answers) < MaxCalls,
           UNCHANGED <<forcing, done, val, answers>>
    PROVE  IInv'
<1>1. /\ IsSeq(frames') /\ DOMAIN frames' = {1} /\ frames'[1] = f
      /\ Len(frames') = 1 /\ frames' # <<>>
    BY OneFrame
<1>2. ForcingIsOwn' /\ OneForceEach'
    BY <1>1, NoForceFrames
<1>3. ctl'[1] \in {"value", "force", "try"}
    OBVIOUS
<1>4. CallUnderWay(frames'[1], ctl')
    BY <1>1
<1>5. TypeOK'
    BY <1>1, <1>3, <1>4 DEF IInv, TypeOK
<1>6. PhasesOfForce' /\ TryIsBottom'
    BY <1>1, <1>3 DEF PhasesOfForce, TryIsBottom
<1> QED
    BY <1>1, <1>2, <1>5, <1>6 DEF IInv

LEMMA AnswerInv ==
    ASSUME IInv, NEW r, NEW v, Answer(r, v), frames # <<>>,
           \A i \in DOMAIN frames : frames[i][1] # "force",
           UNCHANGED <<loaded, forcing, done, val>>
    PROVE  IInv'
<1>1. ctl' = Idle /\ frames' = <<>> /\ answers' = Append(answers, <<r, v>>)
    BY DEF Answer
<1>2. IsSeq(answers) /\ Len(answers) < MaxCalls
    BY DEF IInv, TypeOK
<1>3. IsSeq(answers') /\ Len(answers') = Len(answers) + 1 /\ Len(answers) \in Nat
    BY <1>1, <1>2, AppendProps, IsSeqProperties
<1>4. Len(answers') <= MaxCalls
    BY <1>2, <1>3, EngineAssumption
<1>5. DOMAIN frames' = {} /\ IsSeq(frames')
    BY <1>1, EmptySeq DEF IsSeq
<1>6. ForcingIsOwn' /\ OneForceEach'
    BY <1>5, NoForceFrames
<1>7. ctl'[1] = "idle"
    BY <1>1 DEF Idle
<1>8. TypeOK'
    BY <1>1, <1>4, <1>7 DEF IInv, TypeOK
<1>9. PhasesOfForce' /\ TryIsBottom'
    BY <1>7 DEF PhasesOfForce, TryIsBottom
<1> QED
    BY <1>3, <1>5, <1>6, <1>8, <1>9 DEF IInv

LEMMA BottomNoForce ==
    ASSUME IInv, Len(frames) = 1, frames[1][1] # "force"
    PROVE  frames # <<>> /\ \A i \in DOMAIN frames : frames[i][1] # "force"
BY IsSeqProperties DEF IInv

(* The request of a LoadFile under way. *)
LEMMA LoadFileUnderWay ==
    ASSUME IInv, frames # <<>>, frames[1][1] = "LoadFile"
    PROVE  \E r \in RequestsFor("LoadFile"), i \in 1..Len(CorpusModules) + 1 :
             /\ frames[1] = Append(r, i) /\ Front(frames[1]) = r /\ frames[1][3] = i
             /\ i \notin DOMAIN CorpusModules => ctl = <<"try">>
<1>1. CallUnderWay(frames[1], ctl)
    BY DEF IInv, TypeOK
<1>2. frames[1] \notin RequestsFor("Parse")
    BY DEF RequestsFor
<1>3. PICK r \in RequestsFor("LoadFile"), i \in 1..Len(CorpusModules) + 1 :
        frames[1] = Append(r, i) /\ (i \notin DOMAIN CorpusModules => ctl = <<"try">>)
    BY <1>1, <1>2 DEF CallUnderWay
<1>4. Front(frames[1]) = r /\ frames[1][3] = i
    BY <1>3, RequestShape
<1> QED
    BY <1>3, <1>4

(* LoadFile goes on to a module, or to the end of the list. *)
LEMMA TryInv ==
    ASSUME IInv, NEW r \in RequestsFor("LoadFile"), NEW i \in 1..Len(CorpusModules) + 1,
           Try(r, i), \A j \in DOMAIN frames : frames[j][1] # "force", Len(answers) < MaxCalls,
           UNCHANGED <<loaded, forcing, done, val, answers>>
    PROVE  IInv'
<1>1. frames' = <<Append(r, i)>> /\ ctl' = <<"try">>
    BY DEF Try
<1>2. PICK f : f = Append(r, i)
    OBVIOUS
<1>3. f[1] = "LoadFile"
    BY <1>2, RequestShape
<1>4. CallUnderWay(f, ctl')
    BY <1>1, <1>2 DEF CallUnderWay
<1>5. loaded' \subseteq Loadable
    BY DEF IInv, TypeOK
<1>6. f[1] \in {"Parse", "LoadFile"}
    BY <1>3
<1>7. ctl'[1] \in {"value", "force"} \/ (ctl' = <<"try">> /\ f[1] = "LoadFile")
    BY <1>1, <1>3
<1>8. frames' = <<f>>
    BY <1>1, <1>2
<1> QED
    BY <1>4, <1>5, <1>6, <1>7, <1>8, AtBottomInv

LEMMA AskLensInv ==
    ASSUME IInv, AskLens
    PROVE  IInv'
<1>1. PICK r \in RequestsFor("Parse") :
        frames' = <<r>> /\ LoadThen(r[2], Lookup(ModuleEnv(r[2]), r[3]))
    BY DEF AskLens
<1>2. ctl[1] = "idle" /\ Len(answers) < MaxCalls /\ UNCHANGED <<forcing, done, val, answers>>
    BY DEF AskLens, Ready, Idle
<1>3. frames = <<>> /\ loaded \subseteq Loadable
    BY <1>2 DEF IInv, TypeOK
<1>4. loaded' \subseteq Loadable /\ ctl'[1] \in {"value", "force"}
    BY <1>1, <1>3, LoadThenType, LookupKinds
<1>5. r[1] \in {"Parse", "LoadFile"} /\ CallUnderWay(r, ctl')
    BY DEF RequestsFor, CallUnderWay
<1>6. \A i \in DOMAIN frames : frames[i][1] # "force"
    BY <1>3
<1>7. ctl'[1] \in {"value", "force"} \/ (ctl' = <<"try">> /\ r[1] = "LoadFile")
    BY <1>4
<1>8. frames' = <<r>> /\ loaded' \subseteq Loadable
    BY <1>1, <1>4
<1> QED
    BY <1>2, <1>5, <1>6, <1>7, <1>8, AtBottomInv

LEMMA LoadFileInv ==
    ASSUME IInv, LoadFile
    PROVE  IInv'
<1>1. PICK r \in RequestsFor("LoadFile") : Try(r, 1)
    BY DEF LoadFile
<1>2. ctl[1] = "idle" /\ Len(answers) < MaxCalls
      /\ UNCHANGED <<loaded, forcing, done, val, answers>>
    BY DEF LoadFile, Ready, Idle
<1>3. \A i \in DOMAIN frames : frames[i][1] # "force"
    BY <1>2 DEF IInv, TypeOK
<1>4. 1 \in 1..Len(CorpusModules) + 1
    BY EngineAssumption, LenProperties
<1> QED
    BY <1>1, <1>2, <1>3, <1>4, TryInv

LEMMA AutoloadInv ==
    ASSUME IInv, Autoload
    PROVE  IInv'
<1> DEFINE f == frames[1]
           m == CorpusModules[f[3]]
<1>1. /\ ctl = <<"try">> /\ f[3] \in DOMAIN CorpusModules
      /\ LoadThen(m, AutoloadOf(m))
      /\ UNCHANGED <<forcing, done, val, frames, answers>>
    BY DEF Autoload
<1>2. Len(frames) = 1 /\ f[1] = "LoadFile"
    BY <1>1 DEF IInv, TryIsBottom
<1>3. frames # <<>> /\ \A i \in DOMAIN frames : frames[i][1] # "force"
    BY <1>2, BottomNoForce
<1>4. Len(answers) < MaxCalls /\ loaded \subseteq Loadable
    BY <1>3 DEF IInv, TypeOK
<1>5. AutoloadOf(m)[1] \in {"value", "force"}
    BY LookupKinds DEF AutoloadOf
<1>6. loaded' \subseteq Loadable /\ ctl'[1] \in {"value", "force"}
    BY <1>1, <1>4, <1>5, LoadThenType
<1>7. PICK r \in RequestsFor("LoadFile"), i \in 1..Len(CorpusModules) + 1 :
        f = Append(r, i) /\ f[3] = i
    BY <1>2, <1>3, LoadFileUnderWay
<1>8. CallUnderWay(f, ctl')
    BY <1>1, <1>7 DEF CallUnderWay
<1>9. frames' = <<f>>
  <2>1. frames = <<f>>
    <3>1. IsSeq(frames) /\ IsSeq(<<f>>) /\ Len(<<f>>) = 1 /\ <<f>>[1] = f
        BY OneFrame DEF IInv
    <3>2. DOMAIN frames = 1..1 /\ DOMAIN <<f>> = {1} /\ 1..1 = {1}
        BY <1>2, <3>1, IsSeqProperties, OneFrame
    <3>3. frames = [k \in 1..1 |-> frames[k]]
        BY <1>2, <3>1, <3>2, LenProperties DEF IsSeq
    <3>4. frames \in Seq({f})
        BY <1>2, <3>1, <3>2, <3>3, SeqDef
    <3>5. <<f>> \in Seq({f})
        OBVIOUS
    <3> QED
        BY <1>2, <3>1, <3>4, <3>5, SeqEqual
  <2> QED
    BY <1>1, <2>1
<1> QED
    BY <1>1, <1>2, <1>3, <1>4, <1>6, <1>8, <1>9, AtBottomInv

LEMMA GetLensInv ==
    ASSUME IInv, GetLens
    PROVE  IInv'
<1>1. Len(frames) = 1 /\ frames[1][1] # "force" /\ UNCHANGED <<loaded, forcing, done, val>>
    BY DEF GetLens, AtBottom
<1>2. \E r, v : Answer(r, v)
    BY DEF GetLens
<1>3. frames # <<>> /\ \A i \in DOMAIN frames : frames[i][1] # "force"
    BY <1>1, BottomNoForce
<1> QED
    BY <1>1, <1>2, <1>3, AnswerInv

LEMMA NoLensInv ==
    ASSUME IInv, NoLens
    PROVE  IInv'
<1>1. ctl = <<"try">> /\ UNCHANGED <<loaded, forcing, done, val>>
    BY DEF NoLens
<1>2. \E r, v : Answer(r, v)
    BY DEF NoLens
<1>3. Len(frames) = 1 /\ frames[1][1] = "LoadFile"
    BY <1>1 DEF IInv, TryIsBottom
<1>4. frames # <<>> /\ \A i \in DOMAIN frames : frames[i][1] # "force"
    BY <1>3, BottomNoForce
<1> QED
    BY <1>1, <1>2, <1>4, AnswerInv

LEMMA PassOverInv ==
    ASSUME IInv, PassOver
    PROVE  IInv'
<1>1. /\ ctl[1] = "value" /\ Len(frames) = 1 /\ frames[1][1] = "LoadFile"
      /\ Try(Front(frames[1]), frames[1][3] + 1)
      /\ UNCHANGED <<loaded, forcing, done, val, answers>>
    BY DEF PassOver, AtBottom
<1>2. frames # <<>> /\ \A i \in DOMAIN frames : frames[i][1] # "force"
    BY <1>1, BottomNoForce
<1>3. Len(answers) < MaxCalls
    BY <1>2 DEF IInv, TypeOK
<1>4. PICK r \in RequestsFor("LoadFile"), i \in 1..Len(CorpusModules) + 1 :
        /\ Front(frames[1]) = r /\ frames[1][3] = i
        /\ i \notin DOMAIN CorpusModules => ctl = <<"try">>
    BY <1>1, <1>2, LoadFileUnderWay
<1>5. ctl # <<"try">>
    BY <1>1
<1>6. Len(CorpusModules) \in Nat /\ i \in 1..Len(CorpusModules)
    BY <1>4, <1>5, EngineAssumption, LenProperties
<1>7. i + 1 \in 1..Len(CorpusModules) + 1
    BY <1>6
<1>8. Try(r, i + 1)
    BY <1>1, <1>4
<1> QED
    BY <1>1, <1>2, <1>3, <1>7, <1>8, TryInv

LEMMA StoreFileInv ==
    ASSUME IInv, NEW clash \in BOOLEAN, StoreFile(clash)
    PROVE  IInv'
<1>1. Len(frames) = 1 /\ frames[1][1] # "force" /\ UNCHANGED <<loaded, forcing, done, val>>
    BY DEF StoreFile, AtBottom
<1>2. \E r, v : Answer(r, v)
    BY DEF StoreFile
<1>3. frames # <<>> /\ \A i \in DOMAIN frames : frames[i][1] # "force"
    BY <1>1, BottomNoForce
<1> QED
    BY <1>1, <1>2, <1>3, AnswerInv

-----------------------------------------------------------------------------
LEMMA IInvInit == EngineInit => IInv
<1> SUFFICES ASSUME EngineInit PROVE IInv
    OBVIOUS
<1>1. frames = <<>> /\ answers = <<>> /\ ctl[1] = "idle"
    BY DEF EngineInit, MachineInit, Idle
<1>2. IsSeq(<<>>) /\ DOMAIN <<>> = {} /\ Len(<<>>) = 0
    BY EmptySeq DEF IsSeq
<1>3. \A b \in Thunk : ForcedBy(b) = {} /\ ~forcing[b] /\ ~done[b]
    BY <1>1, <1>2 DEF ForcedBy, EngineInit, MachineInit
<1>4. TypeOK
  <2>1. 0 <= MaxCalls
    BY EngineAssumption
  <2> QED
    BY <1>1, <1>2, <2>1 DEF TypeOK, EngineInit, MachineInit
<1>5. ForcingIsOwn /\ OneForceEach
    BY <1>3 DEF ForcingIsOwn, OneForceEach
<1>6. PhasesOfForce /\ TryIsBottom
    BY <1>1 DEF PhasesOfForce, TryIsBottom
<1> QED
    BY <1>1, <1>2, <1>4, <1>5, <1>6 DEF IInv

LEMMA IInvStep == IInv /\ [Next]_vars => IInv'
<1> SUFFICES ASSUME IInv, [Next]_vars PROVE IInv'
    OBVIOUS
<1>1. CASE Next
    BY <1>1, AskLensInv, GetLensInv, LoadFileInv, AutoloadInv, NoLensInv, PassOverInv,
       StoreFileInv, MachineStepInv DEF Next
<1>2. CASE UNCHANGED vars
  <2>1. UNCHANGED <<loaded, forcing, done, val, ctl, frames, answers>>
    BY <1>2 DEF vars, machine
  <2> QED
    BY <2>1 DEF IInv, TypeOK, PhasesOfForce, ForcingIsOwn, OneForceEach, ForcedBy, TryIsBottom
<1> QED
    BY <1>1, <1>2

(* The inductive invariant of the engine. *)
THEOREM IInvHolds == Spec => []IInv
BY IInvInit, IInvStep, PTL DEF Spec

(* Only modules that load are cached, every call keeps its request to the end, and
   LoadFile never reads past the list of modules. *)
THEOREM TypeCorrect == Spec => []TypeOK
<1>1. IInv => TypeOK
    BY DEF IInv
<1> QED
    BY IInvHolds, <1>1, PTL

(* A binding is marked as being evaluated exactly while its evaluation is under
   way in this very call, whatever the modules and whatever fails. *)
THEOREM ForcingCorrect == Spec => []ForcingIsOwn
<1>1. IInv => ForcingIsOwn
    BY DEF IInv
<1> QED
    BY IInvHolds, <1>1, PTL

(* No call, however it ends, leaves a binding marked as being evaluated. *)
AtRest == ctl = Idle => \A b \in Thunk : ~forcing[b]

THEOREM NoneForcedAtRest == Spec => []AtRest
<1>1. IInv => AtRest
  <2> SUFFICES ASSUME IInv, ctl = Idle, NEW b \in Thunk PROVE ~forcing[b]
    BY DEF AtRest
  <2>1. frames = <<>>
    BY DEF IInv, TypeOK, Idle
  <2>2. ForcedBy(b) = {}
    BY <2>1 DEF ForcedBy
  <2> QED
    BY <2>2 DEF IInv, ForcingIsOwn
<1> QED
    BY IInvHolds, <1>1, PTL

(* "depends on itself" (thunk.go:32) is said only of a binding whose evaluation,
   still under way, has led to this use of it. *)
ReportsTrue ==
    [][Report /\ ctl[2] \in Thunk =>
         \E i \in DOMAIN frames : frames[i][1] = "force" /\ frames[i][2] = ctl[2]]_vars

THEOREM ReportsAreTrue == Spec => ReportsTrue
<1>1. ASSUME IInv, Report, ctl[2] \in Thunk
      PROVE  \E i \in DOMAIN frames : frames[i][1] = "force" /\ frames[i][2] = ctl[2]
    BY <1>1 DEF Report, IInv, ForcingIsOwn, ForcedBy
<1>2. IInv /\ [Next]_vars
        => [Report /\ ctl[2] \in Thunk =>
              \E i \in DOMAIN frames : frames[i][1] = "force" /\ frames[i][2] = ctl[2]]_vars
    BY <1>1
<1> QED
    BY IInvHolds, <1>2, PTL DEF Spec, ReportsTrue

-----------------------------------------------------------------------------
(* A frame of force is that of a binding that has no value yet. *)
LEMMA MemoStep ==
    ASSUME IInv, Next, NEW b \in Thunk, done[b]
    PROVE  done'[b] /\ val'[b] = val[b]
<1>1. ASSUME Store
      PROVE  done'[b] /\ val'[b] = val[b]
  <2>1. /\ frames # <<>> /\ Last(frames)[1] = "force"
        /\ val' = [val EXCEPT ![Last(frames)[2]] = ctl[2]] /\ UNCHANGED done
    BY <1>1 DEF Store, Returns
  <2>2. IsSeq(frames)
    BY DEF IInv
  <2>3. Len(frames) \in DOMAIN frames /\ Last(frames) = frames[Len(frames)]
    BY <2>1, <2>2, FrontProps, IsSeqProperties
  <2>4. ForcedBy(b) = {}
    BY DEF IInv, OneForceEach
  <2>5. b # Last(frames)[2]
    BY <2>1, <2>3, <2>4 DEF ForcedBy
  <2>6. b \in DOMAIN val
    BY DEF IInv, TypeOK
  <2> QED
    BY <2>1, <2>5, <2>6
<1>2. ASSUME Finish
      PROVE  done'[b] /\ val'[b] = val[b]
    BY <1>2 DEF Finish, IInv, TypeOK
<1>3. ASSUME MachineStep, ~Store, ~Finish
      PROVE  UNCHANGED <<done, val>>
    BY <1>3 DEF MachineStep, Step, EvalLiteral, EvalFunc, EvalIdent, EvalPart, Reuse, Report,
       Check, Enter, Unwind, LetBody, RightOperand, Make, Argument, Apply
<1>4. ASSUME ~MachineStep
      PROVE  UNCHANGED <<done, val>>
    BY <1>4 DEF Next, AskLens, GetLens, LoadFile, Autoload, NoLens, PassOver, StoreFile
<1> QED
    BY <1>1, <1>2, <1>3, <1>4

(* What a binding was first found to be, a value or an error, it stays. *)
THEOREM MemoCorrect == Spec => MemoIsFinal
<1>1. IInv /\ [Next]_vars => [\A b \in Thunk : done[b] => done'[b] /\ val'[b] = val[b]]_vars
    BY MemoStep
<1> QED
    BY IInvHolds, <1>1, PTL DEF Spec, MemoIsFinal
=============================================================================
