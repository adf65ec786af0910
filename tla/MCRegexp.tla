------------------------------ MODULE MCRegexp ------------------------------
EXTENDS RegexpLaws

(* A newline, a byte, a letter in its two cases, and for the run with wide
   runes one that is spelled in two bytes. *)
MCVariants == [v \in Runes |-> IF v \in {2, 3} THEN {2, 3} ELSE {v}]
NarrowOnly == <<>>
OneWide == (4 :> <<3, 1>>)

L(runes) == <<"lit", runes, FALSE>>
C(ranges) == <<"class", ranges>>

Patterns ==
    {<<"empty">>, <<"any">>, <<"star", <<"any">>>>, <<"plus", <<"anynotnl">>>>,
     L(<<2>>), L(<<3, 1>>), <<"lit", <<2, 1>>, TRUE>>,
     C(<<<<1, 2>>>>), C(<<<<0, 0>>, <<2, 3>>>>), <<"star", C(<<<<1, 1>>, <<3, 3>>>>)>>,
     <<"concat", <<L(<<1>>), <<"star", L(<<2, 1>>)>>>>>>,
     <<"concat", <<<<"quest", L(<<3>>)>>, C(<<<<1, 3>>>>)>>>>,
     <<"alt", <<L(<<1, 2>>), <<"plus", L(<<2>>)>>, L(<<3>>)>>>>,
     <<"star", <<"alt", <<L(<<1>>), L(<<2, 3>>)>>>>>>}

Sensitive(ps) == {[re |-> p, nocase |-> FALSE] : p \in ps}
NarrowRegexps ==
    Sensitive(Patterns) \cup {[re |-> p, nocase |-> TRUE] :
                            p \in {L(<<2>>), L(<<3, 1>>), <<"star", C(<<<<1, 2>>>>)>>}}

WideRegexps ==
    Sensitive({<<"plus", <<"any">>>>, L(<<4>>), L(<<1>>), C(<<<<1, 4>>>>), C(<<<<1, 2>>>>)})

(* Subtractions alone. *)
MinusSpec == SomeMinus /\ [][UNCHANGED <<left, right>>]_<<left, right>>
=============================================================================
