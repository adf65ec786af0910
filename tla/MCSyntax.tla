------------------------------ MODULE MCSyntax ------------------------------
EXTENDS SyntaxLaws

x == <<"ident", <<"x">>>>
Atoms == {x, <<"ident", <<"get">>>>, <<"ident", <<"M", "y">>>>, <<"string", "s">>,
          <<"regexp", "r">>, <<"unit">>}
Tree == <<"tree", <<<<<<"l">>, <<>>, <<<<<<>>, <<"v">>, <<>>>>>>>>, <<<<>>, <<>>, <<>>>>>>>>
Reps == {"*", "+", "?"}

Around(s, t) ==
    {<<tag, a, b>> : tag \in ToSet(Tag), a \in s, b \in t}
      \cup {<<"rep", a, q>> : a \in s, q \in Reps}
      \cup {<<"bracket", a>> : a \in s}
      \cup {<<"let", <<"n">>, ps, a, b>> : ps \in {<<>>, <<<<"p">>, <<"get">>>>}, a \in s, b \in t}

Small == {x, <<"unit">>, Tree}
Once == Around(Small, Small)
Exps == Atoms \cup Around(Once, Small) \cup Around(Small, Once)

Decls ==
    {<<"bind", <<"f">>, e>> : e \in Exps}
      \cup {<<"bind", <<"f">>, <<"func", <<"p">>, <<"func", <<"put">>, e>>>>>> : e \in Once}
      \cup {<<"letrec", <<"f">>, e>> : e \in Once}
      \cup {<<"test", <<"gettest", e, x>>, "fails">> : e \in Once}
      \cup {<<"test", <<"gettest", x, e>>, "is", Tree>> : e \in Once}
      \cup {<<"test", <<"puttest", x, e, x>>, "print">> : e \in Once}
      \cup {<<"test", <<"puttest", x, x, e>>, "is", x>> : e \in Once}

Module(ds) == [name |-> <<"M">>, autoload |-> <<>>, decls |-> ds]
MCModules ==
    {Module(<<d>>) : d \in Decls}
      \cup {[Module(<<d, <<"bind", <<"f">>, x>>>>) EXCEPT !.autoload = <<"xfm">>] :
              d \in {e \in Decls : e[1] = "test"}}

Header == <<<<"module">>, <<"UIDENT", <<"M">>>>, <<"=">>>>
MCBeginnings ==
    {Header \o <<<<"let">>, <<"LIDENT", <<"x">>>>, <<"=">>>>,
     Header \o <<<<"let">>, <<"LIDENT", <<"x">>>>, <<"(">>, <<"LIDENT", <<"p">>>>, <<":">>>>,
     Header \o <<<<"test">>, <<"LIDENT", <<"x">>>>, <<"get">>>>}
MCKeys ==
    {<<k>> : k \in {"let", "in", "=", "(", ")", "|", ".", "*", "{", "}", "string"}}
      \cup {<<"LIDENT", <<"x">>>>}
=============================================================================
