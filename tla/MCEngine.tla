------------------------------ MODULE MCEngine ------------------------------
(* A small corpus, as terms of Parser.  Names in the modules are as in the
   corpus; what they compute is small. *)
EXTENDS EngineLaws

Id(n) == <<"ident", <<n>>>>
From(m, n) == <<"ident", <<m, n>>>>
Str(s) == <<"string", s>>
Re(r) == <<"regexp", <<r>>>>
App(f, a) == <<"app", f, a>>
App2(f, a, b) == App(App(f, a), b)
Cat(a, b) == <<"concat", a, b>>
Node(t) == <<"bracket", t>>
Rep(t, q) == <<"rep", t, q>>
Let(n, t) == <<"bind", <<n>>, t>>
LetRec(n, t) == <<"letrec", <<n>>, t>>
Fun(params, t) == BuildFunc(params, t)
Module(name, autoload, decls) == [name |-> name, autoload |-> autoload, decls |-> decls]

Incl(g) == App(Id("incl"), Str(g))
Excl(g) == App(Id("excl"), Str(g))
Xfm(l, f) == Let("xfm", App2(Id("transform"), l, f))

(* Functions, scopes and composition. *)
Util == Module("Util", <<>>, <<
    Let("eol", App2(Id("del"), Re("e"), Str(<<"n">>))),
    Let("word", <<"minus", Re("w"), Str(<<"x">>)>>),
    Let("opt", Fun(<<<<"l">>>>, Rep(Id("l"), "?"))),
    Let("twice", Fun(<<<<"f">>, <<"l">>>>, App(Id("f"), App(Id("f"), Id("l"))))),
    Let("line", Fun(<<<<"opt">>>>, <<"let", <<"eol">>, <<>>, Str(<<"n">>),
                                     Cat(Id("opt"), App(Id("store"), Id("eol")))>>))>>)

Hosts == Module("Hosts", <<"xfm">>, <<
    Let("host", App(Id("key"), From("Util", "word"))),
    Let("lns", Rep(Node(Cat(Id("host"), From("Util", "eol"))), "*")),
    Let("both", App2(From("Util", "twice"), From("Util", "opt"), Id("lns"))),
    Xfm(Id("lns"), Cat(Incl(<<"h", "*">>), Excl(<<"h", "1">>)))>>)

(* Bindings that depend on themselves, alone and across modules. *)
Ping == Module("Ping", <<"xfm">>, <<
    Let("x", Cat(From("Pong", "y"), App(Id("store"), Str(<<"p">>)))),
    Let("ok", App(Id("label"), Str(<<"o">>))),
    LetRec("rec", Node(Cat(App(Id("key"), Re("k")), Rep(Id("rec"), "?")))),
    Let("self", Id("self")),
    Xfm(Id("x"), Incl(<<"h", "1">>))>>)
Pong == Module("Pong", <<"xfm">>, <<
    Let("y", <<"union", From("Ping", "x"), Id("z")>>),
    Let("z", <<"let", <<"f">>, <<<<"l">>>>, Cat(Id("l"), From("Ping", "ok")),
               App(Id("f"), App(Id("value"), Str(<<"v">>)))>>),
    Xfm(Id("z"), Incl(<<"h", "1">>))>>)

(* Values of every kind where they do and do not belong. *)
Misc == Module("Misc", <<"xfm">>, <<
    Let("nonlens", Node(Str(<<"s">>))),
    Let("nonfun", App(Str(<<"s">>), Str(<<"t">>))),
    Let("nothing", App(Id("store"), <<"minus", Re("w"), Re("w")>>)),
    Let("mixed", Cat(Str(<<"s">>), App(Id("seq"), Str(<<"s">>)))),
    Let("later", App(Id("store"), Cat(Id("suffix"), Str(<<"t">>)))),
    Let("suffix", Str(<<"s">>)),
    Let("seqd", <<"compose", App(Id("print_string"), Str(<<"s">>)),
                  App(<<"compose", Id("print_tree"), Id("lens_ctype")>>,
                      App(Id("counter"), Str(<<"c">>)))>>),
    Let("line", App(From("Util", "line"), App(Id("store"), Id("seqd")))),
    LetRec("flat", Str(<<"s">>)),
    Let("far", From("Gone", "x")),
    Let("xfm", Id("line"))>>)

Caddyfile == Module("Caddyfile", <<"xfm">>, <<
    Let("lns", Rep(Node(App(Id("store"), From("Util", "word"))), "+")),
    Xfm(Id("lns"), Incl(<<"c", "*">>))>>)

MCBadSyntax == Module("", <<>>, <<>>)

MCSource ==
    [b \in {"util", "hosts", "ping", "pong", "misc", "caddyfile", "bad", "alias"} |->
        CASE b = "util" -> Util
          [] b = "hosts" -> Hosts
          [] b = "ping" -> Ping
          [] b = "pong" -> Pong
          [] b = "misc" -> Misc
          [] b = "caddyfile" -> Caddyfile
          [] b = "bad" -> MCBadSyntax
          [] b = "alias" -> Util]
MCBase ==
    [n \in {"Util", "Hosts", "Ping", "Pong", "Misc", "Caddyfile", "caddyfile",
            "Bad", "Alias", "Gone"} |->
        CASE n = "Util" -> "util"
          [] n = "Hosts" -> "hosts"
          [] n = "Ping" -> "ping"
          [] n = "Pong" -> "pong"
          [] n = "Misc" -> "misc"
          [] n \in {"Caddyfile", "caddyfile"} -> "caddyfile"
          [] n = "Bad" -> "bad"
          [] n = "Alias" -> "alias"
          [] n = "Gone" -> "gone"]
MCLeaves(r, s) == r # s
MCComputed(f, a) == <<"tree", <<>>>>
MCGlobMatch(g, p) == g[1] = p[1] /\ g[2] \in {"*", p[2]}
MCAccepts(lens, text) == text # "garbage"

MCCorpusModules == <<"Alias", "Pong", "Ping", "Misc", "Util", "Hosts", "Caddyfile">>
MCDisk == [p \in {<<"h", "2">>, <<"c", "1">>, <<"h", "1">>} |->
             IF p = <<"c", "1">> THEN "heredoc" ELSE IF p = <<"h", "1">> THEN "garbage" ELSE "text"]
MCUnsupported == [m \in {"Caddyfile"} |-> {"heredoc"}]

Named(m, ns) == {<<"Parse", m, <<n>>, "text">> : n \in ns}
Lenses ==
    Named("Util", {"eol", "word", "opt", "store"})
      \cup Named("Hosts", {"lns", "both", "gone"})
      \cup Named("Ping", {"x", "rec", "self"})
      \cup Named("Pong", {"y", "z"})
      \cup Named("Misc", {"nonlens", "nonfun", "nothing", "mixed", "later", "seqd", "line",
                          "flat", "far"})
      \cup Named("Bad", {"x"}) \cup Named("Alias", {"eol"})
      \cup Named("caddyfile", {"lns"})
      \cup {<<"Parse", "Caddyfile", <<"lns">>, t>> : t \in {"heredoc", "garbage", "text"}}
Files == {<<"LoadFile", p>> :
            p \in {<<"h", "1">>, <<"h", "2">>, <<"h", "3">>, <<"c", "1">>, <<"d", "1">>}}
MCRequests == Lenses \cup Files
=============================================================================
