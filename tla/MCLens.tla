------------------------------- MODULE MCLens -------------------------------
(* Small lenses that between them use every constructor.  They keep the      *)
(* rules of upstream's type checker, which the interpreter does not have:    *)
(* the branches of a union differ in their texts and in their trees.         *)
EXTENDS LensLaws, Sequences, FiniteSets, SequencesExt

Tok(x) == Literal(<<x>>)
Name1 == OneOf({"k", "l", "m"})
ValueR == OneOf({"u", "v"})
Gap == Del(OneOf({"s", "t"}), <<"s">>)
Eol == Del(Tok("n"), <<"n">>)

(* Optional values, and comments, which have neither label nor value. *)
Settings ==
  Star(Union(<<
    Subtree(Concat(<<KeyOf(Name1), Maybe(Concat(<<Gap, Store(ValueR)>>)), Eol>>)),
    Subtree(Concat(<<Del(OneOf({"#", ";"}), <<"#">>), Eol>>))>>))

(* Numbered items, counted anew in every entry. *)
Lists ==
  Star(Subtree(Concat(<<
    KeyOf(Name1), Counter("item"),
    Star(Concat(<<Gap, Subtree(Concat(<<Numbered("item"), Store(ValueR)>>))>>)), Eol>>)))

(* Values that need quotes, of either kind, and values that do not. *)
Quote == Del(OneOf({"q", "d"}), <<"q">>)
Quoted ==
  LET line(value) == Subtree(Concat(<<Label(<<"x">>), value,
                                      Del(Opt(OneOf({"s"})), <<>>), Eol>>))
  IN  Star(Union(<<line(Store(ValueR)), line(Square(Quote, Store(Tok("w")), Quote))>>))

(* An element whose name is repeated at its end. *)
Elements ==
  Star(Subtree(Square(KeyOf(Name1),
                      Concat(<<Gap, Store(ValueR), Gap>>),
                      Del(Name1, <<"k">>))))

(* At least one switch, on or off. *)
Switches ==
  Plus(Union(<<
    Subtree(Concat(<<KeyOf(Name1), Del(Tok("+"), <<"+">>), ValueOf(<<"on">>), Gap>>)),
    Subtree(Concat(<<KeyOf(Name1), Del(Tok("-"), <<"-">>), ValueOf(<<"off">>), Gap>>))>>))

(* Blocks in blocks. *)
BlockAround(inner) ==
  Subtree(Concat(<<
    KeyOf(Name1), Del(Tok("{"), <<"{">>),
    Star(Union(<<Subtree(Concat(<<Label(<<"x">>), Store(ValueR), Gap>>)), inner>>)),
    Del(OneOf({"}", ")"}), <<"}">>)>>))
Block == BlockAround(Placeholder("block", BlockAround(Placeholder("block", Blank))))
Blocks == Star(Block)

(* Blocks whose entries are numbered. *)
NumberedAround(inner) ==
  Subtree(Concat(<<
    KeyOf(Name1), Del(Tok("{"), <<"{">>),
    Star(Union(<<Subtree(Concat(<<Numbered("n"), Store(ValueR), Gap>>)), inner>>)),
    Del(Tok("}"), <<"}">>)>>))
NumberedBlock ==
  NumberedAround(Placeholder("numbered", NumberedAround(Placeholder("numbered", Blank))))

(* Elements in elements: the name is repeated at the end of each. *)
ElementAround(inner) ==
  Subtree(Square(KeyOf(Name1),
                 Concat(<<Del(Tok(">"), <<">">>),
                          Star(Union(<<inner, Subtree(Concat(<<Label(<<"x">>), Store(ValueR)>>))>>)),
                          Del(OneOf({"/", "|"}), <<"/">>)>>),
                 Del(Name1, <<"k">>)))
Element == ElementAround(Placeholder("element", ElementAround(Placeholder("element", Blank))))
Markup == Star(Union(<<Element, Subtree(Gap)>>))

RecBody(n) ==
  CASE n = "block" -> Block
    [] n = "numbered" -> NumberedBlock
    [] n = "element" -> Element

Catalogue(n) ==
  CASE n = "settings" -> Settings
    [] n = "lists" -> Lists
    [] n = "quoted" -> Quoted
    [] n = "elements" -> Elements
    [] n = "switches" -> Switches
    [] n = "blocks" -> Blocks
    [] n = "markup" -> Markup
    [] n = "numbered" -> NumberedBlock

-----------------------------------------------------------------------------
(* The texts: none, one or two pieces that the lens matches, and some that   *)
(* it does not.                                                              *)
Piece(n) ==
  CASE n = "settings" -> {<<"k", "n">>, <<"k", "t", "u", "n">>, <<"k", "s", "v", "n">>, <<";", "n">>}
    [] n = "lists" ->
         {<<"k", "n">>, <<"k", "s", "v", "t", "u", "n">>, <<"l", "t", "v", "n">>}
    [] n = "quoted" ->
         {<<"v", "s", "n">>, <<"d", "w", "d", "n">>, <<"q", "w", "q", "s", "n">>}
    [] n = "elements" ->
         {<<"k", "s", "u", "t", "k">>, <<"l", "t", "u", "s", "l">>, <<"k", "t", "v", "t", "k">>}
    [] n = "switches" -> {<<"k", "+", "t">>, <<"k", "-", "s">>, <<"l", "-", "t">>}
    [] n = "blocks" ->
         {<<"k", "{", ")">>, <<"k", "{", "u", "t", "}">>,
          <<"l", "{", "k", "{", "u", "s", "}", "u", "t", "}">>}
    [] n = "markup" ->
         {<<"k", ">", "|", "k">>, <<"k", ">", "u", "l", ">", "v", "|", "l", "/", "k">>, <<"t">>}
    [] n = "numbered" ->
         {<<"k", "{", "u", "t", "}">>, <<"k", "{", "u", "s", "v", "t", "}">>,
          <<"k", "{", "l", "{", "u", "t", "}", "v", "t", "}">>}

Broken(n) ==
  CASE n = "settings" -> {<<"k", "u", "n">>, <<"k", "n", "k", "s", "n">>}
    [] n = "lists" -> {<<"l", "s", "n">>, <<"k", "n", "u", "n">>}
    [] n = "quoted" -> {<<"q", "w", "d", "n">>, <<"v", "n", "q", "w", "n">>}
    [] n = "elements" -> {<<"k", "s", "u", "t", "l">>, <<"k", "s", "u", "k">>}
    [] n = "switches" -> {<<"k", "+">>, <<"k", "+", "t", "-", "t">>}
    [] n = "blocks" -> {<<"k", "{", "u", "}">>, <<"k", "{", "l", "{", "}">>}
    [] n = "markup" -> {<<"k", ">", "l", ">", "/", "k">>, <<"k", ">", "u", "/", "l">>}
    [] n = "numbered" -> {<<"k", "{", "u">>}

SomeTexts(n) ==
  {<<>>} \cup Piece(n) \cup Broken(n)
    \cup (IF n = "numbered" THEN {} ELSE {p \o q : p, q \in Piece(n)})

Offered == [n \in Name |-> SomeTexts(n)]
TextsOf(n) == Offered[n]

Held == [n \in Name |-> UNION {Meaning(Catalogue(n), t) : t \in Offered[n]}]
TreesOf(n) == Held[n]
=============================================================================
