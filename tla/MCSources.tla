------------------------------ MODULE MCSources ------------------------------
(***************************************************************************)
(* A program with every list of up to two items, in src, next to a library *)
(* that imports a second one or the program, with files of one name in two *)
(* directories; then imports that no target answers, circles, and imports  *)
(* and excludes outside of targets.                                        *)
(***************************************************************************)
EXTENDS Sources

MCFileList == <<<<"a.c">>, <<"lib", "b.c">>, <<"src", "a.c">>, <<"src", "b.c">>>>
MCBuildable == {<<"src", "y.c">>}
MCPath == Range(MCFileList) \union MCBuildable

Src == <<"src">>
F(name)    == [op |-> "file", dir |-> Src, name |-> name]
Rooted(n)  == [op |-> "file", dir |-> << >>, name |-> n]
Wild       == [op |-> "wild", matches |-> {<<"src", "a.c">>, <<"src", "b.c">>}]
Ref(name)  == [op |-> "ref", name |-> name]
Ex(items)  == [op |-> "exclude", items |-> items]

Given == {F(<<"a.c">>), F(<<"b.c">>), F(<<"no.c">>), Rooted(<<"a.c">>), Wild, Ref("l"),
          Ref("m"), Ex(<<F(<<"a.c">>)>>), Ex(<<F(<<"b.c">>), Wild>>), Ex(<<Ref("m")>>),
          Ex(<<F(<<"lib", "b.c">>)>>), Ex(<<F(<<"lib", "no.c">>)>>), Ex(<<F(<<"no.c">>)>>)}
Lists == SeqOf(Given, 2) \ {<< >>}

Own(items)   == [own |-> TRUE, items |-> items]
Other(items) == [own |-> FALSE, items |-> items]
Block(kind, name, body) == [kind |-> kind, name |-> name, body |-> body]

M == Block("library", "m", <<Own(<<F(<<"y.c">>)>>), Other(<<F(<<"b.c">>)>>)>>)
L(body) == Block("library", "l", body)
Bodies == {<<Own(<<F(<<"b.c">>)>>), Own(<<Ref("m")>>)>>,
           <<Own(<<Rooted(<<"lib", "b.c">>), Ref("m"), Ex(<<F(<<"y.c">>)>>)>>)>>,
           <<Own(<<Ref("p")>>)>>}

MCProjects ==
  LET P(list) == Block("program", "p", <<Own(list)>>)
  IN  {<<P(list), L(body), M>> : list \in Lists, body \in Bodies}
        \union {<<M, L(body), P(list)>> : list \in Lists, body \in Bodies}
        \union {<<P(<<F(<<"a.c">>), Ref(name)>>), Block(kind, "t", <<s>>)>> :
                  name \in {"p", "t", "m"}, kind \in {"template", "toplevel"},
                  s \in {Other(<<Ref("p")>>), Own(<<F(<<"no.c">>)>>), Other(<<Ex(<<F(<<"a.c">>)>>)>>)}}
=============================================================================
