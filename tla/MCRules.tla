------------------------------- MODULE MCRules -------------------------------
(***************************************************************************)
(* Declarations outside of targets, a template, a program and a library.   *)
(* Rules for sources that are generated in twos, for objects, with all     *)
(* kinds of variables, plain ones, and rules for clean, are in each of     *)
(* them in many combinations.                                              *)
(***************************************************************************)
EXTENDS Rules

MCStem == {<<"src/", "a">>, <<"b">>}
MCDir  == {"src/"}

F(text) == <<Name(text)>>
P(end) == <<Tok("%", << >>), Name(<<end>>)>>
Open2(ends) == <<Tok("%", << >>), Tok("{", << >>)>> \o ends \o <<Tok("}", << >>)>>
Ends(x) == <<Name(<<x>>)>>

C(x) == Tok("code", <<x>>)
V(x) == Tok("var", <<x>>)
I(n) == Tok("int", <<n>>)
Code1 == <<<<C("lex"), Tok("square", <<"LFLAGS">>), V("<"), V("@")>>,
           <<C("mv"), V("*"), Tok("code", <<"\t", "x">>), V("$")>>>>
Code2 == <<<<Tok("round", <<"CC">>), C("-c"), V("<"), Tok("var", <<"@", "D">>)>>>>

W(target, prereq, lines) ==
  [target |-> target, prereq |-> prereq, body |-> TRUE, lines |-> lines]
Import(target, prereq) ==
  [target |-> target, prereq |-> prereq, body |-> FALSE, lines |-> << >>]

Lex == W(<<Open2(Ends(".h") \o Ends(".c") \o Ends(".t"))>>, <<P(".l")>>, Code1)
Cc  == W(<<P(".o")>>, <<P(".c"), P(".h")>>, Code2)
Ccx == Import(<<P(".o")>>, <<P(".c")>>)
Msg == W(<<P(".l")>>, <<P(".msg")>>, <<<<I("2"), V("<"), Tok("var", <<"@", "F">>)>>>>)
Dot(p) == W(<<F(<<"dot">>)>>, p, <<<<C("dot"), V("<"), V("@")>>>>)
Two == W(<<F(<<"x">>), F(<<"y">>)>>, <<F(<<"in">>)>>, <<<<V("<"), V("@")>>>>)
Clean == W(<<F(<<"clean">>)>>, << >>, <<<<C("rm")>>>>)
CleanNot == Import(<<F(<<"clean">>)>>, << >>)
Local == W(<<F(<<"clean-local">>)>>, << >>, <<<<C("rm")>>>>)
Plain1(line) == W(<<F(<<"gen">>)>>, <<F(<<"in">>), F(<<"p">>)>>, <<line>>)
Three == <<<<Name(<<"m">>), Tok("{", << >>), Name(<<"1">>), Name(<<"2">>), Tok("}", << >>)>>>>
Group == W(Three, <<F(<<"in">>)>>, <<<<V("<"), V("@")>>>>)

Ask(accept, fs) == [k \in DOMAIN fs |-> [file |-> fs[k], accept |-> accept]]
Block4(kind, name, base, needs, rules) ==
  [kind |-> kind, name |-> name, base |-> base, needs |-> needs, rules |-> rules]

Doc(global, template, program, library, base, needs) ==
  [files |-> {<<"src/", "a", ".msg">>, <<"b", ".msg">>, <<"in">>},
   blocks |-> <<Block4("", << >>, 0, << >>, global),
                Block4("template", <<"t">>, 0, << >>, template),
                Block4("program", <<"p">>, base,
                       Ask(FALSE, <<<<"src/", "a", ".o">>, <<"b", ".o">>>>), program),
                Block4("library", <<"l">>, 0, Ask(FALSE, <<<<"b", ".o">>>>), library),
                Block4("", << >>, 0, needs, << >>)>>]

Some == {<< >>, Ask(TRUE, <<<<"in">>, <<"b", ".t">>>>), Ask(FALSE, <<<<"in">>>>)}

\* Chains of generated files, from the rules of one block or another, and
\* rules for clean everywhere.
Chains ==
  {Doc(IF where = 1 THEN <<Lex, obj, Msg>> ELSE <<obj, Clean>>, <<Clean>>,
       (IF where = 2 THEN <<Lex, Msg, Clean>> ELSE <<Clean>>),
       (IF where = 3 THEN <<Msg, Lex>> ELSE <<Clean>>), base, needs) :
     where \in 1..3, obj \in {Cc, Ccx}, base \in {0, 2}, needs \in Some}
  \union
  {Doc(<<obj>>, <<Msg, Lex>>, <<Clean>>, <<Clean, Clean>>, 2, << >>) : obj \in {Cc, Ccx}}

Simple(global, template, program, base, fs) ==
  [files |-> {<<"in">>},
   blocks |-> <<Block4("template", <<"t">>, 0, << >>, template),
                Block4("program", <<"p">>, base, Ask(TRUE, fs), program),
                Block4("", << >>, 0, << >>, global)>>]

\* The file that rule r makes.
Asked(r) == IF r = Group THEN <<"m", "1">> ELSE Text(Last(r.target))

\* Rules without a pattern, and what ends the program.
Singles ==
  {Simple(IF where = 1 THEN <<r>> ELSE <<Clean>>, IF where = 2 THEN <<r>> ELSE <<Clean>>,
          IF where = 3 THEN <<r>> ELSE << >>, base, IF asked THEN <<Asked(r)>> ELSE << >>) :
     where \in 1..3, base \in {0, 1}, asked \in BOOLEAN,
     r \in {Dot(<< >>), Dot(<<F(<<"in">>)>>), Dot(<<F(<<"p">>), F(<<"in">>)>>), Two, CleanNot,
            Local, Group, Plain1(<<I("1"), C("x"), I("2")>>), Plain1(<<I("1"), V("<")>>),
            Plain1(<<V("<"), I("3")>>), Plain1(<<I("1"), I("1")>>),
            Plain1(<<Tok("square", <<"X">>), V("^")>>),
            W(<<Open2(Ends(".h"))>>, <<P(".l")>>, Code1),
            W(<<Open2(Ends("1") \o Ends("2")) \o Tail(Open2(Ends("3") \o Ends("4")))>>,
              <<P(".l")>>, Code1)}}

\* Rules that use "$1" and "$2", and nothing that is wrong.
Numbers ==
  {Simple(IF where = 1 THEN <<r>> ELSE <<Clean>>, <<Clean>>,
          IF where = 2 THEN <<r>> ELSE << >>, base, fs) :
     where \in 1..2, base \in {0, 1}, fs \in {<< >>, <<<<"gen">>>>},
     r \in {Plain1(<<I("1"), C("x"), I("2")>>), Plain1(<<V("<"), I("2")>>)}}

MCProjects == Chains \union Singles
=============================================================================
