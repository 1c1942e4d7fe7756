---------------------------- MODULE MCBuildRules -----------------------------
(***************************************************************************)
(* A program with a generated source and a hand-written one, a library     *)
(* whose only source is generated too, and tests, in several orders; the   *)
(* generated sources come from a common input through rules that are       *)
(* written in the program, under a condition or not.  In some projects the *)
(* input is missing, a rule is, or rules need each other.                  *)
(***************************************************************************)
EXTENDS BuildRules

Objs(s) == CASE s = "a.c" -> "a.o" [] s = "b.c" -> "b.o" [] s = "sub/a.c" -> "sub/a.o"

MCSource   == {"a.c", "b.c", "sub/a.c"}
MCSubdirOf == [s \in MCSource |-> Objs(s)]
MCObjectOf ==
  [b \in 1..3 |->
    [s \in MCSource |->
      CASE s = "b.c" /\ b # 2 -> "p-b.o" [] s = "b.c" -> "l-b.lo"
        [] b = 2 -> "l-a.lo" [] OTHER -> "p-a.o"]]

MCName == {"a.c", "b.c", "a.o", "b.o", "sub/a.o", "sub/a.c", "p-a.o", "p-b.o",
           "l-a.lo", "l-b.lo", "in", "gen", "data", "dot"}

Program(cond, sources, lists, plain) ==
  [target |-> TRUE, cond |-> cond, sources |-> sources, lists |-> lists, plain |-> plain]
Toplevel(lists, plain) ==
  [target |-> FALSE, cond |-> NoCond, sources |-> << >>, lists |-> lists, plain |-> plain]

Built(f)    == <<[files |-> <<f>>, accept |-> FALSE]>>
Data(f)     == <<[files |-> <<f>>, accept |-> TRUE]>>

\* The objects are imports, the sources come from "gen", "gen" from "in".
Table(cond, c) ==
  [f \in {"a.o", "b.o", "sub/a.o", "a.c", "gen", "dot"} |->
     CASE f = "a.o" -> Recipe(<<"a.c">>, TRUE, NoCond)
       [] f = "b.o" -> Recipe(<<"b.c">>, TRUE, NoCond)
       [] f = "sub/a.o" -> Recipe(<<"sub/a.c">>, TRUE, NoCond)
       [] f = "a.c" -> Recipe(<<"gen", "in">>, TRUE, cond)
       [] f = "gen" -> Recipe(c, TRUE, cond)
       [] f = "dot" -> Recipe(<< >>, TRUE, NoCond)]

Without(fn, f) == [x \in DOMAIN fn \ {f} |-> fn[x]]

Layouts(cond) ==
  LET p(plain) == Program(cond, <<"a.c", "b.c">>, Data("data"), plain)
      l == Program(NoCond, <<"a.c">>, Built("gen"), << >>)
      t(plain) == Toplevel(Data("a.c"), plain)
  IN  {<<p(<<"gen", "a.c">>), l, t(<< >>)>>, <<t(<<"dot">>), l, p(<<"gen", "a.c">>)>>,
       <<p(<< >>), l, Toplevel(Built("dot"), << >>)>>}

Existing == {"b.c", "sub/a.c", "in", "data"}

Project(layout, existing, tab) ==
  [blocks |-> layout, files |-> existing \union DOMAIN tab, table |-> tab]

\* Rules in place, with what exists, all or less.
Good(cond) ==
  {Project(layout, Existing \ gone, Table(cond, <<"in">>)) :
     layout \in Layouts(cond), gone \in SUBSET {"in", "data", "b.c"}}

\* No rule builds gen, or gen needs what is made of it.
Bad ==
  {Project(layout, Existing \union {"gen"}, Without(Table(NoCond, << >>), "gen")) :
     layout \in {<<Program(NoCond, <<"a.c">>, Built("gen"), <<"a.c">>)>>,
                 <<Program(NoCond, <<"a.c">>, Data("gen"), <<"a.c">>)>>}}
  \union
  {Project(<<Program(NoCond, <<"a.c">>, Data("data"), << >>)>>, Existing,
           Table(NoCond, <<"a.c">>)),
   Project(<<Program(NoCond, << >>, << >>, << >>)>>, Existing, Table(NoCond, <<"in">>))}

Clash ==
  {Project(<<Program(NoCond, <<"a.c", "sub/a.c">>, << >>, << >>)>>, Existing,
           Table(NoCond, <<"in">>))}

AllProjects == Good(NoCond) \union Good("C") \union Bad \union Clash
=============================================================================
