----------------------------- MODULE MCMakefile ------------------------------
(***************************************************************************)
(* Five families of documents: a program with templates that inherit from  *)
(* each other or themselves; flags imported back and forth; libraries that *)
(* are linked to each other, in one directory or two; and tests, files to  *)
(* distribute and data inside and outside of conditional targets; and rule *)
(* files that ask for each other, with the template of the program in one. *)
(***************************************************************************)
EXTENDS Makefile

Block4(kind, name, base, cond, dest, body) ==
  [kind |-> kind, name |-> name, base |-> base, cond |-> cond, dest |-> dest, body |-> body]
Target(kind, name, cond, body) == Block4(kind, name, "", cond, "", body)
Toplevel(body) == Block4("toplevel", "", "", "", "", body)

Sec(kind, key, cond, items) ==
  [kind |-> kind, key |-> key, cond |-> cond, items |-> items, linked |-> TRUE]
P(name) == [op |-> "plain", name |-> name]
Lib(name) == [op |-> "lib", name |-> name]
Imp(tool, from) == [op |-> "import", tool |-> tool, from |-> from]
Own(f)       == Sec("sources", "", "", <<P(f)>>)
Own_If(c, f) == Sec("sources", "", c, <<P(f)>>)
Test(key, c, f) == Sec("test", key, c, <<P(f)>>)
Flags(cond, items) == Sec("flags", "cppflags", cond, items)

Templates ==
  {LET t == Block4("template", "t", tbase, tcond, tdest,
                   <<Own_If("A", "t.c"), Test("", "", "t.sh"), Flags("", <<P("-Dt")>>)>>)
       u == Block4("template", "u", ubase, "", "", <<Own("u.c"), Own_If("A", "a.c")>>)
       p == Block4("program", "p", pbase, pcond, "pkg", <<Own("p.c"), Own("t.c"), Sec("nodist", "", "", <<P("n.c")>>)>>)
   IN  IF last THEN <<u, p, t>> ELSE <<t, u, p>> :
     tbase \in {"", "u", "t"}, tcond \in {"", "A"}, tdest \in {"", "pkg"}, ubase \in {"", "t"},
     pbase \in {"t", "u", "x"}, pcond \in {"", "B"}, last \in BOOLEAN}

FlagLists == {<<P("-D1")>>, <<Imp("cppflags", ""), P("-D2")>>, <<Imp("cppflags", "l")>>,
              <<P("-D3"), Imp("cppflags", "p")>>, <<Imp("cflags", "")>>, <<Imp("cflags", "l")>>,
              <<Imp("cppflags", "l"), Imp("cppflags", "")>>}
Flagged ==
  {<<Target("program", "p", "", <<Own("p.c"), Flags("", a)>>), Toplevel(<<Flags("", <<P("-I.")>>)>>),
     Target("library", "l", "", <<Flags("", b)>> \o more)>> :
     a \in FlagLists, b \in FlagLists,
     more \in {<< >>, <<Flags("A", <<P("-D4")>>)>>, <<Flags("", <<P("-D4")>>)>>,
               <<Sec("flags", "cflags", "", <<P("-g")>>)>>}}
  \union
  {<<Toplevel(<<Flags("", a)>>), Target("library", "l", "", <<Flags("", <<P("-D1")>>)>>),
     Target("library", "l", "", <<Own("l.c")>>)>> : a \in FlagLists}
  \union
  {<<Toplevel(<<Flags("", a)>>), Target("library", "l", "", <<Flags("", <<P("-D1")>>)>>)>> : a \in FlagLists}

LinkedLibraries ==
  {<<Block4("library", "l", "", "A", "", <<Sec("link", "", "", a), Sec("link", "", "A", <<P("-lm")>>)>>),
     Block4("library", "m", "", "", mdest, <<Sec("link", "", "", b)>>),
     Block4("library", "n", "", c, "", <<Own("n.c"), Sec("link", "", "", d)>>),
     Block4("program", "l", "", c, "", <<Sec("link", "", "B", <<Lib("l"), P("-lm")>>)>>)>> :
     a \in {<<Lib("m")>>, <<Lib("m"), Lib("n")>>, <<Lib("l")>>}, b \in {<<P("-lm")>>, <<Lib("n")>>},
     c \in {"", "A"}, d \in {<<P("-lm")>>, <<Lib("l")>>, <<Lib("x")>>}, mdest \in {"", "pkg"}}

Globals ==
  {<<Toplevel(<<Test("", "", "g.sh"), Sec("built", "", "", <<P("b.h")>>), Sec("install", <<"", what>>, "A", <<P("d")>>)>>),
     Target("program", "p", c, <<Test("", "B", "p.sh"), Test("XFAIL", "", "x.sh"), Sec("extra", "", "", <<P("e")>>),
                                 Sec("built", "", "", <<P("b.c")>>)>>),
     Target("program", "q", d, <<Sec("extra", "", e, <<P("f")>>), Test("", "", "q.sh")>>),
     Toplevel(after)>> :
     c \in {"", "A"}, d \in {"", "B"}, e \in {"", "A"}, what \in {"HEADERS", "SCRIPTS", "DATA"},
     after \in {<< >>, <<Test("", "", "h.sh"), Sec("extra", "", "", <<P("g")>>)>>}}
  \union
  {<<Target("program", "a-b", "", <<Own("1.c")>>), Target("program", "a_b", "", <<Own("2.c")>>)>>}

Extern(name) == Block4("extern", name, "double", "", "", << >>)
Quoted(name) == Block4("extern", name, "single", "", "", << >>)
Paths == Toplevel(<<Flags("", <<P("-Ia")>>)>>)
Shared(body) == Block4("template", "t", "", "", "", body)

\* a and b ask for each other, but b does so with its first declaration.
MCRuleFiles ==
  [a |-> <<Paths, Extern("b"), Target("library", "l", "", <<Flags("", <<P("-Dl")>>)>>)>>,
   b |-> <<Extern("c"), Shared(<<Own("t.c"), Flags("", <<Imp("cppflags", "l")>>)>>), Extern("a")>>,
   c |-> <<Shared(<<Own("u.c")>>), Toplevel(<<Flags("", <<P("-Ic")>>)>>)>>,
   d |-> <<Paths, Quoted("a")>>,
   e |-> <<Paths, Extern("x")>>,
   f |-> << >>]

WithRuleFiles ==
  {<<Extern(i), Target("program", "q", "", << >>), Extern(k),
     Block4("program", "p", "t", "", "", <<Own("p.c")>>), Extern(i)>> :
     i \in DOMAIN MCRuleFiles, k \in (DOMAIN MCRuleFiles) \union {"x"}}
  \union
  {<<Quoted("a")>>, <<Extern("f"), Paths>>}

MCProjects == Templates \union Flagged \union LinkedLibraries \union Globals \union WithRuleFiles

MCDirs == <<"bin", "include", "lib", "pkg">>
MCCanonical ==
  [kind \in {"program", "library"} |->
    [name \in {"p", "q", "l", "m", "n", "a-b", "a_b"} |->
      LET id == IF name = "a-b" THEN "a_b" ELSE name
      IN  IF kind = "library" THEN "lib" \o id \o "_la" ELSE id]]
=============================================================================
