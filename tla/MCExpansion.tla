----------------------------- MODULE MCExpansion -----------------------------
(***************************************************************************)
(* Documents of one or two variables and up to two rows that refer to      *)
(* them, for TLC.                                                          *)
(***************************************************************************)
EXTENDS Expansion

P(kind, text) == [kind |-> kind, text |-> text]
T(text) == P("text", text)
Var(x) == P("roundvar", <<x>>)
Fun(f, x) == P("callvar", <<f, x>>)
Filter(t) == P("filtervar", <<"prog", "link", t>>)
Open == P("{", <<"{">>)
Close == P("}", <<"}">>)

Set(x, parts) == [kind |-> "vardecl", name |-> x, rows |-> <<parts>>]
Lines(rows) == [kind |-> "lines", name |-> "", rows |-> rows]
Members(rows) == [kind |-> "members", name |-> "", rows |-> rows]

(* What X may be: a path, a word, words, a blank, the value of another     *)
(* variable, with something before it or not, in the middle or alone, the  *)
(* value of a function, or what is known in the second round only.         *)
Bodies == {<<T(<<"a", "/", "b">>)>>, <<T(<<"a">>)>>, <<T(<<"a", " ", "b">>)>>, <<T(<<" ">>)>>,
           <<Var("Y")>>, <<T(<<"a", " ">>), Var("Y"), T(<<"b">>)>>,
           <<Fun("notdir", "Y")>>, <<Fun("dir", "Y")>>, <<T(<<"a">>), Fun("dir", "Y")>>,
           <<T(<<"a">>), Var("TARGET")>>, <<Var("TARGET"), T(<<"a">>)>>,
           <<T(<<"a">>), Var("TARGET"), Var("TARGET")>>, <<T(<<"a">>), Filter("lib")>>}
Others == {<<T(<<"c", "/", "d">>)>>, <<T(<<"c">>)>>, <<T(<<"c">>), Var("TARGET")>>}
Rows1 == {<<Var("X")>>, <<T(<<"c">>), Var("X")>>, <<Var("X"), Var("X")>>, <<Var("Z"), Var("X")>>,
          <<Fun("dir", "X")>>, <<Fun("empty", "X"), Var("Y")>>, <<Fun("nothing", "X")>>,
          <<T(<<"c">>), Fun("dir", "TARGET")>>, <<Fun("notdir", "TARGET"), Var("X")>>}
Braces == {<<Open, Var("X"), Close>>, <<T(<<"c">>), Open, Var("X"), Close, Var("Y")>>}
Filters == {<<T(<<"c">>), Filter("lib")>>, <<Filter("base"), Var("X")>>, <<Filter("own")>>,
            <<P("filtervar", <<"prog", "flags", "lib">>)>>, <<P("filtervar", <<"other", "link", "lib">>)>>}

Link(n, i) == [name |-> n, internal |-> i]
AllLinks == [prog |-> <<Link("l1", TRUE), Link("m", FALSE), Link("l2", TRUE)>>]
Bases == {[l1 |-> "lib", l2 |-> "lib", lib |-> "base", base |-> ""],
          [l1 |-> "", l2 |-> "lib", lib |-> "base", base |-> ""],
          [l1 |-> "lib", l2 |-> "own", lib |-> "own", own |-> "lib"],
          [l1 |-> "", l2 |-> "lib"]}
Plain == [l1 |-> "", l2 |-> ""]
Doc(items, base) == [items |-> items, links |-> AllLinks, base |-> base]

XandY(b, c) == <<Set("X", b), Set("Y", c)>>
MCDocuments ==
    {Doc(Append(XandY(b, c), item), Plain) :
       b \in Bodies, c \in Others,
       item \in {Lines(<<r>>) : r \in Rows1} \union {Members(<<r>>) : r \in Rows1 \union Braces}}
    \union
    {Doc(<<Lines(<<r, q>>), Set("X", <<T(<<"a">>)>>), Set("Y", <<Var("X"), T(<<"b">>)>>), Members(<<q, r>>)>>, Plain) :
       r \in Rows1, q \in Rows1}
    \union
    {Doc(<<Set("X", <<T(<<"a">>)>>), item>>, base) :
       item \in {Lines(<<r>>) : r \in Filters} \union {Members(<<r>>) : r \in Filters}, base \in Bases}
=============================================================================
