------------------------------ MODULE MCParser ------------------------------
(* Texts for Parser: every pair of members in a program, every text cut    *)
(* off at every piece, a project block with all checks, two files, strings *)
(* of expanded text, and a few texts that are wrong.                       *)
EXTENDS Parser

MCIds == {"p", "q", "a", "b", "dir0"}
MCUppers == {"A", "B", "C"}
MCPaths == {"a.c", "b.h"}
MCTails == {".c", ".h"}
MCFlagIds == {"cflags"}
MCExtLibs == {"-lm"}
MCStrings == {"'s'", "'t'"}
MCComments == {"#note"}

K(kind, piece) == <<kind, <<piece>>>>
Id(x) == K("identifier", x)
Str(x) == K("string", x)
Nil == <<"null", <<>>>>
If(x) == <<"if", <<Id(x)>>>>
File(parts) == <<"filename", parts>>
Fn(x) == K("part of a filename", x)
F(x) == File(<<Fn(x)>>)
Code(ps) == <<"shell code", ps>>
Var(kind, args) == <<kind, args>>
Pattern == File(<<K("%", "%"), Fn(".c")>>)
Multi == File(<<K("%%", "%%"), K("'{'", "{"), Fn(".h"), Fn(".c"), K("'}'", "}")>>)
Round(x) == Var("roundvar", <<Id(x)>>)
Files(fs) == <<"sources_members", fs>>
Names0(fs) == <<"filenames", fs>>
Line(ps) == <<"rule_line", ps>>

Members == {
  <<"sources", <<Nil, Files(<<F("a.c"), F("b")>>)>>>>,
  <<"sources", <<If("A"), Files(<<<<"sourcesref", <<Id("q")>>>>, <<"exclude", <<Files(<<F("a.c")>>)>>>>, F("b")>>)>>>>,
  <<"nodist_sources", <<Nil, Files(<<File(<<Round("A"), Fn(".c")>>), Multi>>)>>>>,
  <<"link", <<If("A"), <<"link_body", <<K("internal library", "q"), K("external library", "-lm")>>>>>>>>,
  <<"tool_flags", <<K("tool flags", "cflags"), Nil,
      <<"flags", <<<<"flag", <<K("tool flag", "-lm"), Round("A")>>>>,
                   <<"flag", <<<<"flag_import", <<K("tool flags", "cflags"), Id("q")>>>>>>>>,
                   <<"flag", <<Str("'s'")>>>>>>>>>>>>,
  <<"tool_flags", <<K("tool flags", "cflags"), If("B"),
      <<"flags", <<<<"flag", <<<<"flag_import", <<K("tool flags", "cflags"), Nil>>>>>>>>>>>>>>>>,
  <<"dir", <<Id("dir0"), File(<<Fn("a"), Round("A")>>)>>>>,
  <<"test", <<Id("a"), If("B"), Files(<<F("b")>>)>>>>,
  <<"built_sources", <<Files(<<F("b.h")>>)>>>>,
  <<"extra_dist", <<Nil, Files(<<File(<<K("**", "**"), Fn(".h")>>), File(<<K("?", "?"), K("*", "*")>>)>>)>>>>,
  <<"vardecl", <<Id("A"), <<"vardecl_body", <<Code(<<"a", " ", "b">>), Var("callvar", <<Id("dir0"), Round("B")>>),
      Code(<<"a">>)>>>>>>>>,
  <<"varadd", <<Id("A"), <<"vardecl_body", <<Code(<<"\t", "a">>), Code(<<"\t", "b", " ", "a">>), Round("B")>>>>>>>>,
  <<"rule", <<Names0(<<Pattern, F("b")>>), Names0(<<File(<<K("%%", "%%"), Fn(".h")>>)>>), Nil>>>>,
  <<"rule", <<Names0(<<File(<<K("identifier", "a")>>)>>), Names0(<<>>), Nil>>>>,
  <<"rule", <<Names0(<<Multi>>), Names0(<<F("a.c"), F("b")>>),
      <<"rule_lines", <<Line(<<Code(<<"a", " ">>), Var("shortvar", <<K("short variable name", "@")>>),
                               Code(<<" ", "b">>), Var("intvar", <<K("integer literal", "1")>>)>>),
                        Line(<<Code(<<"b">>), Code(<<"\t", "a">>), Var("squarevar", <<Id("A")>>)>>)>>>>>>>>,
  Str("'s'") }

Definition(x, derive, cond, dest, members) ==
    <<"target_definition", <<Id(x), derive, cond, dest, <<"target_members", members>>>>>>
Program(members) == <<"program", <<Definition("p", Nil, Nil, Nil, members)>>>>
Doc(ds) == <<"document", <<<<"toplevel_declarations", ds>>>>>>

Toplevels == {
  <<"library", <<Definition("q", <<"inheritance", <<Id("a")>>>>, If("A"), <<"destination", <<Id("b")>>>>, <<>>)>>>>,
  <<"template", <<Definition("a", Nil, Nil, Nil, <<Str("'s'")>>)>>>>,
  <<"headers", <<If("A"), <<"destination", <<Id("b")>>>>, Files(<<F("b.h")>>)>>>>,
  <<"log_compilers", <<<<"log_compiler", <<Names0(<<Pattern>>), Nil>>>>,
                       <<"log_compiler", <<Names0(<<File(<<K("%%", "%%")>>)>>),
                                           <<"rule_lines", <<Line(<<Code(<<"a">>)>>)>>>>>>>>>>>>,
  <<"extern", <<Str("'s'")>>>> }

Checks == <<
  <<"ac_check", <<K("autoconf check", "c_bigendian")>>>>,
  <<"check_flags", <<K("tool flags", "cflags"), Id("A"), <<"flags", <<<<"flag", <<K("tool flag", "-lm")>>>>>>>>>>>>,
  <<"check_functions", <<<<"identifiers", <<Id("a"), Id("b")>>>>>>>>,
  <<"check_headers", <<<<"filenames", <<F("a"), F("b.h")>>>>>>>>,
  <<"check_library", <<Id("q"), Id("a"), F("b.h"), Str("'s'"), Str("'t'")>>>>,
  <<"check_library", <<Id("q"), Id("a"), F("b.h"), Nil, Nil>>>>,
  <<"check_sizeof", <<Str("'s'")>>>>,
  <<"arg_enable", <<Id("a"), Id("b"), Str("'s'"), Nil>>>>,
  <<"arg_enable", <<Id("a"), Str("'t'"), Str("'s'"), <<"section_members", <<<<"error", <<Str("'t'")>>>>, Str("'s'")>>>>>>>>,
  <<"arg_enable", <<Id("a"), Id("b"), Str("'s'"),
      <<"arg_enable_choices", <<<<"arg_enable_choice", <<Id("b"), <<"section_members", <<<<"error", <<Str("'t'")>>>>>>>>>>>>,
                                <<"arg_enable_choice", <<Id("a"), <<"section_members",
                                    <<<<"define", <<Id("A"), Str("'s'")>>>>>>>>>>>>>>>>>>>>
  >>
ProjectBlock == <<"project", <<Str("'s'"), <<"project_members",
   <<<<"project_version", <<Str("'t'")>>>>, <<"project_contact", <<Str("'s'")>>>>,
     <<"project_header", <<F("b.h")>>>>,
     <<"section", <<Str("'t'"), <<"section_members", Checks>>>>>>, <<"section", <<Nil, <<"section_members", <<Checks[1]>>>>>>>>>>>>>>>>

Layouts == [indented : BOOLEAN, comments : BOOLEAN]
Plain == [indented |-> FALSE, comments |-> FALSE]
Full == [indented |-> TRUE, comments |-> TRUE]
RuleFile(t) == [own |-> FALSE, name |-> "Rules.mq", readable |-> TRUE, text |-> t]
Other0 == [own |-> FALSE, name |-> "a.c", readable |-> TRUE, text |-> <<"p">>]
Project2(fs, layout, whole, trees) ==
    [files |-> fs, lx |-> NewLexer(<<>>), string |-> FALSE, layout |-> layout, whole |-> whole, trees |-> trees]

(* Every pair of members of a program. *)
Pairs == {Project2(<<RuleFile(Write(Doc(<<Program(<<m, n>>)>>), 0, layout))>>, layout, TRUE, <<Doc(<<Program(<<m, n>>)>>)>>) :
            m \in Members, n \in Members, layout \in {Plain, Full}}
(* Every declaration cut off anywhere, before the end of the project or    *)
(* before another file.                                                    *)
Singles == Toplevels \union {Program(<<m>>) : m \in Members} \union {m \in Members : m[1] \in {"rule", "vardecl", "varadd", "dir"}}
NextText == Write(Doc(<<<<"extern", <<Str("'s'")>>>>>>), 0, Full)
CutOff(t, n, fs) == Project2(<<RuleFile(SubSeq(t, 1, n))>> \o fs, Full, n = Len(t), <<>>)
Cuts == UNION {LET t == Write(Doc(<<d>>), 0, Full)
               IN  {CutOff(t, n, fs) : n \in 1..Len(t), fs \in {<<>>, <<Other0, RuleFile(NextText)>>}} : d \in Singles}
ProjectCuts == LET t == Write(Doc(<<ProjectBlock>>), 0, Full)
               IN  {CutOff(t, n, <<>>) : n \in {i \in 1..Len(t) : i % 8 = 0 \/ i = Len(t)}}
Projects == {Project2(<<RuleFile(Write(Doc(<<ProjectBlock>>), 0, layout)), RuleFile(NextText)>>, layout, TRUE, <<>>) : layout \in Layouts}

(* Wrong from the start, in the middle, or behind what has been read. *)
Behind(ps) == NextText \o ps
Wrong == {Project2(fs, Full, FALSE, <<>>) : fs \in {
            <<Other0>>, <<>>, <<[RuleFile(<<>>) EXCEPT !.readable = FALSE]>>, <<RuleFile(<<>>)>>,
            <<[Other0 EXCEPT !.own = TRUE, !.text = NextText]>>,
            <<RuleFile(NextText), [RuleFile(<<>>) EXCEPT !.readable = FALSE]>>,
            <<RuleFile(Behind(<<"a", " ", ":", " ", "b", " ", ";", "\n">>))>>,
            <<RuleFile(Behind(<<"a", ":", " ", "b", ";", "\n">>))>>,
            <<RuleFile(Behind(<<"a", ":", " ", "!", " ", ";", "\n">>))>>,
            <<RuleFile(<<"a", ":", " ", "}", " ", ";", "\n">>)>>,
            <<RuleFile(Behind(<<"program", " ", "p", " ", ":", " ", "a", " ", "{", "\n", "}", "\n">>))>>,
            <<RuleFile(Behind(<<"}", "\n">>))>>, <<RuleFile(Behind(<<"=", "\n">>))>> }}

(* Strings, as reparse_vars parses them. *)
Start(t, states, tokens) ==
    FoldLeft(InitToken, FoldLeft(PushState, NewLexer(t), states), tokens)
Sources0 == {<<"a.c">>, <<"a.c", " ", "b">>, <<"%", ".c", " ", "?">>, <<"$", "(", "A", ")">>,
             <<"a.c", "!">>, <<"'s'", " ", "a.c">>, <<"a", " ", "{", "b", " ", "a.c", "}">>, <<>>}
AsString(l, whole) == [files |-> <<>>, lx |-> l, string |-> TRUE, layout |-> Plain, whole |-> whole, trees |-> <<>>]
StringInputs ==
    {AsString(Start(t, <<"FILENAME">>, <<"whitespace", "R_SOURCES">>), t # <<>> /\ "!" \notin Range(t)) : t \in Sources0}
    \union {AsString(Start(t, <<"FILENAME">>, <<"R_FILENAME">>), t # <<>> /\ "!" \notin Range(t) /\ " " \notin Range(t)) : t \in Sources0}
    \union {AsString(Start(t, <<"FILENAME", "MULTIFILE">>, <<"R_FILENAME">>), TRUE) :
              t \in {<<"a">>, <<"a", " ", "b">>, <<"$", "(", "A", ")">>}}

MCInputs == Pairs \union Cuts \union ProjectCuts \union Projects \union Wrong \union StringInputs
=============================================================================
