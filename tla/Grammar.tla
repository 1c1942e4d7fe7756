------------------------------ MODULE Grammar ------------------------------
(***************************************************************************)
(* The grammar (yyparse.ypp).  A right-hand side is a sequence of          *)
(* terminals (T), non-terminals (N) and actions; the actions push and pop  *)
(* states of the lexer, and build the tree on the parser's stack of        *)
(* values.  bison's lists are left-recursive and are folded here to the    *)
(* right, and common beginnings are taken out, so that the next token      *)
(* decides; neither changes when an action is run.                         *)
(***************************************************************************)
EXTENDS TLC, Lexer

T(k) == <<"t", k>>
N(n) == <<"n", n>>
Make(node, n) == <<"make", node, n>>      \* a node with the last n values below it
Add == <<"add">>                          \* add the last value to the node before it
Null == <<"null">>
LexPush(s) == <<"lexpush", s>>
LexPop == <<"lexpop">>
SetDoc == <<"doc">>                       \* what the parser returns
LogCompiler == <<"logcompiler">>          \* target and code of the rule before it
WS == T("whitespace")
ID == T("identifier")
STR == T("string")

(* Helpers for a list of at least one item, and for an optional part. *)
More(item, self) == << <<N(item), Add, N(self)>>, <<>> >>
Opt(first, rest, node, n) == << <<T(first)>> \o rest \o <<Make(node, n)>>, <<Null>> >>
OrNull(k) == << <<T(k)>>, <<Null>> >>

Toplevel == [
  document |-> << <<T("R_FILENAME"), N("filename"), SetDoc>>,
                  <<T("R_SOURCES"), WS, N("sources_member"), Make("sources_members", 1), N("string_members"), SetDoc>>,
                  <<N("toplevel_declaration"), Make("toplevel_declarations", 1), N("declarations"),
                    Make("document", 1), SetDoc>> >>,
  declarations |-> More("toplevel_declaration", "declarations"),
  string_members |-> << <<WS, N("sources_member"), Add, N("string_members")>>, <<>> >>,
  toplevel_declaration |->
     << <<T("project"), STR, T("{"), N("project_member"), Make("project_members", 1), N("project_members"), T("}"),
          Make("project", 2)>>,
        <<T("program"), N("target_definition"), Make("program", 1)>>,
        <<T("library"), N("target_definition"), Make("library", 1)>>,
        <<T("template"), N("target_definition"), Make("template", 1)>>,
        <<T("headers"), N("if_opt"), N("destination_opt"), N("sources_braces"), Make("headers", 3)>>,
        <<T("log_compiler"), T("{"), N("rule"), LogCompiler, Make("log_compilers", 1), N("log_compilers"), T("}")>>,
        <<T("extern"), STR, Make("extern", 1)>>,
        <<N("global_or_target_member")>> >>,
  log_compilers |-> << <<N("rule"), LogCompiler, Add, N("log_compilers")>>, <<>> >>]

Project == [
  project_members |-> More("project_member", "project_members"),
  project_member |->
     << <<T("version:"), STR, Make("project_version", 1)>>, <<T("contact:"), STR, Make("project_contact", 1)>>,
        <<T("config_header:"), N("single_filename"), Make("project_header", 1)>>,
        <<T("section"), N("string_opt"), T("{"), N("section_member"), Make("section_members", 1),
          N("section_members"), T("}"), Make("section", 2)>> >>,
  section_members |-> More("section_member", "section_members"),
  section_member |->
     << <<T("autoconf check"), Make("ac_check", 1)>>,
        <<T("arg_enable"), ID, T("="), N("arg_default"), T("{"), STR, N("arg_enable_content"), T("}"),
          Make("arg_enable", 4)>>,
        <<T("tool flags"), N("identifier_opt"), T("{"), LexPush("FLAGS"), N("flags"), T("}"), LexPop,
          Make("check_flags", 3)>>,
        <<T("functions"), T("{"), ID, Make("identifiers", 1), N("identifiers"), T("}"), Make("check_functions", 1)>>,
        <<T("headers"), T("{"), LexPush("FILENAME"), WS, N("filename"), WS, Make("filenames", 1), N("filenames"),
          T("}"), Make("check_headers", 1)>>,
        <<T("library"), ID, T("{"), T("symbol:"), ID, T("header:"), N("single_filename"), N("notfound_opt"),
          N("string_opt"), T("}"), Make("check_library", 5)>>,
        <<T("sizeof"), T("{"), STR, T("}"), Make("check_sizeof", 1)>>,
        <<T("error"), STR, Make("error", 1)>>,
        <<T("define"), ID, T("{"), STR, T("}"), Make("define", 2)>>,
        <<STR>> >>,
  arg_default |-> << <<ID>>, <<STR>> >>,
  arg_enable_content |->
     << <<N("section_member"), Make("section_members", 1), N("section_members")>>,
        <<T("options"), T("{"), N("arg_enable_choice"), Make("arg_enable_choices", 1), N("arg_enable_choices"), T("}")>>,
        <<Null>> >>,
  arg_enable_choices |-> More("arg_enable_choice", "arg_enable_choices"),
  arg_enable_choice |-> << <<ID, T("=>"), T("{"), N("section_member"), Make("section_members", 1),
                             N("section_members"), T("}"), Make("arg_enable_choice", 2)>> >>,
  notfound_opt |-> << <<T("notfound:"), STR>>, <<Null>> >>,
  identifiers |-> << <<ID, Add, N("identifiers")>>, <<>> >>]

Target == [
  target_definition |-> << <<ID, N("inheritance_opt"), N("if_opt"), N("destination_opt"), T("{"),
                             Make("target_members", 0), N("target_members"), T("}"),
                             Make("target_definition", 5)>> >>,
  inheritance_opt |-> Opt("<", <<ID>>, "inheritance", 1),
  destination_opt |-> Opt("->", <<ID>>, "destination", 1),
  target_members |-> More("target_member", "target_members"),
  target_member |->
     << <<T("sources"), N("if_opt"), N("sources_braces"), Make("sources", 2)>>,
        <<STR>>,
        <<T("nodist_sources"), N("if_opt"), N("sources_braces"), Make("nodist_sources", 2)>>,
        <<T("link"), N("if_opt"), T("{"), LexPush("LINK"), N("link_item"), Make("link_body", 1), N("link_body"),
          T("}"), LexPop, Make("link", 2)>>,
        <<N("global_or_target_member")>> >>,
  global_or_target_member |->
     << <<ID, N("named")>>, <<N("rule")>>,
        <<T("extra_dist"), N("if_opt"), N("sources_braces"), Make("extra_dist", 2)>>,
        <<T("tool flags"), N("if_opt"), T("{"), LexPush("FLAGS"), N("flags"), T("}"), LexPop, Make("tool_flags", 3)>>,
        <<T("built_sources"), N("sources_braces"), Make("built_sources", 1)>>,
        <<T("dir"), ID, T("="), N("single_filename"), Make("dir", 2)>>,
        <<T("test"), N("identifier_opt"), N("if_opt"), N("sources_braces"), Make("test", 3)>> >>]

Sources == [
  sources_braces |-> << <<T("{"), LexPush("FILENAME"), WS, N("sources_member"), Make("sources_members", 1),
                          WS, N("sources_members")>> >>,
  sources_members |-> << <<T("}")>>, <<N("sources_member"), Add, WS, N("sources_members")>> >>,
  sources_member |-> << <<N("filename")>>, <<T("sources"), T("("), ID, T(")"), Make("sourcesref", 1)>>,
                        <<T("exclude"), N("sources_braces"), Make("exclude", 1)>> >>]

Flag == [
  flags |-> << <<WS, Make("flags", 0), N("flag_list")>> >>,
  flag_list |-> << <<N("flag_part"), Make("flag", 1), N("flag_parts"), WS, Add, N("flag_list")>>, <<>> >>,
  flag_parts |-> More("flag_part", "flag_parts"),
  flag_part |-> << <<T("tool flag")>>, <<STR>>, <<N("variable")>>, <<T("tool flags"), T("("), N("flag_import")>> >>,
  flag_import |-> << <<Null, T(")"), Make("flag_import", 2)>>, <<ID, T(")"), Make("flag_import", 2)>> >>]

(* A rule begins with a filename, a declaration with an identifier, which  *)
(* may begin a filename, too.                                              *)
CustomRule == [
  rule |-> << <<N("filename"), WS, Make("filenames", 1), N("prerequisites")>> >>,
  named |-> << <<T("="), N("vardecl_body"), WS, Make("vardecl", 2)>>,
               <<T("+="), N("vardecl_body"), WS, Make("varadd", 2)>>,
               <<Make("filename", 1), N("filename_parts"), WS, Make("filenames", 1), N("prerequisites")>> >>,
  prerequisites |-> << <<N("filename"), WS, Add, N("prerequisites")>>,
                       <<T(":"), WS, Make("filenames", 0), N("filenames"), N("code")>> >>,
  filenames |-> << <<N("filename"), WS, Add, N("filenames")>>, <<>> >>,
  code |-> << <<T("{"), WS, N("rule_line"), Make("rule_lines", 1), N("rule_lines"), T("}"), Make("rule", 3)>>,
              <<T(";"), Null, Make("rule", 3)>> >>,
  rule_lines |-> << <<WS, N("rule_line"), Add, N("rule_lines")>>, <<>> >>,
  rule_line |-> << <<N("code_frag"), Make("rule_line", 1), N("code_frags")>> >>]

LinkBody == [
  link_item |-> << <<T("internal library")>>, <<T("external library")>> >>,
  link_body |-> More("link_item", "link_body")]

VardeclBody == [vardecl_body |-> << <<N("code_frag"), Make("vardecl_body", 1), N("code_frags")>> >>]
Condition == [if_opt |-> Opt("if", <<ID>>, "if", 1)]

Token == [
  string_opt |-> OrNull("string"), identifier_opt |-> OrNull("identifier"),
  single_filename |-> << <<LexPush("FILENAME"), LexPush("INITWS"), N("filename"), WS, LexPop>> >>,
  filename |-> << <<N("filename_part"), Make("filename", 1), N("filename_parts")>> >>,
  filename_parts |-> More("filename_part", "filename_parts"),
  filename_part |-> << <<N("filename_token")>>, <<N("variable")>> >>,
  filename_token |-> << <<T("part of a filename")>>, <<ID>>, <<T("?")>>, <<T("'{'")>>, <<T("'}'")>>, <<T("*")>>,
                        <<T("**")>>, <<T("%")>>, <<T("%%")>> >>,
  code_frag |-> << <<T("shell code")>>, <<N("variable")>> >>,
  code_frags |-> More("code_frag", "code_frags")]

Variable == [
  variable |-> << <<T("$"), N("variable_name")>> >>,
  variable_name |-> << <<T("short variable name"), Make("shortvar", 1)>>, <<T("integer literal"), Make("intvar", 1)>>,
                       <<T("("), ID, N("variable_content"), T(")")>>,
                       <<T("["), ID, T("]"), Make("squarevar", 1)>> >>,
  variable_content |-> << <<N("variable"), Make("callvar", 2)>>, <<T("."), ID, N("filter_opt")>>,
                          <<Make("roundvar", 1)>> >>,
  filter_opt |-> << <<T(":"), ID, Make("filtervar", 3)>>, <<Make("accessvar", 2)>> >>]

Productions == Toplevel @@ Project @@ Target @@ Sources @@ Flag @@ CustomRule @@ LinkBody @@ VardeclBody
               @@ Condition @@ Token @@ Variable

----------------------------------------------------------------------------
(* The tokens that can come first: {""} stands for none being needed. *)
RECURSIVE First(_)
First(symbols) ==
    IF symbols = <<>> THEN {""}
    ELSE LET s == Head(symbols)
             own == IF s[1] = "t" THEN {s[2]}
                    ELSE IF s[1] = "n" THEN UNION {First(Productions[s[2]][i]) : i \in DOMAIN Productions[s[2]]}
                    ELSE {""}
         IN  (own \ {""}) \union (IF "" \in own THEN First(Tail(symbols)) ELSE {})

Firsts == [n \in DOMAIN Productions |-> [i \in DOMAIN Productions[n] |-> First(Productions[n][i])]]

(* The right-hand side a token chooses: the first it can begin, or else    *)
(* the empty one, the default reduction of bison's tables, whether or not  *)
(* the token can follow.                                                   *)
Alternatives(n, k) == LET fits == {i \in DOMAIN Productions[n] : k \in Firsts[n][i]}
                      none == {i \in DOMAIN Productions[n] : "" \in Firsts[n][i]}
                  IN  IF fits # {} THEN {Min(fits)} ELSE none
============================================================================
