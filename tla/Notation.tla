------------------------------ MODULE Notation ------------------------------
(***************************************************************************)
(* How a syntax tree is written down, apart from any lexer or parser: one  *)
(* declaration per line, blocks indented or not, with or without comments. *)
(* What is read is compared with this.  A tree is a token with its text or *)
(* a node with the trees below it: <<kind, text>> or <<kind, trees>>.      *)
(***************************************************************************)
EXTENDS Lexer

Concat(ss) == FoldLeft(LAMBDA a, b : a \o b, <<>>, ss)
Sp == <<" ">>
Nl == <<"\n">>
(* Words with one blank between them; empty ones leave no trace. *)
Join(ss) == FoldLeft(LAMBDA a, b : IF a = <<>> \/ b = <<>> THEN a \o b ELSE a \o Sp \o b, <<>>, ss)
DepthTabs(d) == [i \in 1..d |-> "\t"]
Each(f(_), ss) == [i \in DOMAIN ss |-> f(ss[i])]

Listings == {"sources", "nodist_sources", "extra_dist", "built_sources", "headers", "test"}
Lists == {"sources_members", "link_body", "flags", "target_members", "project_members", "section_members",
          "arg_enable_choices", "filenames", "identifiers"}

(* The text of a tree at depth d; the first line is not indented and the   *)
(* last one not ended.  layout.indented: whether blocks are indented;      *)
(* layout.comments: whether each block begins with a comment.              *)
RECURSIVE Write(_, _, _)
Write(tree, d, layout) ==
    LET kids == tree[2]
        in == IF layout.indented THEN d + 1 ELSE d
        W(k) == Write(k, d, layout)
        Lines(ts) == Concat([i \in DOMAIN ts |-> DepthTabs(in) \o Write(ts[i], in, layout) \o Nl])
        Braces(lines) == <<"{", "\n">> \o (IF layout.comments THEN DepthTabs(in) \o <<"#note", "\n">> ELSE <<>>)
                         \o lines \o DepthTabs(d) \o <<"}">>
        Block(list) == Braces(Lines(list[2]))
        Line(s) == DepthTabs(in) \o s \o Nl
        (* code that begins with a tab continues on a line of its own *)
        Frags(fs, e) == Concat([i \in DOMAIN fs |->
                          (IF fs[i][1] = "shell code" /\ Head(fs[i][2]) = "\t" THEN Nl \o DepthTabs(e) ELSE <<>>)
                          \o W(fs[i])])
        RuleHead(ts, ps) == Join(Each(W, ts)) \o <<":", " ">> \o Concat([i \in DOMAIN ps |-> W(ps[i]) \o Sp])
        Code(c) == IF c[1] = "null" THEN <<";">>
                   ELSE <<"{", "\n">> \o Concat([i \in DOMAIN c[2] |->
                                           DepthTabs(d + 1) \o Frags(c[2][i][2], d + 1) \o Nl])
                        \o DepthTabs(d) \o <<"}">>
        BodyOf(v) == IF v[2][1][1] = "shell code" /\ Head(v[2][1][2]) = "\t" THEN Frags(v[2], d)
                     ELSE Sp \o Frags(v[2], d)
        kind == tree[1]
        part == "part of a filename"
    IN  CASE kind \in Valued -> kids
          [] kind = "null" -> <<>>
          [] kind = "document" -> Concat([i \in DOMAIN kids[1][2] |-> W(kids[1][2][i]) \o Nl])
          [] kind \in {"program", "library", "template"} -> <<kind, " ">> \o W(kids[1])
          [] kind = "target_definition" ->
                Join(<<W(kids[1]), W(kids[2]), W(kids[3]), W(kids[4]), Block(kids[5])>>)
          [] kind = "inheritance" -> <<"<", " ">> \o W(kids[1])
          [] kind = "if" -> <<"if", " ">> \o W(kids[1])
          [] kind = "destination" -> <<"->", " ">> \o W(kids[1])
          [] kind \in Listings -> Join(<<<<kind>>>> \o Each(W, SubSeq(kids, 1, Len(kids) - 1))
                                       \o <<Block(Last(kids))>>)
          [] kind = "link" -> Join(<<<<kind>>, W(kids[1]), Block(kids[2])>>)
          [] kind \in {"tool_flags", "check_flags"} -> Join(<<W(kids[1]), W(kids[2]), Block(kids[3])>>)
          [] kind = "flag_import" -> W(kids[1]) \o <<" ", "(">> \o W(kids[2]) \o <<")">>
          [] kind = "flag" -> Concat(Each(W, kids))
          [] kind = "sourcesref" -> <<"sources", " ", "(">> \o W(kids[1]) \o <<")">>
          [] kind = "exclude" -> <<"exclude", " ">> \o Block(kids[1])
          [] kind = "dir" -> <<"dir", " ">> \o W(kids[1]) \o <<" ", "=", " ">> \o W(kids[2])
          [] kind = "extern" -> <<"extern", " ">> \o W(kids[1])
          [] kind = "vardecl" -> W(kids[1]) \o <<" ", "=">> \o BodyOf(kids[2])
          [] kind = "varadd" -> W(kids[1]) \o <<" ", "+=">> \o BodyOf(kids[2])
          [] kind = "rule" -> RuleHead(kids[1][2], kids[2][2]) \o Code(kids[3])
          [] kind = "log_compiler" -> RuleHead(kids[1][2], <<>>) \o Code(kids[2])
          [] kind = "log_compilers" -> <<"log_compiler", " ">> \o Braces(Lines(kids))
          [] kind = "filename" ->
                Concat([i \in DOMAIN kids |->
                  (IF i > 1 /\ kids[i][1] = part /\ kids[i - 1][1] = part THEN Sp ELSE <<>>) \o W(kids[i])])
          [] kind \in {"shortvar", "intvar"} -> <<"$">> \o W(kids[1])
          [] kind = "roundvar" -> <<"$", "(">> \o W(kids[1]) \o <<")">>
          [] kind = "callvar" -> <<"$", "(">> \o W(kids[1]) \o Sp \o W(kids[2]) \o <<")">>
          [] kind = "squarevar" -> <<"$", "[">> \o W(kids[1]) \o <<"]">>
          [] kind = "accessvar" -> <<"$", "(">> \o W(kids[1]) \o <<".">> \o W(kids[2]) \o <<")">>
          [] kind = "filtervar" -> <<"$", "(">> \o W(kids[1]) \o <<".">> \o W(kids[2]) \o <<" ", ":", " ">>
                                   \o W(kids[3]) \o <<")">>
          [] kind \in Lists -> Join(Each(W, kids))
          [] kind = "project" -> Join(<<<<kind>>, W(kids[1]), Block(kids[2])>>)
          [] kind = "section" -> Join(<<<<kind>>, W(kids[1]), Block(kids[2])>>)
          [] kind = "project_version" -> <<"version:", " ">> \o W(kids[1])
          [] kind = "project_contact" -> <<"contact:", " ">> \o W(kids[1])
          [] kind = "project_header" -> <<"config_header:", " ">> \o W(kids[1])
          [] kind = "ac_check" -> W(kids[1])
          [] kind = "check_functions" -> <<"functions", " ">> \o Block(kids[1])
          [] kind = "check_headers" -> <<"headers", " ">> \o Block(kids[1])
          [] kind = "check_sizeof" -> <<"sizeof", " ">> \o Braces(Line(W(kids[1])))
          [] kind = "error" -> <<"error", " ">> \o W(kids[1])
          [] kind = "define" -> <<"define", " ">> \o W(kids[1]) \o Sp \o Braces(Line(W(kids[2])))
          [] kind = "check_library" ->
                <<"library", " ">> \o W(kids[1]) \o Sp
                \o Braces(Line(<<"symbol:", " ">> \o W(kids[2])) \o Line(<<"header:", " ">> \o W(kids[3]))
                          \o (IF kids[4][1] = "null" THEN <<>> ELSE Line(<<"notfound:", " ">> \o W(kids[4])))
                          \o (IF kids[5][1] = "null" THEN <<>> ELSE Line(W(kids[5]))))
          [] kind = "arg_enable" ->
                <<"arg_enable", " ">> \o W(kids[1]) \o <<" ", "=", " ">> \o W(kids[2]) \o Sp
                \o Braces(Line(W(kids[3]))
                          \o (CASE kids[4][1] = "null" -> <<>>
                                [] kids[4][1] = "section_members" -> Lines(kids[4][2])
                                [] OTHER -> Line(<<"options", " ">> \o Write(<<"options", kids[4][2]>>, in, layout))))
          [] kind = "options" -> Block(<<kind, kids>>)
          [] kind = "arg_enable_choice" -> W(kids[1]) \o <<" ", "=>", " ">> \o Block(kids[2])
=============================================================================
