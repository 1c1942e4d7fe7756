------------------------------- MODULE Lexer -------------------------------
(***************************************************************************)
(* The lexer (yylex.lpp): a table of patterns for each of its states.  A   *)
(* text is a sequence of pieces, the smallest parts that no pattern cuts   *)
(* in two: words, punctuation marks, single blanks, whole comments and     *)
(* strings.  Of the patterns that match, the longest is taken, and of      *)
(* equally long ones the first.  Its action moves on in the stack of       *)
(* states, gives back (BACKTRACK) all but "keep" of what has matched, and  *)
(* may return a token.                                                     *)
(***************************************************************************)
EXTENDS Integers, Sequences, FiniteSetsExt, SequencesExt

CONSTANTS Ids,        \* words that are identifiers
          Uppers,     \* identifiers in capital letters
          Paths,      \* words that begin a name but are no identifiers: "a.c"
          Tails,      \* words that end one only: ".c"
          FlagIds,    \* "cflags"
          ExtLibs,    \* "-lm"
          Strings, Comments

Keywords == {"program", "library", "template", "project", "section", "sources", "nodist_sources",
             "extra_dist", "built_sources", "headers", "link", "dir", "if", "test", "exclude",
             "extern", "log_compiler", "functions", "define", "error", "sizeof", "arg_enable",
             "options"}
ColonKeywords == {"version:", "contact:", "config_header:", "symbol:", "header:", "notfound:"}
AcChecks == {"c_bigendian", "c_typeof"}
Space == {" ", "\t"}
Blank == Space \union {"\n"}
ShortVars == {"@", "<", "*", "^", "+", "$", "(@D)", "(<F)"}
Integer == {"1", "2"}
Marks == {"{", "}", "(", ")", "[", "]", ":", ";", "=", "+=", "<", "->", "=>", "$", "%", "%%", "?",
          "*", "**", ".", "!"}

Identifiers == Ids \union Uppers \union FlagIds \union ExtLibs \union Keywords \union AcChecks
Names == Identifiers \union Paths
Words == Names \union Tails \union ColonKeywords \union Integer
Pieces == Words \union Marks \union Blank \union ShortVars \union Strings \union Comments

(* The classes of characters FLAG and FN. *)
InFlag == Pieces \ (Blank \union {"}", "$"} \union Strings \union Comments)
(* A string, of characters other than blanks: quotes are like letters there. *)
InName == (Names \union Tails \union Integer \union Strings)
            \union {"(", ")", "[", "]", "=", "+=", "+", "@", "^", "."}

----------------------------------------------------------------------------
(* How far a class of pieces reaches from the beginning of a text, and     *)
(* whether the text begins with one, with a given sequence, or with        *)
(* anything but the end of the line (".").                                 *)
Reach(t, S) == LET ends == {i \in 1..Len(t) : t[i] \notin S}
               IN  IF ends = {} THEN Len(t) ELSE Min(ends) - 1
One(t, S) == IF t # <<>> /\ Head(t) \in S THEN 1 ELSE 0
Is(t, s) == IF IsPrefix(s, t) THEN Len(s) ELSE 0
Other(t) == One(t, Pieces \ ({"\n"} \union Comments))
After(t, n) == SubSeq(t, n + 1, Len(t))
InLine == Pieces \ {"\n"}
InCode == Pieces \ {"\n", "$"}

(* A pattern: how many pieces match, how many are kept, what is done, and  *)
(* the token returned, if any.                                             *)
Rule(n, keep, steps, token) == [len |-> n, keep |-> keep, steps |-> steps, token |-> token]
Ret(n, token) == Rule(n, n, <<>>, token)
Skip(n) == Ret(n, "")
Same(t, S) == Ret(One(t, S), IF t = <<>> THEN "" ELSE Head(t))
Push(s) == <<"push", s>>
Switch(s) == <<"switch", s>>
Defer(k) == <<"defer", k>>
Indent(n) == <<"indent", n>>
PopState == <<"pop">>

----------------------------------------------------------------------------
(* A line that looks like the head of a rule: something, a colon,          *)
(* something, and ";" or "{" at its end.                                   *)
RuleLine(t) ==
    LET n == Reach(t, InLine)
    IN  IF /\ 0 < n /\ n < Len(t) /\ t[n] \in {";", "{"}
           /\ \E i \in 1..(n - 2) : t[i] \in ColonKeywords \/ (t[i] = ":" /\ i > 1)
        THEN n ELSE 0

(* A line that looks like the head of a variable declaration. *)
VarLine(t) ==
    LET n == Reach(t, Space)
        m == n + 1 + Reach(After(t, n + 1), Blank)
    IN  IF One(After(t, n), Uppers) = 1 /\ One(After(t, m), {"=", "+="}) = 1 THEN m + 1 ELSE 0

Initial(t, bol) ==
    LET rule == IF bol THEN RuleLine(t) ELSE 0
    IN  << Ret(One(t, AcChecks), "autoconf check"),
           Same(t, Keywords \union ColonKeywords),
           Skip(One(t, Blank)),
           Ret(One(t, FlagIds), "tool flags"),
           Ret(One(t, Names), "identifier"),
           Rule(IF One(t, Space) = 1 THEN rule ELSE 0, 0, <<Push("RULE_INIT"), Push("INITWS")>>, ""),
           Rule(rule, 0, <<Push("RULE_INIT")>>, ""),
           Rule(IF bol THEN VarLine(t) ELSE 0, 0, <<Push("VARDECL")>>, ""),
           Same(t, {"(", ")", "{", "}", "=", "<", "->", "=>"}),
           Ret(One(t, Strings), "string") >>

(* Mutant of InitWs: the state is kept. *)
InitWsStaying(t) == << Skip(Reach(t, Blank)), Rule(Other(t), 0, <<>>, "") >>
InitWs(t) == << Skip(Reach(t, Blank)), Rule(Other(t), 0, <<PopState>>, "") >>

VarInit(t) == << Rule(One(t, ShortVars), 1, <<PopState>>, "short variable name"),
                 Rule(One(t, Integer), 1, <<PopState>>, "integer literal"),
                 Rule(One(t, {"("}), 1, <<Switch("VAR_RBODY")>>, "("),
                 Rule(One(t, {"["}), 1, <<Switch("VAR_SQBODY")>>, "[") >>
VarRbody(t) == << Skip(Reach(t, Blank)), Ret(One(t, Identifiers), "identifier"), Same(t, {".", ":"}),
                  Rule(One(t, {")"}), 1, <<PopState>>, ")") >>
VarSqbody(t) == << Ret(One(t, Identifiers), "identifier"), Rule(One(t, {"]"}), 1, <<PopState>>, "]") >>

(* The colon of a rule comes as a blank and a colon. *)
RuleInit(t) == << Ret(Reach(t, Blank), "whitespace"),
                  Rule(One(t, {":"}), 1, <<Defer(":")>>, "whitespace"),
                  Rule(One(t, {";"}), 1, <<PopState>>, ";"),
                  Rule(Is(t, <<"{", "\n">>), 1, <<Switch("RULE_CODE")>>, "{"),
                  Rule(Other(t), 0, <<Push("FILENAME")>>, "") >>

(* Tabs behind the end of a line: the first line of code sets the          *)
(* indentation, deeper ones continue the line before.                      *)
Tabs(t) == IF Is(t, <<"\n">>) = 1 THEN Reach(After(t, 1), {"\t"}) ELSE 0
RuleCode(t) == << Rule(IF Tabs(t) > 0 THEN Tabs(t) + 1 ELSE 0, 0,
                       <<Indent(Tabs(t)), Switch("RULE_LINES")>>, "") >>
RuleLines(t, indent) ==
    LET n == Tabs(t)
        m == IF n > 0 THEN n + 1 ELSE 0
        brace == IF Is(t, <<"\n">>) = 1 /\ One(After(t, n + 1), {"}"}) = 1 THEN n + 2 ELSE 0
    IN  << Ret(Reach(t, InCode), "shell code"),
           IF n > indent THEN Rule(m, m - 1, <<Switch("RULE_CONT")>>, "")
           ELSE Ret(m, IF n < indent THEN "invalid character" ELSE "whitespace"),
           IF indent >= n + 1 THEN Rule(brace, brace, <<PopState>>, "}") ELSE Rule(brace, brace - 1, <<>>, "") >>
RuleCont(t) == << Rule(IF One(t, {"\t"}) = 1 THEN Reach(t, InCode) ELSE 0, Reach(t, InCode),
                       <<Switch("RULE_LINES")>>, "shell code") >>

Filename(t) == << Ret(Reach(t, Blank \union Comments), "whitespace"),
                  Ret(Reach(t, InName), "part of a filename"),
                  Same(t, {"%", "%%", "?", "*", "**"}),
                  Rule(IF One(t, {"{"}) = 1 /\ One(After(t, 1), InLine) = 1 THEN 2 ELSE 0, 1,
                       <<Push("MULTIFILE")>>, "'{'"),
                  Rule(Is(t, <<"sources", " ", "(">>), 0, <<Push("IMPORT")>>, ""),
                  Rule(Is(t, <<"exclude", " ", "{">>), 0, <<Push("EXCLUDE")>>, ""),
                  Rule(Other(t), 0, <<PopState>>, "") >>
Multifile(t) == << Skip(Reach(t, Space)), Ret(Reach(t, InName), "part of a filename"),
                   Rule(One(t, {"}"}), 1, <<PopState>>, "'}'") >>
Import(t) == << Skip(One(t, Space)), Same(t, {"sources", "("}), Ret(One(t, Identifiers), "identifier"),
                Rule(One(t, {")"}), 1, <<PopState>>, ")") >>
Exclude(t) == << Skip(One(t, Space)), Same(t, {"exclude", "{"}), Rule(One(t, {"}"}), 1, <<PopState>>, "}") >>

Flags(t) == << Ret(Reach(t, Blank \union Comments), "whitespace"), Ret(Reach(t, InFlag), "tool flag"),
               Ret(One(t, Strings), "string"),
               Rule(IF One(t, FlagIds) = 1 /\ Is(After(t, 1), <<" ", "(">>) = 2 THEN 3 ELSE 0, 0,
                    <<Switch("FLAGS_IMPORT")>>, ""),
               Same(t, {"}"}) >>
FlagsImport(t) == << Skip(Reach(t, Blank \union Comments)), Same(t, {"("}), Ret(One(t, FlagIds), "tool flags"),
                     Ret(One(t, Ids), "identifier"), Rule(One(t, {")"}), 1, <<Switch("FLAGS")>>, ")") >>

Vardecl(t) == LET n == Reach(t, Space)
              IN  << Rule(IF One(After(t, n), Uppers) = 1 THEN n + 1 ELSE 0, n,
                          <<Indent(n + 1), Switch("VARDECL_NAME")>>, "") >>
VardeclName(t) ==
    LET n == Reach(t, Space) + 1
        sign == IF One(After(t, n - 1), {"=", "+="}) = 1 THEN t[n] ELSE ""
        body == IF One(After(t, n), {"\n"}) = 1 THEN "VARDECL_CODE" ELSE "VARDECL_LINE"
    IN  << Ret(One(t, Uppers), "identifier"), Rule(IF sign = "" THEN 0 ELSE n, n, <<Switch(body)>>, sign) >>
(* Blanks at the beginning of what is left of a line are dropped, and what *)
(* was nothing else is no token.                                           *)
VardeclLine(t) ==
    LET n == Reach(t, InCode)
    IN  << Rule(n, n, <<<<"strip">>>>, IF n > Reach(t, Space) THEN "shell code" ELSE ""),
           Rule(One(t, {"\n"}), 1, <<PopState>>, "whitespace") >>
VardeclCode(t, indent) ==
    LET n == Tabs(t)
        m == IF One(t, {"\n"}) = 1 THEN n + 1 ELSE 0
    IN  << IF n < indent THEN Rule(m, 0, <<PopState>>, "whitespace") ELSE Rule(m, m - 1, <<>>, ""),
           Ret(Reach(t, InCode), "shell code") >>

Link(t) == << Skip(Reach(t, Blank)), Ret(One(t, ExtLibs), "external library"),
              Ret(One(t, Identifiers), "internal library"), Same(t, {"}"}) >>

----------------------------------------------------------------------------
(* The patterns of a state, with those of all states where they stand: "$" *)
(* after those of the variables, comments and invalid characters at the    *)
(* end.                                                                    *)
Patterns(lx) ==
    LET t == lx.text
        dollar == <<Rule(One(t, {"$"}), 1, <<Push("VAR_INIT")>>, "$")>>
        rest == <<Skip(One(t, Comments)), Ret(One(t, Pieces), "invalid character")>>
        own == CASE lx.start = "INITIAL" -> Initial(t, lx.bol)  [] lx.start = "INITWS" -> InitWs(t)
                 [] lx.start = "VAR_INIT" -> VarInit(t)         [] lx.start = "VAR_RBODY" -> VarRbody(t)
                 [] lx.start = "VAR_SQBODY" -> VarSqbody(t)     [] lx.start = "RULE_INIT" -> RuleInit(t)
                 [] lx.start = "RULE_CODE" -> RuleCode(t)       [] lx.start = "RULE_LINES" -> RuleLines(t, lx.indent)
                 [] lx.start = "RULE_CONT" -> RuleCont(t)       [] lx.start = "FILENAME" -> Filename(t)
                 [] lx.start = "MULTIFILE" -> Multifile(t)      [] lx.start = "IMPORT" -> Import(t)
                 [] lx.start = "EXCLUDE" -> Exclude(t)          [] lx.start = "FLAGS" -> Flags(t)
                 [] lx.start = "FLAGS_IMPORT" -> FlagsImport(t) [] lx.start = "VARDECL" -> Vardecl(t)
                 [] lx.start = "VARDECL_NAME" -> VardeclName(t) [] lx.start = "VARDECL_LINE" -> VardeclLine(t)
                 [] lx.start = "VARDECL_CODE" -> VardeclCode(t, lx.indent) [] lx.start = "LINK" -> Link(t)
    IN  IF lx.start \in {"INITWS", "VAR_INIT", "VAR_RBODY", "VAR_SQBODY"}
        THEN own \o dollar \o rest ELSE dollar \o own \o rest

Best(rules) == CHOOSE i \in DOMAIN rules : \A j \in DOMAIN rules \ {i} :
                   rules[j].len < rules[i].len \/ (rules[j].len = rules[i].len /\ i < j)

(* The stack of states.  To pop from the empty stack ends the program. *)
PushState(lx, s) == [lx EXCEPT !.start = s, !.stack = Append(@, lx.start)]
(* Mutant of SwitchState: what was left is put on the stack. *)
SwitchPushing(lx, s) == PushState(lx, s)
SwitchState(lx, s) == [lx EXCEPT !.start = s]
PoppedState(lx) == IF lx.stack = <<>> THEN [lx EXCEPT !.start = "UNDERFLOW"]
                   ELSE [lx EXCEPT !.start = Last(lx.stack), !.stack = Front(lx.stack)]

Step(lx, step) ==
    CASE step[1] = "push"   -> PushState(lx, step[2])
      [] step[1] = "switch" -> SwitchState(lx, step[2])
      [] step[1] = "pop"    -> PoppedState(lx)
      [] step[1] = "defer"  -> [lx EXCEPT !.deferred = Append(@, <<step[2], <<>>>>)]
      [] step[1] = "indent" -> [lx EXCEPT !.indent = step[2]]
      [] step[1] = "strip"  -> lx

(* The tokens whose text the parser keeps. *)
Valued == {"?", "'{'", "'}'", "*", "**", "%", "%%", "external library", "internal library", "autoconf check",
           "tool flags", "shell code", "part of a filename", "tool flag", "identifier", "integer literal", "string",
           "short variable name", "invalid character"}
NoToken == <<"", <<>>>>

(* What follows a match: the lexer behind it, and the token.  Whether a    *)
(* line begins is decided by the whole match, not by what is kept of it.   *)
Matched(lx, rule) ==
    LET text == SubSeq(lx.text, 1, rule.keep)
        from == IF \E i \in DOMAIN rule.steps : rule.steps[i][1] = "strip" THEN Reach(text, Space) ELSE 0
    IN  [lx |-> FoldLeft(Step, [lx EXCEPT !.text = After(@, rule.keep), !.bol = lx.text[rule.len] = "\n"],
                         rule.steps),
         token |-> <<rule.token, IF rule.token \in Valued THEN After(text, from) ELSE <<>>>>]

(* The tokens put off, and those the lexer is given to begin with, come    *)
(* back last in, first out.                                                *)
InitToken(lx, k) == [lx EXCEPT !.deferred = Append(@, <<k, <<>>>>)]
(* Mutant of Deferred: first in, first out. *)
DeferredInOrder(lx) == [lx |-> [lx EXCEPT !.deferred = Tail(@)], token |-> Head(lx.deferred)]
Deferred(lx) == [lx |-> [lx EXCEPT !.deferred = Front(@)], token |-> Last(lx.deferred)]

NewLexer(t) == [text |-> t, start |-> "INITIAL", stack |-> <<>>, bol |-> TRUE, indent |-> 0, deferred |-> <<>>]
============================================================================
