------------------------------- MODULE Parser -------------------------------
(***************************************************************************)
(* Parsing: the files of a project, one after the other through one lexer  *)
(* (file_lexer.cpp, parse_files), or a string of expanded text             *)
(* (string_lexer.cpp).  Lexer and parser take turns: the parser pushes     *)
(* and pops states of the lexer in the middle of its rules, and asks for a *)
(* token only where its tables need one to go on.                          *)
(***************************************************************************)
EXTENDS Grammar, Notation

CONSTANT Inputs     \* [files, lx, string, layout, whole]: what is parsed, from which state;
                    \* how it is written, and whether it is written to its end

VARIABLES
    input,
    files,      \* the files still to be opened
    lx,         \* the lexer
    look,       \* the token the parser has seen and not used
    todo,       \* what the parser still expects
    vals,       \* its stack of values
    doc,        \* what it returns, if anything: <<>> or <<tree>>
    errors,     \* how many errors are in the log
    status
vars == <<input, files, lx, look, todo, vals, doc, errors, status>>

Statuses == {"new", "parsing", "accepted", "rejected", "fault", "no files", "unreadable"}
Eof == <<"end of file", <<>>>>

Init == /\ input \in Inputs
        /\ files = input.files
        /\ lx = input.lx
        /\ look = NoToken
        /\ todo = <<N("document"), T("end of file")>>
        /\ vals = <<>> /\ doc = <<>> /\ errors = 0
        /\ status = IF input.string THEN "parsing" ELSE "new"

(* A project has many files; only those of two names are read, unless they *)
(* are makequick's own (file_list.base = RULESDIR).                        *)
IsRuleFile(f) == f.own \/ f.name \in {"Rules.mq", "configure.mq"}
Unopened == LET rules == {i \in DOMAIN files : IsRuleFile(files[i])}
            IN  IF rules = {} THEN <<>> ELSE SubSeq(files, Min(rules), Len(files))

OpenFile ==
    /\ Unopened # <<>> /\ Unopened[1].readable
    /\ lx' = [lx EXCEPT !.text = Unopened[1].text, !.bol = TRUE]
    /\ files' = Tail(Unopened)
    /\ status' = "parsing"
    /\ UNCHANGED look
CannotOpen ==
    /\ Unopened # <<>> /\ ~Unopened[1].readable
    /\ status' = "unreadable"
    /\ UNCHANGED <<files, lx, look>>
NoMoreFiles ==
    /\ Unopened = <<>>
    /\ IF status = "new" THEN status' = "no files" /\ UNCHANGED look
       ELSE look' = Eof /\ UNCHANGED status
    /\ files' = <<>> /\ UNCHANGED lx
NextFile == (OpenFile \/ CannotOpen \/ NoMoreFiles) /\ UNCHANGED <<input, todo, vals, doc, errors>>

FirstFile == status = "new" /\ NextFile

----------------------------------------------------------------------------
Parsing == status = "parsing"
Top == Head(todo)
Expects(kind) == Parsing /\ Top[1] = kind
NeedsToken == /\ Parsing /\ look = NoToken
              /\ Top[1] = "t" \/ (Top[1] = "n" /\ Len(Productions[Top[2]]) > 1)

(* lexer::next *)
NextDeferred ==
    /\ NeedsToken /\ lx.deferred # <<>>
    /\ lx' = Deferred(lx).lx /\ look' = Deferred(lx).token
    /\ UNCHANGED <<input, files, todo, vals, doc, errors, status>>

Match ==
    /\ NeedsToken /\ lx.deferred = <<>> /\ lx.text # <<>>
    /\ \E rules \in {Patterns(lx)} : \E m \in {Matched(lx, rules[Best(rules)])} :
          lx' = m.lx /\ look' = IF m.token[1] = "" THEN NoToken ELSE m.token
    /\ UNCHANGED <<input, files, todo, vals, doc, errors, status>>

AtEnd == NeedsToken /\ lx.deferred = <<>> /\ lx.text = <<>>
EndOfString ==
    /\ AtEnd /\ input.string
    /\ look' = Eof
    /\ UNCHANGED <<input, files, lx, todo, vals, doc, errors, status>>
EndOfFile == AtEnd /\ ~input.string /\ lx.start = "INITIAL" /\ NextFile
(* A file that ends inside of something is to be reported to the parser,   *)
(* which wrap has no pointer to: it passes 0, and the error log is read    *)
(* through that.                                                           *)
EndInside ==
    /\ AtEnd /\ ~input.string /\ lx.start # "INITIAL"
    /\ status' = "fault"
    /\ UNCHANGED <<input, files, lx, look, todo, vals, doc, errors>>

----------------------------------------------------------------------------
(* What bison reduces, shifts, or runs without a token. *)
Fitting == IF Len(Productions[Top[2]]) = 1 THEN {1} ELSE Alternatives(Top[2], look[1])
Predict ==
    /\ Expects("n") /\ ~NeedsToken
    /\ \E i \in Fitting : todo' = Productions[Top[2]][i] \o Tail(todo)
    /\ UNCHANGED <<input, files, lx, look, vals, doc, errors, status>>

Shift ==
    /\ Expects("t") /\ look[1] = Top[2]
    /\ vals' = IF look[1] \in Valued THEN Append(vals, look) ELSE vals
    /\ look' = NoToken /\ todo' = Tail(todo)
    /\ status' = IF look = Eof THEN "accepted" ELSE status
    /\ UNCHANGED <<input, files, lx, doc, errors>>

(* The first error is logged and ends the parse; what "document" has put   *)
(* into doc by then is returned all the same.                              *)
SyntaxError ==
    /\ look # NoToken
    /\ \/ Expects("t") /\ look[1] # Top[2]
       \/ Expects("n") /\ Fitting = {}
    /\ errors' = errors + 1 /\ status' = "rejected"
    /\ UNCHANGED <<input, files, lx, look, todo, vals, doc>>

Below(n) == SubSeq(vals, 1, Len(vals) - n)
Above(n) == SubSeq(vals, Len(vals) - n + 1, Len(vals))
Build ==
    /\ Parsing /\ Top[1] \in {"make", "add", "null", "logcompiler", "doc"}
    /\ vals' = CASE Top[1] = "make" -> Append(Below(Top[3]), <<Top[2], Above(Top[3])>>)
                 [] Top[1] = "add"  -> LET to == Above(2)[1]
                                       IN  Append(Below(2), <<to[1], Append(to[2], Last(vals))>>)
                 [] Top[1] = "null" -> Append(vals, <<"null", <<>>>>)
                 [] Top[1] = "logcompiler" -> LET rule == Last(vals)[2]
                                              IN  Append(Below(1), <<"log_compiler", <<rule[1], rule[3]>>>>)
                 [] Top[1] = "doc"  -> Below(1)
    /\ doc' = IF Top[1] = "doc" THEN Above(1) ELSE doc
    /\ todo' = Tail(todo)
    /\ UNCHANGED <<input, files, lx, look, errors, status>>

ChangeState ==
    /\ Parsing /\ Top[1] \in {"lexpush", "lexpop"}
    /\ lx' = IF Top[1] = "lexpush" THEN PushState(lx, Top[2]) ELSE PoppedState(lx)
    /\ todo' = Tail(todo)
    /\ UNCHANGED <<input, files, look, vals, doc, errors, status>>

Next == FirstFile \/ NextDeferred \/ Match \/ EndOfString \/ EndOfFile \/ EndInside
        \/ Predict \/ Shift \/ SyntaxError \/ Build \/ ChangeState
Spec == Init /\ [][Next]_vars /\ WF_vars(Next)

----------------------------------------------------------------------------
(* Properties. *)
Done == status \notin {"new", "parsing"}

(* The text of the input.  Where a file has been cut off in the middle     *)
(* the blanks before the cut do not count.                                 *)
RECURSIVE Trimmed(_)
Trimmed(t) == IF t # <<>> /\ Last(t) \in Blank THEN Trimmed(Front(t)) ELSE t
Text == IF input.string THEN input.lx.text
        ELSE Concat([i \in DOMAIN input.files |->
               IF Trimmed(input.files[i].text) = <<>> \/ ~IsRuleFile(input.files[i]) THEN <<>>
               ELSE Trimmed(input.files[i].text) \o Nl])
Written == IF doc[1][1] = "sources_members" THEN Join([i \in DOMAIN doc[1][2] |-> Write(doc[1][2][i], 0, input.layout)])
           ELSE Write(doc[1], 0, input.layout)

(* A directory is read up to the next word, so the line after it does not  *)
(* begin at its beginning when it is indented, and the patterns for the    *)
(* beginning of a line do not see the rule or variable that is there.      *)
RECURSIVE Swallowed(_)
Swallowed(tree) ==
    /\ tree[1] \notin Valued
    /\ \/ /\ tree[1] = "target_members"
          /\ \E i \in 1..(Len(tree[2]) - 1) : /\ tree[2][i][1] = "dir"
                                             /\ tree[2][i + 1][1] \in {"rule", "vardecl", "varadd"}
       \/ \E i \in DOMAIN tree[2] : Swallowed(tree[2][i])
Readable == input.layout.indented => \A i \in DOMAIN input.trees : ~Swallowed(input.trees[i])

(* What is written is read: a text written to its end is accepted, with no *)
(* error, and the tree that the parser returns for any text, whole or cut  *)
(* off anywhere, accepted or with an error behind it, is the tree of       *)
(* exactly what has been read - in blocks of flags, files, libraries, code *)
(* and variables, where one word is a different token in every state, and  *)
(* over the ends of files.  (lexer::next, yyparse, file_lexer::wrap)       *)
ReadsWhatIsWritten ==
    Done => /\ status = "accepted" => doc # <<>> /\ Written = Text
            /\ status = "rejected" /\ doc # <<>> => IsPrefix(Trimmed(Written), Text)
            /\ input.whole /\ Readable => status = "accepted"

(* Between two declarations nothing is left over of the one before: the    *)
(* lexer is in its initial state, with an empty stack and no token put     *)
(* off, whoever pushed and popped; and nobody ever pops an empty stack.    *)
(* (lexer::push_state, lexer::pop_state, the actions of yyparse.ypp)       *)
NothingLeftOver ==
    [][/\ lx'.start # "UNDERFLOW"
       /\ (todo' # todo /\ todo' # <<>> /\ Head(todo') = N("declarations") /\ look' = NoToken)
            => lx'.start = "INITIAL" /\ lx'.stack = <<>> /\ lx'.deferred = <<>>]_vars

(* Every text is judged in the end: accepted, rejected, or found to end    *)
(* inside of something.  The exception is a mark in the head of a rule     *)
(* that neither a rule nor a filename can have: RULE_INIT and FILENAME     *)
(* hand it to each other for ever.  (yylex.lpp:147, :172)                  *)
Stray == Pieces \ (InName \union Blank \union Comments \union {"%", "%%", "?", "*", "**", ":", ";", "{", "$"})
InRuleHead == lx.start = "RULE_INIT" /\ lx.text # <<>> /\ Head(lx.text) \in Stray
EveryTextIsJudged == <>(Done \/ InRuleHead)
============================================================================
