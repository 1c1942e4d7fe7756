-------------------------------- MODULE Rules --------------------------------
(***************************************************************************)
(* What becomes of a rule between the parser and Makefile.am: the phases   *)
(* that each rewrite a part of it in place, from default_prereq to         *)
(* emit_rules, in the order of all_phases (main.cpp).                      *)
(*                                                                         *)
(* A name is a row of pieces, so that joining two is \o; a filename is a   *)
(* row of tokens [tok, text] with tok "name", "%", "{" or "}".  A document *)
(* is a row of blocks                                                      *)
(*    kind     "program", "library", "template", or "" outside of targets  *)
(*    name     its name                                                    *)
(*    base     the block of the template it inherits from, or 0            *)
(*    needs    the files it asks for, [file, accept]: its objects, built   *)
(*             sources, data; accept says that a file may just exist       *)
(*    rules    [target, prereq, body, lines]: filenames, and whether it    *)
(*             has lines of code.  A line is a row of [tok, text] with tok *)
(*             "code"; "var" for "$@" and the like, with "D" or "F" behind *)
(*             it; "int" for "$1"; "round" and "square" for "$(X)" and     *)
(*             "$[X]"; and "name" for a filename that was put there.       *)
(*                                                                         *)
(* Which of several rules makes a file is for InferenceEngine to say, and  *)
(* what a walk over a circle of rules does for BuildRules: the documents   *)
(* have one recipe for each file, and no circles.                          *)
(***************************************************************************)
EXTENDS Naturals, Sequences, FiniteSets, SequencesExt, TLC

CONSTANTS
  Projects,   (* what to check: [blocks, files], files those that exist    *)
  Stem,       (* what "%" may stand for                                    *)
  Dir         (* the pieces of names that are directories                  *)

VARIABLES
  project,    (* the document as it was parsed                             *)
  doc,        (* the document                                              *)
  phase,      (* the phase that runs, or how the program has ended         *)
  at,         (* the block and the rule that the visitor comes to next     *)
  files,      (* rule_info::files                                          *)
  table,      (* rule_info::rules                                          *)
  todo,       (* the calls of instantiate that are to come                 *)
  done,       (* instantiate_rules::done                                   *)
  cleans,     (* clean_rules::cleans                                       *)
  errors,     (* error_log: the phases that have added to it               *)
  makefile    (* the rules printed                                         *)

vars == <<project, doc, phase, at, files, table, todo, done, cleans, errors, makefile>>

Tok(tok, text) == [tok |-> tok, text |-> text]
Name(text) == Tok("name", text)
Id(fn) == fn[1].text

\* A slot of a list that a node has been taken out of.
Null == << >>

(***************************************************************************)
(* of is a history variable inside the node: the rule it comes from, which *)
(* of its targets it is for, and the stem.  The code does not have it.     *)
(***************************************************************************)
Rule(target, prereq, body, lines, of) ==
  [target |-> target, prereq |-> prereq, body |-> body, lines |-> lines,
   linked |-> TRUE, of |-> of]

Of(b, i) == [block |-> b, rule |-> i, option |-> 0, stem |-> << >>]

Start == [b |-> 1, r |-> 1]

\* The list of toplevel declarations goes on behind the last block.
Init ==
  /\ project \in Projects
  /\ doc = [b \in DOMAIN project.blocks |->
              [project.blocks[b] EXCEPT !.rules =
                 [i \in DOMAIN @ |-> Rule(@[i].target, @[i].prereq, @[i].body,
                                          @[i].lines, Of(b, i))]]]
             \o <<[kind |-> "", name |-> << >>, base |-> 0, needs |-> << >>,
                   rules |-> << >>]>>
  /\ phase = "default_prereq"
  /\ at = Start
  /\ files = project.files
  /\ table = << >>
  /\ todo = << >>
  /\ done = {}
  /\ cleans = << >>
  /\ errors = {}
  /\ makefile = << >>
-----------------------------------------------------------------------------
InDocument == at.b <= Len(doc)
Block == doc[at.b]
InBlock == InDocument /\ at.r <= Len(Block.rules)
AtRule == InBlock /\ Block.rules[at.r].linked
This == Block.rules[at.r]
NextRule == [at EXCEPT !.r = @ + 1]
NextBlock == [b |-> at.b + 1, r |-> 1]
Outside == Len(doc)

\* The list that a rule of block b is in.
Container(b) == IF doc[b].kind = "" THEN Outside ELSE b

Phases ==
  <<"default_prereq", "inheritance", "multirule", "flatten_filenames", "inference",
    "remove_patrules", "instantiate_rules", "resolve_tools", "clean_rules",
    "resolve_shortvars", "squarevars", "flatten_rules", "remove_templates",
    "emit_rules", "done">>

After(p) == Phases[1 + CHOOSE k \in DOMAIN Phases : Phases[k] = p]

\* main: the first phase that has added errors is the last.
NextPhase ==
  /\ phase' = IF errors = {} THEN After(phase) ELSE "failed"
  /\ at' = Start

\* The phases that only visit rules.
ByRule == ToSet(Phases) \ {"inheritance", "instantiate_rules", "remove_templates", "done"}

\* The visitor leaves out what is unlinked, and goes from block to block.
Pass ==
  /\ phase \in ByRule /\ InDocument /\ ~AtRule
  /\ at' = IF InBlock THEN NextRule ELSE NextBlock
  /\ UNCHANGED <<project, doc, phase, files, table, todo, done, cleans, errors, makefile>>

EndOfVisit ==
  /\ phase \in ByRule \ {"inference", "clean_rules"} /\ ~InDocument
  /\ NextPhase
  /\ UNCHANGED <<project, doc, files, table, todo, done, cleans, errors, makefile>>

\* The visitor puts the rule new in the place of the one it is at.
Rewrite(new) ==
  /\ doc' = [doc EXCEPT ![at.b].rules[at.r] = new]
  /\ at' = NextRule
  /\ UNCHANGED <<project, files, table, todo, done, cleans, makefile>>

\* An assertion or an exception ends the program.
Stop(why) ==
  /\ phase' = why
  /\ UNCHANGED <<project, doc, at, files, table, todo, done, cleans, errors, makefile>>
-----------------------------------------------------------------------------
\* default_prereq: insert_this_syms gives every target, templates too, a
\* THIS; libraries are not visited.
WithThis(r) ==
  IF Block.kind \in {"program", "template"}
  THEN [r EXCEPT !.prereq = Append(@, <<Name(Block.name)>>)] ELSE r

DefaultPrereq ==
  /\ phase = "default_prereq" /\ AtRule
  /\ Rewrite(WithThis(This))
  /\ UNCHANGED <<phase, errors>>

\* The members of a target with those of its bases behind them.
WithInherited ==
  LET rules[k \in 0..Len(doc)] ==
        [b \in DOMAIN doc |->
           doc[b].rules \o (IF k = 0 \/ doc[b].base = 0 THEN << >>
                            ELSE rules[k - 1][doc[b].base])]
  IN  rules[Len(doc)]

Inherit ==
  /\ phase = "inheritance"
  /\ doc' = [b \in DOMAIN doc |-> [doc[b] EXCEPT !.rules = WithInherited[b]]]
  /\ NextPhase
  /\ UNCHANGED <<project, files, table, todo, done, cleans, errors, makefile>>
-----------------------------------------------------------------------------
Has(fn, tok) == \E k \in DOMAIN fn : fn[k].tok = tok
First(fn, tok, from) ==
  CHOOSE k \in from..Len(fn) :
    fn[k].tok = tok /\ \A j \in from..(k - 1) : fn[j].tok # tok

Open(fn)  == First(fn, "{", 1)
Close(fn) == First(fn, "}", Open(fn))
Options(fn) == Close(fn) - Open(fn) - 1

\* The filename fn with option k of its first braces in their place.
With(fn, k) ==
  SubSeq(fn, 1, Open(fn) - 1) \o <<fn[Open(fn) + k]>>
    \o SubSeq(fn, Close(fn) + 1, Len(fn))

\* Mutant of Split: every target is made by the code of its own.
SplitAlike(r, i) ==
  LET fn == r.target[i]
  IN  [k \in 1..(Options(fn) - 1) |->
         Rule(<<With(fn, k + 1)>>, r.prereq, r.body, r.lines, [r.of EXCEPT !.option = k])]

\* The rules for all options of target i but the first: they have the first
\* as a prerequisite, and an empty line for code.
Split(r, i) ==
  LET fn == r.target[i]
  IN  [k \in 1..(Options(fn) - 1) |->
         Rule(<<With(fn, k + 1)>>, Append(r.prereq, With(fn, 1)), r.body,
              IF r.body THEN <<<< >>>> ELSE << >>, [r.of EXCEPT !.option = k])]

Split1(r) ==
  [r EXCEPT !.target = [i \in DOMAIN @ |-> IF Has(@[i], "{") THEN With(@[i], 1) ELSE @[i]]]

\* multirule::visit (t_filename) for the targets of a rule; the new rules
\* are behind it in its container, where the visitor will come to them.
Multirule ==
  /\ phase = "multirule" /\ AtRule
  /\ LET braces == {i \in DOMAIN This.target : Has(This.target[i], "{")}
         added  == FlattenSeq([i \in DOMAIN This.target |->
                                 IF i \in braces THEN Split(This, i) ELSE << >>])
     IN  IF \E i \in braces : Options(This.target[i]) < 2
         THEN Stop("aborted")
         ELSE /\ doc' = [[doc EXCEPT ![at.b].rules[at.r] = Split1(This)]
                           EXCEPT ![Container(at.b)].rules = @ \o added]
              /\ at' = NextRule
              /\ UNCHANGED <<project, phase, files, table, todo, done, cleans, errors,
                             makefile>>

\* flatten_filenames: one token for a filename that is made of names.
Flat(fn) ==
  IF fn # << >> /\ \A k \in DOMAIN fn : fn[k].tok = "name"
  THEN <<Name(FlattenSeq([k \in DOMAIN fn |-> fn[k].text]))>>
  ELSE fn

FlattenFilenames ==
  /\ phase = "flatten_filenames" /\ AtRule
  /\ Rewrite([This EXCEPT !.target = [i \in DOMAIN @ |-> Flat(@[i])],
                          !.prereq = [i \in DOMAIN @ |-> Flat(@[i])]])
  /\ UNCHANGED <<phase, errors>>
-----------------------------------------------------------------------------
\* inference::visit (t_rule): make_target takes names and "%" only.
Collect ==
  /\ phase = "inference" /\ AtRule
  /\ IF \E i \in DOMAIN This.target : Has(This.target[i], "{")
     THEN Stop("threw")
     ELSE /\ at' = NextRule
          /\ UNCHANGED <<project, doc, phase, files, table, todo, done, cleans, errors,
                         makefile>>

IsPattern(fn) == Has(fn, "%")

\* The name that filename fn is for stem s.
Subst(fn, s) ==
  FlattenSeq([k \in DOMAIN fn |-> IF fn[k].tok = "%" THEN s ELSE fn[k].text])

Collected ==
  {r \in UNION {ToSet(doc[b].rules) : b \in DOMAIN doc} : r.linked}

Stems(r) == IF IsPattern(Last(r.target)) THEN Stem ELSE {<< >>}

Recipe(r, s) ==
  [target |-> Subst(Last(r.target), s),
   prereq |-> [i \in DOMAIN r.prereq |-> Subst(r.prereq[i], s)],
   body |-> r.body, lines |-> r.lines, stem |-> s, of |-> [r.of EXCEPT !.stem = s]]

\* The recipes whose patterns all match files of known.
Recipes(known) ==
  LET matches(r, s) == \A i \in DOMAIN r.prereq :
                         IsPattern(r.prereq[i]) => Subst(r.prereq[i], s) \in known
  IN  UNION {{Recipe(r, s) : s \in {t \in Stems(r) : matches(r, t)}} : r \in Collected}

\* The files that exist, the targets, and what rules make of them.
Known ==
  LET first == files \union {doc[b].name : b \in {b \in DOMAIN doc : doc[b].kind # ""}}
      known[k \in 0..Cardinality(Collected)] ==
        IF k = 0 THEN first
        ELSE known[k - 1] \union {c.target : c \in Recipes(known[k - 1])}
  IN  known[Cardinality(Collected)]

\* ~inference leaves what InferenceEngine has found.
Infer ==
  /\ phase = "inference" /\ ~InDocument
  /\ files' = Known
  /\ table' = [f \in {c.target : c \in Recipes(Known)} |->
                 CHOOSE c \in Recipes(Known) : c.target = f]
  /\ NextPhase
  /\ UNCHANGED <<project, doc, todo, done, cleans, errors, makefile>>

\* remove_patrules: plain rules with one target stay.
Plain(r) ==
  Len(r.target) = 1 /\ Len(r.target[1]) = 1 /\ r.target[1][1].tok = "name"

RemovePatrules ==
  /\ phase = "remove_patrules" /\ AtRule
  /\ Rewrite([This EXCEPT !.linked = Plain(This)])
  /\ UNCHANGED <<phase, errors>>
-----------------------------------------------------------------------------
\* instantiate_rules comes to a block: templates are ignored.
EnterBlock ==
  /\ phase = "instantiate_rules" /\ InDocument /\ at.r = 1
  /\ todo' = IF Block.kind = "template" THEN << >> ELSE Block.needs
  /\ at' = [at EXCEPT !.r = 2]
  /\ UNCHANGED <<project, doc, phase, files, table, done, cleans, errors, makefile>>

LeaveBlock ==
  /\ phase = "instantiate_rules" /\ InDocument /\ at.r = 2 /\ todo = << >>
  /\ at' = NextBlock
  /\ UNCHANGED <<project, doc, phase, files, table, todo, done, cleans, errors, makefile>>

\* resolve_stem: "$*" in a line of code.
ResolveStem(line, s) ==
  [k \in DOMAIN line |-> IF line[k] = Tok("var", <<"*">>) THEN Tok("code", s) ELSE line[k]]

Instance(c) ==
  Rule(<<<<Name(c.target)>>>>, [i \in DOMAIN c.prereq |-> <<Name(c.prereq[i])>>], TRUE,
       [l \in DOMAIN c.lines |-> ResolveStem(c.lines[l], c.stem)], c.of)

\* One file of a call of instantiate, and the calls for its prerequisites.
InstantiateFile ==
  /\ phase = "instantiate_rules" /\ todo # << >>
  /\ LET f == Head(todo).file
         recipe == f \in files /\ f \in DOMAIN table
         new == recipe /\ f \notin done
     IN  /\ todo' = (IF recipe THEN [i \in DOMAIN table[f].prereq |->
                                       [file |-> table[f].prereq[i], accept |-> TRUE]]
                     ELSE << >>) \o Tail(todo)
         /\ done' = IF new THEN done \union {f} ELSE done
         /\ doc' = IF new /\ table[f].body
                   THEN [doc EXCEPT ![Container(at.b)].rules = Append(@, Instance(table[f]))]
                   ELSE doc
         /\ errors' = IF f \notin files \/ (f \notin DOMAIN table /\ ~Head(todo).accept)
                      THEN errors \union {phase} ELSE errors
  /\ UNCHANGED <<project, phase, at, files, table, cleans, makefile>>

EndOfInstantiate ==
  /\ phase = "instantiate_rules" /\ ~InDocument
  /\ NextPhase
  /\ UNCHANGED <<project, doc, files, table, todo, done, cleans, errors, makefile>>
-----------------------------------------------------------------------------
Programs == {doc[b].name : b \in {b \in DOMAIN doc : doc[b].kind = "program"}}

Suffix == <<"$(EXEEXT)">>

\* Mutant of Tool: the names are left as they are.
ToolNot(fn) == fn

\* resolve_tools::visit (t_filename): a prerequisite that is a program.
Tool(fn) ==
  IF Len(fn) = 1 /\ Id(fn) \in Programs THEN <<Name(Id(fn) \o Suffix)>> ELSE fn

ResolveTools ==
  /\ phase = "resolve_tools" /\ AtRule
  /\ Rewrite([This EXCEPT !.prereq = [i \in DOMAIN @ |-> Tool(@[i])]])
  /\ UNCHANGED <<phase, errors>>

\* Mutant of NextNum: the number is not counted on.
NextNumAgain == <<"clean-", "1">>

\* clean_rules::next_num
NextNum == <<"clean-", ToString(Len(cleans) + 1)>>

CleanRule ==
  /\ phase = "clean_rules" /\ AtRule
  /\ IF Id(This.target[1]) = <<"clean">>
     THEN /\ cleans' = Append(cleans, NextNum)
          /\ doc' = [doc EXCEPT ![at.b].rules[at.r].target[1][1].text = NextNum]
     ELSE UNCHANGED <<cleans, doc>>
  /\ at' = NextRule
  /\ UNCHANGED <<project, phase, files, table, todo, done, errors, makefile>>

\* clean_rules::visit (t_toplevel_declarations), when all have been visited.
CleanLocal ==
  /\ phase = "clean_rules" /\ ~InDocument
  /\ doc' = [doc EXCEPT ![Outside].rules =
               Append(@, Rule(<<<<Name(<<"clean-local">>)>>>>,
                              [i \in DOMAIN cleans |-> <<Name(cleans[i])>>],
                              TRUE, << >>, Of(0, 0)))]
  /\ NextPhase
  /\ UNCHANGED <<project, files, table, todo, done, cleans, errors, makefile>>
-----------------------------------------------------------------------------
\* The modifiers of "$(@D)" and "$(@F)".
Part(name, var) ==
  IF Len(var) = 1 THEN name
  ELSE SelectSeq(name, LAMBDA piece : (piece \in Dir) = (var[2] = "D"))

Built(name, var) == <<"$(builddir)/">> \o Part(name, var)
Found(name, var) ==
  <<"test -f ">> \o name \o <<" || echo $(srcdir)/">> \o Part(name, var)

StrToL == [n \in {"1", "2", "3"} |-> CHOOSE k \in 1..3 : ToString(k) = n]

(***************************************************************************)
(* resolve_shortvars::visit of one variable of a line; acc is the          *)
(* prerequisites that are left, what there is of the line, and whether     *)
(* there was an error.  "$1" puts the node of the prerequisite itself into *)
(* the line and so takes it out of the list: where an empty slot is meant, *)
(* the variable stays as it is.                                            *)
(***************************************************************************)
Placed(acc, frag) == [acc EXCEPT !.line = Append(@, frag)]


FirstOf(prereq) == Head(prereq)

ShortVar(acc, r, frag) ==
  CASE Head(frag.text) = "@" -> Placed(acc, Name(Built(Id(r.target[1]), frag.text)))
    [] Head(frag.text) = "$" -> Placed(acc, Tok("code", <<"$$">>))
    [] Head(frag.text) = "<" ->
         IF acc.prereq = << >> THEN [Placed(acc, frag) EXCEPT !.error = TRUE]
         ELSE IF FirstOf(acc.prereq) = Null THEN Placed(acc, frag)
         ELSE Placed(acc, Name(Found(Id(FirstOf(acc.prereq)), frag.text)))
    [] OTHER -> Placed(acc, frag)

Beyond(acc, n) == Len(acc.prereq) < n

IntVar(acc, frag) ==
  LET n == StrToL[Head(frag.text)]
  IN  IF Beyond(acc, n) THEN [Placed(acc, frag) EXCEPT !.error = TRUE]
      ELSE IF acc.prereq[n] = Null THEN Placed(acc, frag)
      ELSE [Placed(acc, Name(Id(acc.prereq[n]))) EXCEPT !.prereq[n] = Null]

\* resolve_shortvars::visit (t_rule), line after line.
Resolved(r) ==
  LET frag(acc, f) == CASE f.tok = "var" -> ShortVar(acc, r, f)
                        [] f.tok = "int" -> IntVar(acc, f)
                        [] OTHER         -> Placed(acc, f)
      line(acc, l) == LET end == FoldLeft(frag, [acc EXCEPT !.line = << >>], l)
                      IN  [end EXCEPT !.lines = Append(@, end.line)]
  IN  FoldLeft(line, [prereq |-> r.prereq, line |-> << >>, lines |-> << >>,
                      error |-> FALSE], r.lines)

ResolveShortvars ==
  /\ phase = "resolve_shortvars" /\ AtRule
  /\ Rewrite([This EXCEPT !.prereq = Resolved(This).prereq, !.lines = Resolved(This).lines])
  /\ errors' = IF Resolved(This).error THEN errors \union {phase} ELSE errors
  /\ UNCHANGED phase
-----------------------------------------------------------------------------
\* squarevars::visit (t_squarevar): "$[X]" in a rule of the target name.
FlagVars(name, x) ==
  <<Tok("round", <<"AM_">> \o x), Tok("code", <<" ">>), Tok("round", x),
    Tok("code", <<" ">>), Tok("round", name \o <<"_">> \o x)>>

FlagName(b) ==
  IF doc[b].kind = "library" THEN <<"lib">> \o doc[b].name \o <<"_la">> ELSE doc[b].name

Square(line) == \E k \in DOMAIN line : line[k].tok = "square"

Squared(line) ==
  FlattenSeq([k \in DOMAIN line |->
    IF line[k].tok = "square" THEN FlagVars(FlagName(at.b), line[k].text) ELSE <<line[k]>>])

\* There has to be a program or a library around the rule.
SquareVars ==
  /\ phase = "squarevars" /\ AtRule
  /\ IF Block.kind \notin {"program", "library"} /\ \E l \in DOMAIN This.lines : Square(This.lines[l])
     THEN Stop("aborted")
     ELSE /\ Rewrite([This EXCEPT !.lines = [l \in DOMAIN @ |-> Squared(@[l])]])
          /\ UNCHANGED <<phase, errors>>

Code(frag) ==
  CASE frag.tok = "name"  -> Tok("code", frag.text)
    [] frag.tok = "round" -> Tok("code", <<"$(">> \o frag.text \o <<")">>)
    [] OTHER              -> frag

\* A line that goes on is indented further, which becomes a space.
Continued(text) ==
  IF text # << >> /\ Head(text) = "\t" THEN <<" ">> \o Tail(text) ELSE text

Joined(line) ==
  LET code == [k \in DOMAIN line |-> Code(line[k])]
  IN  IF \E k \in DOMAIN code : code[k].tok # "code" THEN code
      ELSE <<Tok("code", FlattenSeq([k \in DOMAIN code |-> Continued(code[k].text)]))>>

FlattenRules ==
  /\ phase = "flatten_rules" /\ AtRule
  /\ Rewrite([This EXCEPT !.lines = [l \in DOMAIN @ |-> Joined(@[l])]])
  /\ UNCHANGED <<phase, errors>>

RemoveTemplates ==
  /\ phase = "remove_templates"
  /\ doc' = [b \in DOMAIN doc |->
               IF doc[b].kind = "template" THEN [doc[b] EXCEPT !.rules = << >>] ELSE doc[b]]
  /\ NextPhase
  /\ UNCHANGED <<project, files, table, todo, done, cleans, errors, makefile>>
-----------------------------------------------------------------------------
Seen == {makefile[i].target : i \in DOMAIN makefile}

Text(toks) == FlattenSeq([k \in DOMAIN toks |-> toks[k].text])

\* emit_rules::visit (token): every token of the prerequisites is a word;
\* home, of: history variables of the node.
Entry(r, home) ==
  [target |-> Id(r.target[1]),
   prereq |-> LET words == FlattenSeq(r.prereq) IN [k \in DOMAIN words |-> words[k].text],
   lines  |-> [l \in DOMAIN r.lines |-> Text(r.lines[l])],
   home   |-> home, of |-> r.of]

\* emit_rules::visit (t_rule)
Printed(r) == r.body /\ Id(r.target[1]) \notin Seen

EmitRule ==
  /\ phase = "emit_rules" /\ AtRule
  /\ makefile' = IF Printed(This) THEN Append(makefile, Entry(This, at.b)) ELSE makefile
  /\ at' = NextRule
  /\ UNCHANGED <<project, doc, phase, files, table, todo, done, cleans, errors>>

Next ==
  \/ Pass \/ EndOfVisit
  \/ DefaultPrereq \/ Inherit \/ Multirule \/ FlattenFilenames
  \/ Collect \/ Infer \/ RemovePatrules
  \/ EnterBlock \/ LeaveBlock \/ InstantiateFile \/ EndOfInstantiate
  \/ ResolveTools \/ CleanRule \/ CleanLocal \/ ResolveShortvars
  \/ SquareVars \/ FlattenRules \/ RemoveTemplates \/ EmitRule

Spec == Init /\ [][Next]_vars
-----------------------------------------------------------------------------
(***************************************************************************)
(* What the rules mean, said of the document as it was written.            *)
(***************************************************************************)
Written(e) == project.blocks[e.of.block].rules[e.of.rule]

\* The rule of clean_rules itself is not written by anybody.
IsWritten(e) == e.of.block # 0

Suffixed(name) == IF name \in Programs THEN name \o Suffix ELSE name

\* The block that printed rule e was written in.
Home(e) == project.blocks[e.of.block]

\* What printed rule e depends on: what it says, and the program it is of.
Deps(e) ==
  LET w == Written(e)
  IN  [i \in DOMAIN w.prereq |-> Suffixed(Subst(w.prereq[i], e.of.stem))]
        \o (IF Home(e).kind = "program" THEN <<Suffixed(Home(e).name)>> ELSE << >>)

\* The names fs without that of the template that e was written in.
ButTemplate(e, fs) ==
  IF Home(e).kind = "template" THEN SelectSeq(fs, LAMBDA f : f # Home(e).name) ELSE fs

Uses(w, tok) ==
  {<<l, k>> \in (DOMAIN w.lines) \X (1..8) : k \in DOMAIN w.lines[l] /\ w.lines[l][k].tok = tok}
At(w, p) == w.lines[p[1]][p[2]]
Number(w, p) == StrToL[Head(At(w, p).text)]

\* No "$n" is used twice, nor for more than is written; "$<" is in rules that
\* are written with a prerequisite, and not together with "$1"; "$*" is in
\* pattern rules, and no other short variable is there.
Clear(w) ==
  /\ \A p \in Uses(w, "int") : Number(w, p) <= Len(w.prereq)
  /\ \A p, q \in Uses(w, "int") : At(w, p) = At(w, q) => p = q
  /\ \A p \in Uses(w, "var") :
       LET v == Head(At(w, p).text)
       IN  /\ v \in {"@", "<", "*", "$"}
           /\ v = "*" => IsPattern(Last(w.target))
           /\ v = "<" => w.prereq # << >> /\ \A q \in Uses(w, "int") : Number(w, q) # 1

FlagsMean(name, x) ==
  <<"$(", "AM_">> \o x \o <<")", " ", "$(">> \o x \o <<")", " ", "$(">> \o name \o <<"_">> \o x
    \o <<")">>

Means(e, frag) ==
  CASE frag.tok = "var" /\ Head(frag.text) = "@" -> Built(e.target, frag.text)
    [] frag.tok = "var" /\ Head(frag.text) = "<" -> Found(Deps(e)[1], frag.text)
    [] frag.tok = "var" /\ Head(frag.text) = "*" -> e.of.stem
    [] frag.tok = "var" /\ Head(frag.text) = "$" -> <<"$$">>
    [] frag.tok = "int"    -> Deps(e)[StrToL[Head(frag.text)]]
    [] frag.tok = "square" -> FlagsMean(FlagName(e.home), frag.text)
    [] frag.tok = "round"  -> <<"$(">> \o frag.text \o <<")">>
    [] OTHER               -> Continued(frag.text)


\* A printed rule depends on what it was written with, then on the program
\* around it with its suffix, then on the file made together with it; three
\* phases append to these lists and two replace in them.  A rule with "$n"
\* is not spoken of: see NthDependency.  Nor is it said whether a rule of a
\* template has the template's name among the files: default_prereq adds it,
\* and the manual knows of "rules defined in a program block" (rules.pod:25).
DependsOnWhatItSays ==
  \A i \in DOMAIN makefile :
    LET e == makefile[i]
        w == Written(e)
    IN  IsWritten(e) /\ (Uses(w, "int") = {} \/ e.of.option > 0) =>
          ButTemplate(e, e.prereq) =
            ButTemplate(e, Deps(e) \o (IF e.of.option = 0 THEN << >>
                                       ELSE <<Suffixed(Subst(With(w.target[1], 1), e.of.stem))>>))

\* The code of a rule for several files is run once for all of them: it is
\* printed at most once in a target, and the rules for the other files are
\* never printed without it, have no code, and depend on the file it makes
\* (multirule, inference and instantiate_rules together).
CodeRunsOnce ==
  /\ \A i \in DOMAIN makefile : makefile[i].of.option > 0 /\ phase = "done" =>
       /\ makefile[i].lines = <<<< >>>>
       /\ \E j \in DOMAIN makefile :
            /\ makefile[j].of = [makefile[i].of EXCEPT !.option = 0]
            /\ makefile[j].target \in ToSet(makefile[i].prereq)
  /\ \A i, j \in DOMAIN makefile :
       makefile[i].of = makefile[j].of /\ makefile[i].home = makefile[j].home => i = j

\* A target and the templates it inherits from, one from the other.
Bases(b) ==
  LET up[k \in 0..Len(project.blocks)] ==
        IF k = 0 THEN {b}
        ELSE up[k - 1] \union ({project.blocks[c].base : c \in up[k - 1]} \ {0})
  IN  up[Len(project.blocks)]

IsClean(w) == w.body /\ w.target = <<<<Name(<<"clean">>)>>>>
IsLocal(w) == w.target = <<<<Name(<<"clean-local">>)>>>>

\* All rules for clean, of every target and inherited ones too, are in the
\* Makefile under names of their own that clean-local depends on: none is
\* dropped by emit_rules for having a name that was printed before.
CleanLocalRunsAll ==
  phase = "done" /\ (\A b \in DOMAIN project.blocks : \A i \in DOMAIN project.blocks[b].rules :
                       ~IsLocal(project.blocks[b].rules[i])) =>
    \E l \in DOMAIN makefile :
      /\ makefile[l].of.block = 0
      /\ \A b \in DOMAIN project.blocks : project.blocks[b].kind # "template" =>
           \A t \in Bases(b) : \A i \in DOMAIN project.blocks[t].rules :
             IsClean(project.blocks[t].rules[i]) =>
               \E j \in DOMAIN makefile :
                 /\ makefile[j].of = Of(t, i) /\ makefile[j].home = b
                 /\ makefile[j].target \in ToSet(makefile[l].prereq)

\* "$n" is "the nth dependency" (rules.pod): a printed rule depends on
\* whatever its code has written "$n" for.
NthDependency ==
  \A i \in DOMAIN makefile :
    LET e == makefile[i]
    IN  IsWritten(e) /\ e.of.option = 0 =>
          \A p \in Uses(Written(e), "int") :
            Deps(e)[Number(Written(e), p)] \in ToSet(e.prereq)
=============================================================================
