------------------------------- MODULE Targets -------------------------------
(***************************************************************************)
(* Programs, libraries and the templates they inherit from: the phases     *)
(* from imports to remove_templates that complete the targets, each a      *)
(* visitor that walks over the document (phases/imports.cpp,               *)
(* phases/inheritance.cpp, phases/resolve_flagsref.cpp,                    *)
(* phases/default_destdir.cpp and others).                                 *)
(* Module Makefile goes on from here.                                      *)
(*                                                                         *)
(* The document is a row of blocks [kind, name, base, cond, dest, body],   *)
(* with "" for what is not there: a program, a library, a template, or     *)
(* declarations outside of all targets; for an extern, name is the file    *)
(* and base the kind of quotes around it.  A body is a row of sections     *)
(*    kind    sources, nodist, link, flags, extra, built, test, install,   *)
(*            or none when it was unlinked                                 *)
(*    key     the tool of flags, the type of a test; of install sections   *)
(*            <<directory, "HEADERS", "DATA" or "SCRIPTS">>                *)
(*    cond    its condition, or ""                                         *)
(*    items   files, libraries, flags: [op |-> "plain", name], a library   *)
(*            of the project: [op |-> "lib", name], tool (from) in flags:  *)
(*            [op |-> "import", tool, from]                                *)
(*    linked  whether flags still has its list of flags                    *)
(***************************************************************************)
EXTENDS Naturals, Sequences, FiniteSets, SequencesExt

CONSTANTS
  Projects,     (* the documents to check                                  *)
  RuleFiles,    (* RuleFiles[name]: what parse_files makes of this file of *)
                (* the rules directory, << >> when it gives no document    *)
  MaxSections   (* when a body that grows for ever fills the memory        *)

Items ==
  [op : {"plain", "lib", "global"}, name : STRING] \union
  [op : {"import"}, tool : STRING, from : STRING]

\* The grammar has no condition for built_sources (yyparse.ypp:442).
Sections ==
  [kind : {"sources", "nodist", "link", "flags", "extra", "test", "none"}, key : STRING,
   cond : STRING, items : Seq(Items), linked : BOOLEAN] \union
  [kind : {"built"}, key : {""}, cond : {""}, items : Seq(Items), linked : BOOLEAN] \union
  [kind : {"install"}, key : STRING \X {"HEADERS", "DATA", "SCRIPTS"},
   cond : STRING, items : Seq(Items), linked : BOOLEAN]

Blocks ==
  [kind : {"program", "library", "template", "toplevel", "extern", "none"}, name : STRING,
   base : STRING, cond : STRING, dest : STRING, body : Seq(Sections)]

ASSUME TargetsAssumption ==
  /\ Projects \subseteq Seq(Blocks)
  /\ IsFiniteSet(DOMAIN RuleFiles)
  /\ \A file \in DOMAIN RuleFiles : RuleFiles[file] \in Seq(Blocks)
  /\ MaxSections \in Nat

VARIABLES
  project,      (* what the document declares as it was parsed, and the    *)
                (* rule files that it asks for                             *)
  doc,          (* the document                                            *)
  phase,        (* the phase that runs, or how the program has ended       *)
  at,           (* block, section and item that the visitor comes to next  *)
  calls,        (* the calls of inheritance::visit under way               *)
  done,         (* the blocks that inheritance has marked                  *)
  errors,       (* the blocks an error was added for                       *)
  imported      (* imports::imported: the files that have been asked for   *)

targetVars == <<project, doc, phase, at, calls, done, errors, imported>>

Start == [t |-> 1, s |-> 1, i |-> 1]

\* The externs that take part: one that is the first declaration of a rule
\* file has no effect.
Externs(decls) == {<<b.name, b.base>> : b \in {b \in Range(decls) : b.kind = "extern"}}
Imported(file) ==
  LET decls == RuleFiles[file]
  IN  IF decls # << >> /\ decls[1].kind = "extern" THEN Tail(decls) ELSE decls

\* The rule files that document d asks for and those that they ask for.
FilesOf(d) ==
  LET asked(files)  == {e[1] : e \in Externs(d) \union UNION {Externs(Imported(f)) : f \in files}}
      closed(files) == asked(files) \intersect DOMAIN RuleFiles \subseteq files
  IN  {f \in DOMAIN RuleFiles : \A files \in SUBSET DOMAIN RuleFiles : closed(files) => f \in files}

\* The declarations of d and of the rule files it asks for, those of a file
\* once however often it is asked for.
Combined(d) ==
  LET files == SetToSeq(FilesOf(d))
  IN  d \o FlattenSeq([k \in DOMAIN files |-> Imported(files[k])])

TargetsInit ==
  /\ doc \in Projects
  /\ project = Combined(doc)
  /\ phase = "imports"
  /\ at = Start
  /\ calls = << >>
  /\ done = {}
  /\ errors = {}
  /\ imported = {}
-----------------------------------------------------------------------------
Block == doc[at.t]
InDocument == at.t <= Len(doc)
IsTarget(b) == b.kind \in {"program", "library", "template"}
Section == Block.body[at.s]
InSection == InDocument /\ at.s <= Len(Block.body)
NextSection == [at EXCEPT !.s = @ + 1, !.i = 1]
NextBlock == [Start EXCEPT !.t = at.t + 1]

Named(d, kind, name) == {t \in DOMAIN d : d[t].kind = kind /\ d[t].name = name}

\* Mutant of After: inheritance is left out.
AfterNoInheritance(p) ==
  CASE p = "imports"            -> "default_flags"
    [] p = "default_flags"      -> "insert_global_syms"
    [] p = "insert_global_syms" -> "resolve_flagsref"
    [] p = "inheritance"        -> "resolve_flagsref"
    [] p = "resolve_flagsref"   -> "default_destdir"
    [] p = "default_destdir"    -> "remove_templates"
    [] p = "remove_templates"   -> "merge_blocks"

After(p) ==
  CASE p = "imports"            -> "default_flags"
    [] p = "default_flags"      -> "insert_global_syms"
    [] p = "insert_global_syms" -> "inheritance"
    [] p = "inheritance"        -> "resolve_flagsref"
    [] p = "resolve_flagsref"   -> "default_destdir"
    [] p = "default_destdir"    -> "remove_templates"
    [] p = "remove_templates"   -> "merge_blocks"

TargetPhases == {"imports", "default_flags", "insert_global_syms", "inheritance",
                 "resolve_flagsref", "default_destdir", "remove_templates"}

\* main: a phase that has added errors is the last one.
NextTargetPhase ==
  /\ phase \in TargetPhases \ {"default_flags"} /\ ~InDocument /\ calls = << >>
  /\ phase' = IF errors = {} THEN After(phase) ELSE "failed"
  /\ at' = Start
  /\ UNCHANGED <<project, doc, calls, done, errors, imported>>


\* imports::seen.
Seen(name) == name \in imported

\* The visitor goes on with the next position of the list it is in: the first
\* declaration of an imported file, now at the position of the extern, has no
\* visit, those behind it have.
Spliced(decls) == SubSeq(doc, 1, at.t - 1) \o decls \o SubSeq(doc, at.t + 1, Len(doc))

\* imports::visit; the errors of the parser stay in a log of its own, and a
\* file that gives no document leaves the extern where it is.
ImportFile ==
  /\ phase = "imports" /\ InDocument /\ Block.kind = "extern" /\ Block.base = "double"
  /\ ~Seen(Block.name) /\ Block.name \in DOMAIN RuleFiles
  /\ imported' = imported \union {Block.name}
  /\ doc' = IF RuleFiles[Block.name] = << >> THEN doc ELSE Spliced(RuleFiles[Block.name])
  /\ at' = NextBlock
  /\ UNCHANGED <<project, phase, calls, done, errors>>

PassDeclaration ==
  /\ phase = "imports" /\ InDocument
  /\ Block.kind = "extern" => Block.base = "double" /\ Seen(Block.name)
  /\ at' = NextBlock
  /\ UNCHANGED <<project, doc, phase, calls, done, errors, imported>>

\* The lexer takes three kinds of quotes, unquote asserts that they are
\* double; an exception for a file that is not there.
ImportFails ==
  /\ phase = "imports" /\ InDocument /\ Block.kind = "extern"
  /\ phase' = IF Block.base # "double" THEN "aborted" ELSE "thrown"
  /\ Block.base = "double" => ~Seen(Block.name) /\ Block.name \notin DOMAIN RuleFiles
  /\ UNCHANGED <<project, doc, at, calls, done, errors, imported>>

\* default_flags::visit: two flags for all preprocessors, behind all else.
IncludePaths ==
  <<[op |-> "plain", name |-> "top_srcdir"], [op |-> "plain", name |-> "top_builddir"]>>
DefaultFlags ==
  [kind |-> "toplevel", name |-> "", base |-> "", cond |-> "", dest |-> "",
   body |-> <<[kind |-> "flags", key |-> "cppflags", cond |-> "", items |-> IncludePaths,
               linked |-> TRUE]>>]

AddDefaultFlags ==
  /\ phase = "default_flags"
  /\ doc' = Append(doc, DefaultFlags)
  /\ phase' = After(phase)
  /\ at' = Start
  /\ UNCHANGED <<project, calls, done, errors, imported>>
-----------------------------------------------------------------------------
\* insert_global_syms::visit: each kind has its own names.
InsertGlobal ==
  /\ phase = "insert_global_syms" /\ InDocument
  /\ errors' = IF IsTarget(Block) /\ \E t \in Named(doc, Block.kind, Block.name) : t < at.t
               THEN errors \union {at.t} ELSE errors
  /\ at' = NextBlock
  /\ UNCHANGED <<project, doc, phase, calls, done, imported>>
-----------------------------------------------------------------------------
Frame(t) == [block |-> t, waits |-> FALSE]
Top == Last(calls)

\* The template that target t inherits from, 0 for none of this name.
Base(t) ==
  LET found == Named(doc, "template", doc[t].base)
  IN  IF found = {} THEN 0 ELSE CHOOSE b \in found : TRUE

\* The visitor comes to the next block.
VisitBlock ==
  /\ phase = "inheritance" /\ InDocument /\ calls = << >>
  /\ calls' = IF IsTarget(Block) THEN <<Frame(at.t)>> ELSE << >>
  /\ at' = NextBlock
  /\ UNCHANGED <<project, doc, phase, done, errors, imported>>

\* inheritance::visit up to the call for the base.
VisitBase ==
  /\ phase = "inheritance" /\ calls # << >> /\ ~Top.waits
  /\ LET t == Top.block
         enters == t \notin done /\ doc[t].base # ""
     IN  /\ done' = done \union {t}
         /\ errors' = IF enters /\ Base(t) = 0 THEN errors \union {t} ELSE errors
         /\ calls' = IF enters /\ Base(t) # 0
                     THEN Append([calls EXCEPT ![Len(calls)].waits = TRUE], Frame(Base(t)))
                     ELSE Front(calls)
  /\ UNCHANGED <<project, doc, phase, at, imported>>

\* Mutant of Inherited: the condition is left behind.
InheritedBody(t, b) ==
  LET own == doc[t]
  IN  [doc EXCEPT ![t] = [own EXCEPT !.dest = IF b.dest = "" THEN own.dest ELSE b.dest,
                                     !.body = own.body \o b.body]]

\* The document with what target t inherits from b.
Inherited(t, b) ==
  LET own == doc[t]
  IN  [doc EXCEPT ![t] = [own EXCEPT !.cond = IF b.cond = "" THEN own.cond ELSE b.cond,
                                     !.dest = IF b.dest = "" THEN own.dest ELSE b.dest,
                                     !.body = own.body \o b.body]]

\* The assertions of inheritance::visit: one of the two has it.
Clashes(t, b) == (t.cond # "" /\ b.cond # "") \/ (t.dest # "" /\ b.dest # "")

\* The rest of inheritance::visit.
CopyBase ==
  /\ phase = "inheritance" /\ calls # << >> /\ Top.waits
  /\ LET t == Top.block
         b == doc[Base(t)]
     IN  IF Clashes(doc[t], b)
         THEN phase' = "aborted" /\ UNCHANGED <<doc, calls>>
         ELSE doc' = Inherited(t, b) /\ calls' = Front(calls) /\ UNCHANGED phase
  /\ UNCHANGED <<project, at, done, errors, imported>>

\* A template that is its own base adds to the list it walks over, which
\* may be moved while it grows.
CopyMovingBase ==
  /\ phase = "inheritance" /\ calls # << >> /\ Top.waits
  /\ Base(Top.block) = Top.block /\ doc[Top.block].body # << >>
  /\ phase' = "crashed"
  /\ UNCHANGED <<project, doc, at, calls, done, errors, imported>>
-----------------------------------------------------------------------------
Flag == Section.items[at.i]
InFlags == InSection /\ Section.kind = "flags" /\ at.i <= Len(Section.items)
Lookup(name) ==
  LET among == IF Named(doc, "program", name) # {} THEN Named(doc, "program", name)
               ELSE Named(doc, "library", name)
  IN  IF among = {} THEN 0 ELSE CHOOSE t \in among : TRUE

PassFlags ==
  /\ phase = "resolve_flagsref" /\ InDocument
  /\ IF InFlags
     THEN Flag.op # "import" /\ at' = [at EXCEPT !.i = @ + 1]
     ELSE at' = IF InSection THEN NextSection ELSE NextBlock
  /\ UNCHANGED <<project, doc, phase, calls, done, errors, imported>>

\* tool () in the flags of this tool stands for the global flags.
ImportGlobal == Flag.from = "" /\ Flag.tool = Section.key
GlobalFlags(tool) == [op |-> "global", name |-> tool]

\* Mutant of FlagsOf: the flags of all tools.
FlagsOfAll(t, tool) ==
  FlattenSeq([s \in DOMAIN doc[t].body |->
    IF doc[t].body[s].kind = "flags" THEN <<doc[t].body[s]>> ELSE << >>])

\* The sections of flags of target t.
FlagsOf(t, tool) ==
  LET body == doc[t].body
      flags(s) == body[s].kind = "flags" /\ body[s].key = tool
  IN  FlattenSeq([s \in DOMAIN body |-> IF flags(s) THEN <<body[s]>> ELSE << >>])

\* clone: what has been unlinked is not copied.
Clone(section) == IF section.linked THEN section ELSE [section EXCEPT !.items = << >>]

\* An import once the list it is in has been unlinked, tool () for another
\* tool, an unknown target, or flags to be added outside of all targets.
Undefined ==
  IF ~Section.linked THEN TRUE
  ELSE IF ImportGlobal THEN FALSE
  ELSE IF Flag.from = "" THEN TRUE
  ELSE IF Lookup(Flag.from) = 0 THEN TRUE
  ELSE Block.kind = "toplevel" /\ FlagsOf(Lookup(Flag.from), Flag.tool) # << >>

\* resolve_flagsref::visit: the flags around an import go with it.
ImportFlags ==
  /\ phase = "resolve_flagsref" /\ InFlags /\ Flag.op = "import" /\ ~Undefined
  /\ LET copies == IF ImportGlobal THEN << >> ELSE FlagsOf(Lookup(Flag.from), Flag.tool)
     IN  IF ImportGlobal
         THEN /\ doc' = [doc EXCEPT ![at.t].body[at.s].items[at.i] = GlobalFlags(Flag.tool)]
              /\ UNCHANGED phase
         ELSE IF Len(Block.body \o copies) > MaxSections
         THEN phase' = "exhausted" /\ UNCHANGED doc
         ELSE /\ doc' = [doc EXCEPT ![at.t].body =
                           [@ EXCEPT ![at.s].linked = FALSE]
                             \o [k \in DOMAIN copies |-> Clone(copies[k])]]
              /\ UNCHANGED phase
  /\ at' = [at EXCEPT !.i = @ + 1]
  /\ UNCHANGED <<project, calls, done, errors, imported>>

\* A null pointer; or a body that is read while it grows and is moved.
ImportFlagsCrashes ==
  /\ phase = "resolve_flagsref" /\ InFlags /\ Flag.op = "import"
  /\ IF Undefined THEN TRUE
     ELSE IF ImportGlobal THEN FALSE
     ELSE Lookup(Flag.from) = at.t /\ FlagsOf(at.t, Flag.tool) # << >>
  /\ phase' = "crashed"
  /\ UNCHANGED <<project, doc, at, calls, done, errors, imported>>
-----------------------------------------------------------------------------
\* What default_destdir may find in its state when it comes to the block: it
\* is not initialised before the first program or library.
Defaults ==
  CASE Block.dest # "" \/ ~IsTarget(Block) -> {Block.dest}
    [] Block.kind = "program" -> {"bin"}
    [] Block.kind = "library" -> {"lib"}
    [] \E t \in 1..(at.t - 1) : doc[t].kind \in {"program", "library"} -> {""}
    [] OTHER -> {"", "bin", "lib"}

Installed(section) ==
  CASE section.kind = "install" /\ section.key = <<"", "HEADERS">> ->
         [section EXCEPT !.key[1] = "include"]
    [] section.kind = "install" /\ section.key = <<"", "SCRIPTS">> ->
         [section EXCEPT !.key[1] = "bin"]
    [] OTHER -> section

DefaultDest ==
  /\ phase = "default_destdir" /\ InDocument
  /\ \E dir \in Defaults :
       doc' = [doc EXCEPT ![at.t] =
                [Block EXCEPT !.dest = dir,
                              !.body = [s \in DOMAIN Block.body |-> Installed(Block.body[s])]]]
  /\ at' = NextBlock
  /\ UNCHANGED <<project, phase, calls, done, errors, imported>>

RemoveTemplate ==
  /\ phase = "remove_templates" /\ InDocument
  /\ doc' = IF Block.kind = "template"
            THEN [doc EXCEPT ![at.t] = [@ EXCEPT !.kind = "none", !.body = << >>]] ELSE doc
  /\ at' = NextBlock
  /\ UNCHANGED <<project, phase, calls, done, errors, imported>>

TargetsNext ==
  \/ ImportFile \/ PassDeclaration \/ ImportFails \/ AddDefaultFlags
  \/ NextTargetPhase \/ InsertGlobal \/ VisitBlock \/ VisitBase \/ CopyBase \/ CopyMovingBase
  \/ PassFlags \/ ImportFlags \/ ImportFlagsCrashes \/ DefaultDest \/ RemoveTemplate
=============================================================================
