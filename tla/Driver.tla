------------------------------- MODULE Driver --------------------------------
(***************************************************************************)
(* The program from start to end (main.cpp), again and again on the same   *)
(* source tree: it parses the project, opens Makefile.am for writing if    *)
(* that is absent or its own (annotations/output_file.cpp), runs a list of *)
(* phases that exchange annotations (phases.cpp, annotation_map.cpp), and  *)
(* runs autoreconf when no phase has reported an error.  At any moment it  *)
(* may be killed, and between two runs the user may write a Makefile.am or *)
(* remove it.                                                              *)
(*                                                                         *)
(* configure.ac is opened like Makefile.am and gets the signature only, so *)
(* it is left out.                                                         *)
(***************************************************************************)
EXTENDS Naturals, Sequences, FiniteSets, SequencesExt

CONSTANTS
  Phase,       (* the registered phases                                    *)
  Gets,        (* Gets[p]: annotations the visitor of p asks for           *)
  Puts,        (* Puts[p]: annotations it puts there                       *)
  Reports,     (* phases that may report an error                          *)
  Throws,      (* phases that may throw, or fail an assertion              *)
  UserLists    (* lists of phases the user may ask for                     *)

\* all_phases
AllPhases ==
  <<"audit", "imports", "default_flags",
    "insert_this_syms", "default_prereq", "expand_vars",
    "insert_global_syms", "inheritance", "resolve_flagsref", "default_destdir",
    "insert_vardecl_syms", "insert_varadd_syms",
    "expand_vars", "flatten_vars", "reparse_vars",
    "multirule", "flatten_filenames", "inference",
    "resolve_sources", "resolve_wildcards", "resolve_sourcesref",
    "remove_patrules", "exclude", "insert_target_syms",
    "infer_target_objects", "instantiate_rules", "resolve_tools",
    "clean_rules", "resolve_shortvars", "expand_filtervars",
    "expand_vars", "flatten_vars", "reparse_vars",
    "squarevars", "flatten_rules", "remove_templates", "merge_blocks", "emit">>

ASSUME PhaseAssumption ==
  /\ Range(AllPhases) \subseteq Phase
  /\ Gets \in [Phase -> SUBSET STRING] /\ Puts \in [Phase -> SUBSET STRING]
  /\ Reports \subseteq Phase /\ Throws \subseteq Phase

\* Nothing that emit runs adds to the error log.
ASSUME EmitAssumption == "emit" \notin Reports

VARIABLES
  makefile,  (* Makefile.am: "absent", "foreign", "empty", and of our own  *)
             (* "signed", "partial" or "full"                              *)
  pc,        (* what the program is doing; "idle" between two runs         *)
  list,      (* to_run                                                     *)
  at,        (* the phase of list that is next                             *)
  annots,    (* annotation_map                                             *)
  errors,    (* error_log::has_errors                                      *)
  written,   (* emit has run                                               *)
  status     (* how the last run, or the one under way, has gone           *)

vars == <<makefile, pc, list, at, annots, errors, written, status>>

Own == {"signed", "partial", "full"}

Init ==
  /\ makefile \in {"absent", "foreign"}
  /\ pc = "idle"
  /\ list = << >> /\ at = 1
  /\ annots = {}
  /\ errors = FALSE /\ written = FALSE
  /\ status = "none"

\* The program is started; without --phase arguments it runs all phases.
Start ==
  /\ pc = "idle"
  /\ list' \in UserLists \union {AllPhases}
  /\ at' = 1
  /\ annots' = {} /\ errors' = FALSE /\ written' = FALSE
  /\ pc' = "parse" /\ status' = "none"
  /\ UNCHANGED makefile

\* parse_files may return a document with a syntax error in the log, when the
\* error is behind a declaration; Parser shows when.
Parse ==
  /\ pc = "parse"
  /\ errors' \in BOOLEAN
  /\ \/ annots' = {"files"} /\ pc' = "check" /\ UNCHANGED status
     \/ errors' /\ pc' = "idle" /\ status' = "failure" /\ UNCHANGED annots
  /\ UNCHANGED <<makefile, list, at, written>>

\* Mutant of Mine: the signature is not compared.
MineAnyway == TRUE

\* open_if_mine: an absent file or one that begins with the signature.
Mine == makefile \notin {"foreign", "empty"}

\* The constructor of output_file: the file is truncated before any phase
\* has run, or the assertion fails.
Open ==
  /\ pc = "check"
  /\ IF Mine THEN makefile' = "empty" /\ pc' = "sign" /\ UNCHANGED status
     ELSE pc' = "idle" /\ status' = "not mine" /\ UNCHANGED makefile
  /\ UNCHANGED <<list, at, annots, errors, written>>

\* What main puts into the annotations before the first phase.
Shared == {"output", "errors", "symtab"}

Sign ==
  /\ pc = "sign"
  /\ makefile' = "signed"
  /\ annots' = annots \union Shared
  /\ pc' = "run"
  /\ UNCHANGED <<list, at, errors, written, status>>

\* The output file is closed when the run of the phases is left.
Leave(how) ==
  /\ makefile' = IF written THEN "full" ELSE makefile
  /\ status' = how
  /\ pc' = IF how = "success" THEN "autoreconf" ELSE "idle"

\* annotation_map::get of what is not there, store of what is, an unknown
\* phase.
Unavailable(p) ==
  ~ /\ p \in Phase
    /\ Gets[p] \subseteq annots
    /\ Puts[p] \intersect annots = {}

\* Mutant of Going: the loop is left for an exception only.
GoingAnyway == at <= Len(list)

\* Errors are asked for behind a phase, so the first runs in spite of those
\* of the parser.
Going == at <= Len(list) /\ (errors => at = 1)

\* Mutant of Put: a phase takes its annotations with it.
PutNothing(p) == annots

Put(p) == annots \union Puts[p]

RunPhase ==
  /\ pc = "run" /\ Going
  /\ LET p == list[at]
     IN  \/ /\ Unavailable(p)
            /\ Leave("annotation")
            /\ UNCHANGED <<at, annots, errors, written>>
         \/ /\ ~Unavailable(p)
            /\ annots' = Put(p)
            /\ errors' \in (IF p \in Reports THEN BOOLEAN ELSE {errors})
            /\ written' = (written \/ p = "emit")
            /\ makefile' = IF p = "emit" THEN "partial" ELSE makefile
            /\ at' = at + 1
            /\ UNCHANGED <<pc, status>>
  /\ UNCHANGED list

\* An exception out of a phase; emit may have written some of the file.
Throw ==
  /\ pc = "run" /\ Going
  /\ list[at] \in Throws
  /\ ~Unavailable(list[at])
  /\ makefile' \in (IF list[at] = "emit" THEN {"signed", "partial"}
                    ELSE IF written THEN {"full"} ELSE {makefile})
  /\ status' = "exception" /\ pc' = "idle"
  /\ UNCHANGED <<list, at, annots, errors, written>>

EndOfPhases ==
  /\ pc = "run" /\ ~Going
  /\ Leave(IF errors THEN "failure" ELSE "success")
  /\ UNCHANGED <<list, at, annots, errors, written>>

Autoreconf ==
  /\ pc = "autoreconf"
  /\ pc' = "idle"
  /\ UNCHANGED <<makefile, list, at, annots, errors, written, status>>

\* The program is killed where it stands; an interrupt leaves through exit,
\* which flushes what emit has written.
Kill ==
  /\ pc # "idle"
  /\ pc' = "idle" /\ status' = "killed"
  /\ makefile' \in {makefile} \union (IF pc = "run" /\ written THEN {"full"} ELSE {})
  /\ UNCHANGED <<list, at, annots, errors, written>>

\* The user writes a Makefile.am by hand, or removes the one that is there.
Edit ==
  /\ pc = "idle"
  /\ makefile' \in {"foreign", "absent"}
  /\ UNCHANGED <<pc, list, at, annots, errors, written, status>>

Run == Start \/ Parse \/ Open \/ Sign \/ RunPhase \/ Throw \/ EndOfPhases \/ Autoreconf

Next == Run \/ Kill \/ Edit

Spec == Init /\ [][Next]_vars
-----------------------------------------------------------------------------
\* Whatever list of phases is run, and whatever fails, a Makefile.am that was
\* written by hand is never overwritten.
ForeignKept == [][makefile = "foreign" /\ pc # "idle" => makefile' = "foreign"]_vars

\* The order of all_phases is written by hand: no phase in it asks for an
\* annotation that none before it has made, and none makes one again.
AnnotationsInOrder == list = AllPhases => status # "annotation"

\* autoreconf sees the complete Makefile.am of a run of all phases without an
\* error, not what an earlier run, one that failed or one that was killed,
\* has left; and an error that a phase reports never leaves part of the
\* rules, only the signature.
CompleteOrNothing ==
  [][list = AllPhases =>
       /\ pc' = "autoreconf" => makefile' = "full" /\ ~errors
       /\ pc = "run" /\ status' = "failure" => makefile' = "signed"]_vars
=============================================================================
