----------------------------- MODULE BuildRules ------------------------------
(***************************************************************************)
(* From the table of recipes that inference has left to the rules in the   *)
(* Makefile: infer_target_objects adds the objects of each target to the   *)
(* table, instantiate_rules walks the table from what each target needs    *)
(* and puts the recipes it meets into the document, emit_rules prints the  *)
(* rules of the document (phases/infer_target_objects.cpp,                 *)
(* phases/instantiate_rules.cpp, phases/emit/emit_rules.cpp).              *)
(*                                                                         *)
(* The document is a row of blocks.  A block is a target, or a run of      *)
(* declarations outside of all targets:                                    *)
(*    target   whether it is a target                                      *)
(*    cond     the condition of the target, or NoCond                      *)
(*    sources  the files of its sources sections                           *)
(*    lists    its built_sources, data and test sections, each [files,     *)
(*             accept]: data and tests may exist already                   *)
(*    plain    the targets of the rules in it that have code and no        *)
(*             pattern: remove_patrules leaves these in the document       *)
(***************************************************************************)
EXTENDS Reachability, Sequences, SequencesExt

CONSTANTS
  Name,       (* files                                                     *)
  Cond,       (* conditions                                                *)
  NoCond,
  Projects,   (* what to check: [blocks, files, table], where files are    *)
              (* rule_info::files and table maps targets to recipes        *)
  ObjectOf,   (* ObjectOf[b][s]: object_name with the name of target b     *)
  SubdirOf,   (* SubdirOf[s]: object_name without it, cut when in_root     *)
  MaxDepth    (* how deep instantiate may call itself on the C stack       *)

Recipe(prereqs, code, cond) == [prereqs |-> prereqs, code |-> code, cond |-> cond]

Recipes == [prereqs : Seq(Name), code : BOOLEAN, cond : Cond \union {NoCond}]

Blocks == [target : BOOLEAN, cond : Cond \union {NoCond}, sources : Seq(Name),
           lists : Seq([files : Seq(Name), accept : BOOLEAN]), plain : Seq(Name)]

\* Sources outside of a target have no $TARGET, and stop the program before.
ASSUME ProjectAssumption ==
  /\ IsFiniteSet(Name)
  /\ NoCond \notin Cond
  /\ MaxDepth \in Nat
  /\ \A p \in Projects :
       /\ p.files \subseteq Name
       /\ DOMAIN p.table \subseteq p.files
       /\ \A f \in DOMAIN p.table : p.table[f] \in Recipes
       /\ p.blocks \in Seq(Blocks)
       /\ \A b \in DOMAIN p.blocks :
            /\ ~p.blocks[b].target => p.blocks[b].sources = << >>
            /\ \A s \in Range(p.blocks[b].sources) :
                 ObjectOf[b][s] \in Name /\ SubdirOf[s] \in Name
            /\ \A f \in Range(p.blocks[b].plain) :
                 /\ f \in DOMAIN p.table /\ p.table[f].code
                 /\ p.table[f].cond = p.blocks[b].cond

VARIABLES
  blocks,   (* the document                                                *)
  members,  (* the recipes put into each block, and into the toplevel, 0   *)
  phase,    (* the phase that runs, or how the program has ended           *)
  block,    (* the block its visitor is in                                 *)
  list,     (* the list of the block that instantiate_rules has come to    *)
  files,    (* rule_info::files                                            *)
  table,    (* rule_info::rules                                            *)
  objs,     (* target_objects: the objects of each target                  *)
  calls,    (* the calls of instantiate under way, outermost first         *)
  done,     (* instantiate_rules::done                                     *)
  errors,   (* error_log                                                   *)
  node,     (* the rule of the document that emit_rules has come to        *)
  seen,     (* emit_rules::seen                                            *)
  lines     (* the Makefile                                                *)

vars == <<blocks, members, phase, block, list, files, table, objs, calls, done,
          errors, node, seen, lines>>

Init ==
  /\ \E p \in Projects : blocks = p.blocks /\ files = p.files /\ table = p.table
  /\ members = [b \in 0..Len(blocks) |-> << >>]
  /\ phase = "infer_target_objects"
  /\ block = 1 /\ list = 1
  /\ objs = [b \in DOMAIN blocks |-> << >>]
  /\ calls = << >>
  /\ done = {}
  /\ errors = {}
  /\ node = 1
  /\ seen = {}
  /\ lines = << >>
-----------------------------------------------------------------------------
Objects(b) ==
  [i \in DOMAIN blocks[b].sources |-> ObjectOf[b][blocks[b].sources[i]]]

\* The source that object o of target b is made of: rule_info::rules is a
\* set, the first insertion of a target stands.
SourceOf(b, o) ==
  LET all == blocks[b].sources
  IN  all[CHOOSE i \in DOMAIN all :
            Objects(b)[i] = o /\ \A j \in DOMAIN all : Objects(b)[j] = o => i <= j]

\* The files that are known when target b has been visited.
Known(b) == files \union Range(Objects(b))

\* The table with an import rule for each object of target b.
WithObjects(b) ==
  [f \in DOMAIN table \union Range(Objects(b)) |->
     IF f \in DOMAIN table THEN table[f]
     ELSE Recipe(<<SubdirOf[SourceOf(b, f)]>>, FALSE, NoCond)]

\* infer_target_objects::visit of a target; a target must have objects.
InferObjects ==
  /\ phase = "infer_target_objects" /\ block <= Len(blocks)
  /\ IF blocks[block].target /\ Objects(block) = << >>
     THEN phase' = "aborted" /\ UNCHANGED <<block, objs, files, table>>
     ELSE /\ objs' = [objs EXCEPT ![block] = Objects(block)]
          /\ files' = Known(block)
          /\ table' = WithObjects(block)
          /\ block' = block + 1
          /\ UNCHANGED phase
  /\ UNCHANGED <<blocks, members, list, calls, done, errors, node, seen, lines>>

\* main: the next phase starts at the first block, unless there were errors.
NextPhase ==
  /\ block > Len(blocks)
  /\ \/ phase = "infer_target_objects" /\ phase' = "instantiate_rules"
     \/ /\ phase = "instantiate_rules"
        /\ phase' = IF errors = {} THEN "emit_rules" ELSE "failed"
  /\ block' = 1
  /\ UNCHANGED <<blocks, members, list, files, table, objs, calls, done, errors,
                 node, seen, lines>>

\* The lists of block b in the order of the calls: what is in the target
\* comes first, its objects last.
Lists(b) ==
  blocks[b].lists \o
    (IF blocks[b].target THEN <<[files |-> objs[b], accept |-> FALSE]>> ELSE << >>)

Call(fs, accept) == [files |-> fs, accept |-> accept, at |-> 1]

\* The visitor comes to the next list, or leaves the block.
NextList ==
  /\ phase = "instantiate_rules" /\ block <= Len(blocks) /\ calls = << >>
  /\ IF list <= Len(Lists(block))
     THEN /\ calls' = <<Call(Lists(block)[list].files, Lists(block)[list].accept)>>
          /\ list' = list + 1
          /\ UNCHANGED block
     ELSE list' = 1 /\ block' = block + 1 /\ UNCHANGED calls
  /\ UNCHANGED <<blocks, members, phase, files, table, objs, done, errors, node,
                 seen, lines>>

Top == Last(calls)
File == Top.files[Top.at]
InCall == calls # << >> /\ Top.at <= Len(Top.files)

Advanced == [calls EXCEPT ![Len(calls)].at = @ + 1]

\* Mutant of Missing: a file that may exist already may also be missing.
MissingUnlessAccepted(f) == f \notin DOMAIN table /\ ~Top.accept

\* No rule builds f, and it does not exist, or must not.
Missing(f) ==
  \/ f \notin files
  \/ f \notin DOMAIN table /\ ~Top.accept

ReportMissing ==
  /\ phase = "instantiate_rules" /\ InCall /\ Missing(File)
  /\ errors' = errors \union {File}
  /\ calls' = Advanced
  /\ UNCHANGED <<blocks, members, phase, block, list, files, table, objs, done,
                 node, seen, lines>>

AcceptExisting ==
  /\ phase = "instantiate_rules" /\ InCall /\ ~Missing(File)
  /\ File \notin DOMAIN table
  /\ calls' = Advanced
  /\ UNCHANGED <<blocks, members, phase, block, list, files, table, objs, done,
                 errors, node, seen, lines>>

\* The block whose members the recipes needed in block b are added to.
Home(b) == IF blocks[b].target THEN b ELSE 0

\* Mutant of Wanting: what has been instantiated is instantiated again.
WantingAlways(f) == table[f].code

\* instantiate (rule): a recipe that is not there yet, and has code.
Wanting(f) == f \notin done /\ table[f].code

\* Mutant of Deeper: the call is for the rule's own target.
DeeperItself(f) == <<Call(<<f>>, TRUE)>>

\* Mutant of Deeper: only import rules are looked behind.
DeeperUnlessCode(f) == IF table[f].code THEN << >> ELSE <<Call(table[f].prereqs, TRUE)>>

\* The call for the prerequisites of f, whether or not f was done before.
Deeper(f) == <<Call(table[f].prereqs, TRUE)>>

Instantiate ==
  /\ phase = "instantiate_rules" /\ InCall /\ ~Missing(File)
  /\ File \in DOMAIN table
  /\ members' = IF Wanting(File)
                THEN [members EXCEPT ![Home(block)] = Append(@, File)]
                ELSE members
  /\ done' = done \union {File}
  /\ IF Len(calls) < MaxDepth
     THEN calls' = Advanced \o Deeper(File) /\ UNCHANGED phase
     ELSE phase' = "overflow" /\ UNCHANGED calls
  /\ UNCHANGED <<blocks, block, list, files, table, objs, errors, node, seen, lines>>

Return ==
  /\ phase = "instantiate_rules" /\ calls # << >> /\ ~InCall
  /\ calls' = Front(calls)
  /\ UNCHANGED <<blocks, members, phase, block, list, files, table, objs, done,
                 errors, node, seen, lines>>
-----------------------------------------------------------------------------
\* The rules emit_rules lets through, in the order of the document.  A plain
\* rule has no fourth element, so its condition is not seen.
RuleNodes ==
  LET plain(b) == [i \in DOMAIN blocks[b].plain |->
                     [target |-> blocks[b].plain[i], cond |-> NoCond]]
      added(b) == [i \in DOMAIN members[b] |->
                     [target |-> members[b][i], cond |-> table[members[b][i]].cond]]
  IN  FlattenSeq([b \in DOMAIN blocks |-> plain(b) \o added(b)]) \o added(0)

Line(kind, what) == [kind |-> kind, what |-> what]

When(test, line) == IF test THEN <<line>> ELSE << >>

\* Mutant of Printed: a rule that is in the Makefile is printed again.
PrintedAgain(f) == FALSE

Printed(f) == f \in seen

\* emit_rules::visit (t_rule): the condition is printed before the early
\* return for a target that has been printed, and is not closed there.
EmitRule ==
  /\ phase = "emit_rules" /\ node <= Len(RuleNodes)
  /\ LET n    == RuleNodes[node]
         cond == n.cond # NoCond
     IN  /\ lines' = lines \o When(cond, Line("if", n.cond)) \o
              (IF Printed(n.target) THEN << >>
               ELSE <<Line("rule", n.target)>> \o When(cond, Line("endif", n.cond)))
         /\ seen' = seen \union {n.target}
  /\ node' = node + 1
  /\ UNCHANGED <<blocks, members, phase, block, list, files, table, objs, calls,
                 done, errors>>

Finish ==
  /\ phase = "emit_rules" /\ node > Len(RuleNodes)
  /\ phase' = "done"
  /\ UNCHANGED <<blocks, members, block, list, files, table, objs, calls, done,
                 errors, node, seen, lines>>

Next ==
  \/ InferObjects \/ NextPhase \/ NextList
  \/ ReportMissing \/ AcceptExisting \/ Instantiate \/ Return
  \/ EmitRule \/ Finish

Spec == Init /\ [][Next]_vars
-----------------------------------------------------------------------------
\* A source whose object the table makes of another file.
Displaced ==
  \E b \in DOMAIN blocks : \E i \in DOMAIN blocks[b].sources :
    SubdirOf[blocks[b].sources[i]] \notin Range(table[Objects(b)[i]].prereqs)

\* The files that must be built, and those that may exist already.
ToBuild ==
  UNION {Range(Objects(b)) \union
         UNION {Range(blocks[b].lists[i].files) :
                  i \in {j \in DOMAIN blocks[b].lists : ~blocks[b].lists[j].accept}} :
         b \in DOMAIN blocks}
ToHave ==
  UNION {{SubdirOf[s] : s \in Range(blocks[b].sources)} \union
         UNION {Range(blocks[b].lists[i].files) : i \in DOMAIN blocks[b].lists} :
         b \in DOMAIN blocks}

\* fs and all that is needed to make it, by the table.
Needed(fs) ==
  Reach(Name, fs, [f \in Name |-> IF f \in DOMAIN table THEN Range(table[f].prereqs) ELSE {}])

Acyclic ==
  \A f \in DOMAIN table : f \notin Needed(Range(table[f].prereqs))

Everything == Needed(ToBuild \union ToHave)

\* When rules have been instantiated without an error every file that some
\* target, object or test needs, at whatever distance, exists or has its
\* recipe in the document, in one place only; and no other recipe is there.
RecipesForNeeds ==
  phase \in {"emit_rules", "done"} /\ ~Displaced =>
    LET all == FlattenSeq([b \in 1..Len(blocks) |-> members[b]]) \o members[0]
    IN  /\ Everything \subseteq files
        /\ Range(all) = {f \in Everything \intersect DOMAIN table : table[f].code}
        /\ IsInjective(all)

\* A run fails exactly when something that is needed can be had in no way, or
\* what has to be built has no rule, however far from a target that is.
ErrorsForGaps ==
  /\ phase = "failed" => errors # {}
  /\ phase \in {"emit_rules", "failed", "done"} /\ ~Displaced =>
       errors = (Everything \ files) \union (ToBuild \ DOMAIN table)

\* The Makefile has one rule for a file at most, although the rule may be in
\* the document both as it was written and as it was instantiated; and when
\* all is printed none that is needed has been left out.
OneRuleInMakefile ==
  /\ \A i, j \in DOMAIN lines :
       lines[i] = lines[j] /\ lines[i].kind = "rule" => i = j
  /\ phase = "done" => \A b \in DOMAIN members : \A i \in DOMAIN members[b] :
       Line("rule", members[b][i]) \in Range(lines)

\* Recursion ends where the rules do: only rules that need each other can run
\* the program out of its stack.
OverflowsOnCyclesOnly == phase = "overflow" => ~Acyclic
=============================================================================
