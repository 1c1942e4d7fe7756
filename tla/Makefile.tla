------------------------------- MODULE Makefile ------------------------------
(***************************************************************************)
(* From the completed targets to the text of the Makefile: merge_blocks    *)
(* puts the sections of a target that have the same condition together and *)
(* the visitors that emit runs print what is left, one after the other     *)
(* (phases/merge_blocks.cpp, phases/emit/emit_tests.cpp, emit_headers.cpp, *)
(* emit_targets.cpp, emit_link.cpp, emit_flags.cpp, emit_SOURCES.cpp).     *)
(*                                                                         *)
(* A line of the Makefile is "if" or "endif", or it gives the variable var *)
(* a value ("=") or more of one ("+=").                                    *)
(***************************************************************************)
EXTENDS Targets, Reachability, Integers

CONSTANTS
  Cond,       (* the conditions of configure                               *)
  Dirs,       (* directories to install to, sorted                         *)
  Canonical   (* Canonical[kind][name]: util/canonical.h                   *)

ASSUME DirsAssumption == Dirs \in Seq(STRING) /\ IsInjective(Dirs)

VARIABLES
  blocks,     (* the maps of the mergers: <<kind, key, cond>> to the       *)
              (* section others are moved into, a <<block, section>>       *)
  lines       (* the Makefile                                              *)

vars == <<project, doc, phase, at, calls, done, errors, imported, blocks, lines>>

Init == TargetsInit /\ blocks = << >> /\ lines = << >>
-----------------------------------------------------------------------------
Outside(b) == b.kind \in {"toplevel", "extern", "none"}
Slot == <<Section.kind, Section.key, Section.cond>>

\* The maps that merge_blocks keeps from target to target.
Kept(kind) == kind \in {"extra", "built"}

\* merge_blocks::visit of a target; the position in the section says whether
\* the block has been entered.
EnterBlock ==
  /\ phase = "merge_blocks" /\ InDocument /\ at.s = 1 /\ at.i = 1
  /\ blocks' = IF Outside(Block) THEN blocks
               ELSE [b \in {b \in DOMAIN blocks : Kept(b[1])} |-> blocks[b]]
  /\ at' = [at EXCEPT !.i = 2]
  /\ UNCHANGED <<project, doc, phase, calls, done, errors, imported, lines>>

Entered == phase = "merge_blocks" /\ (at.s > 1 \/ at.i = 2)

LeaveBlock ==
  /\ Entered /\ InDocument /\ ~InSection
  /\ at' = NextBlock
  /\ UNCHANGED <<project, doc, phase, calls, done, errors, imported, blocks, lines>>

\* What merge_blocks has no visit for, and flags outside of all targets.
LeftAlone ==
  \/ Section.kind \in {"none", "nodist", "install"}
  \/ Section.kind = "flags" /\ Section.linked /\ Outside(Block)

PassSection ==
  /\ Entered /\ InSection /\ LeftAlone
  /\ at' = NextSection
  /\ UNCHANGED <<project, doc, phase, calls, done, errors, imported, blocks, lines>>

DropFlags ==
  /\ Entered /\ InSection /\ Section.kind = "flags" /\ ~Section.linked
  /\ doc' = [doc EXCEPT ![at.t].body[at.s].kind = "none"]
  /\ at' = NextSection
  /\ UNCHANGED <<project, phase, calls, done, errors, imported, blocks, lines>>

Mergeable == Entered /\ InSection /\ ~LeftAlone /\ (Section.kind = "flags" => Section.linked)

\* merger::visit of the first section with its condition.
Remember ==
  /\ Mergeable /\ Slot \notin DOMAIN blocks
  /\ blocks' = [b \in DOMAIN blocks \union {Slot} |->
                  IF b = Slot THEN <<at.t, at.s>> ELSE blocks[b]]
  /\ at' = NextSection
  /\ UNCHANGED <<project, doc, phase, calls, done, errors, imported, lines>>

\* Mutant of Merged: the section that is merged stays.
MergedKept(into) == [doc EXCEPT ![into[1]].body[into[2]].items = @ \o Section.items]

\* The document with the items moved to the section at into.
Merged(into) ==
  [doc EXCEPT ![into[1]].body[into[2]].items = @ \o Section.items,
              ![at.t].body[at.s].kind = "none"]

\* merger::visit of any other.  The merger of flags takes a list of flags
\* for a single flag: the cast throws.
Merge ==
  /\ Mergeable /\ Slot \in DOMAIN blocks
  /\ IF Section.kind = "flags"
     THEN phase' = "thrown" /\ UNCHANGED <<doc, at>>
     ELSE doc' = Merged(blocks[Slot]) /\ at' = NextSection /\ UNCHANGED phase
  /\ UNCHANGED <<project, calls, done, errors, imported, blocks, lines>>
-----------------------------------------------------------------------------
If(cond)    == IF cond = "" THEN << >> ELSE <<[op |-> "if", var |-> <<"", cond>>, vals |-> << >>]>>
Endif(cond) == IF cond = "" THEN << >> ELSE <<[op |-> "endif", var |-> <<"", cond>>, vals |-> << >>]>>

\* Mutant of Under: the condition is not closed.
UnderOpen(cond, ls) == If(cond) \o ls

Under(cond, ls) == If(cond) \o ls \o Endif(cond)

\* Mutant of Sign: every line starts anew.
SignAnew(var, ls) == "="

\* plus_writer, and the sets seen of emit_SOURCES and emit_flags: each
\* variable is printed by one visitor only, so what was seen is in the lines.
Sign(var, ls) == IF \E l \in Range(ls) : l.var = var THEN "+=" ELSE "="

Put(var, vals) == <<[op |-> Sign(var, lines), var |-> var, vals |-> vals]>>
Set(var, vals) == <<[op |-> "=", var |-> var, vals |-> vals]>>

NameOf(b) == Canonical[b.kind][b.name]
LinkVar(b) == <<IF b.kind = "program" THEN "LDADD" ELSE "LIBADD", NameOf(b)>>
InstallVar(section) == <<section.key[2], section.key[1]>>
FlagsVar(b, tool) == <<tool, IF Outside(b) THEN "AM" ELSE NameOf(b)>>

\* What each visitor of emit prints for the section it is in.
TestText ==
  Under(Block.cond, Under(Section.cond, Put(<<"TESTS", Section.key>>, Section.items)))
InstallText == Under(Block.cond, Under(Section.cond, Put(InstallVar(Section), Section.items)))
BuiltText   == Set(<<"BUILT_SOURCES", "">>, Section.items)
LinkText    == Under(Section.cond, Put(LinkVar(Block), Section.items))
FlagsText   == Put(FlagsVar(Block, Section.key), Section.items)
SourcesText == Under(Section.cond, Put(<<"SOURCES", NameOf(Block)>>, Section.items))
NodistText  == Put(<<"nodist_SOURCES", NameOf(Block)>>, Section.items)
ExtraText   == Set(<<"EXTRA_DIST", "">>, Section.items)

Text ==
  CASE phase = "emit_test"          /\ Section.kind = "test"    -> TestText
    [] phase = "emit_headers"       /\ Section.kind = "install" -> InstallText
    [] phase = "emit_built_sources" /\ Section.kind = "built"   -> BuiltText
    [] phase = "emit_link"          /\ Section.kind = "link"    -> LinkText
    [] phase = "emit_flags"         /\ Section.kind = "flags"   -> FlagsText
    [] phase = "emit_SOURCES"       /\ Section.kind = "sources" -> SourcesText
    [] phase = "emit_SOURCES"       /\ Section.kind = "nodist"  -> NodistText
    [] phase = "emit_SOURCES"       /\ Section.kind = "extra"   -> ExtraText
    [] OTHER -> << >>

EmitOrder == <<"merge_blocks", "emit_test", "emit_headers", "emit_built_sources",
               "emit_targets", "emit_link", "emit_flags", "emit_SOURCES", "done">>
Emitting == phase \in Range(EmitOrder) \ {"merge_blocks", "emit_targets", "done"}

\* Data without a directory to install it to: a null pointer.
NoDirectory ==
  phase = "emit_headers" /\ Section.kind = "install" /\ Section.key[1] = ""

\* A visitor of emit goes over the document.
EmitSection ==
  /\ Emitting /\ InDocument
  /\ IF InSection
     THEN IF NoDirectory THEN phase' = "crashed" /\ UNCHANGED <<at, lines>>
          ELSE lines' = lines \o Text /\ at' = NextSection /\ UNCHANGED phase
     ELSE at' = NextBlock /\ UNCHANGED <<lines, phase>>
  /\ UNCHANGED <<project, doc, calls, done, errors, imported, blocks>>

\* emit::visit; the constructor of emit_test prints two lines.
NextPhase ==
  /\ Emitting \/ phase = "merge_blocks"
  /\ ~InDocument
  /\ phase' = EmitOrder[1 + CHOOSE k \in DOMAIN EmitOrder : EmitOrder[k] = phase]
  /\ lines' = IF phase = "merge_blocks"
              THEN Set(<<"TESTS", "">>, << >>) \o Set(<<"TESTS", "XFAIL">>, << >>) ELSE lines
  /\ at' = Start
  /\ UNCHANGED <<project, doc, calls, done, errors, imported, blocks>>
-----------------------------------------------------------------------------
Group(kind, dir) ==
  FlattenSeq([t \in DOMAIN doc |->
    IF doc[t].kind = kind /\ doc[t].dest = dir THEN <<doc[t]>> ELSE << >>])
LinkedBy(b) ==
  {x.name : x \in {x \in UNION {Range(b.body[s].items) :
                                  s \in {s \in DOMAIN b.body : b.body[s].kind = "link"}} :
                   x.op = "lib"}}

\* print_targets: the targets of one directory, those with one condition in a
\* row under one "if".
Listing(var, group) ==
  LET cond(k) == IF k \in DOMAIN group THEN group[k].cond ELSE ""
      turn(k) == IF cond(k) = cond(k - 1) THEN << >> ELSE Endif(cond(k - 1)) \o If(cond(k))
      line(k) == IF k \in DOMAIN group
                 THEN <<[op |-> IF k = 1 THEN "=" ELSE "+=", var |-> var, vals |-> <<group[k].name>>]>>
                 ELSE << >>
  IN  FlattenSeq([k \in 1..(Len(group) + 1) |-> turn(k) \o line(k)])

\* Mutant of Orders: the other way round.
OrdersReversed(group) ==
  {o \in SetToSeqs(UNION {{b.name} \union LinkedBy(b) : b \in Range(group)}) :
     \A b \in Range(group) : \A n \in LinkedBy(b) :
       \E i, k \in DOMAIN o : o[i] = b.name /\ o[k] = n /\ i < k}

\* graph::sorted, up to the order of what does not depend on each other: the
\* libraries of a group and those they are linked to, none if they are in a
\* circle.
Orders(group) ==
  {o \in SetToSeqs(UNION {{b.name} \union LinkedBy(b) : b \in Range(group)}) :
     \A b \in Range(group) : \A n \in LinkedBy(b) :
       \E i, k \in DOMAIN o : o[i] = n /\ o[k] = b.name /\ i < k}

\* A name that no library of the group has gives an empty target.
InOrder(group, o) ==
  [k \in DOMAIN o |->
     IF \E b \in Range(group) : b.name = o[k]
     THEN CHOOSE b \in Range(group) : b.name = o[k] ELSE [name |-> "", cond |-> ""]]

\* emit_targets after its walk over the document: at counts the directories.
PrintPrograms ==
  /\ phase = "emit_targets" /\ at.s = 1
  /\ IF at.t <= Len(Dirs)
     THEN /\ lines' = lines \o Listing(<<"PROGRAMS", Dirs[at.t]>>, Group("program", Dirs[at.t]))
          /\ at' = [at EXCEPT !.t = @ + 1]
     ELSE at' = [Start EXCEPT !.s = 2] /\ UNCHANGED lines
  /\ UNCHANGED <<project, doc, phase, calls, done, errors, imported, blocks>>

PrintLibraries ==
  /\ phase = "emit_targets" /\ at.s = 2 /\ at.t <= Len(Dirs)
  /\ LET group == Group("library", Dirs[at.t])
         print(g) == /\ lines' = lines \o Listing(<<"LTLIBRARIES", Dirs[at.t]>>, g)
                     /\ at' = [at EXCEPT !.t = @ + 1]
                     /\ UNCHANGED phase
     IN  IF Len(group) <= 1 THEN print(group)
         ELSE IF Orders(group) = {} THEN phase' = "thrown" /\ UNCHANGED <<at, lines>>
         ELSE \E o \in Orders(group) : print(InOrder(group, o))
  /\ UNCHANGED <<project, doc, calls, done, errors, imported, blocks>>

FinishTargets ==
  /\ phase = "emit_targets" /\ at.s = 2 /\ at.t > Len(Dirs)
  /\ phase' = "emit_link"
  /\ at' = Start
  /\ UNCHANGED <<project, doc, calls, done, errors, imported, blocks, lines>>

Next ==
  \/ TargetsNext /\ UNCHANGED <<blocks, lines>>
  \/ EnterBlock \/ LeaveBlock \/ PassSection \/ DropFlags \/ Remember \/ Merge
  \/ EmitSection \/ NextPhase \/ PrintPrograms \/ PrintLibraries \/ FinishTargets

Spec == Init /\ [][Next]_vars
-----------------------------------------------------------------------------
\* The value of var when the conditions in on hold, as a bag.
Value(var, on) ==
  LET step(acc, l) ==
        CASE l.op = "if"    -> [acc EXCEPT !.ifs = Append(@, l.var[2])]
          [] l.op = "endif" -> [acc EXCEPT !.ifs = Front(@)]
          [] l.var = var /\ Range(acc.ifs) \subseteq on ->
               [acc EXCEPT !.val = IF l.op = "=" THEN l.vals ELSE @ \o l.vals]
          [] OTHER -> acc
  IN  ToBag(FoldLeft(step, [ifs |-> << >>, val |-> << >>], lines).val)

TargetOf(name) ==
  LET among(kind) == Named(project, kind, name)
      found == IF among("program") # {} THEN among("program") ELSE among("library")
  IN  IF found = {} THEN 0 ELSE CHOOSE t \in found : TRUE

BaseIn(t) ==
  LET found == Named(project, "template", project[t].base)
  IN  IF ~IsTarget(project[t]) \/ project[t].base = "" \/ found = {} THEN 0
      ELSE CHOOSE b \in found : TRUE

\* What can be reached from x over the edges, x itself included.
Reached(edges, x) ==
  LET ends == {x} \union {e[2] : e \in edges}
  IN  Reach(ends, {x}, [y \in ends |-> {e[2] : e \in {e \in edges : e[1] = y}}])
Circle(edges) == \E e \in edges : e[1] \in Reached(edges, e[2])

Bases == {<<t, BaseIn(t)>> : t \in {t \in DOMAIN project : BaseIn(t) # 0}}
CircularBases == Circle(Bases)
Ancestry(t) == Reached(Bases, t)
Built == {t \in DOMAIN project : project[t].kind \in {"program", "library"}}
CondsOf(t) == {project[u].cond : u \in Ancestry(t)} \ {""}
DestOf(t) ==
  LET own == {project[u].dest : u \in Ancestry(t)} \ {""}
  IN  IF own # {} THEN CHOOSE d \in own : TRUE
      ELSE IF project[t].kind = "program" THEN "bin" ELSE "lib"

\* The sections of block u of this kind and key that the conditions enable.
Enabled(u, kind, key, on) ==
  LET body == project[u].body
  IN  {<<u, s>> : s \in {s \in DOMAIN body : body[s].kind = kind /\ body[s].key = key
                                               /\ body[s].cond \in on \union {""}}}

\* The flag that stands for an import.
Meant(x) == IF x.op = "import" THEN GlobalFlags(x.tool) ELSE x
ItemsOf(sections) ==
  LET row == SetToSeq(sections)
  IN  FlattenSeq([k \in DOMAIN row |->
        LET items == project[row[k][1]].body[row[k][2]].items
        IN  [i \in DOMAIN items |-> Meant(items[i])]])
Declared(t, kind, key, on) == ItemsOf(UNION {Enabled(u, kind, key, on) : u \in Ancestry(t)})

Everything ==
  UNION {{[block |-> t, section |-> project[t].body[s]] : s \in DOMAIN project[t].body} :
           t \in DOMAIN project}
Keys(kind)  == {x.section.key : x \in {x \in Everything : x.section.kind = kind}}
Conds(kind) == {x.section.cond : x \in {x \in Everything : x.section.kind = kind}}

NamesDiffer == \A t, u \in Built : NameOf(project[t]) = NameOf(project[u]) => t = u

\* However the conditions are set, the sources and libraries of a target are
\* those that it and the templates it inherits from declare under them, each
\* as often as it is declared: nothing is lost, doubled or put under another
\* condition or into another target on the way through inheritance, merging
\* and printing; and each target is installed where it says, when its own
\* condition or that of its templates holds (.web/template.pod:1-5).
TargetsHaveWhatTheyDeclare ==
  phase = "done" /\ ~CircularBases /\ NamesDiffer =>
    \A on \in SUBSET Cond : \A t \in Built :
      /\ Value(<<"SOURCES", NameOf(project[t])>>, on) = ToBag(Declared(t, "sources", "", on))
      /\ Value(LinkVar(project[t]), on) = ToBag(Declared(t, "link", "", on))
      /\ LET listed == IF project[t].kind = "program" THEN "PROGRAMS" ELSE "LTLIBRARIES"
         IN  BagIn(project[t].name, Value(<<listed, DestOf(t)>>, on)) <=> CondsOf(t) \subseteq on

ImportsFrom(section) == \E x \in Range(section.items) : x.op = "import" /\ x.from # ""
FlagEdges(tool) ==
  {p \in (DOMAIN project) \X (DOMAIN project) :
     \E u \in Ancestry(p[1]) : \E section \in Range(project[u].body) :
       section.kind = "flags" /\ \E f \in Range(section.items) :
         f.op = "import" /\ f.tool = tool /\ f.from # "" /\ TargetOf(f.from) = p[2]}

\* Imports are for the tool of their section, and no flags have a condition.
PlainFlags ==
  /\ Conds("flags") \subseteq {""}
  /\ \A x \in Everything : x.section.kind = "flags" =>
       \A f \in Range(x.section.items) : f.op = "import" => f.tool = x.section.key

\* The flags of a target are those that it, its templates and the targets it
\* imports flags from list, over any number of imports; a section with an
\* import gives up its other flags (resolve_flagsref.cpp:33-50).  Flags listed
\* outside of all targets, here or in an imported file, are for all targets,
\* and with them preprocessors get the include paths of the project.
FlagsComeFromTheirTargets ==
  phase = "done" /\ ~CircularBases /\ NamesDiffer /\ PlainFlags =>
    \A tool \in Keys("flags") \union {"cppflags"} :
      LET plain(ts) == ItemsOf({p \in UNION {Enabled(u, "flags", tool, {}) : u \in ts} :
                              ~ImportsFrom(project[p[1]].body[p[2]])})
          outside == {t \in DOMAIN project : project[t].kind = "toplevel"}
          paths   == IF tool = "cppflags" THEN IncludePaths ELSE << >>
      IN  /\ Value(<<tool, "AM">>, {}) = ToBag(plain(outside) \o paths)
          /\ \A t \in Built :
               Value(FlagsVar(project[t], tool), {}) =
                 ToBag(plain(UNION {Ancestry(v) : v \in Reached(FlagEdges(tool), t)}))

\* A conditional target before a test outside of all targets.
TestsAfterCondition ==
  \E t, u \in DOMAIN project :
    t < u /\ CondsOf(t) # {} /\ project[u].kind = "toplevel"
      /\ \E key \in Keys("test") : Enabled(u, "test", key, Cond) # {}

\* All that the blocks of the document declare, under their conditions.
AllDeclared(kind, key, on) ==
  FlattenSeq([t \in DOMAIN project |->
    IF project[t].kind # "template" /\ CondsOf(t) \subseteq on
    THEN Declared(t, kind, key, on) ELSE << >>])

\* What is not tied to one target: the tests of all targets whose conditions
\* hold, all files to distribute and, where these are listed without any
\* condition, all files to build first, wherever they are listed in the
\* document and whatever is merged into what.  Of files to build first in a
\* conditional target nothing is said: the code builds them whatever the
\* condition, while only extra_dist should not share it (target.pod:198-199).
GlobalsCollectAll ==
  phase = "done" /\ ~CircularBases =>
    /\ ~TestsAfterCondition =>
         \A on \in SUBSET Cond : \A key \in Keys("test") :
           Value(<<"TESTS", key>>, on) = ToBag(AllDeclared("test", key, on))
    /\ Cardinality(Conds("extra")) = 1 =>
         Value(<<"EXTRA_DIST", "">>, {}) = ToBag(AllDeclared("extra", "", Cond))
    /\ Conds("built") # {} /\ AllDeclared("built", "", {}) = AllDeclared("built", "", Cond) =>
         Value(<<"BUILT_SOURCES", "">>, {}) = ToBag(AllDeclared("built", "", Cond))

Printed(var) == FlattenSeq([k \in DOMAIN lines |-> IF lines[k].var = var THEN lines[k].vals ELSE << >>])

\* The libraries of a directory are printed once each, and after those they
\* are linked to, if these go to the same directory (.web/target.pod:120-123).
LibrariesInOrder ==
  phase = "done" /\ ~CircularBases =>
    \A dir \in Range(Dirs) :
      LET group == {t \in Built : project[t].kind = "library" /\ DestOf(t) = dir}
          names == {project[t].name : t \in group}
          o     == Printed(<<"LTLIBRARIES", dir>>)
          links(t) == UNION {LinkedBy(b) : b \in {b \in Range(doc) :
                        b.kind = "library" /\ b.name = project[t].name}}
      IN  (\A t \in group : links(t) \subseteq names) =>
            /\ Range(o) = names /\ Len(o) = Cardinality(group)
            /\ \A t \in group : \A n \in links(t) :
                 \E i, k \in DOMAIN o : o[i] = n /\ o[k] = project[t].name /\ i < k

\* "if" and "endif" are paired; a variable is set before it is added to, and
\* not set again, but for extra_dist with different conditions.
ReadableMakefile ==
  phase = "done" =>
    LET depth(k) == Cardinality({i \in 1..k : lines[i].op = "if"})
                      - Cardinality({i \in 1..k : lines[i].op = "endif"})
    IN  /\ \A k \in DOMAIN lines : depth(k) >= 0
        /\ depth(Len(lines)) = 0
        /\ \A k \in DOMAIN lines : lines[k].op \in {"=", "+="} =>
             LET first == \A i \in 1..(k - 1) : lines[i].var # lines[k].var
             IN  IF first THEN lines[k].op = "="
                 ELSE lines[k].op = "+=" \/ lines[k].var = <<"EXTRA_DIST", "">>

\* Two sections of flags that merge_blocks has to merge.
FlagsMeet ==
  \E t \in DOMAIN doc : \E i, k \in DOMAIN doc[t].body :
    /\ i # k /\ doc[t].body[i].kind = "flags" /\ doc[t].body[k].kind = "flags"
    /\ doc[t].body[i].key = doc[t].body[k].key /\ doc[t].body[i].cond = doc[t].body[k].cond

\* Sections of flags that resolve_flagsref is not made for: the second import
\* after one from a target, and what Undefined says of the first.
BadImports ==
  \E x \in Everything :
    /\ x.section.kind = "flags"
    /\ LET fs == x.section.items
           global(k) == fs[k].from = "" /\ fs[k].tool = x.section.key
       IN  \E k \in DOMAIN fs :
             /\ fs[k].op = "import"
             /\ \/ ~global(k) /\ (TargetOf(fs[k].from) = 0 \/ project[x.block].kind = "toplevel")
                \/ \E i \in 1..(k - 1) : fs[i].op = "import" /\ ~global(i)

\* A run ends before all else when it asks for a rule file that is not there,
\* itself or by way of others, or does so in quotes that are not double.
FilesMissing == ~(Externs(project) \subseteq {<<f, "double">> : f \in DOMAIN RuleFiles})

\* The library of a link is none of the project.
BadLink ==
  \E x \in Everything : x.section.kind = "link" /\ \E f \in Range(x.section.items) :
    f.op = "lib" /\ Named(project, "library", f.name) = {}

\* The libraries of one directory and those of it that they are linked to.
Linked ==
  {p \in (DOMAIN doc) \X (DOMAIN doc) :
     /\ doc[p[1]].kind = "library" /\ doc[p[2]].kind = "library"
     /\ doc[p[1]].dest = doc[p[2]].dest /\ doc[p[2]].name \in LinkedBy(doc[p[1]])}

\* Exceptions come of such files, of two sections of flags in one target, and
\* of libraries of one directory that are linked in a circle.
ThrowsForAReason == phase = "thrown" => FilesMissing \/ FlagsMeet \/ Circle(Linked)

FilesAreThere == phase = "done" => ~FilesMissing

\* No document ends a run without a reason in it.  A run may fail when two
\* targets have one name, counting those of rule files once, or a template
\* does not exist.  An assertion fails when a target and a template it inherits
\* from both have a condition, or both a directory; the program dies or grows
\* of circles of templates or imports, of imports it cannot resolve and of data
\* without a directory; and there are files and exceptions as above.  What the
\* manual calls an error is a reason to fail, too: a link to a library that the
\* project does not have (target.pod:123-124) and a template that is inherited
\* from twice, as in a circle (template.pod:84-86).  Whether a run ends for
\* these two is left open: the code lets many of them pass.
EndsForAReason ==
  LET imports == UNION {FlagEdges(tool) : tool \in Keys("flags")}
  IN  /\ FilesAreThere /\ ThrowsForAReason
      /\ phase = "failed" =>
           \/ \E t, u \in DOMAIN project :
                /\ t # u /\ IsTarget(project[t])
                /\ project[t].kind = project[u].kind /\ project[t].name = project[u].name
           \/ \E t \in DOMAIN project : IsTarget(project[t]) /\ project[t].base # "" /\ BaseIn(t) = 0
           \/ BadLink \/ CircularBases
      /\ phase = "aborted" => FilesMissing \/
           \E t \in DOMAIN project : BaseIn(t) # 0 /\ \E u \in Ancestry(BaseIn(t)) :
             \/ project[t].cond # "" /\ project[u].cond # ""
             \/ project[t].dest # "" /\ project[u].dest # ""
      /\ phase = "exhausted" => Circle(imports)
      /\ phase = "crashed" =>
           \/ CircularBases \/ Circle(imports) \/ BadImports
           \/ \E x \in Everything : x.section.kind = "install" /\ x.section.key[1] = ""
=============================================================================
