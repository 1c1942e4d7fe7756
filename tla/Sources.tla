------------------------------- MODULE Sources -------------------------------
(***************************************************************************)
(* From the sources sections as they are written to the files each target  *)
(* is made of: resolve_sources finds the plain file names, relative to the *)
(* rules file or to the root, resolve_wildcards replaces the lists that    *)
(* have wildcards, resolve_sourcesref copies the sections of other targets *)
(* and exclude takes files out again (phases/resolve_sources.cpp,          *)
(* phases/resolve_wildcards.cpp, phases/resolve_sourcesref.cpp,            *)
(* phases/exclude.cpp).                                                    *)
(*                                                                         *)
(* The document is a row of blocks [kind, name, body]: a program, a        *)
(* library, a template, or declarations outside of all targets.  A body is *)
(* a row of sections [own, items]: own holds for sources sections, not for *)
(* nodist_sources, extra_dist and tests.  An item is                       *)
(*    [op |-> "file", dir, name]   a name, and the directory of the file   *)
(*                                 it is written in (<< >> for a name that *)
(*                                 starts with a slash); paths are         *)
(*                                 sequences of their parts                *)
(*    [op |-> "wild", matches]     a wildcard, with what it matches        *)
(*    [op |-> "ref", name]         sources (name)                          *)
(*    [op |-> "exclude", items]    exclude { items }                       *)
(*    [op |-> "none"]              the slot of a node that was unlinked    *)
(***************************************************************************)
EXTENDS Reachability, Sequences, SequencesExt

CONSTANTS
  Path,         (* files                                                   *)
  FileList,     (* the files in the tree, sorted: annotation "files"       *)
  Buildable,    (* rule_info::files                                        *)
  Projects,     (* the documents to check                                  *)
  MaxSections   (* when a body that grows for ever fills the memory        *)

None == [op |-> "none"]

\* What may stand in an exclude, which cannot hold another one.
Plain ==
  [op : {"file"}, dir : Seq(STRING), name : Seq(STRING)] \union
  [op : {"wild"}, matches : SUBSET Path] \union [op : {"ref"}, name : STRING] \union {None}
Items == Plain \union [op : {"exclude"}, items : Seq(Plain)]

Sections == [own : BOOLEAN, items : Seq(Items)]
Blocks == [kind : {"program", "library", "template", "toplevel"}, name : STRING,
           body : Seq(Sections)]

ASSUME SourcesAssumption ==
  /\ Path \subseteq Seq(STRING)
  /\ FileList \in Seq(Path) /\ Buildable \subseteq Path
  /\ MaxSections \in Nat
  /\ Projects \subseteq Seq(Blocks)

VARIABLES
  project,      (* the document as it was parsed                           *)
  doc,          (* the document                                            *)
  phase,        (* the phase that runs, or how the program has ended       *)
  at,           (* block, section, item and item of an exclude that the    *)
                (* visitor comes to next                                   *)
  inSources,    (* in_sources of the two phases that have it               *)
  wildcards,    (* resolve_wildcards::wildcards                            *)
  sourceFiles,  (* resolve_wildcards::source_files                         *)
  errors        (* names that could not be resolved                        *)

vars == <<project, doc, phase, at, inSources, wildcards, sourceFiles, errors>>

Start == [t |-> 1, s |-> 1, i |-> 0, j |-> 0]

Init ==
  /\ project \in Projects
  /\ doc = project
  /\ phase = "resolve_sources"
  /\ at = Start
  /\ inSources = FALSE
  /\ wildcards = << >>
  /\ sourceFiles = << >>
  /\ errors = {}
-----------------------------------------------------------------------------
File(path) == [op |-> "file", dir |-> << >>, name |-> path]

Outer == doc[at.t].body[at.s].items
Nested == at.j > 0
List == IF Nested THEN Outer[at.i].items ELSE Outer
Here == IF Nested THEN at.j ELSE at.i
Item == List[Here]

\* resolve_sources does not go into templates.
Skipped == phase = "resolve_sources" /\ doc[at.t].kind = "template"
InBody == at.t <= Len(doc) /\ ~Skipped /\ at.s <= Len(doc[at.t].body)
AtItem == InBody /\ at.i > 0 /\ Here <= Len(List)
AtEnd == InBody /\ at.i > 0 /\ Here > Len(List)
AtList ==
  \/ InBody /\ at.i = 0
  \/ AtItem /\ ~Nested /\ Item.op = "exclude" /\ phase # "exclude"

Past == IF Nested THEN [at EXCEPT !.j = @ + 1] ELSE [at EXCEPT !.i = @ + 1]

Inside == IF at.i = 0 THEN [at EXCEPT !.i = 1] ELSE [at EXCEPT !.j = 1]
Behind == IF Nested THEN [at EXCEPT !.i = @ + 1, !.j = 0]
          ELSE [at EXCEPT !.s = @ + 1, !.i = 0]

\* The document with the list, or the item, that is visited replaced.
WithList(items) ==
  IF Nested THEN [doc EXCEPT ![at.t].body[at.s].items[at.i].items = items]
  ELSE [doc EXCEPT ![at.t].body[at.s].items = items]
WithItem(item) == WithList([List EXCEPT ![Here] = item])

NextPhase ==
  /\ at.t > Len(doc)
  /\ \/ /\ phase = "resolve_sources"
        /\ phase' = IF errors = {} THEN "resolve_wildcards" ELSE "failed"
     \/ phase = "resolve_wildcards" /\ phase' = "resolve_sourcesref"
     \/ phase = "resolve_sourcesref" /\ phase' = "exclude"
     \/ phase = "exclude" /\ phase' = "done"
  /\ at' = Start
  /\ UNCHANGED <<project, doc, inSources, wildcards, sourceFiles, errors>>

Running == phase \in {"resolve_sources", "resolve_wildcards", "resolve_sourcesref", "exclude"}

NextBlock ==
  /\ Running /\ at.t <= Len(doc) /\ ~InBody
  /\ at' = [Start EXCEPT !.t = at.t + 1]
  /\ UNCHANGED <<project, doc, phase, inSources, wildcards, sourceFiles, errors>>

\* Items that a phase has nothing to do with.
Pass ==
  /\ Running /\ AtItem /\ ~AtList
  /\ Item.op \notin CASE phase = "resolve_sources"    -> {"file"}
                      [] phase = "resolve_wildcards"  -> {"file", "wild"}
                      [] phase = "resolve_sourcesref" -> {"ref"}
                      [] phase = "exclude"            -> {"exclude"}
  /\ at' = Past
  /\ UNCHANGED <<project, doc, phase, inSources, wildcards, sourceFiles, errors>>

\* The lists, for the phases that only walk through them.
PassList ==
  /\ phase \in {"resolve_sourcesref", "exclude"}
  /\ \/ AtList /\ at' = Inside
     \/ AtEnd /\ at' = Behind
  /\ UNCHANGED <<project, doc, phase, inSources, wildcards, sourceFiles, errors>>
-----------------------------------------------------------------------------
Known == Range(FileList) \union Buildable

\* The file that is meant: try_resolve, from the directory and from the root.
Found(f) == f.dir \o f.name \in Known \/ f.name \in Known
Resolved(f) == IF f.dir \o f.name \in Known THEN f.dir \o f.name ELSE f.name

\* Mutant of Report: nothing is reported.
ReportNothing(f) == errors

Report(f) == IF Found(f) THEN errors ELSE errors \union {f.name}

\* A name with wildcards, or one that follows an exclude, is left alone.
ResolveFile ==
  /\ phase = "resolve_sources" /\ AtItem /\ Item.op = "file"
  /\ IF inSources
     THEN /\ doc' = IF Found(Item) THEN WithItem(File(Resolved(Item))) ELSE doc
          /\ errors' = Report(Item)
     ELSE UNCHANGED <<doc, errors>>
  /\ at' = Past
  /\ UNCHANGED <<project, phase, inSources, wildcards, sourceFiles>>

\* resolve_sources::visit of a list: the list of an exclude is one as well.
ResolveList ==
  /\ phase = "resolve_sources"
  /\ \/ AtList /\ inSources' = TRUE /\ at' = Inside
     \/ AtEnd /\ inSources' = FALSE /\ at' = Behind
  /\ UNCHANGED <<project, doc, phase, wildcards, sourceFiles, errors>>
-----------------------------------------------------------------------------
\* resolve_wildcards::visit of a file name.
Collect ==
  /\ phase = "resolve_wildcards" /\ AtItem /\ Item.op \in {"file", "wild"}
  /\ IF inSources /\ Item.op = "wild"
     THEN wildcards' = Append(wildcards, Item) /\ UNCHANGED sourceFiles
     ELSE /\ sourceFiles' = IF inSources THEN Append(sourceFiles, Item.name) ELSE sourceFiles
          /\ UNCHANGED wildcards
  /\ at' = Past
  /\ UNCHANGED <<project, doc, phase, inSources, errors>>

\* Wildcards of a list that is not finished are in the way of a nested one.
EnterList ==
  /\ phase = "resolve_wildcards" /\ AtList
  /\ IF wildcards # << >>
     THEN phase' = "thrown" /\ UNCHANGED <<at, inSources>>
     ELSE inSources' = TRUE /\ at' = Inside /\ UNCHANGED phase
  /\ UNCHANGED <<project, doc, wildcards, sourceFiles, errors>>

IsMatched(f) == (\E w \in Range(wildcards) : f \in w.matches) /\ f \notin Range(sourceFiles)
Matched ==
  FlattenSeq([k \in DOMAIN FileList |-> IF IsMatched(FileList[k]) THEN <<FileList[k]>> ELSE << >>])

\* What a list with wildcards becomes: the files listed, then the others.
Expanded == [k \in 1..Len(sourceFiles \o Matched) |-> File((sourceFiles \o Matched)[k])]

LeaveList ==
  /\ phase = "resolve_wildcards" /\ AtEnd
  /\ doc' = IF wildcards = << >> THEN doc ELSE WithList(Expanded)
  /\ wildcards' = << >>
  /\ sourceFiles' = << >>
  /\ inSources' = FALSE
  /\ at' = Behind
  /\ UNCHANGED <<project, phase, errors>>
-----------------------------------------------------------------------------
\* symbol_table::lookup: programs before libraries, 0 for none.
Lookup(name) ==
  LET named(kind) == {t \in DOMAIN doc : doc[t].kind = kind /\ doc[t].name = name}
      among == IF named("program") # {} THEN named("program") ELSE named("library")
  IN  IF among = {} THEN 0 ELSE CHOOSE t \in among : TRUE

\* Mutant of Copies: the first section only.
CopiesOfFirst(t) == IF doc[t].body[1].own THEN <<doc[t].body[1]>> ELSE << >>

Copies(t) ==
  FlattenSeq([k \in DOMAIN doc[t].body |-> IF doc[t].body[k].own THEN <<doc[t].body[k]>> ELSE << >>])

\* Mutant of Undefined: a target is known when its block has been visited.
UndefinedYet == Lookup(Item.name) \notin 1..at.t \/ doc[at.t].kind = "toplevel"

\* A target that is not there, and an import outside of all targets.
Undefined == Lookup(Item.name) = 0 \/ doc[at.t].kind = "toplevel"

\* The copies go to the end of the target, where the visitor will find them.
Import ==
  /\ phase = "resolve_sourcesref" /\ AtItem /\ Item.op = "ref" /\ ~Undefined
  /\ LET copies == Copies(Lookup(Item.name))
     IN  IF Len(doc[at.t].body \o copies) > MaxSections
         THEN phase' = "exhausted" /\ UNCHANGED <<doc, at>>
         ELSE /\ doc' = [WithItem(None) EXCEPT ![at.t].body = @ \o copies]
              /\ at' = Past
              /\ UNCHANGED phase
  /\ UNCHANGED <<project, inSources, wildcards, sourceFiles, errors>>

\* A null pointer; or a body that is read while it grows and is moved.
ImportCrashes ==
  /\ phase = "resolve_sourcesref" /\ AtItem /\ Item.op = "ref"
  /\ Undefined \/ (Lookup(Item.name) = at.t /\ Copies(at.t) # << >>)
  /\ phase' = "crashed"
  /\ UNCHANGED <<project, doc, at, inSources, wildcards, sourceFiles, errors>>
-----------------------------------------------------------------------------
FileNames(items) ==
  {items[k].name : k \in {k \in DOMAIN items : items[k].op = "file"}}

\* A sources section without the files of these names.
Without(section, names) ==
  [section EXCEPT !.items = [k \in DOMAIN section.items |->
     IF section.own /\ section.items[k].op = "file" /\ section.items[k].name \in names
     THEN None ELSE section.items[k]]]

\* exclude::visit: all sections of the target, wherever they come from.
Exclude ==
  /\ phase = "exclude" /\ AtItem /\ Item.op = "exclude"
  /\ IF doc[at.t].kind = "toplevel"
     THEN phase' = "crashed" /\ UNCHANGED <<doc, at>>
     ELSE /\ doc' = [doc EXCEPT ![at.t].body =
                      [s \in DOMAIN @ |->
                        LET left == Without(@[s], FileNames(Item.items))
                        IN  IF s = at.s THEN [left EXCEPT !.items[at.i] = None] ELSE left]]
          /\ at' = Past
          /\ UNCHANGED phase
  /\ UNCHANGED <<project, inSources, wildcards, sourceFiles, errors>>
-----------------------------------------------------------------------------
Next == NextPhase \/ NextBlock \/ Pass \/ PassList \/ ResolveFile \/ ResolveList \/ Collect
        \/ EnterList \/ LeaveList \/ Import \/ ImportCrashes \/ Exclude

Spec == Init /\ [][Next]_vars
-----------------------------------------------------------------------------
\* The lists of block t, those of the excludes in it included.
ListsOf(t) ==
  LET outer == {project[t].body[s].items : s \in DOMAIN project[t].body}
  IN  outer \union UNION {{l[k].items : k \in {k \in DOMAIN l : l[k].op = "exclude"}} : l \in outer}

ItemsOf(t) == UNION {Range(l) : l \in ListsOf(t)}
Precedes(l, op1, op2) == \E i, k \in DOMAIN l : i < k /\ l[i].op = op1 /\ l[k].op = op2

IsMissing(item) == item.op = "file" /\ ~Found(item)

\* A missing name that stands before all excludes of its list, for a name in
\* an exclude one of more than the base name.
MustReport(t) ==
  \E l \in ListsOf(t) : \E k \in DOMAIN l :
    /\ IsMissing(l[k])
    /\ \A i \in 1..(k - 1) : l[i].op # "exclude"
    /\ Len(l[k].name) = 1 => \E s \in DOMAIN project[t].body : l = project[t].body[s].items

\* The run fails only if a name is that of no file, and it does when such a
\* name stands before all excludes of its list: whatever else the lists hold,
\* the flag in_sources forgets none of these (resolve_sources.cpp:76-128).
\* Nothing is claimed of names behind an exclude, which .web/target.pod:60 has
\* reported and the code passes over, nor of base names in an exclude, which
\* .web/target.pod:73 allows for any file and the code looks up.
FailsOnMissingFiles ==
  LET read == {t \in DOMAIN project : project[t].kind # "template"}
  IN  /\ phase = "failed" => \E t \in read : \E x \in ItemsOf(t) : IsMissing(x)
      /\ phase \notin {"resolve_sources", "failed"} => \A t \in read : ~MustReport(t)

RefersTo ==
  [t \in DOMAIN project |->
     {Lookup(x.name) : x \in {x \in ItemsOf(t) : x.op = "ref"}} \intersect DOMAIN project]
Imports(t) == Reach(DOMAIN project, {t}, RefersTo)
Circular == \E t, u \in DOMAIN project : u \in Imports(t) /\ t \in RefersTo[u]

\* An exception needs a list with a wildcard before an exclude.
ThrowsForAReason ==
  phase = "thrown" =>
    \E t \in DOMAIN project : \E l \in ListsOf(t) : Precedes(l, "wild", "exclude")

\* The program dies of an import that names no program or library, of an
\* import or an exclude outside of targets, or of a circle of imports.
CrashesForAReason ==
  phase = "crashed" =>
    \/ Circular
    \/ \E t \in DOMAIN project : \E x \in ItemsOf(t) :
         \/ x.op = "ref" /\ (Lookup(x.name) = 0 \/ project[t].kind = "toplevel")
         \/ x.op = "exclude" /\ project[t].kind = "toplevel"

\* It grows for ever of a circle of imports; and it ends of nothing else that
\* the lists may hold.
EndsForAReason ==
  ThrowsForAReason /\ CrashesForAReason /\ (phase = "exhausted" => Circular)

\* What a list is claimed to mean: wildcards stand with plain names only, an
\* exclude is last and has plain names, and sources alone import or exclude.
Regular ==
  \A t \in DOMAIN project :
    /\ \A l \in ListsOf(t) : \A i, k \in DOMAIN l :
         /\ l[i].op = "wild" => l[k].op \in {"wild", "file"}
         /\ l[i].op = "exclude" => k <= i /\ \A x \in Range(l[i].items) : x.op = "file"
    /\ \A s \in DOMAIN project[t].body : \A x \in Range(project[t].body[s].items) :
         x.op \in {"ref", "exclude"} => project[t].body[s].own

FilesOf(item) ==
  CASE item.op = "file" -> IF Found(item) THEN {Resolved(item)} ELSE {}
    [] item.op = "wild" -> item.matches \intersect Range(FileList)
    [] OTHER -> {}
ListedIn(t) ==
  UNION {UNION {FilesOf(x) : x \in Range(project[t].body[s].items)} :
           s \in {s \in DOMAIN project[t].body : project[t].body[s].own}}
ExcludedIn(t) ==
  UNION {UNION {FilesOf(x) : x \in Range(e.items)} : e \in {e \in ItemsOf(t) : e.op = "exclude"}}

\* The files that a base name in an exclude may stand for by .web/target.pod:73,
\* in whatever directory.
BaseNamedIn(t) ==
  {f \in Path : \E e \in ItemsOf(t) : e.op = "exclude" /\ \E x \in Range(e.items) :
     x.op = "file" /\ Len(x.name) = 1 /\ f # << >> /\ Last(f) = x.name[1]}

\* In the end the sources of each target are the files that it and what it
\* imports, over any number of targets and in whatever order these stand,
\* list by name or by wildcard, without what any of them excludes
\* (.web/target.pod:69-73).  Of files elsewhere with the base name of one that is
\* excluded nothing is claimed: the manual has them excluded, the code has not.
SourcesMeanWhatTheySay ==
  phase = "done" /\ Regular =>
    \A t \in DOMAIN project : project[t].kind \in {"program", "library"} =>
      LET from     == Imports(t)
          listed   == UNION {ListedIn(u) : u \in from}
          excluded == UNION {ExcludedIn(u) : u \in from}
          sources  == UNION {FileNames(doc[t].body[s].items) :
                               s \in {s \in DOMAIN doc[t].body : doc[t].body[s].own}}
      IN  /\ sources \subseteq listed \ excluded
          /\ listed \ (excluded \union UNION {BaseNamedIn(u) : u \in from}) \subseteq sources
=============================================================================
