---------------------------- MODULE DriverProofs -----------------------------
(***************************************************************************)
(* Theorems of the driver, for every table of annotations, every list the  *)
(* user may ask for and any number of runs; the last one for the tables    *)
(* of the registered phases that MCDriver has.                             *)
(***************************************************************************)
EXTENDS MCDriver, TLAPS

\* emit is the last phase of all, and only there.
LEMMA EmitIsLast ==
  /\ Len(AllPhases) = 38
  /\ AllPhases[38] = "emit"
  /\ \A i \in 1..37 : AllPhases[i] # "emit"
BY DEF AllPhases

-----------------------------------------------------------------------------
\* Past the check of the signature Makefile.am is the program's own.
OwnWhenOpen == pc \in {"sign", "run", "autoreconf"} => makefile # "foreign"

Safe ==
  /\ pc \in {"idle", "parse", "check", "sign", "run", "autoreconf"}
  /\ OwnWhenOpen

LEMMA SafeInit == Init => Safe
BY DEF Init, Safe, OwnWhenOpen

LEMMA SafeStep == Safe /\ [Next]_vars => Safe'
<1> SUFFICES ASSUME Safe, [Next]_vars PROVE Safe'
  OBVIOUS
<1> USE DEF Safe, OwnWhenOpen
<1>1. CASE Start
  BY <1>1 DEF Start
<1>2. CASE Parse
  BY <1>2 DEF Parse
<1>3. CASE Open
  BY <1>3 DEF Open
<1>4. CASE Sign
  BY <1>4 DEF Sign
<1>5. CASE RunPhase
  BY <1>5 DEF RunPhase, Leave
<1>6. CASE Throw
  BY <1>6 DEF Throw
<1>7. CASE EndOfPhases
  BY <1>7 DEF EndOfPhases, Leave
<1>8. CASE Autoreconf
  BY <1>8 DEF Autoreconf
<1>9. CASE Kill
  BY <1>9 DEF Kill
<1>10. CASE Edit
  BY <1>10 DEF Edit
<1>11. CASE UNCHANGED vars
  BY <1>11 DEF vars
<1>12. QED
  BY <1>1, <1>2, <1>3, <1>4, <1>5, <1>6, <1>7, <1>8, <1>9, <1>10, <1>11
     DEF Next, Run

LEMMA ForeignStep ==
  ASSUME Safe, Next, makefile = "foreign", pc # "idle"
  PROVE  makefile' = "foreign"
<1>1. pc \in {"parse", "check"}
  BY DEF Safe, OwnWhenOpen
<1>2. Parse \/ Open \/ Kill
  BY <1>1 DEF Next, Run, Start, Sign, RunPhase, Throw, EndOfPhases, Autoreconf, Edit
<1>3. CASE Parse
  BY <1>3 DEF Parse
<1>4. CASE Open
  BY <1>4 DEF Open, Mine
<1>5. CASE Kill
  BY <1>1, <1>5 DEF Kill
<1>6. QED
  BY <1>2, <1>3, <1>4, <1>5

\* No run, whatever its phases do and wherever it is stopped, overwrites a
\* Makefile.am that was written by hand.
THEOREM ForeignIsKept == Spec => ForeignKept
<1>1. Safe /\ [Next]_vars => [makefile = "foreign" /\ pc # "idle" => makefile' = "foreign"]_vars
  BY ForeignStep
<1>2. QED
  BY <1>1, SafeInit, SafeStep, PTL DEF Spec, ForeignKept

-----------------------------------------------------------------------------
\* How far a run of all phases has come: emit, the last of them, has been run
\* when the list is at its end and not before; until the end nothing has been
\* written but the signature, and an error behind the first phase is the end.
Progress ==
  /\ at \in 1..39
  /\ written <=> at = 39
  /\ status = "none"
  /\ ~written => makefile = "signed"
  /\ written => ~errors

Staged ==
  /\ errors \in BOOLEAN /\ written \in BOOLEAN
  /\ pc \in {"parse", "check", "sign"} => at = 1 /\ ~written /\ status = "none"
  /\ pc = "run" /\ list = AllPhases => Progress

LEMMA StagedInit == Init => Staged
BY DEF Init, Staged

\* A phase that returns takes a run of all phases one on.
LEMMA PhaseProgress ==
  ASSUME Staged, RunPhase, list = AllPhases, pc' = "run"
  PROVE  Progress'
<1>1. Progress /\ at <= 38 /\ at \in 1..39
  BY EmitIsLast DEF Staged, RunPhase, Going, Progress
<1>2. list[at] = "emit" <=> at = 38
  BY <1>1, EmitIsLast
<1>3. /\ at' = at + 1
      /\ written' <=> (written \/ list[at] = "emit")
      /\ makefile' = IF list[at] = "emit" THEN "partial" ELSE makefile
      /\ status' = status
      /\ errors' \in (IF list[at] \in Reports THEN BOOLEAN ELSE {errors})
  BY DEF RunPhase, Leave
<1>4. ~written
  BY <1>1 DEF Progress
<1>5. written' <=> at' = 39
  BY <1>1, <1>2, <1>3, <1>4
<1>6. written' => ~errors'
  <2>1. SUFFICES ASSUME written' PROVE ~errors'
    OBVIOUS
  <2>2. at = 38
    BY <2>1, <1>1, <1>3, <1>5
  <2>3. ~errors
    BY <2>2, EmitIsLast DEF RunPhase, Going
  <2>4. QED
    BY <2>2, <2>3, <1>2, <1>3, EmitAssumption
<1>7. QED
  BY <1>1, <1>2, <1>3, <1>4, <1>5, <1>6 DEF Progress

LEMMA StagedStep == Staged /\ [Next]_vars => Staged'
<1> SUFFICES ASSUME Staged, [Next]_vars PROVE Staged'
  OBVIOUS
<1>1. CASE Start
  BY <1>1 DEF Start, Staged
<1>2. CASE Parse
  BY <1>2 DEF Parse, Staged
<1>3. CASE Open
  BY <1>3 DEF Open, Staged
<1>4. CASE Sign
  BY <1>4 DEF Sign, Staged, Progress
<1>5. CASE RunPhase
  <2>1. errors' \in BOOLEAN /\ written' \in BOOLEAN
    BY <1>5 DEF RunPhase, Staged
  <2>2. pc' \in {"run", "idle", "autoreconf"} /\ list' = list
    BY <1>5 DEF RunPhase, Leave
  <2>3. QED
    BY <1>5, <2>1, <2>2, PhaseProgress DEF Staged
<1>6. CASE Throw
  BY <1>6 DEF Throw, Staged
<1>7. CASE EndOfPhases
  BY <1>7 DEF EndOfPhases, Leave, Staged
<1>8. CASE Autoreconf
  BY <1>8 DEF Autoreconf, Staged
<1>9. CASE Kill
  BY <1>9 DEF Kill, Staged
<1>10. CASE Edit
  BY <1>10 DEF Edit, Staged, Progress
<1>11. CASE UNCHANGED vars
  BY <1>11 DEF vars, Staged, Progress
<1>12. QED
  BY <1>1, <1>2, <1>3, <1>4, <1>5, <1>6, <1>7, <1>8, <1>9, <1>10, <1>11
     DEF Next, Run

\* What CompleteOrNothing asks of one step.
Complete ==
  list = AllPhases =>
    /\ pc' = "autoreconf" => makefile' = "full" /\ ~errors
    /\ pc = "run" /\ status' = "failure" => makefile' = "signed"

LEMMA CompleteStep ==
  ASSUME Staged, Next, list = AllPhases
  PROVE  Complete
<1>1. CASE EndOfPhases
  <2>1. Progress
    BY <1>1 DEF EndOfPhases, Staged
  <2>2. makefile' = IF written THEN "full" ELSE makefile
    BY <1>1 DEF EndOfPhases, Leave
  <2>3. CASE errors
    BY <1>1, <2>1, <2>2, <2>3 DEF EndOfPhases, Leave, Progress, Complete
  <2>4. CASE ~errors
    <3>1. at = 39
      BY <1>1, <2>1, <2>4, EmitIsLast DEF EndOfPhases, Going, Progress
    <3>2. QED
      BY <1>1, <2>1, <2>2, <2>4, <3>1 DEF EndOfPhases, Leave, Progress, Complete
  <2>5. QED
    BY <2>3, <2>4
<1>2. CASE RunPhase
  BY <1>2 DEF RunPhase, Leave, Staged, Progress, Complete
<1>3. CASE Throw
  BY <1>3 DEF Throw, Complete
<1>4. CASE Kill
  BY <1>4 DEF Kill, Complete
<1>5. CASE Start \/ Parse \/ Open \/ Sign \/ Autoreconf \/ Edit
  BY <1>5 DEF Start, Parse, Open, Sign, Autoreconf, Edit, Complete
<1>6. QED
  BY <1>1, <1>2, <1>3, <1>4, <1>5 DEF Next, Run

\* Whatever the phases share, report and throw, autoreconf sees the complete
\* Makefile.am of a run without errors, and a run that reports an error leaves
\* the signature and nothing more.
THEOREM RunsAreComplete == Spec => CompleteOrNothing
<1>1. Staged /\ [Next]_vars => [Complete]_vars
  BY CompleteStep DEF Complete
<1>2. QED
  BY <1>1, StagedInit, StagedStep, PTL DEF Spec, CompleteOrNothing, Complete
-----------------------------------------------------------------------------
\* The annotations there are before phase i of all phases.
Have(i) ==
  {"files"} \union Shared \union UNION {Puts[AllPhases[j]] : j \in 1..(i - 1)}

\* What the order of all_phases must give: a phase finds what it asks for, and
\* finds nothing of what it makes.
OrderedTable ==
  \A i \in 1..38 : /\ Gets[AllPhases[i]] \subseteq Have(i)
                   /\ Puts[AllPhases[i]] \intersect Have(i) = {}

\* The annotation map follows the table, run after run: annotations of the last
\* run are gone when the parser has returned.
Annotated ==
  /\ pc = "check" => annots = {"files"} /\ at = 1
  /\ pc = "sign" => annots = {"files"} /\ at = 1
  /\ pc = "parse" => at = 1
  /\ pc = "run" /\ list = AllPhases => at \in 1..39 /\ annots = Have(at)
  /\ AnnotationsInOrder

\* A phase of all phases finds what the table says.
LEMMA PhaseAnnotated ==
  ASSUME OrderedTable, Annotated, RunPhase
  PROVE  Annotated'
<1>1. CASE list # AllPhases
  BY <1>1 DEF RunPhase, Leave, Annotated, AnnotationsInOrder
<1>2. CASE list = AllPhases
  <2>1. at \in 1..38 /\ annots = Have(at) /\ pc = "run" /\ list' = list
    BY <1>2, EmitIsLast DEF RunPhase, Going, Annotated
  <2>2. list[at] \in Phase
    BY <1>2, <2>1, EmitIsLast, PhaseAssumption DEF Range
  <2>3. ~Unavailable(list[at])
    BY <1>2, <2>1, <2>2 DEF OrderedTable, Unavailable
  <2>4. /\ annots' = annots \union Puts[AllPhases[at]]
        /\ at' = at + 1 /\ pc' = pc /\ status' = status
    BY <1>2, <2>3 DEF RunPhase, Put
  <2>5. Have(at + 1) = Have(at) \union Puts[AllPhases[at]]
    <3> DEFINE Made(i) == UNION {Puts[AllPhases[j]] : j \in 1..(i - 1)}
    <3>1. 1..(at + 1 - 1) = (1..(at - 1)) \union {at}
      BY <2>1
    <3>2. Made(at + 1) = Made(at) \union Puts[AllPhases[at]]
      BY <3>1
    <3>3. \A i : Have(i) = {"files"} \union Shared \union Made(i)
      BY DEF Have
    <3> HIDE DEF Made
    <3>4. QED
      BY <3>2, <3>3
  <2>6. QED
    BY <1>2, <2>1, <2>4, <2>5 DEF Annotated, AnnotationsInOrder
<1>3. QED
  BY <1>1, <1>2

LEMMA AnnotatedStep == OrderedTable /\ Annotated /\ [Next]_vars => Annotated'
<1> SUFFICES ASSUME OrderedTable, Annotated, [Next]_vars PROVE Annotated'
  OBVIOUS
<1> USE DEF AnnotationsInOrder
<1>1. CASE Start
  BY <1>1 DEF Start, Annotated
<1>2. CASE Parse
  BY <1>2 DEF Parse, Annotated
<1>3. CASE Open
  BY <1>3 DEF Open, Annotated
<1>4. CASE Sign
  <2>1. annots' = {"files"} \union Shared /\ at' = 1 /\ pc' = "run"
    BY <1>4 DEF Sign, Annotated
  <2>2. Have(1) = {"files"} \union Shared
    <3>1. 1..(1 - 1) = {}
      OBVIOUS
    <3>2. QED
      BY <3>1 DEF Have
  <2>3. QED
    BY <1>4, <2>1, <2>2 DEF Sign, Annotated
<1>5. CASE RunPhase
  BY <1>5, PhaseAnnotated
<1>6. CASE Throw
  BY <1>6 DEF Throw, Annotated
<1>7. CASE EndOfPhases
  BY <1>7 DEF EndOfPhases, Leave, Annotated
<1>8. CASE Autoreconf
  BY <1>8 DEF Autoreconf, Annotated
<1>9. CASE Kill
  BY <1>9 DEF Kill, Annotated
<1>10. CASE Edit
  BY <1>10 DEF Edit, Annotated
<1>11. CASE UNCHANGED vars
  BY <1>11 DEF vars, Annotated
<1>12. QED
  BY <1>1, <1>2, <1>3, <1>4, <1>5, <1>6, <1>7, <1>8, <1>9, <1>10, <1>11
     DEF Next, Run

\* A table of annotations that the order of all_phases respects is respected in
\* every run of all phases, also behind failed and interrupted ones: no phase
\* misses an annotation or finds its own.
THEOREM OrderSuffices ==
  ASSUME OrderedTable
  PROVE  Spec => []AnnotationsInOrder
<1>1. Init => Annotated
  BY EmitIsLast DEF Init, Annotated, AnnotationsInOrder
<1>2. Annotated => AnnotationsInOrder
  BY DEF Annotated
<1>3. Annotated /\ [Next]_vars => Annotated'
  BY AnnotatedStep
<1>4. QED
  BY <1>1, <1>2, <1>3, PTL DEF Spec
-----------------------------------------------------------------------------
(* The order of all_phases and the annotations of the registered phases.   *)

\* Where the phases stand that have to do with rule_info and target_objects.
LEMMA Positions ==
  /\ AllPhases[18] = "inference" /\ AllPhases[25] = "infer_target_objects"
  /\ \A i \in 1..17 : AllPhases[i] \notin Rules \union {"inference"}
  /\ \A i \in 1..24 : AllPhases[i] \notin Objects \union {"infer_target_objects"}
  /\ \A i \in 26..38 : AllPhases[i] # "infer_target_objects"
  /\ \A i \in 19..38 : AllPhases[i] # "inference"
BY DEF AllPhases, Rules, Objects

LEMMA InRange == \A i \in 1..38 : AllPhases[i] \in Range(AllPhases)
BY EmitIsLast DEF Range

\* What the tables give for a phase.
LEMMA TableOfPhase ==
  ASSUME NEW p \in MCPhase
  PROVE  /\ MCGets[p] \subseteq {"files"} \union Shared
              \union (IF p \in Rules THEN {"rule_info"} ELSE {})
              \union (IF p \in Objects THEN {"target_objects"} ELSE {})
         /\ MCPuts[p] = (IF p = "inference" THEN {"rule_info"} ELSE {})
              \union (IF p = "infer_target_objects" THEN {"target_objects"} ELSE {})
<1>1. MCPuts[p] = (IF p = "inference" THEN {"rule_info"} ELSE {})
              \union (IF p = "infer_target_objects" THEN {"target_objects"} ELSE {})
  BY DEF MCPuts
<1>2. ASSUME NEW a \in MCGets[p]
      PROVE  /\ a \in {"symtab", "errors", "files", "rule_info", "target_objects", "output"}
             /\ a = "rule_info" => p \in Rules
             /\ a = "target_objects" => p \in Objects
  BY DEF MCGets
<1>3. QED
  BY <1>1, <1>2 DEF Shared

\* The order of all_phases gives every phase what it asks for.
LEMMA TableIsOrdered ==
  ASSUME Gets = MCGets, Puts = MCPuts
  PROVE  OrderedTable
<1> SUFFICES ASSUME NEW i \in 1..38
             PROVE  /\ MCGets[AllPhases[i]] \subseteq Have(i)
                    /\ MCPuts[AllPhases[i]] \intersect Have(i) = {}
  BY DEF OrderedTable
<1>1. \A j \in 1..38 : AllPhases[j] \in MCPhase
  BY InRange DEF MCPhase
<1>2. ASSUME i > 18 PROVE "rule_info" \in Have(i)
  <2>1. 18 \in 1..(i - 1) /\ "rule_info" \in Puts[AllPhases[18]]
    BY <1>1, <1>2, TableOfPhase, Positions
  <2>2. QED
    BY <2>1 DEF Have
<1>3. ASSUME i > 25 PROVE "target_objects" \in Have(i)
  <2>1. 25 \in 1..(i - 1) /\ "target_objects" \in Puts[AllPhases[25]]
    BY <1>1, <1>3, TableOfPhase, Positions
  <2>2. QED
    BY <2>1 DEF Have
<1>4. ASSUME i <= 18 PROVE "rule_info" \notin Have(i)
  <2>1. ASSUME NEW j \in 1..(i - 1) PROVE "rule_info" \notin Puts[AllPhases[j]]
    <3>1. j \in 1..17 /\ j \in 1..38
      BY <1>4
    <3>2. QED
      BY <1>1, <3>1, TableOfPhase, Positions
  <2>2. QED
    BY <2>1 DEF Have, Shared
<1>5. ASSUME i <= 25 PROVE "target_objects" \notin Have(i)
  <2>1. ASSUME NEW j \in 1..(i - 1) PROVE "target_objects" \notin Puts[AllPhases[j]]
    <3>1. j \in 1..24 /\ j \in 1..38
      BY <1>5
    <3>2. QED
      BY <1>1, <3>1, TableOfPhase, Positions
  <2>2. QED
    BY <2>1 DEF Have, Shared
<1>6. AllPhases[i] \in Rules => i > 18
  BY Positions DEF Rules
<1>7. AllPhases[i] \in Objects => i > 25
  BY Positions DEF Objects
<1>8. /\ AllPhases[i] = "inference" => i <= 18
      /\ AllPhases[i] = "infer_target_objects" => i <= 25
  BY Positions
<1>9. MCGets[AllPhases[i]] \subseteq Have(i)
  <2>1. {"files"} \union Shared \subseteq Have(i)
    BY DEF Have
  <2>2. QED
    BY <1>1, <1>2, <1>3, <1>6, <1>7, <2>1, TableOfPhase
<1>10. MCPuts[AllPhases[i]] \intersect Have(i) = {}
  BY <1>1, <1>4, <1>5, <1>8, TableOfPhase
<1>11. QED
  BY <1>9, <1>10

\* With the annotations the phases of this program ask for and make, the order
\* of all_phases never lets a phase miss an annotation or make one twice, in
\* any run of them, whatever went before.
THEOREM PhasesAreInOrder ==
  ASSUME Gets = MCGets, Puts = MCPuts
  PROVE  Spec => []AnnotationsInOrder
BY TableIsOrdered, OrderSuffices
=============================================================================
