----------------------------- MODULE Variables -------------------------------
(***************************************************************************)
(* Variables: insert_vardecl_syms puts the declarations in the symbol      *)
(* table, expand_vars replaces references by what they refer to            *)
(* (phases/insert_vardecl_syms.cpp, phases/expand_vars.cpp,                *)
(* util/symbol_visitor.cpp, util/unique_visitor.h).                        *)
(*                                                                         *)
(* A document is a row of blocks, in the order of the source files: a      *)
(* block is a target with what is in it, or one declaration outside of all *)
(* targets.  What may have references in it, the body of a declaration or  *)
(* a place in a rule or a list of sources, is a body, and is a row of      *)
(* texts and names of variables.  A reference is replaced by a clone of    *)
(* the body it refers to, so an element of a body is a row itself.         *)
(***************************************************************************)
EXTENDS SymbolTable, Reachability

CONSTANTS
  Text,       (* literal text                                              *)
  Documents,  (* the documents to check: rows of blocks [scope, items]; an *)
              (* item is [name, body], with the name NoName for a use      *)
  Bodies,     (* the bodies to check: what the bodies have in them         *)
  NoName,
  Variable    (* the symbol type T_VARIABLE                                *)

ASSUME DocumentAssumption ==
  /\ Text \intersect Name = {}
  /\ Variable \in Type
  /\ IsFiniteSet(Symbol)
  /\ Bodies \subseteq [Symbol -> Seq(Text \union Name)]
  /\ Documents \subseteq
       Seq([scope : Scopes, items : Seq([name : Name \union {NoName}, body : Symbol])])

\* A body is a node of the tree: it is written in one place.
ASSUME PlaceAssumption ==
  \A D \in Documents : \A a, b \in DOMAIN D :
    \A i \in DOMAIN D[a].items, j \in DOMAIN D[b].items :
      D[a].items[i].body = D[b].items[j].body => a = b /\ i = j

VARIABLES
  doc,     (* the document                                                 *)
  phase,   (* which phase runs, or what became of it                       *)
  block,   (* where the visitor is in doc                                  *)
  item,    (* where it is in the block                                     *)
  source,  (* the bodies as they were parsed                               *)
  body,    (* body[d]: the elements of d                                   *)
  marked,  (* unique_visitor::seen                                         *)
  visits,  (* the bodies that expand_vars is in, outermost first           *)
  errors   (* error_log                                                    *)

place == <<doc, source, phase, block, item>>
vars == <<scopes, stack, doc, phase, block, item, source, body, marked, visits, errors>>

Flat(d) == FlattenSeq(body[d])

Init ==
  /\ SymbolTableInit
  /\ doc \in Documents
  /\ source \in Bodies
  /\ phase = "insert_vardecl_syms"
  /\ block = 1 /\ item = 1
  /\ body = [d \in Symbol |-> [i \in DOMAIN source[d] |-> <<source[d][i]>>]]
  /\ marked = {}
  /\ visits = << >>
  /\ errors = {}

AtBlock == block <= Len(doc)
Items == doc[block].items
Here == doc[block].scope

\* symbol_visitor::visit: entering a target enters its scope.
Enter ==
  /\ phase \in {"insert_vardecl_syms", "expand_vars"}
  /\ AtBlock /\ Here # Global /\ stack = <<Global>>
  /\ EnterScope(Here)
  /\ UNCHANGED <<place, body, marked, visits, errors>>

InBlock == AtBlock /\ Last(stack) = Here

\* Mutant of Leave: the visitor starts over with the target it has left.
LeaveAndReturn ==
  /\ phase \in {"insert_vardecl_syms", "expand_vars"} /\ visits = << >>
  /\ InBlock /\ item > Len(Items)
  /\ IF Here = Global THEN UNCHANGED <<scopes, stack>> ELSE LeaveScope
  /\ item' = 1
  /\ UNCHANGED <<doc, source, phase, block, body, marked, visits, errors>>

Leave ==
  /\ phase \in {"insert_vardecl_syms", "expand_vars"} /\ visits = << >>
  /\ InBlock /\ item > Len(Items)
  /\ IF Here = Global THEN UNCHANGED <<scopes, stack>> ELSE LeaveScope
  /\ block' = block + 1 /\ item' = 1
  /\ UNCHANGED <<doc, source, phase, body, marked, visits, errors>>

\* insert_vardecl_syms::visit (t_vardecl); other items are passed over.
Declare ==
  LET decl == Items[item]
  IN  /\ phase = "insert_vardecl_syms"
      /\ InBlock /\ item <= Len(Items)
      /\ IF decl.name = NoName THEN UNCHANGED <<scopes, stack, errors>>
         ELSE IF CanInsert(Variable, decl.name)
         THEN Insert(Variable, decl.name, decl.body) /\ UNCHANGED errors
         ELSE errors' = errors \union {decl.body} /\ UNCHANGED <<scopes, stack>>
      /\ item' = item + 1
      /\ UNCHANGED <<doc, source, phase, block, body, marked, visits>>

\* main goes from phase to phase, and stops at the first error.
NextPhase ==
  /\ ~AtBlock
  /\ \/ /\ phase = "insert_vardecl_syms"
        /\ phase' = IF errors = {} THEN "expand_vars" ELSE "failed"
     \/ phase = "expand_vars" /\ phase' = "done"
  /\ block' = 1 /\ item' = 1
  /\ UNCHANGED <<scopes, stack, doc, source, body, marked, visits, errors>>

\* Mutant of Visit: a body that has been visited is visited again.
VisitAgain(d) == marked' = marked \union {d} /\ visits' = Append(visits, [body |-> d, at |-> 1])

\* expand_vars::override up to its loop.
Visit(d) ==
  IF d \in marked THEN UNCHANGED <<marked, visits>>
  ELSE marked' = marked \union {d} /\ visits' = Append(visits, [body |-> d, at |-> 1])

VisitItem ==
  /\ phase = "expand_vars" /\ visits = << >>
  /\ InBlock /\ item <= Len(Items)
  /\ Visit(Items[item].body)
  /\ item' = item + 1
  /\ UNCHANGED <<scopes, stack, doc, source, phase, block, body, errors>>

\* The body expand_vars is in, and the element it has come to.
Top == Last(visits)
Element == source[Top.body][Top.at]

Symbols == IF Element \in Name THEN {Lookup(Variable, Element)} \ {NoSymbol} ELSE {}

Advance == visits' = [visits EXCEPT ![Len(visits)].at = @ + 1]

\* A text, or a reference that is not in scope: it stays as it is.
Keep ==
  /\ visits # << >> /\ Top.at <= Len(source[Top.body])
  /\ Symbols = {}
  /\ Advance
  /\ UNCHANGED <<scopes, stack, place, body, marked, errors>>

\* The body referred to is visited first, in the scopes of the reference.
Descend ==
  /\ visits # << >> /\ Top.at <= Len(source[Top.body])
  /\ \E d \in Symbols : d \notin marked /\ Visit(d)
  /\ UNCHANGED <<scopes, stack, place, body, errors>>

\* Mutant of Clone: the clone is made of the body as it was parsed.
CloneOfSource(d) == source[d]

Clone(d) == Flat(d)

\* The reference is replaced by a clone of the body it refers to.
Substitute ==
  /\ visits # << >> /\ Top.at <= Len(source[Top.body])
  /\ \E d \in Symbols :
        d \in marked /\ body' = [body EXCEPT ![Top.body][Top.at] = Clone(d)]
  /\ Advance
  /\ UNCHANGED <<scopes, stack, place, marked, errors>>

Return ==
  /\ visits # << >> /\ Top.at > Len(source[Top.body])
  /\ visits' = Front(visits)
  /\ UNCHANGED <<scopes, stack, place, body, marked, errors>>

Next ==
  \/ Enter \/ Leave \/ Declare \/ NextPhase
  \/ VisitItem \/ Keep \/ Descend \/ Substitute \/ Return

Spec == Init /\ [][Next]_vars

\* One thread runs the phases and does not stop by itself.
FairSpec == Spec /\ WF_vars(Next)
-----------------------------------------------------------------------------
Visiting == {visits[i].body : i \in DOMAIN visits}

\* A body has one text: when its visit is over it is not visited again and
\* nothing is replaced in it any more, so all the clones made of it from then
\* on are alike.
FinalWhenVisited ==
  [][\A d \in marked \ Visiting : d \notin Visiting' /\ body'[d] = body[d]]_vars

\* The scopes a body is declared in, and the bodies declared in a scope.
DeclaredIn(s) == {d \in Symbol : \E n \in Name : scopes[s][<<Variable, n>>] = d}

\* The static meaning of a reference to n in block b.
Static(s, n) ==
  IF scopes[s][<<Variable, n>>] # NoSymbol THEN scopes[s][<<Variable, n>>]
  ELSE scopes[Global][<<Variable, n>>]

ScopeOf(d) ==
  LET at == {b \in DOMAIN doc :
               \E i \in DOMAIN doc[b].items : doc[b].items[i].body = d}
  IN  IF at = {} THEN Global ELSE doc[CHOOSE b \in at : TRUE].scope

\* What the elements of the bodies refer to, by the scope in which they are
\* written.
Links ==
  [d \in Symbol |-> [i \in DOMAIN source[d] |->
     IF source[d][i] \in Name THEN Static(ScopeOf(d), source[d][i]) ELSE NoSymbol]]

\* What d stands for when references are followed as deep as they can go.
Meaning(links, text, d) ==
  LET mean[n \in 0..Cardinality(Symbol)] ==
        [e \in Symbol |->
          IF n = 0 THEN text[e]
          ELSE FlattenSeq([i \in DOMAIN text[e] |->
                 IF links[e][i] = NoSymbol THEN <<text[e][i]>> ELSE mean[n - 1][links[e][i]]])]
  IN  mean[Cardinality(Symbol)][d]

RefersTo(links, d) == Range(links[d]) \ {NoSymbol}

\* What d refers to, however indirectly.
Below(links, d) == Reach(Symbol, RefersTo(links, d), [e \in Symbol |-> RefersTo(links, e)])

\* No body refers to itself.
Acyclic(links) == \A d \in Symbol : d \notin Below(links, d)

\* No declaration outside of the targets uses a name some target declares.
NoCapture ==
  \A d \in DeclaredIn(Global) : \A x \in Range(source[d]) \intersect Name :
    \A s \in Scope : scopes[s][<<Variable, x>>] = NoSymbol

\* In a project whose variables are acyclic and global declarations keep to
\* global names, all that is used ends up with its static meaning, in
\* whatever order the files, the declarations and the uses come.
ExpandsToMeaning ==
  phase = "done" /\ Acyclic(Links) /\ NoCapture =>
    \A b \in DOMAIN doc : \A i \in DOMAIN doc[b].items :
      LET d == doc[b].items[i].body IN Flat(d) = Meaning(Links, source, d)

\* Expansion ends, even when variables refer to each other in a circle.
Terminates == <>(phase \in {"done", "failed"})

(***************************************************************************)
(* What the manual says of variables.                                      *)
(***************************************************************************)
UsesIn(s) == {d \in Symbol : ScopeOf(d) = s}

Texts(ds) == (UNION {Range(source[d]) : d \in ds}) \intersect Text

\* "Variable definitions may be scoped. These are not visible outside the
\* scope of the enclosing target": no text that is written in one target
\* only turns up in another.
NotVisibleOutside ==
  phase = "done" =>
    \A s, t \in Scope : s # t =>
      \A d \in UsesIn(t) :
        Range(Flat(d)) \intersect Texts(UsesIn(s)) \subseteq Texts(Symbol \ UsesIn(s))
=============================================================================
