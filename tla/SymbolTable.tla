---------------------------- MODULE SymbolTable ------------------------------
(***************************************************************************)
(* The symbol table (annotations/symbol_table.cpp): one table of symbols   *)
(* per scope, kept from phase to phase, and the stack of the scopes a      *)
(* symbol_visitor is in.  The table of a scope is keyed by the type and    *)
(* the name of the symbol; the vector of maps behind that is left out.     *)
(***************************************************************************)
EXTENDS Naturals, Sequences, SequencesExt

CONSTANTS
  Type,      (* symbol_type                                                *)
  Name,
  Symbol,    (* the nodes that symbols stand for                           *)
  NoSymbol,  (* the NULL pointer                                           *)
  Scope,     (* the nodes that have a scope: programs, libraries, templates*)
  Global     (* the key of the global scope                                *)

ASSUME SymbolAssumption == NoSymbol \notin Symbol /\ Global \notin Scope

VARIABLES
  scopes,  (* symbol_table::scopes                                         *)
  stack    (* symbol_table::stack                                          *)

Scopes == Scope \union {Global}

SymbolTableInit ==
  /\ scopes = [s \in Scopes |-> [k \in Type \X Name |-> NoSymbol]]
  /\ stack = <<Global>>

EnterScope(s) ==
  /\ s # Global
  /\ stack' = Append(stack, s)
  /\ UNCHANGED scopes

LeaveScope ==
  /\ Len(stack) > 1
  /\ stack' = Front(stack)
  /\ UNCHANGED scopes

\* The first insertion stands: a second one answers false.
CanInsert(type, name) == scopes[Last(stack)][<<type, name>>] = NoSymbol

Insert(type, name, sym) ==
  /\ CanInsert(type, name)
  /\ scopes' = [scopes EXCEPT ![Last(stack)][<<type, name>>] = sym]
  /\ UNCHANGED stack

\* The levels of the stack that have a symbol of this type and name.
Levels(type, name) == {i \in DOMAIN stack : scopes[stack[i]][<<type, name>>] # NoSymbol}

\* Mutant of Lookup: the search starts at the global scope.
LookupOutermost(type, name) ==
  IF Levels(type, name) = {} THEN NoSymbol
  ELSE scopes[stack[Min(Levels(type, name))]][<<type, name>>]

\* The symbol of the innermost scope that has one.
Lookup(type, name) ==
  IF Levels(type, name) = {} THEN NoSymbol
  ELSE scopes[stack[Max(Levels(type, name))]][<<type, name>>]
=============================================================================
