------------------------------ MODULE MCDriver -------------------------------
(***************************************************************************)
(* The phases as they are registered (phases/*.cpp), with the annotations  *)
(* their visitors ask for and put there.  What emit runs is part of it.    *)
(***************************************************************************)
EXTENDS Driver

MCPhase == Range(AllPhases) \union {"print", "sx", "xml", "concat_sources", "concat_vardecls"}

Symtab == {"default_prereq", "expand_filtervars", "expand_vars", "infer_target_objects",
  "inheritance", "insert_global_syms", "insert_target_syms", "insert_this_syms",
  "insert_varadd_syms", "insert_vardecl_syms", "remove_templates", "resolve_flagsref",
  "resolve_shortvars", "resolve_sources", "resolve_sourcesref", "resolve_tools",
  "squarevars", "emit"}
Errors == {"flatten_filenames", "flatten_vars", "inheritance", "insert_global_syms",
  "insert_target_syms", "insert_varadd_syms", "insert_vardecl_syms", "instantiate_rules",
  "reparse_vars", "resolve_shortvars", "resolve_sources", "resolve_wildcards"}
Files   == {"inference", "resolve_sources", "resolve_wildcards"}
Rules   == {"infer_target_objects", "instantiate_rules", "resolve_sources"}
Objects == {"instantiate_rules"}

MCGets == [p \in MCPhase |->
  {a \in {"symtab", "errors", "files", "rule_info", "target_objects", "output"} :
     p \in CASE a = "symtab" -> Symtab [] a = "errors" -> Errors [] a = "files" -> Files
             [] a = "rule_info" -> Rules [] a = "target_objects" -> Objects
             [] a = "output" -> {"emit"}}]

MCPuts == [p \in MCPhase |->
  CASE p = "inference" -> {"rule_info"}
    [] p = "infer_target_objects" -> {"target_objects"}
    [] OTHER -> {}]

\* Where an error that is not a warning is added.
MCReports == {"inheritance", "insert_global_syms", "insert_varadd_syms",
  "insert_vardecl_syms", "instantiate_rules", "reparse_vars", "resolve_shortvars",
  "resolve_sources"}
MCUserLists == {<<"audit">>, <<"inference", "inference">>, <<"instantiate_rules">>,
                <<"emit", "sx">>, <<"nosuch">>}
=============================================================================
