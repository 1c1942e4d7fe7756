----------------------------- MODULE MCNodeTree ------------------------------
\* Nodes are model values: the cfg names three, and a value for empty slots.
EXTENDS NodeTree
=============================================================================
