--------------------------- MODULE MCControlPanel ---------------------------
EXTENDS ControlPanel

\* Every setting starts with the lesser of its values.
MCDefault == [k \in Key |-> 0]
=============================================================================
