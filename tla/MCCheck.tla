------------------------------ MODULE MCCheck ------------------------------
EXTENDS Check
=============================================================================
