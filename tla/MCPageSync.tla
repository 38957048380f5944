----------------------------- MODULE MCPageSync -----------------------------
EXTENDS PageSync
=============================================================================
