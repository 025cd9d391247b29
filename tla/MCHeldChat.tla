---------------------------- MODULE MCHeldChat -----------------------------
\* Small instances of HeldChat for TLC.
EXTENDS HeldChat
=============================================================================
