---------------------------- MODULE MCModelFile ----------------------------
\* Small instances of ModelFile for TLC.
EXTENDS ModelFile
=============================================================================
