--------------------------- MODULE MCPerfJournal ---------------------------
\* Small instances of PerfJournal for TLC.
EXTENDS PerfJournal

OptOutOrShorten == {[enabled |-> FALSE, days |-> Long], [enabled |-> TRUE, days |-> Short]}
=============================================================================
