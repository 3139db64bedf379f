---------------------------- MODULE MCSubagents ----------------------------
EXTENDS Subagents
CONSTANTS c1, c2
=============================================================================
