---------------------------- MODULE MCChatTurns ----------------------------
\* ChatTurns on small instances.
EXTENDS ChatTurns, TLC

CONSTANTS c1, c2

Connections == Permutations({c1, c2})
=============================================================================
