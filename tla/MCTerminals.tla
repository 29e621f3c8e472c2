---------------------------- MODULE MCTerminals ----------------------------
\* Terminals on small instances.
EXTENDS Terminals

CONSTANTS t1, t2
=============================================================================
