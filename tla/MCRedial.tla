------------------------------ MODULE MCRedial ------------------------------
\* Redial on small instances.
EXTENDS Redial

CONSTANTS ui, executor, poll, worker
=============================================================================
