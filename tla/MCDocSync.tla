------------------------------ MODULE MCDocSync ------------------------------
\* DocSync on small instances.
EXTENDS DocSyncInv, TLC

CONSTANTS a, b

MCUid == (Client \cup {Host}) \X (0..4)

\* The host's reload deletes the text of a's first edit, and b's first edit
\* the text of a's second.
MCShadows == {<< <<Host, 1>>, <<a, 1>> >>, << <<b, 1>>, <<a, 2>> >>}
=============================================================================
