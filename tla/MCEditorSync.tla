---------------------------- MODULE MCEditorSync ----------------------------
\* EditorSync on small instances.
EXTENDS EditorSync, TLC

CONSTANTS a, b

MCUid == (Client \cup {Host}) \X (0..5)

\* The host's reload deletes the text of a's first edit.
MCShadows == {<< <<Host, 1>>, <<a, 1>> >>}
=============================================================================
