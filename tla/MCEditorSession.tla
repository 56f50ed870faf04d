--------------------------- MODULE MCEditorSession ---------------------------
(* Instances of EditorSession for TLC.                                     *)
EXTENDS EditorSession, TLC
CONSTANTS model, cost, on, off

Symmetric == Permutations({model, cost}) \cup Permutations({on, off})
=============================================================================
