---------------------------- MODULE MCEditorUndo ----------------------------
(* EditorUndo for TLC: three slots, two records, an ordinary line and one too *)
(* long to be recorded.                                                       *)
EXTENDS EditorUndo

CONSTANTS a, long

McKept == [h \in {} |-> Empty]
McPreset == <<a, long>>

UndoSpec == UndoInit({<<a>>, <<a, Empty>>}) /\ [][UndoNext]_uvars
=============================================================================
