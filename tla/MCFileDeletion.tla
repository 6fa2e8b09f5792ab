--------------------------- MODULE MCFileDeletion ---------------------------
(* Small instances of FileDeletion.                                        *)
EXTENDS FileDeletion, TLC

CONSTANTS f1, f2

OneFile == {f1}
TwoFiles == {f1, f2}
=============================================================================
