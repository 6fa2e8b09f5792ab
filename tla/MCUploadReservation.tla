------------------------ MODULE MCUploadReservation ------------------------
(* Two uploads that declare their sizes, one of them over a database whose *)
(* acknowledgements may be lost, one that declares nothing, and one upload *)
(* session beside them.                                                    *)
EXTENDS UploadReservation, TLC

CONSTANTS u1, u2, u3, o1, r1

MCUploads == {u1, u2, u3}
MCDeclared == {u1, u2}
MCUnsure == {u1}
MCOthers == {o1}
MCSize == u1 :> 1 @@ u2 :> 2 @@ u3 :> 2 @@ o1 :> 2
OneSweeper == {r1}
=============================================================================
