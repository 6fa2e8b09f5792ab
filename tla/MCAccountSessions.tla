------------------------ MODULE MCAccountSessions ------------------------
(* A pool of one worker, replaced once, and one place to wait, for one     *)
(* registration and two logins; two GETs of the first download session.    *)
EXTENDS AccountSessions

CONSTANTS v1

MCGetOf == [g \in Gets |-> v1]
=============================================================================
