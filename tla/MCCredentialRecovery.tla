------------------------ MODULE MCCredentialRecovery -------------------------
(* Two requests, each on a worker of its own.                              *)
EXTENDS CredentialRecovery, TLC

CONSTANTS q1, q2, w1, w2

MCWorkerOf == (q1 :> w1) @@ (q2 :> w2)
=============================================================================
