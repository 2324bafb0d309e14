-------------------------- MODULE MCRequestSigning ---------------------------
(* Two requests on the one worker of the container (nginx.conf).           *)
EXTENDS RequestSigning, TLC

CONSTANTS q1, q2, w1

OneWorker  == (q1 :> w1) @@ (q2 :> w1)
=============================================================================
