------------------------- MODULE MCCredentialCache ---------------------------
(* Small instances of CredentialCache.  A tick stands for 30 s: the        *)
(* sentinel lives one tick, a call of a provider lasts at most MaxCall, a  *)
(* walk of the metadata service at most MaxFetch (three calls); the margin *)
(* and the promised lifetime keep their real difference of one tick.       *)
EXTENDS CredentialCache, TLC

CONSTANTS q1, q2, q3, w1, w2

MCWorkerOf  == (q1 :> w1) @@ (q2 :> w2) @@ (q3 :> w1)
MCWorkerOf2 == (q1 :> w1) @@ (q2 :> w2)

(* The two requests of worker w1 are alike.                                *)
MCSymmetry == Permutations({q1, q3})
=============================================================================
