-------------------------- MODULE MCCredentialMode --------------------------
(* Every setting: nothing is left out of the environments.                 *)
EXTENDS CredentialMode
=============================================================================
