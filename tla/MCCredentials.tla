---------------------------- MODULE MCCredentials ----------------------------
(* The instance of Credentials for TLC in which two requests of the owner   *)
(* overlap.                                                                *)
EXTENDS Credentials, TLC

MCSymmetry == Permutations(Tabs)
=============================================================================
