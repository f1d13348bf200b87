------------------------- MODULE MCSigningPolicies -------------------------
(***************************************************************************)
(* TLC instances of SigningPolicies.                                       *)
(***************************************************************************)
EXTENDS SigningPolicies

\* The observed voter and another.
MCVoters == {"target", "other"}
MCTarget == "target"
=============================================================================
