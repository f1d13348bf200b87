--------------------------- MODULE MCRegistration ---------------------------
(***************************************************************************)
(* TLC instances of Registration.                                          *)
(***************************************************************************)
EXTENDS Registration
=============================================================================
