--------------------------- MODULE MCObserverLoop ---------------------------
(***************************************************************************)
(* TLC instances of ObserverLoop.                                          *)
(***************************************************************************)
EXTENDS ObserverLoop
=============================================================================
