--------------------------- MODULE MCMobileCommand ---------------------------
(***************************************************************************)
(* A small instance of MobileCommand: the ventilation, off at first, is    *)
(* switched on, then off.                                                  *)
(***************************************************************************)
EXTENDS MobileCommand, TLC

OnThenOff == 1 :> TRUE @@ 2 :> FALSE
=============================================================================
