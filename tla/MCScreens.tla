------------------------------ MODULE MCScreens ------------------------------
(***************************************************************************)
(* A small instance of Screens: two loads may overlap.                     *)
(***************************************************************************)
EXTENDS Screens

CONSTANTS a, b
=============================================================================
