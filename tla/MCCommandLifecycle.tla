------------------------- MODULE MCCommandLifecycle -------------------------
(***************************************************************************)
(* Small instances of CommandLifecycle.                                    *)
(***************************************************************************)
EXTENDS CommandLifecycle, TLC

CONSTANTS r1, r2, r3, r4, r5, k1, k2, d1, d2, on, off, dim

(* One request. *)
SoloKeys == r1 :> k1
SoloDevices == r1 :> d1
SoloParams == r1 :> on

(* A press r1 and its network retry r2; the same key used again for        *)
(* another command (r3); a request outside the catalogue (r4), and one for *)
(* a device that is not registered (r5), which may nevertheless answer for *)
(* the press.  The two requests of the press are alike, and no definition  *)
(* tells them apart. *)
RetryKeys == r1 :> k1 @@ r2 :> k1 @@ r3 :> k1 @@ r4 :> k2 @@ r5 :> k2
RetryDevices == r1 :> d1 @@ r2 :> d1 @@ r3 :> d1 @@ r4 :> d1 @@ r5 :> d2
RetryParams == r1 :> on @@ r2 :> on @@ r3 :> dim @@ r4 :> off @@ r5 :> on
RetryStrays == {[cmd |-> c, from |-> d2, status |-> "executed", at |-> 0] : c \in {r1, r2}}
RetrySymmetry == Permutations({r1, r2})

(* Two intentions for the same device. *)
PairKeys == r1 :> k1 @@ r3 :> k2
PairDevices == r1 :> d1 @@ r3 :> d1
PairParams == r1 :> on @@ r3 :> on
=============================================================================
