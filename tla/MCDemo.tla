-------------------------------- MODULE MCDemo --------------------------------
(* Instances of Demo for TLC. *)
EXTENDS Demo

MCMinted == <<"epoch1", "epoch2", "epoch3", "epoch4">>

(* What the theorem about undisturbed runs asks for.                       *)
ASSUME MCUnhurried == Unhurried
=============================================================================
