----------------------------- MODULE MCProfiles -----------------------------
(* Profiles on small instances. *)
EXTENDS Profiles, TLC

CONSTANTS a, b, ext_a, ext_b

TwoProfiles == a :> ext_a @@ b :> ext_b
BothFirst == <<a, b>>
=============================================================================
