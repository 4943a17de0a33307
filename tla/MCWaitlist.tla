----------------------------- MODULE MCWaitlist -----------------------------
(* Instances of Waitlist for TLC: a few users, a seat or two. *)
EXTENDS Waitlist, TLC

CONSTANTS u1, u2, u3

(* Where nobody overrides and liveness is not asked. *)
MCSymmetry == Permutations({u1, u2})
=============================================================================
