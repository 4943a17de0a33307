----------------------------- MODULE MCSeating -----------------------------
(* Two seats; one buyer with three tickets, or a guest and a user with      *)
(* holds.                                                                   *)
EXTENDS Seating, TLC

CONSTANTS t1, t2, t3, alice, bob, x1, x2

MCUserOf == [t \in Ticket |-> alice]

(* Hold or kill seats, free them, and both for one seat in one request. *)
MCBatches == {[marks |-> (1 :> "KILLED") @@ (2 :> "HELD"), frees |-> {}],
              [marks |-> 2 :> "KILLED", frees |-> {1}],
              [marks |-> 1 :> "HELD", frees |-> {1, 2}]}

MCSymmetry == Permutations({x1, x2}) \cup Permutations({t1, t2, t3})
=============================================================================
