---------------------------- MODULE MCPickProxy ----------------------------
(* Values for model checking PickProxy: members with free places, full,    *)
(* and overloaded ones, of weight and of capacity 0.                       *)
EXTENDS PickProxy

S(w, c, s) == [weight |-> w, capacity |-> c, sessions |-> s]

SomeSettings ==
  {S(1, 2, 0), S(3, 2, 1), S(1, 2, 2), S(0, 2, 1), S(1, 2, 3), S(2, 1, 4), S(1, 0, 0), S(1, 0, 2)}

FarBelow == -1000
=============================================================================
