----------------------------- MODULE MCDNRelay -----------------------------
(* Values for model checking DNRelay.                                      *)
EXTENDS DNRelay

\* One connection sends to the faulty destinations only.
OneToFaulty ==
  LET c1 == CHOOSE c \in Conns : TRUE
  IN  [c \in Conns |-> IF c = c1 THEN Faulty ELSE Dests]
=============================================================================
