------------------------------ MODULE MCReload ------------------------------
(* Values for model checking Reload: files with one or two clusters, with  *)
(* and without a relay, with shared and with changed addresses.            *)
EXTENDS Reload

CONSTANTS A, B, h1, h2, x, y, r1, r2

Host(h, a) == [host |-> h, addr |-> a, supported |-> TRUE, status |-> "ACTIVE"]
Suspended(h, a) == [Host(h, a) EXCEPT !.status = "SUSPENDED"]
Wrong(h, a) == [Host(h, a) EXCEPT !.supported = FALSE]
Cluster(c, r, ms) == [name |-> c, relay |-> r, members |-> ms]

Files ==
  {<<Cluster(A, r1, <<Host(h1, x), Host(h2, y)>>)>>,
   <<Cluster(B, NoRelay, <<Host(h1, Unix)>>), Cluster(A, r2, <<Suspended(h1, x)>>)>>,
   <<Cluster(A, NoRelay, <<Host(h2, x), Host(h1, x)>>)>>,
   <<Cluster(B, r1, <<Host(h1, Unix)>>), Cluster(A, r1, <<Host(h1, x), Wrong(h2, y)>>)>>}

Added == {[to |-> A, member |-> Host(h2, x)]}
=============================================================================
