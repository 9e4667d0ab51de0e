---------------------------- MODULE MCBroadcast ----------------------------
(* Values for model checking Broadcast.                                    *)
EXTENDS Broadcast

\* The length the code gives br.results.
CodeResults == 1000
=============================================================================
