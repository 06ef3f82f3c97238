----------------------------- MODULE MCTdmaRing -----------------------------
(* The ring of packets with room for two.                                  *)
EXTENDS TdmaRing
=============================================================================
