------------------------------ MODULE MCDcpTerm ------------------------------
(* A small instance of DcpTerm for TLC.                                      *)
EXTENDS DcpTerm

CONSTANTS n1, n2
=============================================================================
