---------------------------- MODULE MCDcpClient ----------------------------
(* A small instance of DcpClient for TLC.                                    *)
EXTENDS DcpClient

CONSTANT n1

Forwarded == {[src |-> n1, snr |-> 2]}
=============================================================================
