----------------------------- MODULE PacketPipe -----------------------------
(***************************************************************************)
(* What a connection promises to those who think in packets: whatever is   *)
(* written at one end is read at the other, in order, each once and whole, *)
(* however the bytes between them were cut.                                *)
(***************************************************************************)
EXTENDS SequencesExt

VARIABLES
    written,    \* everything written so far
    read        \* everything read so far

Init == written = <<>> /\ read = <<>>

Next ==
    /\ IsPrefix(written, written')
    /\ IsPrefix(read, read')
    /\ IsPrefix(read', written')

Spec == Init /\ [][Next]_<<written, read>>
=============================================================================
