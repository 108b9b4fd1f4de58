----------------------------- MODULE MCBlocking ------------------------------
(* The users of the blocking interface, for TLC: a behaviour runs one of     *)
(* them and leaves the other at rest.                                        *)
EXTENDS PythonShell, DcpSend

VARIABLE part   \* the part that runs

AllInputs == UNION {[1 .. n -> BOOLEAN] : n \in 0 .. 4}
ThreeNames == <<"a", "b", "a">>

Init == part \in {"shell", "send"} /\ ShellInit /\ SendInit
            /\ (part = "shell" => input = <<>>)

Next ==
    /\ UNCHANGED part
    /\ \/ part = "shell" /\ ShellNext /\ UNCHANGED sendVars
       \/ part = "send" /\ SendNext /\ UNCHANGED shellVars

Spec == Init /\ [][Next]_<<part, shellVars, sendVars>>
=============================================================================
