------------------------------ MODULE MCDcpTime ------------------------------
(* Instances of DcpTime for TLC.                                             *)
EXTENDS DcpTime

SomeCommands ==
    {Command("set", "mode", <<"local">>), Command("set", "mode", <<"utc", "utc">>),
     Command("set", "time", <<"local">>), Command("get", "mode", <<"local">>),
     Command("def", "mode", <<"local">>), Command("reply", "mode", <<"local">>),
     Command("none", "", <<>>)}
=============================================================================
