----------------------------- MODULE NameSwitch -----------------------------
(***************************************************************************)
(* What a hub promises to its devices, without connections, buffers or     *)
(* slots: every name has at most one owner and a mailbox. A name passes to *)
(* another owner only after its owner has left, and what was not taken     *)
(* from the mailbox is lost with it. Only packets addressed to the name    *)
(* are put into it, behind those already there, and only while the name    *)
(* has an owner; they are taken from the front.                            *)
(***************************************************************************)
EXTENDS Naturals, Sequences

CONSTANTS
    Names,
    Owners,
    Nobody  \* stands for the owner of a name that is free

VARIABLES
    owner,  \* name -> who holds it, or Nobody
    box     \* name -> packets to be taken by its owner

Init ==
    /\ owner = [n \in Names |-> Nobody]
    /\ box = [n \in Names |-> <<>>]

\* o takes a name that is free; nobody holds two names.
Join(n, o) ==
    /\ owner[n] = Nobody
    /\ \A m \in Names : owner[m] # o
    /\ owner' = [owner EXCEPT ![n] = o]

\* Some packets for n are put into its mailbox.
Post(n) ==
    /\ owner'[n] # Nobody
    /\ Len(box[n]) <= Len(box'[n])
    /\ \A i \in 1 .. Len(box'[n]) :
           IF i <= Len(box[n]) THEN box'[n][i] = box[n][i]
                               ELSE box'[n][i].dst = n
    /\ box' = [box EXCEPT ![n] = box'[n]]

\* A packet is handled: it may make its sender known, and may be put somewhere.
Handle ==
    /\ UNCHANGED owner \/ \E n \in Names, o \in Owners : Join(n, o)
    /\ UNCHANGED box \/ \E n \in Names : Post(n)

Take(n) ==
    /\ box[n] # <<>>
    /\ box' = [box EXCEPT ![n] = Tail(@)]
    /\ UNCHANGED owner

\* Some owners leave, with their names and what they have not taken.
Leave(gone) ==
    /\ owner' = [n \in Names |-> IF owner[n] \in gone THEN Nobody ELSE owner[n]]
    /\ box' = [n \in Names |-> IF owner[n] \in gone THEN <<>> ELSE box[n]]

Next ==
    \/ Handle
    \/ \E n \in Names : Take(n)
    \/ \E gone \in SUBSET Owners : Leave(gone)

Spec == Init /\ [][Next]_<<owner, box>>
=============================================================================
