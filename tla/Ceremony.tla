-------------------------------- MODULE Ceremony --------------------------------
(***************************************************************************)
(* What the signing ceremony promises: a custodian signs only payloads he  *)
(* has confirmed before, and neither a confirmation nor a signature is     *)
(* ever taken back.  Nothing is said of directories, programs, request     *)
(* digests or fragment files.                                              *)
(***************************************************************************)
CONSTANTS
    Holder,  \* custodians
    Payload  \* manifest payloads

VARIABLES
    confirmed,  \* per custodian, the payloads inspected and confirmed
    signed      \* per custodian, the payloads the offline key has signed

Init ==
    /\ confirmed = [h \in Holder |-> {}]
    /\ signed = [h \in Holder |-> {}]

Confirm(h) ==
    \E payload \in Payload :
        /\ confirmed' = [confirmed EXCEPT ![h] = @ \cup {payload}]
        /\ UNCHANGED signed

\* Mutant: what is signed is not what was confirmed.
MutSign(h) ==
    \E payload \in Payload :
        /\ signed' = [signed EXCEPT ![h] = @ \cup {payload}]
        /\ UNCHANGED confirmed

Sign(h) ==
    \E payload \in confirmed[h] :
        /\ signed' = [signed EXCEPT ![h] = @ \cup {payload}]
        /\ UNCHANGED confirmed

Next == \E h \in Holder : Confirm(h) \/ Sign(h)

Spec == Init /\ [][Next]_<<confirmed, signed>>

\* Every variable has its type, and signatures are over confirmed payloads.
TypeOK ==
    /\ confirmed \in [Holder -> SUBSET Payload]
    /\ signed \in [Holder -> SUBSET Payload]
    /\ \A h \in Holder : signed[h] \subseteq confirmed[h]
=============================================================================
