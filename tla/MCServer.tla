------------------------------ MODULE MCServer ------------------------------
(* Instances of Server for TLC. *)
EXTENDS Server, ConnectionSession, TLC

\* For the runs that check safety only.
Symmetry == Permutations(Conns)

\* Bound: a connection with more than one request is the only one that is
\* started, and MaxRequests of them only it has.
MCNext ==
    /\ Next
    /\ \A c, d \in Conns :
           c # d /\ parsed'[c] > 1 => life'[d] \in {"none", "accepting"}

MCSpec == Init /\ [][MCNext]_vars
=============================================================================
