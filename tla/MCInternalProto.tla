--------------------------- MODULE MCInternalProto ---------------------------
(* Constants for model checking InternalProto: the clients are alike.       *)
(* Setting up is independent of the traffic, so one run starts where all    *)
(* connections exist and have been told of each other.                      *)
EXTENDS InternalProto, TLC

Symmetric == Permutations(Clients)

AllSetUp ==
    /\ up = TRUE /\ notify = FALSE /\ inited = Clients /\ told = Clients
    /\ NoTraffic

SetUpSpec == AllSetUp /\ [][Next]_vars
=============================================================================
