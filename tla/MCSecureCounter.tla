--------------------------- MODULE MCSecureCounter ---------------------------
(***************************************************************************)
(* Three requests on two replicas compete for two units; two of them share *)
(* a replica whose pool has one connection.                                *)
(***************************************************************************)
EXTENDS SecureCounter

CONSTANTS r1, r2, r3, appA, appB

MCRequests == {r1, r2, r3}
MCReplicas == {appA, appB}
MCReplicaOf == [r \in MCRequests |-> IF r = r2 THEN appB ELSE appA]

=============================================================================
