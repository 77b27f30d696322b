--------------------------- MODULE MCCheckThenAct ---------------------------
(***************************************************************************)
(* Three requests for two units, one of them sold before the burst, or for *)
(* one code: every shape, one or two replicas, every wave size, with and   *)
(* without the backstop.                                                   *)
(***************************************************************************)
EXTENDS CheckThenAct

MCScenarios ==
    {s \in [shape : Shapes, replicas : {1, 2}, wave : 1 .. 3, preSold : {0, 1}, backstop : BOOLEAN] :
        s.preSold = IF s.shape = "redemption" THEN 0 ELSE 1}

\* A correct outcome: the process lock behind one replica.
MCLockedScenarios ==
    {[shape |-> "process_lock", replicas |-> 1, wave |-> 3, preSold |-> 1, backstop |-> FALSE]}

=============================================================================
