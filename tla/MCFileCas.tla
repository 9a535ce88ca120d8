------------------------------ MODULE MCFileCas ------------------------------
(* Three writers, the first two of which share a process id. *)
EXTENDS FileCas

MCProcess == [w \in Writers |-> IF w = 3 THEN 2 ELSE 1]

=============================================================================
