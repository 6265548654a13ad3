--------------------------- MODULE MCKernelObjects ---------------------------
(* Two processes, one slot for a thread and for each memory object, and two    *)
(* slots for channels, so that channel slots are used again and pools run full *)
(* before the counter reaches its bound.                                       *)
EXTENDS KernelObjects
MCCapacity == [k \in Kinds |-> IF k \in {"process", "rpc_channel"} THEN 2 ELSE 1]
=============================================================================
