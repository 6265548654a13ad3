---------------------------- MODULE KernelObjects ----------------------------
(***************************************************************************)
(* Kernel objects and their handles: the pools of fixed capacity           *)
(* (kernel/kernel_object_pool.inl), the one counter they all draw handles  *)
(* from, and the operations of kernel/user_runtime.cpp and kernel/rpc.cpp  *)
(* that create, look up and erase objects.  Only channels are ever erased. *)
(*                                                                         *)
(* An object is reduced to its identity and to the process that may use    *)
(* it.  Whether a call is in progress on a channel is UserRuntime's        *)
(* business; here it is a free choice.                                     *)
(***************************************************************************)
EXTENDS Integers, FiniteSets

CONSTANTS
    Capacity,   \* Capacity[k]: number of slots of the pool of kind k
    LastHandle  \* bound of the model: no handle beyond it is given out

Kinds == {"process", "thread", "device_memory", "shared_memory", "rpc_channel"}

ASSUME KernelObjectsAssumption ==
    /\ Capacity \in [Kinds -> Nat]
    /\ LastHandle \in Nat

\* All slots of all pools: kind and index.
Slots == UNION {{k} \X (0 .. Capacity[k] - 1) : k \in Kinds}

\* Processes are never destroyed, so the index of one identifies it.
Processes == 0 .. Capacity["process"] - 1
NoProcess == -1

InvalidHandle == 0
Handles == 1 .. LastHandle

Object == [id : Nat, handle : Handles, owner : Processes \cup {NoProcess}]
Empty == [id |-> 0]

VARIABLES
    objects,        \* objects[s]: the object in slot s, or Empty
    next_handle,    \* m_next_handle_value, shared by the pools
    next_id,        \* next_id[k]: m_next_object_id of the pool of kind k
    held            \* held[p]: the handles that RPC_OPEN has delivered to process p
                    \* and that p has not closed (known to the program only)

vars == <<objects, next_handle, next_id, held>>

Occupied(s) == objects[s] # Empty

\* The slot that a search of one pool comes to first
First(S) == {s \in S : \A r \in S : s[2] <= r[2]}

-----------------------------------------------------------------------------
(* kernel_object_pool.inl; a table is a value of objects *)

Free(k) == {s \in Slots : s[1] = k /\ ~Occupied(s)}

\* Mutant: handles are given out again.
AllocateHandleByCount(k) == Cardinality({s \in Slots : Occupied(s)}) + 1

\* allocate_handle_value
AllocateHandle(k) == next_handle

\* emplace: the table with a new object of kind k in slot s
Emplaced(k, s, owner) ==
    [objects EXCEPT ![s] = [id |-> next_id[k], handle |-> AllocateHandle(k), owner |-> owner]]

\* emplace: the counters it moves on
CountersAdvance(k) ==
    /\ next_handle \in Handles
    /\ next_handle' = next_handle + 1
    /\ next_id' = [next_id EXCEPT ![k] = next_id[k] + 1]

\* find_by_handle
FindByHandle(table, k, h) ==
    First({s \in Slots : s[1] = k /\ table[s] # Empty /\ table[s].handle = h})

\* find_object_by_handle: every pool but that of the channels
FindObjectByHandle(h) ==
    UNION {FindByHandle(objects, k, h) : k \in Kinds \ {"rpc_channel"}}

\* Mutant: the first object of the pool goes, whatever its handle.
FirstErased(table, h) ==
    [s \in Slots |-> IF s \in First({r \in Slots : r[1] = "rpc_channel" /\ table[r] # Empty})
                     THEN Empty ELSE table[s]]

\* erase_by_handle of the pool of channels
Erased(table, h) ==
    [s \in Slots |-> IF s \in FindByHandle(table, "rpc_channel", h) THEN Empty ELSE table[s]]

-----------------------------------------------------------------------------
(* user_runtime.cpp and rpc.cpp *)

\* A creating function returns null when its pool is full.
Create(k, owner) ==
    \/ Free(k) = {} /\ UNCHANGED vars
    \/ \E s \in First(Free(k)) :
       /\ objects' = Emplaced(k, s, owner)
       /\ CountersAdvance(k)
       /\ UNCHANGED held

\* create_process
CreateProcess == Create("process", NoProcess)

\* create_thread
CreateThread(p) == Occupied(<<"process", p>>) /\ Create("thread", p)

\* create_device_memory_object
CreateDeviceMemoryObject == Create("device_memory", NoProcess)

\* create_shared_memory_object
CreateSharedMemoryObject == Create("shared_memory", NoProcess)

\* RPC_OPEN, from the creation of the channel on: the handle is delivered, or the
\* caller's memory does not take it and the channel is erased again.
RpcOpen(p) ==
    /\ Occupied(<<"process", p>>)
    /\ \/ Free("rpc_channel") = {} /\ UNCHANGED vars
       \/ \E s \in First(Free("rpc_channel")) :
          LET handle == AllocateHandle("rpc_channel")
              opened == Emplaced("rpc_channel", s, p)
          IN
          /\ CountersAdvance("rpc_channel")
          /\ \/ /\ objects' = opened
                /\ held' = [held EXCEPT ![p] = held[p] \cup {handle}]
             \/ /\ objects' = Erased(opened, handle)
                /\ UNCHANGED held

\* The answer to a handle that names no channel
NoChannelStatus(h) ==
    IF h = InvalidHandle THEN "INVALID_ARGUMENT"
    ELSE IF FindObjectByHandle(h) = {} THEN "BAD_HANDLE" ELSE "WRONG_TYPE"

\* How RPC_CALL and RPC_CLOSE judge the handle h that process p passes
HandleStatus(p, h) ==
    LET found == FindByHandle(objects, "rpc_channel", h)
    IN  IF found = {} THEN NoChannelStatus(h)
        ELSE IF \E s \in found : objects[s].owner = p THEN "OK" ELSE "BAD_HANDLE"

\* RPC_CLOSE; a refused handle, and a channel with a call in progress, change nothing.
RpcClose(p, h) ==
    /\ Occupied(<<"process", p>>)
    /\ \/ UNCHANGED vars
       \/ /\ HandleStatus(p, h) = "OK"
          /\ objects' = Erased(objects, h)
          /\ held' = [held EXCEPT ![p] = held[p] \ {h}]
          /\ UNCHANGED <<next_handle, next_id>>

\* user_runtime::reset
Init ==
    /\ objects = [s \in Slots |-> Empty]
    /\ next_handle = 1
    /\ next_id = [k \in Kinds |-> 1]
    /\ held = [p \in Processes |-> {}]

Next ==
    \/ CreateProcess \/ CreateDeviceMemoryObject \/ CreateSharedMemoryObject
    \/ \E p \in Processes :
        \/ CreateThread(p) \/ RpcOpen(p)
        \/ \E h \in Handles \cup {InvalidHandle} : RpcClose(p, h)

Spec == Init /\ [][Next]_vars
-----------------------------------------------------------------------------

\* Every variable has the type its declaration in kernel/ gives it.
TypeOK ==
    /\ objects \in [Slots -> Object \cup {Empty}]
    /\ next_handle \in 1 .. LastHandle + 1
    /\ next_id \in [Kinds -> Nat \ {0}]
    /\ held \in [Processes -> SUBSET Handles]

\* No two live objects share a handle, whichever pools they are in, no two objects of a
\* pool share an id, and every handle in use has already been drawn from the counter
\* (allocate_handle_value, one counter for all pools).
HandlesUnique ==
    /\ \A s \in Slots : Occupied(s) => /\ objects[s].handle < next_handle
                                       /\ objects[s].id < next_id[s[1]]
    /\ \A r, s \in Slots : Occupied(r) /\ Occupied(s) =>
          /\ objects[r].handle = objects[s].handle => r = s
          /\ r[1] = s[1] /\ objects[r].id = objects[s].id => r = s

\* The kernel lets a process use exactly the channels whose handles the process was
\* given and has not closed: none is lost, none leaks when a handle cannot be delivered,
\* and no process reaches a channel of another (RPC_OPEN, RPC_CLOSE, is_owned_by).
HeldExactlyUsable ==
    \A p \in Processes, h \in Handles : HandleStatus(p, h) = "OK" <=> h \in held[p]

\* A handle means one object for ever: once it has been given out, what it names is
\* the object it always named or nothing, though its slot be used again.
HandleNamesOneObject ==
    [][\A s \in Slots : objects'[s] # Empty /\ objects'[s].handle < next_handle =>
          objects'[s] = objects[s]]_vars
=============================================================================
