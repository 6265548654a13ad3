------------------------- MODULE KernelObjectsProofs -------------------------
(***************************************************************************)
(* Machine-checked proofs that the properties of KernelObjects hold for    *)
(* pools of any capacity and for any number of handles.                    *)
(***************************************************************************)
EXTENDS KernelObjects, TLAPS

\* Process p has a live channel with handle h.
Owns(p, h) ==
    \E s \in Slots : /\ s[1] = "rpc_channel" /\ objects[s] # Empty
                     /\ objects[s].handle = h /\ objects[s].owner = p

\* HeldExactlyUsable in terms of slots
HeldExactlyOwned == \A p \in Processes, h \in Handles : Owns(p, h) <=> h \in held[p]

\* The inductive invariant
IInv == TypeOK /\ HandlesUnique /\ HeldExactlyOwned

\* A slot names one of the five kinds and an index.
LEMMA SlotShape ==
    ASSUME NEW s \in Slots
    PROVE  s[1] \in Kinds /\ s[2] \in Nat
  <1>1. PICK k \in Kinds : s \in {k} \X (0 .. Capacity[k] - 1)
    BY DEF Slots
  <1>2. QED
    BY <1>1, KernelObjectsAssumption

\* An object is not Empty.
LEMMA ObjectIsNotEmpty ==
    ASSUME NEW o \in Object
    PROVE  o # Empty
  <1>1. DOMAIN o = {"id", "handle", "owner"}
    BY DEF Object
  <1>2. DOMAIN Empty = {"id"}
    BY DEF Empty
  <1>3. QED
    BY <1>1, <1>2

\* Where handles are unique, find_by_handle finds the object with the handle.
LEMMA FoundIsTheOne ==
    ASSUME NEW table \in [Slots -> Object \cup {Empty}], NEW k \in Kinds, NEW h,
           \A r, s \in Slots : table[r] # Empty /\ table[s] # Empty
                               /\ table[r].handle = table[s].handle => r = s
    PROVE  FindByHandle(table, k, h) =
              {s \in Slots : s[1] = k /\ table[s] # Empty /\ table[s].handle = h}
  <1> DEFINE S == {s \in Slots : s[1] = k /\ table[s] # Empty /\ table[s].handle = h}
  <1>1. \A r, s \in S : r = s
    OBVIOUS
  <1>2. \A r \in S : r[2] <= r[2]
    BY SlotShape
  <1>3. QED
    BY <1>1, <1>2 DEF FindByHandle, First

\* HandleStatus accepts exactly the handles of channels that the process owns.
LEMMA StatusOfOwner ==
    ASSUME TypeOK, HandlesUnique, NEW p \in Processes, NEW h \in Handles
    PROVE  HandleStatus(p, h) = "OK" <=> Owns(p, h)
  <1> DEFINE found == FindByHandle(objects, "rpc_channel", h)
  <1>1. found = {s \in Slots : s[1] = "rpc_channel" /\ objects[s] # Empty /\ objects[s].handle = h}
    <2>1. objects \in [Slots -> Object \cup {Empty}]
      BY DEF TypeOK
    <2>2. \A r, s \in Slots : objects[r] # Empty /\ objects[s] # Empty
                              /\ objects[r].handle = objects[s].handle => r = s
      BY DEF HandlesUnique, Occupied
    <2>3. "rpc_channel" \in Kinds
      BY DEF Kinds
    <2> HIDE DEF found
    <2>4. QED
      BY <2>1, <2>2, <2>3, FoundIsTheOne DEF found
  <1>2. NoChannelStatus(h) # "OK"
    BY DEF NoChannelStatus
  <1>3. HandleStatus(p, h) = "OK" <=> \E s \in found : objects[s].owner = p
    BY <1>2 DEF HandleStatus
  <1>4. QED
    BY <1>1, <1>3 DEF Owns

-----------------------------------------------------------------------------

\* The invariant holds after reset.
LEMMA InitIInv == Init => IInv
  <1> SUFFICES ASSUME Init PROVE IInv
    OBVIOUS
  <1>1. TypeOK
    BY KernelObjectsAssumption DEF Init, TypeOK
  <1>2. HandlesUnique
    BY DEF Init, HandlesUnique, Occupied
  <1>3. HeldExactlyOwned
    BY DEF Init, HeldExactlyOwned, Owns
  <1>4. QED
    BY <1>1, <1>2, <1>3 DEF IInv

\* emplace keeps types and the uniqueness of handles and ids.
LEMMA EmplaceEffect ==
    ASSUME TypeOK, HandlesUnique, NEW k \in Kinds, NEW s \in Free(k),
           NEW owner \in Processes \cup {NoProcess},
           objects' = Emplaced(k, s, owner), CountersAdvance(k)
    PROVE  /\ objects' \in [Slots -> Object \cup {Empty}]
           /\ next_handle' \in 1 .. LastHandle + 1
           /\ next_id' \in [Kinds -> Nat \ {0}]
           /\ HandlesUnique'
  <1> DEFINE new == [id |-> next_id[k], handle |-> next_handle, owner |-> owner]
  <1>1. s \in Slots /\ s[1] = k /\ objects[s] = Empty
    BY DEF Free, Occupied
  <1>2. objects' = [objects EXCEPT ![s] = new]
    BY DEF Emplaced, AllocateHandle
  <1>3. new \in Object
    BY DEF TypeOK, CountersAdvance, Object
  <1>4. next_handle' = next_handle + 1 /\ next_handle \in Nat
    BY KernelObjectsAssumption DEF TypeOK, CountersAdvance
  <1>5. next_id' = [next_id EXCEPT ![k] = next_id[k] + 1] /\ next_id \in [Kinds -> Nat \ {0}]
    BY DEF TypeOK, CountersAdvance
  <1>6. objects' \in [Slots -> Object \cup {Empty}]
    BY <1>1, <1>2, <1>3 DEF TypeOK
  <1>7. next_handle' \in 1 .. LastHandle + 1
    BY <1>4, KernelObjectsAssumption DEF CountersAdvance, Handles
  <1>8. next_id' \in [Kinds -> Nat \ {0}]
    BY <1>5
  <1>9. \A r \in Slots : objects'[r] # Empty =>
           /\ objects'[r].handle < next_handle'
           /\ objects'[r].id < next_id'[r[1]]
    <2> SUFFICES ASSUME NEW r \in Slots, objects'[r] # Empty
                 PROVE  objects'[r].handle < next_handle' /\ objects'[r].id < next_id'[r[1]]
      OBVIOUS
    <2>1. CASE r = s
      <3>1. objects'[r] = new
        BY <1>1, <1>2, <2>1 DEF TypeOK
      <3>2. QED
        BY <3>1, <2>1, <1>1, <1>4, <1>5
    <2>2. CASE r # s
      <3>1. objects'[r] = objects[r] /\ objects[r] \in Object
        BY <1>1, <1>2, <2>2 DEF TypeOK
      <3>2. objects[r].handle < next_handle /\ objects[r].id < next_id[r[1]]
        BY <3>1 DEF HandlesUnique, Occupied
      <3>3. r[1] \in Kinds /\ objects[r].handle \in Nat /\ objects[r].id \in Nat
        BY <3>1, SlotShape DEF Object, Handles
      <3>4. next_id'[r[1]] \in {next_id[r[1]], next_id[r[1]] + 1}
        BY <1>5, <3>3
      <3>5. QED
        BY <3>1, <3>2, <3>3, <3>4, <1>4, <1>5
    <2>3. QED
      BY <2>1, <2>2
  <1>10. \A q, r \in Slots : objects'[q] # Empty /\ objects'[r] # Empty =>
            /\ objects'[q].handle = objects'[r].handle => q = r
            /\ q[1] = r[1] /\ objects'[q].id = objects'[r].id => q = r
    <2>1. \A r \in Slots : r # s /\ objects'[r] # Empty =>
             /\ objects'[r] = objects[r]
             /\ objects[r].handle # next_handle
             /\ r[1] = k => objects[r].id # next_id[k]
      <3> SUFFICES ASSUME NEW r \in Slots, r # s, objects'[r] # Empty
                   PROVE  /\ objects'[r] = objects[r]
                          /\ objects[r].handle # next_handle
                          /\ r[1] = k => objects[r].id # next_id[k]
        OBVIOUS
      <3>1. objects'[r] = objects[r] /\ objects[r] \in Object
        BY <1>1, <1>2 DEF TypeOK
      <3>2. objects[r].handle < next_handle /\ objects[r].id < next_id[r[1]]
        BY <3>1 DEF HandlesUnique, Occupied
      <3>3. objects[r].handle \in Nat /\ objects[r].id \in Nat
        BY <3>1 DEF Object, Handles
      <3>4. QED
        BY <3>1, <3>2, <3>3, <1>4, <1>5
    <2>2. objects'[s] = new
      BY <1>1, <1>2 DEF TypeOK
    <2>3. QED
      BY <2>1, <2>2, <1>1 DEF HandlesUnique, Occupied
  <1>11. QED
    BY <1>6, <1>7, <1>8, <1>9, <1>10 DEF HandlesUnique, Occupied

\* Which channels a process owns depends on the slots of channels only.
LEMMA OwnedElsewhere ==
    ASSUME TypeOK, HandlesUnique, HeldExactlyOwned, NEW k \in Kinds \ {"rpc_channel"},
           NEW s \in Free(k), NEW owner, objects' = Emplaced(k, s, owner), UNCHANGED held
    PROVE  HeldExactlyOwned'
  <1>1. s \in Slots /\ s[1] # "rpc_channel"
    BY DEF Free
  <1>2. \A r \in Slots : r[1] = "rpc_channel" => objects'[r] = objects[r]
    BY <1>1 DEF Emplaced, TypeOK
  <1>3. QED
    BY <1>2 DEF HeldExactlyOwned, Owns

\* The creating functions keep the invariant.
LEMMA CreateKeepsIInv ==
    ASSUME IInv, NEW k \in Kinds \ {"rpc_channel"}, NEW owner \in Processes \cup {NoProcess},
           Create(k, owner)
    PROVE  IInv'
  <1>1. CASE UNCHANGED vars
    BY <1>1 DEF vars, IInv, TypeOK, HandlesUnique, Occupied, HeldExactlyOwned, Owns
  <1>2. CASE \E s \in First(Free(k)) :
                objects' = Emplaced(k, s, owner) /\ CountersAdvance(k) /\ UNCHANGED held
    <2>1. PICK s \in Free(k) :
             objects' = Emplaced(k, s, owner) /\ CountersAdvance(k) /\ UNCHANGED held
      BY <1>2 DEF First
    <2>2. TypeOK' /\ HandlesUnique'
      BY <2>1, EmplaceEffect DEF IInv, TypeOK
    <2>3. HeldExactlyOwned'
      BY <2>1, OwnedElsewhere DEF IInv
    <2>4. QED
      BY <2>2, <2>3 DEF IInv
  <1>3. QED
    BY <1>1, <1>2 DEF Create

\* erase_by_handle empties the slot of the handle and no other.
LEMMA ErasedEffect ==
    ASSUME NEW table \in [Slots -> Object \cup {Empty}], NEW h,
           \A r, s \in Slots : table[r] # Empty /\ table[s] # Empty
                               /\ table[r].handle = table[s].handle => r = s
    PROVE  /\ Erased(table, h) \in [Slots -> Object \cup {Empty}]
           /\ \A s \in Slots : Erased(table, h)[s] =
                 IF s[1] = "rpc_channel" /\ table[s] # Empty /\ table[s].handle = h
                 THEN Empty ELSE table[s]
  <1>1. "rpc_channel" \in Kinds
    BY DEF Kinds
  <1>2. FindByHandle(table, "rpc_channel", h) =
           {s \in Slots : s[1] = "rpc_channel" /\ table[s] # Empty /\ table[s].handle = h}
    BY <1>1, FoundIsTheOne
  <1>3. QED
    BY <1>2 DEF Erased

\* Fewer objects are still unique.
LEMMA FewerObjectsUnique ==
    ASSUME TypeOK, HandlesUnique,
           \A s \in Slots : objects'[s] \in {objects[s], Empty},
           next_handle' \in {next_handle, next_handle + 1},
           \A k \in Kinds : next_id'[k] \in {next_id[k], next_id[k] + 1}
    PROVE  HandlesUnique'
  <1>1. \A s \in Slots : objects'[s] # Empty =>
           objects'[s].handle < next_handle' /\ objects'[s].id < next_id'[s[1]]
    <2> SUFFICES ASSUME NEW s \in Slots, objects'[s] # Empty
                 PROVE  objects'[s].handle < next_handle' /\ objects'[s].id < next_id'[s[1]]
      OBVIOUS
    <2>1. objects'[s] = objects[s] /\ objects[s] \in Object
      BY DEF TypeOK
    <2>2. objects[s].handle < next_handle /\ objects[s].id < next_id[s[1]]
      BY <2>1 DEF HandlesUnique, Occupied
    <2>3. /\ objects[s].handle \in Nat /\ objects[s].id \in Nat
          /\ next_handle \in Nat /\ s[1] \in Kinds /\ next_id[s[1]] \in Nat
      BY <2>1, SlotShape, KernelObjectsAssumption DEF TypeOK, Object, Handles
    <2>4. QED
      BY <2>1, <2>2, <2>3
  <1>2. QED
    BY <1>1 DEF HandlesUnique, Occupied

\* RPC_OPEN keeps the invariant, whether or not the handle can be delivered.
LEMMA RpcOpenKeepsIInv ==
    ASSUME IInv, NEW p \in Processes, RpcOpen(p)
    PROVE  IInv'
  <1> DEFINE k == "rpc_channel"
  <1>1. CASE UNCHANGED vars
    BY <1>1 DEF vars, IInv, TypeOK, HandlesUnique, Occupied, HeldExactlyOwned, Owns
  <1>2. ASSUME NEW s \in Free(k), CountersAdvance(k), objects' = Emplaced(k, s, p),
               held' = [held EXCEPT ![p] = held[p] \cup {AllocateHandle(k)}]
        PROVE  IInv'
    <2>1. k \in Kinds
      BY DEF Kinds
    <2>2. /\ objects' \in [Slots -> Object \cup {Empty}] /\ next_handle' \in 1 .. LastHandle + 1
          /\ next_id' \in [Kinds -> Nat \ {0}] /\ HandlesUnique'
      BY <1>2, <2>1, EmplaceEffect DEF IInv
    <2>3. held' \in [Processes -> SUBSET Handles]
      BY <1>2 DEF IInv, TypeOK, CountersAdvance, AllocateHandle
    <2>4. s \in Slots /\ s[1] = k /\ objects[s] = Empty
      BY <1>2 DEF Free, Occupied
    <2>5. /\ objects'[s] = [id |-> next_id[k], handle |-> next_handle, owner |-> p]
          /\ \A r \in Slots : r # s => objects'[r] = objects[r]
      BY <1>2, <2>4 DEF Emplaced, AllocateHandle, IInv, TypeOK
    <2>6. objects'[s] # Empty /\ objects'[s].handle = next_handle /\ objects'[s].owner = p
      <3>1. next_handle \in Handles /\ next_id[k] \in Nat
        BY <1>2, <2>1 DEF CountersAdvance, IInv, TypeOK
      <3>2. objects'[s] \in Object
        BY <2>5, <3>1 DEF Object
      <3>3. QED
        BY <2>5, <3>2, ObjectIsNotEmpty
    <2>7. \A q \in Processes, h \in Handles :
             Owns(q, h)' <=> Owns(q, h) \/ (q = p /\ h = next_handle)
      BY <2>4, <2>5, <2>6 DEF Owns
    <2>8. \A q \in Processes, h \in Handles :
             h \in held'[q] <=> h \in held[q] \/ (q = p /\ h = next_handle)
      BY <1>2 DEF IInv, TypeOK, AllocateHandle
    <2>9. HeldExactlyOwned'
      BY <2>7, <2>8 DEF IInv, HeldExactlyOwned
    <2>10. QED
      BY <2>2, <2>3, <2>9 DEF IInv, TypeOK
  <1>3. ASSUME NEW s \in Free(k), CountersAdvance(k), UNCHANGED held,
               objects' = Erased(Emplaced(k, s, p), AllocateHandle(k))
        PROVE  IInv'
    <2> DEFINE new == [id |-> next_id[k], handle |-> next_handle, owner |-> p]
               opened == [objects EXCEPT ![s] = new]
    <2>1. k \in Kinds /\ next_handle \in Handles /\ next_id[k] \in Nat
      BY <1>3 DEF Kinds, CountersAdvance, IInv, TypeOK
    <2>2. new \in Object /\ new # Empty
      <3>1. new \in Object
        BY <2>1 DEF Object
      <3>2. QED
        BY <3>1, ObjectIsNotEmpty
    <2>3. s \in Slots /\ s[1] = k /\ objects[s] = Empty
      BY <1>3 DEF Free, Occupied
    <2>4. opened \in [Slots -> Object \cup {Empty}]
      BY <2>2, <2>3 DEF IInv, TypeOK
    <2>5. opened[s] = new /\ \A r \in Slots : r # s => opened[r] = objects[r]
      BY <2>3 DEF IInv, TypeOK
    <2>6. \A r \in Slots : r # s /\ objects[r] # Empty => objects[r].handle # next_handle
      <3> SUFFICES ASSUME NEW r \in Slots, objects[r] # Empty
                   PROVE  objects[r].handle # next_handle
        OBVIOUS
      <3>1. objects[r].handle < next_handle /\ objects[r] \in Object
        BY DEF IInv, HandlesUnique, Occupied, TypeOK
      <3>2. objects[r].handle \in Nat /\ next_handle \in Nat
        BY <3>1, <2>1 DEF Object, Handles
      <3>3. QED
        BY <3>1, <3>2
    <2>7. new.handle = next_handle
      OBVIOUS
    <2> HIDE DEF opened, new
    <2>8. \A q, r \in Slots : opened[q] # Empty /\ opened[r] # Empty
                              /\ opened[q].handle = opened[r].handle => q = r
      BY <2>5, <2>6, <2>7 DEF IInv, HandlesUnique, Occupied
    <2>9. objects' = Erased(opened, next_handle)
      BY <1>3 DEF Emplaced, AllocateHandle, opened, new
    <2>10. objects' \in [Slots -> Object \cup {Empty}]
      BY <2>4, <2>8, <2>9, ErasedEffect
    <2>11. \A r \in Slots : objects'[r] =
              IF r[1] = k /\ opened[r] # Empty /\ opened[r].handle = next_handle
              THEN Empty ELSE opened[r]
      BY <2>4, <2>8, <2>9, ErasedEffect
    <2>12. \A r \in Slots : objects'[r] = objects[r]
      BY <2>11, <2>2, <2>3, <2>5, <2>6, <2>7
    <2>13. HeldExactlyOwned'
      BY <1>3, <2>12 DEF IInv, HeldExactlyOwned, Owns
    <2>14. next_handle' = next_handle + 1 /\ next_id' = [next_id EXCEPT ![k] = next_id[k] + 1]
      BY <1>3 DEF CountersAdvance
    <2>15. \A j \in Kinds : next_id'[j] \in {next_id[j], next_id[j] + 1}
      BY <2>1, <2>14 DEF IInv, TypeOK
    <2>16. HandlesUnique'
      BY <2>12, <2>14, <2>15, FewerObjectsUnique DEF IInv
    <2>17. TypeOK'
      BY <1>3, <2>1, <2>10, <2>14, KernelObjectsAssumption DEF IInv, TypeOK, Handles
    <2>18. QED
      BY <2>13, <2>16, <2>17 DEF IInv
  <1>4. QED
    BY <1>1, <1>2, <1>3 DEF RpcOpen, First

\* RPC_CLOSE keeps the invariant.
LEMMA RpcCloseKeepsIInv ==
    ASSUME IInv, NEW p \in Processes, NEW h \in Handles \cup {InvalidHandle}, RpcClose(p, h)
    PROVE  IInv'
  <1>1. CASE UNCHANGED vars
    BY <1>1 DEF vars, IInv, TypeOK, HandlesUnique, Occupied, HeldExactlyOwned, Owns
  <1>2. CASE /\ HandleStatus(p, h) = "OK"
             /\ objects' = Erased(objects, h)
             /\ held' = [held EXCEPT ![p] = held[p] \ {h}]
             /\ UNCHANGED <<next_handle, next_id>>
    <2>1. objects \in [Slots -> Object \cup {Empty}]
      BY DEF IInv, TypeOK
    <2>2. \A r, s \in Slots : objects[r] # Empty /\ objects[s] # Empty
                              /\ objects[r].handle = objects[s].handle => r = s
      BY DEF IInv, HandlesUnique, Occupied
    <2>3. objects' \in [Slots -> Object \cup {Empty}]
      BY <1>2, <2>1, <2>2, ErasedEffect
    <2>4. \A s \in Slots : objects'[s] =
             IF s[1] = "rpc_channel" /\ objects[s] # Empty /\ objects[s].handle = h
             THEN Empty ELSE objects[s]
      BY <1>2, <2>1, <2>2, ErasedEffect
    <2>5. HandlesUnique'
      <3>1. \A s \in Slots : objects'[s] \in {objects[s], Empty}
        BY <2>4
      <3>2. QED
        BY <3>1, <1>2, FewerObjectsUnique DEF IInv
    <2>6. TypeOK'
      BY <1>2, <2>3 DEF IInv, TypeOK
    <2>7. \A q \in Processes, g \in Handles : Owns(q, g)' <=> Owns(q, g) /\ g # h
      BY <2>4 DEF Owns
    <2>8. h \in Handles => Owns(p, h)
      BY <1>2, StatusOfOwner DEF IInv
    <2>9. \A q \in Processes : h \in Handles /\ Owns(q, h) => q = p
      BY <2>2, <2>8 DEF Owns
    <2>10. HeldExactlyOwned'
      <3> SUFFICES ASSUME NEW q \in Processes, NEW g \in Handles
                   PROVE  Owns(q, g)' <=> g \in held'[q]
        BY DEF HeldExactlyOwned
      <3>1. Owns(q, g) <=> g \in held[q]
        BY DEF IInv, HeldExactlyOwned
      <3>2. g \in held'[q] <=> g \in held[q] /\ ~(q = p /\ g = h)
        BY <1>2 DEF IInv, TypeOK
      <3>3. QED
        BY <2>7, <2>9, <3>1, <3>2
    <2>11. QED
      BY <2>5, <2>6, <2>10 DEF IInv
  <1>3. QED
    BY <1>1, <1>2 DEF RpcClose

\* Every step keeps the invariant.
LEMMA NextKeepsIInv == IInv /\ [Next]_vars => IInv'
  <1> SUFFICES ASSUME IInv, [Next]_vars PROVE IInv'
    OBVIOUS
  <1> USE DEF Kinds
  <1>1. CASE UNCHANGED vars
    BY <1>1 DEF vars, IInv, TypeOK, HandlesUnique, Occupied, HeldExactlyOwned, Owns
  <1>2. CASE CreateProcess
    BY <1>2, CreateKeepsIInv DEF CreateProcess
  <1>3. CASE CreateDeviceMemoryObject
    BY <1>3, CreateKeepsIInv DEF CreateDeviceMemoryObject
  <1>4. CASE CreateSharedMemoryObject
    BY <1>4, CreateKeepsIInv DEF CreateSharedMemoryObject
  <1>5. CASE \E p \in Processes : CreateThread(p)
    BY <1>5, CreateKeepsIInv DEF CreateThread
  <1>6. CASE \E p \in Processes : RpcOpen(p)
    BY <1>6, RpcOpenKeepsIInv
  <1>7. CASE \E p \in Processes, h \in Handles \cup {InvalidHandle} : RpcClose(p, h)
    BY <1>7, RpcCloseKeepsIInv
  <1>8. QED
    BY <1>1, <1>2, <1>3, <1>4, <1>5, <1>6, <1>7 DEF Next

-----------------------------------------------------------------------------

\* The inductive invariant holds in every reachable state.
THEOREM Invariance == Spec => []IInv
  BY InitIInv, NextKeepsIInv, PTL DEF Spec

\* Live handles are unique over all pools (allocate_handle_value).
THEOREM UniquenessCorrect == Spec => []HandlesUnique
  <1>1. IInv => HandlesUnique
    BY DEF IInv
  <1>2. QED
    BY <1>1, Invariance, PTL

\* A process may use exactly the channels it was given and has not closed (RPC_OPEN,
\* RPC_CLOSE).
THEOREM OwnershipCorrect == Spec => []HeldExactlyUsable
  <1>1. IInv => HeldExactlyUsable
    BY StatusOfOwner DEF IInv, HeldExactlyOwned, HeldExactlyUsable
  <1>2. QED
    BY <1>1, Invariance, PTL

\* No step gives an issued handle to another object.
KeepsMeaning ==
    \A s \in Slots : objects'[s] # Empty /\ objects'[s].handle < next_handle =>
       objects'[s] = objects[s]

\* emplace gives its object a handle that was not issued before, erase_by_handle gives
\* none; so every step keeps what the issued handles mean.
LEMMA NextKeepsMeaning ==
    ASSUME IInv, Next
    PROVE  KeepsMeaning
  <1>1. ASSUME NEW k \in Kinds, NEW s \in Free(k), NEW owner
        PROVE  /\ s \in Slots
               /\ Emplaced(k, s, owner)[s].handle = next_handle
               /\ \A r \in Slots : r # s => Emplaced(k, s, owner)[r] = objects[r]
    <2>1. s \in Slots
      BY DEF Free
    <2>2. QED
      BY <2>1 DEF Emplaced, AllocateHandle, IInv, TypeOK
  <1>2. ~(next_handle < next_handle)
    BY KernelObjectsAssumption DEF IInv, TypeOK
  <1>3. \A table, h : \A s \in Slots : Erased(table, h)[s] \in {table[s], Empty}
    BY DEF Erased
  <1>4. CASE UNCHANGED vars
    BY <1>4 DEF vars, KeepsMeaning
  <1>5. ASSUME NEW k \in Kinds, NEW owner, Create(k, owner)
        PROVE  KeepsMeaning
    <2>1. CASE UNCHANGED vars
      BY <1>4, <2>1
    <2>2. CASE \E s \in First(Free(k)) : objects' = Emplaced(k, s, owner)
      <3>1. PICK s \in Free(k) : objects' = Emplaced(k, s, owner)
        BY <2>2 DEF First
      <3>2. QED
        BY <1>1, <1>2, <3>1 DEF KeepsMeaning
    <2>3. QED
      BY <1>5, <2>1, <2>2 DEF Create
  <1>6. ASSUME NEW p \in Processes, RpcOpen(p)
        PROVE  KeepsMeaning
    <2> DEFINE k == "rpc_channel"
    <2>1. CASE UNCHANGED vars
      BY <1>4, <2>1
    <2>2. CASE \E s \in First(Free(k)) :
                  objects' \in {Emplaced(k, s, p), Erased(Emplaced(k, s, p), AllocateHandle(k))}
      <3>1. k \in Kinds
        BY DEF Kinds
      <3>2. PICK s \in Free(k) :
               objects' \in {Emplaced(k, s, p), Erased(Emplaced(k, s, p), AllocateHandle(k))}
        BY <2>2 DEF First
      <3>3. \A r \in Slots : objects'[r] \in {Emplaced(k, s, p)[r], Empty}
        BY <1>3, <3>2
      <3>4. QED
        BY <1>1, <1>2, <3>1, <3>3 DEF KeepsMeaning
    <2>3. QED
      BY <1>6, <2>1, <2>2 DEF RpcOpen
  <1>7. ASSUME NEW p \in Processes, NEW h \in Handles \cup {InvalidHandle}, RpcClose(p, h)
        PROVE  KeepsMeaning
    <2>1. CASE UNCHANGED vars
      BY <1>4, <2>1
    <2>2. CASE objects' = Erased(objects, h)
      BY <1>3, <2>2 DEF KeepsMeaning
    <2>3. QED
      BY <1>7, <2>1, <2>2 DEF RpcClose
  <1>8. QED
    BY <1>5, <1>6, <1>7
    DEF Next, CreateProcess, CreateThread, CreateDeviceMemoryObject, CreateSharedMemoryObject, Kinds

\* A handle names one object for ever, however slots are used again (emplace,
\* erase_by_handle).
THEOREM MeaningCorrect == Spec => HandleNamesOneObject
  <1>1. IInv /\ [Next]_vars => [KeepsMeaning]_vars
    BY NextKeepsMeaning
  <1>2. QED
    BY <1>1, Invariance, PTL DEF Spec, HandleNamesOneObject, KeepsMeaning
=============================================================================
