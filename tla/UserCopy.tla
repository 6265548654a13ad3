------------------------------ MODULE UserCopy ------------------------------
(***************************************************************************)
(* How the kernel moves bytes between its own buffers and the memory of    *)
(* processes (kernel/user_runtime.cpp): copy_user_bytes, write_user_bytes, *)
(* copy_between_user_processes and copy_user_string.  A behaviour sets up  *)
(* the address spaces, as the platforms' populate_bootstrap functions do,  *)
(* and then performs one copy, one chunk or character per step.            *)
(*                                                                         *)
(* A byte is a value that tells where it came from: memory begins with a   *)
(* different value in every place, but for the one that holds Nul.  The    *)
(* kernel's buffer lies at the negative host addresses -BufferSize .. -1.  *)
(***************************************************************************)
EXTENDS AddressSpace

CONSTANTS
    Processes,      \* processes that have an address space
    Storage,        \* Storage[p]: the host addresses of the pages that belong to p
    UserBases,      \* user addresses at which mappings begin
    Sizes,          \* sizes of mappings
    Ends,           \* host addresses at which the user's string may end
    BufferSize      \* capacity of the kernel's buffer

Kernel == "kernel"
\* The end of a string; not a place.
Nul == Top + 1

ASSUME UserCopyAssumption ==
    /\ Kernel \notin Processes
    /\ Storage \in [Processes -> SUBSET (Address \ {0})]
    /\ \A p, q \in Processes : p # q => Storage[p] \cap Storage[q] = {}
    /\ UserBases \subseteq Address
    /\ Sizes \subseteq Address
    /\ Ends \subseteq Address
    /\ BufferSize \in Address

Buffer == -BufferSize .. -1
Places == Address \cup Buffer

VARIABLES
    spaces,     \* spaces[p]: the address space of process p
    memory,     \* memory[h]: the byte at host address h
    before,     \* what memory was when the copy began
    op          \* the copy

vars == <<spaces, memory, before, op>>

NoOp == [kind |-> "setup"]

\* Parties and user addresses of a copy; the kernel's addresses are offsets into
\* its buffer.  done counts the bytes moved so far.
Op == [kind : {"bytes", "string"}, src : Processes \cup {Kernel}, from : Address,
       dst : Processes \cup {Kernel}, to : Address, size : 0 .. BufferSize,
       done : 0 .. BufferSize, status : {"copying", "OK", "FAULT", "BUFFER_TOO_SMALL"}]

Copying(kind) == op.kind = kind /\ op.status = "copying"
Finished == op # NoOp /\ op.status # "copying"

-----------------------------------------------------------------------------
(* Bootstrap *)

Init ==
    /\ spaces = [p \in Processes |-> << >>]
    /\ \E nul \in Ends :
          memory = [h \in Places |-> IF h = nul THEN Nul ELSE h]
    /\ before = memory
    /\ op = NoOp

\* The host addresses a mapping leads to.
HostRange(m) == m.host .. m.host + m.size - 1

\* populate_bootstrap_for_process maps an array of the process's storage that is
\* mapped nowhere else; a refused mapping stops the kernel, so none is.
Map(p) ==
    /\ op = NoOp
    /\ \E user \in UserBases, size \in Sizes, host \in Storage[p] :
       /\ host .. host + size - 1 \subseteq Storage[p]
       /\ \A i \in DOMAIN spaces[p] : HostRange(spaces[p][i]) \cap (host .. host + size - 1) = {}
       /\ \E space \in AddMapping(spaces[p], user, host, size) :
             spaces' = [spaces EXCEPT ![p] = space]
    /\ UNCHANGED <<memory, before, op>>

-----------------------------------------------------------------------------
(* Copies *)

Begin(kind, src, from, dst, to, size) ==
    /\ op = NoOp
    /\ op' = [kind |-> kind, src |-> src, from |-> from, dst |-> dst, to |-> to,
              size |-> size, done |-> 0,
              status |-> IF kind = "bytes" /\ size = 0 THEN "OK" ELSE "copying"]
    /\ UNCHANGED <<spaces, memory, before>>

\* copy_user_bytes
CopyUserBytes(p) ==
    \E from \in Address, size \in 0 .. BufferSize : Begin("bytes", p, from, Kernel, 0, size)

\* write_user_bytes
WriteUserBytes(p) ==
    \E to \in Address, size \in 0 .. BufferSize : Begin("bytes", Kernel, 0, p, to, size)

\* copy_between_user_processes; a program that calls its own endpoint is both parties
CopyBetweenUserProcesses(p, q) ==
    \E from, to \in Address, size \in 0 .. BufferSize : Begin("bytes", p, from, q, to, size)

\* copy_user_string; the buffer must not be empty
CopyUserString(p) ==
    \E from \in Address, size \in 1 .. BufferSize : Begin("string", p, from, Kernel, 0, size)

\* The contiguous piece at address a of a party; the kernel's buffer is one piece.
Piece(party, a, n) ==
    IF party = Kernel THEN {[host |-> a - BufferSize, length |-> n]}
    ELSE {chunk \in TranslateChunk(spaces[party], a, n) : chunk.length # 0}

\* Where byte i of a copy is read: bytes move in ascending order, so that a source
\* which the destination overlaps from behind is read as already overwritten.
ReadFrom(to, from, n, i) ==
    IF from < to /\ to < from + n THEN from + (i % (to - from)) ELSE from + i

\* Mutant: the byte behind the chunk moves too.
MemcpyOneMore(to, from, n) ==
    [h \in Places |-> IF h \in to .. to + n /\ ReadFrom(to, from, n, h - to) \in Places
                      THEN memory[ReadFrom(to, from, n, h - to)] ELSE memory[h]]

\* memcpy
Memcpy(to, from, n) ==
    [h \in Places |-> IF h \in to .. to + n - 1 THEN memory[ReadFrom(to, from, n, h - to)]
                      ELSE memory[h]]

\* Mutant: the loop's variables are not advanced.
Unadvanced(length) == op.done

\* The loops advance their addresses and the remaining size by the chunk.
Advanced(length) == op.done + length

\* One turn of the loops of copy_user_bytes, write_user_bytes and
\* copy_between_user_processes.
CopyChunk ==
    /\ Copying("bytes")
    /\ LET left == op.size - op.done
           sources == Piece(op.src, Plus(op.from, op.done), left)
           targets(n) == Piece(op.dst, Plus(op.to, op.done), n)
       IN
       \/ /\ sources = {} \/ \E s \in sources : targets(s.length) = {}
          /\ op' = [op EXCEPT !.status = "FAULT"]
          /\ UNCHANGED memory
       \/ \E s \in sources : \E d \in targets(s.length) :
          /\ memory' = Memcpy(d.host, s.host, d.length)
          /\ op' = [op EXCEPT !.done = Advanced(d.length),
                              !.status = IF d.length = left THEN "OK" ELSE "copying"]
    /\ UNCHANGED <<spaces, before>>

\* Mutant: the loop's bound is off by one.
BufferOverrun == op.done = op.size

\* The last turn of the loop of copy_user_string
BufferFull == op.done + 1 = op.size

\* One turn of the loop of copy_user_string, and its end when the buffer is full.
CopyCharacter ==
    /\ Copying("string")
    /\ LET hosts == TranslateAddress(spaces[op.src], Plus(op.from, op.done), 1)
           slot == op.done - BufferSize
       IN
       \/ /\ hosts = {}
          /\ op' = [op EXCEPT !.status = "FAULT"]
          /\ UNCHANGED memory
       \/ \E h \in hosts :
          /\ op' = [op EXCEPT !.done = op.done + 1,
                              !.status = IF memory[h] = Nul THEN "OK"
                                         ELSE IF BufferFull THEN "BUFFER_TOO_SMALL"
                                         ELSE "copying"]
          /\ memory' = [memory EXCEPT ![slot] =
                          IF BufferFull THEN Nul ELSE memory[h]]
    /\ UNCHANGED <<spaces, before>>

\* The copy has returned.
Return == Finished /\ UNCHANGED vars

Next ==
    \/ \E p \in Processes :
        \/ Map(p) \/ CopyUserBytes(p) \/ WriteUserBytes(p) \/ CopyUserString(p)
        \/ \E q \in Processes : CopyBetweenUserProcesses(p, q)
    \/ CopyChunk \/ CopyCharacter \/ Return

\* The kernel is not preempted: a loop that can go on does.
Spec == Init /\ [][Next]_vars /\ WF_vars(CopyChunk \/ CopyCharacter)
-----------------------------------------------------------------------------
(* What the copies promise *)

\* The host addresses of a user address, by the definition of a mapping.
HostsOf(p, a) ==
    {spaces[p][i].host + (a - spaces[p][i].user) :
        i \in {k \in DOMAIN spaces[p] :
                 a \in spaces[p][k].user .. spaces[p][k].user + spaces[p][k].size - 1}}

\* The place of byte i of a party's range that begins at a; {} if it has none.
PlacesOf(party, a, i) == IF party = Kernel THEN {a + i - BufferSize} ELSE HostsOf(party, a + i)

\* Translation is a function into the process's own storage: no user address has
\* two meanings, and none leads to a page of another process or of the kernel
\* (ranges_overlap and is_valid_address_range in add_address_space_mapping).
TranslationConfined ==
    \A p \in Processes, a \in Address :
       /\ HostsOf(p, a) \subseteq Storage[p]
       /\ \A g, h \in HostsOf(p, a) : g = h
       /\ TranslateAddress(spaces[p], a, 1) = HostsOf(p, a)

\* validate_address_space_range accepts exactly the ranges of which every byte is
\* mapped, however many mappings they cross and wherever they end.
ValidateMeansEveryByte ==
    \A p \in Processes, a \in Address, n \in 1 .. BufferSize :
       ValidateRange(spaces[p], a, n) <=> \A i \in 0 .. n - 1 : HostsOf(p, a + i) # {}

\* A byte copy succeeds exactly if every byte it names is mapped, at both ends, and
\* then, unless the ranges overlap, each byte has arrived in the place of its own user
\* address.
CopyArrives ==
    op.kind = "bytes" /\ Finished =>
       LET sources(i) == PlacesOf(op.src, op.from, i)
           targets(i) == PlacesOf(op.dst, op.to, i)
           range == 0 .. op.size - 1
       IN
       /\ op.status = "OK" <=> \A i \in range : sources(i) # {} /\ targets(i) # {}
       /\ op.status = "OK" /\ (\A i, j \in range : sources(i) \cap targets(j) = {}) =>
             \A i \in range : \A s \in sources(i), d \in targets(i) : memory[d] = before[s]

\* At any moment of a copy, and after a failed one, the only places that have
\* changed are those of the bytes the destination has been asked to take.
NothingElseTouched ==
    \A h \in Places : memory[h] # before[h] =>
       /\ op # NoOp
       /\ \E i \in 0 .. op.done - 1 : h \in PlacesOf(op.dst, op.to, i)

\* A string that was accepted is the user's string with its end; one that does not
\* fit is cut off and still has an end inside the buffer.
StringTerminated ==
    op.kind = "string" /\ Finished =>
       /\ op.status = "OK" =>
            /\ memory[op.done - 1 - BufferSize] = Nul
            /\ \A i \in 0 .. op.done - 1 : \A s \in HostsOf(op.src, op.from + i) :
                  memory[i - BufferSize] = before[s]
            /\ \A i \in 0 .. op.done - 2 : memory[i - BufferSize] # Nul
       /\ op.status = "BUFFER_TOO_SMALL" =>
            /\ op.done = op.size
            /\ memory[op.size - 1 - BufferSize] = Nul
       /\ op.status = "FAULT" => HostsOf(op.src, op.from + op.done) = {}

\* Every copy returns: no chunk is empty.
EveryCopyReturns == op # NoOp ~> Finished

\* Translation and validation of user addresses (address_space.cpp) say what the
\* mappings say, byte by byte.
TranslationExact == TranslationConfined /\ ValidateMeansEveryByte

\* The copies between user and kernel memory, and between users, move the bytes
\* they were asked for and no others, however the mappings cut them, and count no
\* further than the buffer.
CopiesExactly == op \in Op \cup {NoOp} /\ CopyArrives /\ NothingElseTouched
=============================================================================
