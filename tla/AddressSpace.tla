---------------------------- MODULE AddressSpace ----------------------------
(***************************************************************************)
(* kernel/address_space.cpp: the table of user mappings of a process and   *)
(* the translation of user addresses to host addresses, on addresses of a  *)
(* machine word whose largest value is Top (UINTPTR_MAX).                  *)
(*                                                                         *)
(* A function that returns a bool and an out parameter is an operator that *)
(* returns a set: empty for false, the singleton of the result for true.   *)
(***************************************************************************)
EXTENDS Integers, Sequences

CONSTANTS
    Top,            \* UINTPTR_MAX
    MaxMappings     \* USER_RUNTIME_MAX_ADDRESS_SPACE_MAPPINGS

ASSUME AddressSpaceAssumption == Top \in Nat /\ MaxMappings \in Nat

Address == 0 .. Top

\* uintptr_t addition
Plus(a, n) == (a + n) % (Top + 1)

Mapping == [user : Address, host : Address, size : Address]

\* is_valid_address_range
IsValidAddressRange(base, size) == size # 0 /\ size <= Top - base

\* Mutant: only a range inside the other is found.
RangeInside(a, m, b, n) == a < b /\ Plus(b, n) < Plus(a, m)

\* ranges_overlap
RangesOverlap(a, m, b, n) == a < Plus(b, n) /\ b < Plus(a, m)

\* add_address_space_mapping
AddMapping(space, user, host, size) ==
    IF /\ IsValidAddressRange(user, size) /\ IsValidAddressRange(host, size)
       /\ Len(space) < MaxMappings
       /\ \A i \in DOMAIN space : ~RangesOverlap(user, size, space[i].user, space[i].size)
    THEN {Append(space, [user |-> user, host |-> host, size |-> size])}
    ELSE {}

\* find_address_space_mapping
FindMapping(space, a, allowLimit) ==
    LET limit(m) == Plus(m.user, m.size)
        hits == {i \in DOMAIN space :
                    /\ space[i].size # 0
                    /\ space[i].user <= a
                    /\ a < limit(space[i]) \/ (allowLimit /\ a = limit(space[i]))}
    IN  {space[i] : i \in {k \in hits : \A j \in hits : k <= j}}

\* try_translate_address_space_chunk: as much of the n bytes at a as the mapping
\* of a holds.
TranslateChunk(space, a, n) ==
    {LET available == m.size - (a - m.user)
     IN  [host |-> m.host + (a - m.user), length |-> IF n <= available THEN n ELSE available] :
        m \in {k \in FindMapping(space, a, n = 0) :
                  /\ k.host # 0
                  /\ a - k.user <= Top - k.host
                  /\ n # 0 => k.size # a - k.user}}

\* validate_address_space_range; covered[r] says that the last r bytes are mapped.
ValidateRange(space, a, n) ==
    LET covered[r \in 0 .. n] ==
          \/ r = 0
          \/ LET at == Plus(a, n - r) IN
             \E chunk \in TranslateChunk(space, at, r) :
                /\ chunk.length \in 1 .. r
                /\ chunk.length <= Top - at
                /\ covered[r - chunk.length]
    IN  IF n = 0 THEN FindMapping(space, a, TRUE) # {} ELSE covered[n]

\* try_translate_address_space_address
TranslateAddress(space, a, n) ==
    {chunk.host : chunk \in {k \in TranslateChunk(space, a, n) :
                                ValidateRange(space, a, n) /\ k.length = n}}
=============================================================================
