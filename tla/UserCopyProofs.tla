--------------------------- MODULE UserCopyProofs ---------------------------
(***************************************************************************)
(* Proofs about UserCopy and AddressSpace: user addresses translate as the *)
(* mappings say, and the copies move exactly the bytes they were asked     *)
(* for, on every machine word and for every layout of the address spaces.  *)
(*                                                                         *)
(* validate_address_space_range is a recursive function of the bytes left; *)
(* what it computes is proved by least counterexample, with the library's  *)
(* theorem that < is well founded on the naturals.                         *)
(***************************************************************************)
EXTENDS UserCopy, WellFoundedInduction, TLAPS

-----------------------------------------------------------------------------
(* Numbers *)

\* A set of naturals has a least element: the induction of these proofs.
LEMMA LeastNatural ==
    ASSUME NEW T, T \subseteq Nat, T # {}
    PROVE  \E x \in T : \A y \in T : x <= y
  <1>1. PICK R : R = OpToRel(<, Nat)
    OBVIOUS
  <1>2. IsWellFoundedOn(R, Nat)
    BY <1>1, NatLessThanWellFounded
  <1>3. PICK x \in T : \A y \in T : ~ (<<y, x>> \in R)
    BY <1>2, WFMin
  <1>4. \A y \in Nat : y < x => <<y, x>> \in R
    BY <1>1 DEF OpToRel
  <1>5. ASSUME NEW y \in T PROVE x <= y
    <2>1. x \in Nat /\ y \in Nat
      OBVIOUS
    <2>2. ~ (y < x)
      BY <1>3, <1>4, <2>1
    <2>3. QED
      BY <2>1, <2>2
  <1>6. QED
    BY <1>5

\* uintptr_t addition wraps at most once here.
LEMMA PlusIs ==
    ASSUME NEW a \in Address, NEW n \in 0 .. Top
    PROVE  /\ Plus(a, n) \in Address
           /\ Plus(a, n) = IF a + n <= Top THEN a + n ELSE a + n - (Top + 1)
  BY AddressSpaceAssumption DEF Address, Plus

-----------------------------------------------------------------------------
(* Address spaces *)

\* The host addresses of a user address in an address space.
HostsIn(space, a) ==
    {space[i].host + (a - space[i].user) :
        i \in {k \in DOMAIN space : a \in space[k].user .. space[k].user + space[k].size - 1}}

\* Every mapping is a nonempty range that ends before the last address, at both
\* ends, and leads into S.
MappingsValid(space, S) ==
    \A i \in DOMAIN space :
       /\ IsValidAddressRange(space[i].user, space[i].size)
       /\ IsValidAddressRange(space[i].host, space[i].size)
       /\ HostRange(space[i]) \subseteq S

Apart(a, m, b, n) == a + m <= b \/ b + n <= a

\* No two mappings share a user address or a host address.
MappingsApart(space) ==
    \A i, j \in DOMAIN space : i # j =>
       /\ Apart(space[i].user, space[i].size, space[j].user, space[j].size)
       /\ Apart(space[i].host, space[i].size, space[j].host, space[j].size)

\* What add_address_space_mapping and the platforms' bootstrap make of a space.
WellFormed(space, S) ==
    space \in Seq(Mapping) /\ MappingsValid(space, S) /\ MappingsApart(space)

\* The bounds of a mapping, as numbers.
LEMMA MappingFacts ==
    ASSUME NEW S, NEW space, WellFormed(space, S), NEW i \in DOMAIN space
    PROVE  /\ space[i] \in Mapping
           /\ space[i].user \in Nat /\ space[i].host \in Nat /\ space[i].size \in Nat
           /\ space[i].size >= 1
           /\ space[i].user + space[i].size <= Top
           /\ space[i].host + space[i].size <= Top
           /\ Plus(space[i].user, space[i].size) = space[i].user + space[i].size
           /\ \A h \in Int : space[i].host <= h /\ h < space[i].host + space[i].size => h \in S
  <1>1. space[i] \in Mapping
    BY DEF WellFormed
  <1>2. /\ space[i].size # 0 /\ space[i].size <= Top - space[i].user
        /\ space[i].size <= Top - space[i].host /\ HostRange(space[i]) \subseteq S
    BY DEF WellFormed, MappingsValid, IsValidAddressRange
  <1>3. space[i].user \in Address /\ space[i].host \in Address /\ space[i].size \in Address
    BY <1>1 DEF Mapping
  <1>4. Plus(space[i].user, space[i].size) = space[i].user + space[i].size
    <2>1. space[i].user + space[i].size <= Top
      BY <1>2, <1>3, AddressSpaceAssumption DEF Address
    <2>2. space[i].size \in 0 .. Top
      BY <1>3 DEF Address
    <2>3. QED
      BY <1>3, <2>1, <2>2, PlusIs
  <1>5. QED
    BY <1>1, <1>2, <1>3, <1>4, AddressSpaceAssumption DEF Address, HostRange

\* The mapping that covers an address is the only one that does.
LEMMA CoveredOnce ==
    ASSUME NEW S, NEW space, WellFormed(space, S), NEW a \in Int,
           NEW i \in DOMAIN space, space[i].user <= a, a < space[i].user + space[i].size
    PROVE  /\ HostsIn(space, a) = {space[i].host + (a - space[i].user)}
           /\ space[i].host + (a - space[i].user) \in S
           /\ \A j \in DOMAIN space :
                 space[j].user <= a /\ a < space[j].user + space[j].size => j = i
  <1>1. \A j \in DOMAIN space : space[j].user \in Nat /\ space[j].size \in Nat
    BY MappingFacts
  <1>2. \A j \in DOMAIN space :
           j # i => Apart(space[i].user, space[i].size, space[j].user, space[j].size)
    BY DEF WellFormed, MappingsApart
  <1>3. \A j \in DOMAIN space :
           space[j].user <= a /\ a < space[j].user + space[j].size => j = i
    BY <1>1, <1>2 DEF Apart
  <1>4. {k \in DOMAIN space : a \in space[k].user .. space[k].user + space[k].size - 1} = {i}
    BY <1>1, <1>3
  <1>5. HostsIn(space, a) = {space[i].host + (a - space[i].user)}
    BY <1>4 DEF HostsIn
  <1>6. space[i].host + (a - space[i].user) \in S
    BY MappingFacts
  <1>7. QED
    BY <1>3, <1>5, <1>6

\* Where an address that has a place is mapped.
LEMMA MappedBy ==
    ASSUME NEW S, NEW space, WellFormed(space, S), NEW a \in Int, HostsIn(space, a) # {}
    PROVE  /\ a \in Address /\ a < Top
           /\ \E i \in DOMAIN space :
                 space[i].user <= a /\ a < space[i].user + space[i].size
  <1>1. PICK i \in DOMAIN space : a \in space[i].user .. space[i].user + space[i].size - 1
    BY DEF HostsIn
  <1>2. space[i].user <= a /\ a < space[i].user + space[i].size
    BY <1>1, MappingFacts
  <1>3. a \in Address /\ a < Top
    BY <1>2, MappingFacts, AddressSpaceAssumption DEF Address
  <1>4. QED
    BY <1>2, <1>3

\* No host address has two user addresses.
LEMMA HostsInjective ==
    ASSUME NEW S, NEW space, WellFormed(space, S), NEW a \in Int, NEW b \in Int,
           NEW h, h \in HostsIn(space, a), h \in HostsIn(space, b)
    PROVE  a = b
  <1>1. PICK i \in DOMAIN space : space[i].user <= a /\ a < space[i].user + space[i].size
    BY MappedBy
  <1>2. PICK j \in DOMAIN space : space[j].user <= b /\ b < space[j].user + space[j].size
    BY MappedBy
  <1>3. h = space[i].host + (a - space[i].user) /\ h = space[j].host + (b - space[j].user)
    BY <1>1, <1>2, CoveredOnce
  <1>4. i # j => Apart(space[i].host, space[i].size, space[j].host, space[j].size)
    BY DEF WellFormed, MappingsApart
  <1>5. /\ space[i].user \in Nat /\ space[i].host \in Nat /\ space[i].size \in Nat
        /\ space[j].user \in Nat /\ space[j].host \in Nat /\ space[j].size \in Nat
    BY MappingFacts
  <1>6. i = j
    BY <1>1, <1>2, <1>3, <1>4, <1>5 DEF Apart
  <1>7. QED
    BY <1>3, <1>5, <1>6

\* find_address_space_mapping finds the mapping that covers the address.
LEMMA FindsTheMapping ==
    ASSUME NEW S, NEW space, WellFormed(space, S), NEW a \in Address
    PROVE  /\ HostsIn(space, a) = {} => FindMapping(space, a, FALSE) = {}
           /\ \A i \in DOMAIN space :
                 space[i].user <= a /\ a < space[i].user + space[i].size
                    => FindMapping(space, a, FALSE) = {space[i]}
  <1> DEFINE hits == {i \in DOMAIN space :
                         /\ space[i].size # 0
                         /\ space[i].user <= a
                         /\ a < Plus(space[i].user, space[i].size)
                              \/ (FALSE /\ a = Plus(space[i].user, space[i].size))}
  <1>0. a \in Int
    BY DEF Address
  <1>1. FindMapping(space, a, FALSE) = {space[i] : i \in {k \in hits : \A j \in hits : k <= j}}
    BY DEF FindMapping
  <1>2. hits = {i \in DOMAIN space : space[i].user <= a /\ a < space[i].user + space[i].size}
    BY MappingFacts
  <1> HIDE DEF hits
  <1>3. HostsIn(space, a) = {} => hits = {}
    <2>1. ASSUME NEW i \in hits PROVE HostsIn(space, a) # {}
      BY <1>0, <1>2, <2>1, CoveredOnce
    <2>2. QED
      BY <2>1
  <1>4. ASSUME NEW i \in DOMAIN space, space[i].user <= a, a < space[i].user + space[i].size
        PROVE  FindMapping(space, a, FALSE) = {space[i]}
    <2>1. hits = {i}
      BY <1>0, <1>2, <1>4, CoveredOnce
    <2>2. i \in Int
      BY DEF WellFormed
    <2>3. {k \in hits : \A j \in hits : k <= j} = {i}
      BY <2>1, <2>2
    <2>4. QED
      BY <1>1, <2>3
  <1>5. QED
    BY <1>1, <1>3, <1>4

\* try_translate_address_space_chunk fails exactly where no mapping is, and
\* otherwise gives the first bytes of the range, all of one mapping.
LEMMA ChunkOfNothing ==
    ASSUME NEW S, NEW space, WellFormed(space, S), NEW a \in Address, NEW n \in Nat \ {0},
           HostsIn(space, a) = {}
    PROVE  TranslateChunk(space, a, n) = {}
  <1>1. FindMapping(space, a, FALSE) = {}
    BY FindsTheMapping
  <1>2. (n = 0) = FALSE
    OBVIOUS
  <1>3. FindMapping(space, a, n = 0) = {}
    BY <1>1, <1>2
  <1>4. QED
    BY <1>3 DEF TranslateChunk

\* The piece of the n bytes at a that begins at host and has length bytes.
IsChunk(space, S, a, n, host, length) ==
    /\ TranslateChunk(space, a, n) = {[host |-> host, length |-> length]}
    /\ a + length <= Top
    /\ host + length <= Top
    /\ \A i \in 0 .. length - 1 : HostsIn(space, a + i) = {host + i} /\ host + i \in S

\* A mapped address begins a chunk, which is translated byte by byte.
LEMMA ChunkOfMapping ==
    ASSUME NEW S, NEW space, WellFormed(space, S), 0 \notin S, NEW a \in Address,
           NEW n \in Nat \ {0}, HostsIn(space, a) # {}
    PROVE  \E host \in Address, length \in 1 .. n : IsChunk(space, S, a, n, host, length)
  <1>0. a \in Int /\ a \in Nat
    BY DEF Address
  <1>1. PICK i \in DOMAIN space : space[i].user <= a /\ a < space[i].user + space[i].size
    BY <1>0, MappedBy
  <1>2. FindMapping(space, a, FALSE) = {space[i]}
    BY <1>1, FindsTheMapping
  <1>3. (n = 0) = FALSE
    OBVIOUS
  <1>4. FindMapping(space, a, n = 0) = {space[i]}
    BY <1>2, <1>3
  <1>5. PICK m : m = space[i]
    OBVIOUS
  <1>6. /\ m.user \in Nat /\ m.host \in Nat /\ m.size \in Nat /\ m.size >= 1
        /\ m.user + m.size <= Top /\ m.host + m.size <= Top
        /\ \A h \in Int : m.host <= h /\ h < m.host + m.size => h \in S
    BY <1>5, MappingFacts
  <1>7. m.host # 0
    BY <1>6
  <1>8. m.user <= a /\ a < m.user + m.size
    BY <1>1, <1>5
  <1>9. PICK host, length :
           /\ host = m.host + (a - m.user)
           /\ length = IF n <= m.size - (a - m.user) THEN n ELSE m.size - (a - m.user)
    OBVIOUS
  <1>10. /\ host \in Address /\ length \in 1 .. n
         /\ a + length <= Top /\ host + length <= Top
         /\ \A k \in 0 .. length - 1 : a + k < m.user + m.size
    BY <1>0, <1>6, <1>8, <1>9, AddressSpaceAssumption DEF Address
  <1>11. TranslateChunk(space, a, n) = {[host |-> host, length |-> length]}
    <2>1. {k \in FindMapping(space, a, n = 0) :
                  /\ k.host # 0
                  /\ a - k.user <= Top - k.host
                  /\ n # 0 => k.size # a - k.user} = {m}
      BY <1>0, <1>4, <1>5, <1>6, <1>7, <1>8, AddressSpaceAssumption
    <2>2. QED
      BY <2>1, <1>9 DEF TranslateChunk
  <1>12. ASSUME NEW k \in 0 .. length - 1
         PROVE  HostsIn(space, a + k) = {host + k} /\ host + k \in S
    <2>1. a + k \in Int /\ m.user <= a + k /\ a + k < m.user + m.size
      BY <1>0, <1>6, <1>8, <1>10
    <2>2. /\ HostsIn(space, a + k) = {m.host + ((a + k) - m.user)}
          /\ m.host + ((a + k) - m.user) \in S
      BY <2>1, <1>5, CoveredOnce
    <2>3. m.host + ((a + k) - m.user) = host + k
      BY <1>0, <1>6, <1>9, <1>10
    <2>4. QED
      BY <2>2, <2>3
  <1>13. QED
    BY <1>10, <1>11, <1>12 DEF IsChunk

\* One turn of the loop of validate_address_space_range, on the last r bytes of a
\* range of n bytes; rest[k] says that the last k bytes are mapped.
Turn(space, a, n, rest, r) ==
    \/ r = 0
    \/ LET at == Plus(a, n - r) IN
       \E chunk \in TranslateChunk(space, at, r) :
          /\ chunk.length \in 1 .. r
          /\ chunk.length <= Top - at
          /\ rest[r - chunk.length]

\* A turn finds a byte without a place, or passes over bytes that have one.
LEMMA TurnIs ==
    ASSUME NEW S, NEW space, WellFormed(space, S), 0 \notin S, NEW a \in Address,
           NEW n \in 1 .. Top, NEW r \in 1 .. n
    PROVE  \/ /\ HostsIn(space, Plus(a, n - r)) = {}
              /\ \A rest : ~Turn(space, a, n, rest, r)
           \/ \E length \in 1 .. r :
                 /\ \A rest : Turn(space, a, n, rest, r) <=> rest[r - length]
                 /\ \A i \in n - r .. n - r + length - 1 : HostsIn(space, Plus(a, i)) # {}
  <1>0. /\ n \in Nat /\ r \in Nat /\ Top \in Nat /\ n - r \in 0 .. Top /\ n <= Top
        /\ r # 0 /\ r \in Nat \ {0}
    BY AddressSpaceAssumption
  <1>1. PICK at : at = Plus(a, n - r)
    OBVIOUS
  <1>2. at \in Address /\ at = IF a + (n - r) <= Top THEN a + (n - r) ELSE a + (n - r) - (Top + 1)
    BY <1>0, <1>1, PlusIs
  <1>3. CASE HostsIn(space, at) = {}
    <2>1. TranslateChunk(space, at, r) = {}
      BY <1>0, <1>2, <1>3, ChunkOfNothing
    <2>2. QED
      BY <1>0, <1>1, <1>3, <2>1 DEF Turn
  <1>4. CASE HostsIn(space, at) # {}
    <2>0. PICK host \in Address, length \in 1 .. r : IsChunk(space, S, at, r, host, length)
      BY <1>0, <1>2, <1>4, ChunkOfMapping
    <2>1. /\ TranslateChunk(space, at, r) = {[host |-> host, length |-> length]}
          /\ at + length <= Top
          /\ \A i \in 0 .. length - 1 : HostsIn(space, at + i) = {host + i}
      BY <2>0 DEF IsChunk
    <2>2. length <= Top - at
      BY <1>0, <1>2, <2>1 DEF Address
    <2>3. ASSUME NEW rest PROVE Turn(space, a, n, rest, r) <=> rest[r - length]
      <3>1. Turn(space, a, n, rest, r) <=>
               \E chunk \in {[host |-> host, length |-> length]} :
                  /\ chunk.length \in 1 .. r
                  /\ chunk.length <= Top - at
                  /\ rest[r - chunk.length]
        BY <1>0, <1>1, <2>1 DEF Turn
      <3>2. QED
        BY <2>2, <3>1
    <2>4. ASSUME NEW i \in n - r .. n - r + length - 1 PROVE HostsIn(space, Plus(a, i)) # {}
      <3>1. PICK k : k = i - (n - r)
        OBVIOUS
      <3>2. /\ k \in 0 .. length - 1 /\ i \in 0 .. Top /\ at + k \in Address
            /\ a \in Nat /\ k \in Nat /\ i = (n - r) + k /\ at + k < Top
        BY <1>0, <1>2, <2>1, <3>1 DEF Address
      <3>3. Plus(a, i) = IF a + i <= Top THEN a + i ELSE a + i - (Top + 1)
        BY <3>2, PlusIs
      <3>4. Plus(a, i) = at + k
        BY <1>0, <1>2, <3>2, <3>3
      <3>5. HostsIn(space, at + k) # {}
        BY <2>1, <3>2
      <3>6. QED
        BY <3>4, <3>5
    <2>5. QED
      BY <2>3, <2>4
  <1>5. QED
    BY <1>1, <1>3, <1>4

\* The loop's turns have one outcome: every byte has a place.
LEMMA ValidateSolved ==
    ASSUME NEW S, NEW space, WellFormed(space, S), 0 \notin S, NEW a \in Address,
           NEW n \in 1 .. Top
    PROVE  ValidateRange(space, a, n) <=>
              \A i \in 0 .. n - 1 : HostsIn(space, Plus(a, i)) # {}
  <1> DEFINE Mapped(r) == \A i \in n - r .. n - 1 : HostsIn(space, Plus(a, i)) # {}
  <1>0. n \in Nat /\ n # 0 /\ n >= 1
    BY AddressSpaceAssumption
  <1>1. PICK g : g = [r \in 0 .. n |-> Mapped(r)]
    OBVIOUS
  <1>2. ASSUME NEW r \in 0 .. n PROVE Turn(space, a, n, g, r) = Mapped(r)
    <2>1. CASE r = 0
      <3>1. Mapped(r)
        BY <1>0, <2>1
      <3>2. Turn(space, a, n, g, r)
        BY <2>1 DEF Turn
      <3>3. QED
        BY <3>1, <3>2 DEF Turn
    <2>2. CASE r # 0
      <3>0. r \in 1 .. n
        BY <2>2
      <3>1. CASE /\ HostsIn(space, Plus(a, n - r)) = {}
                 /\ \A rest : ~Turn(space, a, n, rest, r)
        <4>1. n - r \in n - r .. n - 1
          BY <1>0, <3>0
        <4>2. ~Mapped(r)
          BY <3>1, <4>1
        <4>3. QED
          BY <3>1, <4>2 DEF Turn
      <3>2. ASSUME NEW length \in 1 .. r,
                   \A rest : Turn(space, a, n, rest, r) <=> rest[r - length],
                   \A i \in n - r .. n - r + length - 1 : HostsIn(space, Plus(a, i)) # {}
            PROVE  Turn(space, a, n, g, r) = Mapped(r)
        <4>1. r - length \in 0 .. n
          BY <1>0, <3>0
        <4>2. g[r - length] = Mapped(r - length)
          BY <1>1, <4>1
        <4>3. Mapped(r) => Mapped(r - length)
          BY <1>0, <3>0
        <4>4. ASSUME Mapped(r - length), NEW i \in n - r .. n - 1
              PROVE  HostsIn(space, Plus(a, i)) # {}
          <5>1. i \in n - r .. n - r + length - 1 \/ i \in n - (r - length) .. n - 1
            BY <1>0, <3>0
          <5>2. QED
            BY <3>2, <4>4, <5>1
        <4>5. Turn(space, a, n, g, r) <=> Mapped(r)
          BY <3>2, <4>2, <4>3, <4>4
        <4>6. QED
          BY <4>5 DEF Turn
      <3>3. QED
        BY <3>0, <3>1, <3>2, TurnIs
    <2>3. QED
      BY <2>1, <2>2
  <1>3. g = [r \in 0 .. n |-> Turn(space, a, n, g, r)]
    BY <1>1, <1>2
  <1>4. ASSUME NEW f, f = [r \in 0 .. n |-> Turn(space, a, n, f, r)]
        PROVE  f[n] <=> g[n]
    <2> DEFINE T == {r \in 0 .. n : ~(f[r] <=> g[r])}
    <2>1. SUFFICES ASSUME T # {} PROVE FALSE
      BY <1>0
    <2>2. T \subseteq Nat
      OBVIOUS
    <2>3. PICK r \in T : \A y \in T : r <= y
      BY <2>1, <2>2, LeastNatural
    <2>4. r \in 0 .. n /\ ~(f[r] <=> g[r])
      BY <2>3
    <2>5. f[r] = Turn(space, a, n, f, r) /\ g[r] = Turn(space, a, n, g, r)
      BY <1>3, <1>4, <2>4
    <2>6. r # 0
      BY <2>4, <2>5 DEF Turn
    <2>7. r \in 1 .. n
      BY <2>4, <2>6
    <2>8. ASSUME NEW length \in 1 .. r,
                 \A rest : Turn(space, a, n, rest, r) <=> rest[r - length]
          PROVE  FALSE
      <3>1. r - length \in 0 .. n /\ ~(r <= r - length)
        BY <1>0, <2>7
      <3>2. r - length \notin T
        BY <2>3, <3>1
      <3>3. f[r - length] <=> g[r - length]
        BY <3>1, <3>2
      <3>4. QED
        BY <2>4, <2>5, <2>8, <3>3
    <2>9. QED
      BY <2>4, <2>5, <2>7, <2>8, TurnIs
  <1>5. ValidateRange(space, a, n)
           = (CHOOSE f : f = [r \in 0 .. n |-> Turn(space, a, n, f, r)])[n]
    BY <1>0 DEF ValidateRange, Turn
  <1>6. PICK f : f = (CHOOSE h : h = [r \in 0 .. n |-> Turn(space, a, n, h, r)])
    OBVIOUS
  <1>7. f = [r \in 0 .. n |-> Turn(space, a, n, f, r)]
    BY <1>3, <1>6
  <1>8. ValidateRange(space, a, n) <=> g[n]
    BY <1>4, <1>5, <1>6, <1>7
  <1>9. g[n] <=> Mapped(n)
    BY <1>0, <1>1
  <1>10. n - n = 0
    BY <1>0
  <1>11. QED
    BY <1>8, <1>9, <1>10

\* validate_address_space_range accepts a range if every byte of it has a place.
LEMMA ValidateIs ==
    ASSUME NEW S, NEW space, WellFormed(space, S), 0 \notin S, NEW a \in Address,
           NEW n \in 1 .. Top
    PROVE  ValidateRange(space, a, n) <=> \A i \in 0 .. n - 1 : HostsIn(space, a + i) # {}
  <1>0. n \in Nat /\ a \in Nat /\ a <= Top /\ Top \in Nat /\ n <= Top
    BY AddressSpaceAssumption DEF Address
  <1>1. \A i \in 0 .. n - 1 : i \in 0 .. Top /\ i \in Nat
    BY <1>0
  <1>2. ASSUME \A i \in 0 .. n - 1 : HostsIn(space, Plus(a, i)) # {}, NEW i \in 0 .. n - 1
        PROVE  HostsIn(space, a + i) # {}
    <2>1. CASE a + i <= Top
      BY <1>1, <1>2, <2>1, PlusIs
    <2>2. CASE ~(a + i <= Top)
      <3>1. Top - a \in 0 .. n - 1 /\ a + (Top - a) = Top
        BY <1>0, <1>1, <2>2
      <3>2. Plus(a, Top - a) = Top
        BY <1>0, <1>1, <3>1, PlusIs
      <3>3. HostsIn(space, Top) # {}
        BY <1>2, <3>1, <3>2
      <3>4. QED
        BY <1>0, <3>3, MappedBy
    <2>3. QED
      BY <2>1, <2>2
  <1>3. ASSUME \A i \in 0 .. n - 1 : HostsIn(space, a + i) # {}, NEW i \in 0 .. n - 1
        PROVE  HostsIn(space, Plus(a, i)) # {}
    <2>1. a + i < Top
      BY <1>0, <1>1, <1>3, MappedBy
    <2>2. Plus(a, i) = a + i
      BY <1>0, <1>1, <2>1, PlusIs
    <2>3. QED
      BY <1>3, <2>2
  <1>4. QED
    BY <1>2, <1>3, ValidateSolved

\* try_translate_address_space_address, on one byte, is the mapping's arithmetic.
LEMMA TranslateByte ==
    ASSUME NEW S, NEW space, WellFormed(space, S), 0 \notin S, NEW a \in Address, 1 <= Top
    PROVE  TranslateAddress(space, a, 1) = HostsIn(space, a)
  <1>0. 1 \in 1 .. Top /\ a \in Nat /\ 1 \in Nat \ {0}
    BY AddressSpaceAssumption DEF Address
  <1>1. 0 .. 1 - 1 = {0} /\ a + 0 = a
    BY <1>0
  <1>2. ValidateRange(space, a, 1) <=> HostsIn(space, a) # {}
    BY <1>0, <1>1, ValidateIs
  <1>3. CASE HostsIn(space, a) = {}
    <2>1. TranslateChunk(space, a, 1) = {}
      BY <1>0, <1>3, ChunkOfNothing
    <2>2. QED
      BY <1>3, <2>1 DEF TranslateAddress
  <1>4. CASE HostsIn(space, a) # {}
    <2>0. PICK host \in Address, length \in 1 .. 1 : IsChunk(space, S, a, 1, host, length)
      BY <1>0, <1>4, ChunkOfMapping
    <2>1. /\ TranslateChunk(space, a, 1) = {[host |-> host, length |-> length]}
          /\ \A i \in 0 .. length - 1 : HostsIn(space, a + i) = {host + i}
      BY <2>0 DEF IsChunk
    <2>2. length = 1 /\ host + 0 = host
      BY <2>1 DEF Address
    <2>3. HostsIn(space, a) = {host}
      BY <1>1, <2>1, <2>2
    <2>4. {k \in TranslateChunk(space, a, 1) : ValidateRange(space, a, 1) /\ k.length = 1}
             = {[host |-> host, length |-> length]}
      BY <1>2, <1>4, <2>1, <2>2
    <2>5. TranslateAddress(space, a, 1) = {chunk.host : chunk \in {[host |-> host, length |-> length]}}
      BY <2>4, Zenon DEF TranslateAddress
    <2>6. QED
      BY <2>3, <2>5
  <1>5. QED
    BY <1>3, <1>4

-----------------------------------------------------------------------------
(* The inductive invariant *)

\* The address spaces are those that add_address_space_mapping and the bootstrap make.
SpacesAreWellFormed ==
    /\ DOMAIN spaces = Processes
    /\ \A p \in Processes : WellFormed(spaces[p], Storage[p])

Sources(i) == PlacesOf(op.src, op.from, i)
Targets(i) == PlacesOf(op.dst, op.to, i)

\* The parameters of the four functions: a string goes from a process to the
\* kernel, at most one party is the kernel, whose buffer is used from its beginning.
OpIsACall ==
    op # NoOp =>
       /\ op \in Op
       /\ op.src = Kernel => op.from = 0
       /\ op.dst = Kernel => op.to = 0
       /\ op.kind = "string" => op.src # Kernel /\ op.dst = Kernel
       /\ op.done <= op.size
       /\ op.status = "copying" => op.done < op.size
       /\ op.kind = "bytes" =>
             op.status # "BUFFER_TOO_SMALL" /\ (op.status = "OK" => op.done = op.size)

\* The bytes a copy has passed had a place at both ends, and the one it failed at has none.
PassedBytesHavePlaces ==
    op # NoOp =>
       /\ \A i \in 0 .. op.done - 1 : Sources(i) # {} /\ Targets(i) # {}
       /\ op.status = "FAULT" =>
             op.done < op.size /\ (Sources(op.done) = {} \/ Targets(op.done) = {})

RangesAreDisjoint ==
    \A i, j \in 0 .. op.size - 1 : Sources(i) \cap Targets(j) = {}

\* The bytes a copy has passed have arrived.
PassedBytesArrived ==
    op.kind = "bytes" /\ RangesAreDisjoint =>
       \A i \in 0 .. op.done - 1 : \A s \in Sources(i), d \in Targets(i) : memory[d] = before[s]

\* The characters of a string that is being copied have arrived and none is its end.
PassedCharactersArrived ==
    op.kind = "string" /\ op.status = "copying" =>
       \A i \in 0 .. op.done - 1 : \A s \in HostsOf(op.src, op.from + i) :
          memory[i - BufferSize] = before[s] /\ memory[i - BufferSize] # Nul

\* What a copy keeps true while it moves the bytes.
CInv ==
    /\ SpacesAreWellFormed
    /\ DOMAIN memory = Places
    /\ OpIsACall
    /\ PassedBytesHavePlaces
    /\ NothingElseTouched
    /\ PassedBytesArrived
    /\ PassedCharactersArrived
    /\ StringTerminated

-----------------------------------------------------------------------------
(* Translation *)

\* The constants as numbers.
LEMMA NumberFacts ==
    /\ Top \in Nat /\ BufferSize \in Nat /\ BufferSize <= Top
    /\ \A p \in Processes : p # Kernel /\ 0 \notin Storage[p] /\ Storage[p] \subseteq Address
    /\ Address \subseteq Nat
    /\ Nul = Top + 1
  BY AddressSpaceAssumption, UserCopyAssumption DEF Address, Nul

\* The property and the proof mean the same translation.
LEMMA HostsOfIsHostsIn ==
    ASSUME NEW p, NEW a
    PROVE  HostsOf(p, a) = HostsIn(spaces[p], a)
  BY DEF HostsOf, HostsIn

\* The address spaces translate as their mappings say.
LEMMA TranslationIsExact == SpacesAreWellFormed => TranslationExact
  <1> SUFFICES ASSUME SpacesAreWellFormed PROVE TranslationExact
    OBVIOUS
  <1>1. ASSUME NEW p \in Processes, NEW a \in Address
        PROVE  /\ HostsOf(p, a) \subseteq Storage[p]
               /\ \A g, h \in HostsOf(p, a) : g = h
               /\ TranslateAddress(spaces[p], a, 1) = HostsOf(p, a)
    <2>0. WellFormed(spaces[p], Storage[p]) /\ 0 \notin Storage[p] /\ a \in Int
      BY NumberFacts DEF SpacesAreWellFormed, Address
    <2>1. HostsOf(p, a) = {} \/ \E h \in Storage[p] : HostsOf(p, a) = {h}
      <3>1. SUFFICES ASSUME HostsIn(spaces[p], a) # {}
                     PROVE  \E h \in Storage[p] : HostsIn(spaces[p], a) = {h}
        BY HostsOfIsHostsIn
      <3>2. PICK i \in DOMAIN spaces[p] :
               spaces[p][i].user <= a /\ a < spaces[p][i].user + spaces[p][i].size
        BY <2>0, <3>1, MappedBy
      <3>3. QED
        BY <2>0, <3>2, CoveredOnce
    <2>2. TranslateAddress(spaces[p], a, 1) = HostsIn(spaces[p], a)
      <3>1. CASE 1 <= Top
        BY <2>0, <3>1, TranslateByte
      <3>2. CASE ~(1 <= Top)
        <4>1. DOMAIN spaces[p] = {}
          BY <2>0, <3>2, MappingFacts, NumberFacts
        <4>2. HostsIn(spaces[p], a) = {}
          BY <4>1 DEF HostsIn
        <4>3. TranslateChunk(spaces[p], a, 1) = {}
          BY <2>0, <4>2, ChunkOfNothing
        <4>4. QED
          BY <4>2, <4>3 DEF TranslateAddress
      <3>3. QED
        BY <3>1, <3>2
    <2>3. QED
      BY <2>1, <2>2, HostsOfIsHostsIn
  <1>2. ASSUME NEW p \in Processes, NEW a \in Address, NEW n \in 1 .. BufferSize
        PROVE  ValidateRange(spaces[p], a, n) <=> \A i \in 0 .. n - 1 : HostsOf(p, a + i) # {}
    <2>0. WellFormed(spaces[p], Storage[p]) /\ 0 \notin Storage[p] /\ n \in 1 .. Top
      BY NumberFacts DEF SpacesAreWellFormed
    <2>1. ValidateRange(spaces[p], a, n) <=> \A i \in 0 .. n - 1 : HostsIn(spaces[p], a + i) # {}
      BY <2>0, ValidateIs
    <2>2. QED
      BY <2>1, HostsOfIsHostsIn
  <1>3. QED
    BY <1>1, <1>2 DEF TranslationExact, TranslationConfined, ValidateMeansEveryByte

-----------------------------------------------------------------------------
(* Pieces of a party's range *)

\* The piece of n bytes from byte d on of the range that begins at a.
IsPiece(party, a, d, n, host, length) ==
    /\ Piece(party, Plus(a, d), n) = {[host |-> host, length |-> length]}
    /\ \A i \in 0 .. length - 1 : PlacesOf(party, a, d + i) = {host + i} /\ host + i \in Places

\* While every byte before has a place the addresses of a copy do not wrap, and the
\* next piece is missing exactly if the next byte has no place.
LEMMA PieceIs ==
    ASSUME SpacesAreWellFormed,
           NEW party \in Processes \cup {Kernel}, NEW a \in Address, party = Kernel => a = 0,
           NEW d \in Nat, NEW n \in Nat \ {0}, d + n <= BufferSize,
           \A i \in 0 .. d - 1 : PlacesOf(party, a, i) # {}
    PROVE  \/ Piece(party, Plus(a, d), n) = {} /\ PlacesOf(party, a, d) = {}
           \/ \E host \in Int, length \in 1 .. n : IsPiece(party, a, d, n, host, length)
  <1>0. d \in 0 .. Top /\ n \in Nat /\ a \in Nat /\ a <= Top
    BY NumberFacts DEF Address
  <1>1. CASE party = Kernel
    <2>1. Plus(a, d) = d
      BY <1>0, <1>1, PlusIs
    <2>2. Piece(party, Plus(a, d), n) = {[host |-> d - BufferSize, length |-> n]}
      BY <1>1, <2>1 DEF Piece
    <2>3. ASSUME NEW i \in 0 .. n - 1
          PROVE  /\ PlacesOf(party, a, d + i) = {(d - BufferSize) + i}
                 /\ (d - BufferSize) + i \in Places
      <3>1. a + (d + i) - BufferSize = (d - BufferSize) + i
        BY <1>0, <1>1, NumberFacts
      <3>2. (d - BufferSize) + i \in -BufferSize .. -1
        BY <1>0, NumberFacts
      <3>3. QED
        BY <1>1, <3>1, <3>2 DEF PlacesOf, Places, Buffer
    <2>4. d - BufferSize \in Int /\ n \in 1 .. n
      BY <1>0, NumberFacts
    <2>5. QED
      BY <2>2, <2>3, <2>4 DEF IsPiece
  <1>2. CASE party # Kernel
    <2>1. /\ party \in Processes /\ WellFormed(spaces[party], Storage[party])
          /\ 0 \notin Storage[party] /\ Storage[party] \subseteq Places
      BY <1>2, NumberFacts DEF SpacesAreWellFormed, Places
    <2>2. \A i : PlacesOf(party, a, i) = HostsIn(spaces[party], a + i)
      BY <1>2, HostsOfIsHostsIn DEF PlacesOf
    <2>3. a + d <= Top \/ (a + d > Top /\ d >= 1)
      BY <1>0, NumberFacts
    <2>4. a + d <= Top
      <3>1. SUFFICES ASSUME a + d > Top, d >= 1 PROVE FALSE
        BY <2>3, <1>0, NumberFacts
      <3>2. d - 1 \in 0 .. d - 1 /\ a + (d - 1) \in Int /\ ~(a + (d - 1) < Top)
        BY <1>0, <3>1, NumberFacts
      <3>3. HostsIn(spaces[party], a + (d - 1)) # {}
        BY <2>2, <3>2
      <3>4. QED
        BY <2>1, <3>2, <3>3, MappedBy
    <2>5. Plus(a, d) = a + d /\ a + d \in Address
      BY <1>0, <2>4, PlusIs, NumberFacts DEF Address
    <2>6. CASE HostsIn(spaces[party], a + d) = {}
      <3>1. TranslateChunk(spaces[party], a + d, n) = {}
        BY <2>1, <2>5, <2>6, ChunkOfNothing
      <3>2. Piece(party, Plus(a, d), n) = {}
        BY <1>2, <2>5, <3>1 DEF Piece
      <3>3. QED
        BY <2>2, <2>6, <3>2
    <2>7. CASE HostsIn(spaces[party], a + d) # {}
      <3>0. PICK host \in Address, length \in 1 .. n :
               IsChunk(spaces[party], Storage[party], a + d, n, host, length)
        BY <2>1, <2>5, <2>7, ChunkOfMapping
      <3>1. /\ TranslateChunk(spaces[party], a + d, n) = {[host |-> host, length |-> length]}
            /\ \A i \in 0 .. length - 1 :
                  /\ HostsIn(spaces[party], a + d + i) = {host + i}
                  /\ host + i \in Storage[party]
        BY <3>0 DEF IsChunk
      <3>2. length # 0 /\ host \in Int
        BY <1>0 DEF Address
      <3>3. Piece(party, Plus(a, d), n) = {[host |-> host, length |-> length]}
        BY <1>2, <2>5, <3>1, <3>2 DEF Piece
      <3>4. ASSUME NEW i \in 0 .. length - 1
            PROVE  PlacesOf(party, a, d + i) = {host + i} /\ host + i \in Places
        <4>1. a + (d + i) = a + d + i
          BY <1>0
        <4>2. QED
          BY <2>1, <2>2, <3>1, <4>1
      <3>5. QED
        BY <3>2, <3>3, <3>4 DEF IsPiece
    <2>8. QED
      BY <2>6, <2>7
  <1>3. QED
    BY <1>1, <1>2

\* No two bytes of a range share a place.
LEMMA PlacesInjective ==
    ASSUME SpacesAreWellFormed,
           NEW party \in Processes \cup {Kernel}, NEW a \in Address,
           NEW i \in Nat, NEW j \in Nat,
           NEW h, h \in PlacesOf(party, a, i), h \in PlacesOf(party, a, j)
    PROVE  i = j
  <1>0. a \in Nat /\ BufferSize \in Nat
    BY NumberFacts
  <1>1. CASE party = Kernel
    BY <1>0, <1>1 DEF PlacesOf
  <1>2. CASE party # Kernel
    <2>1. party \in Processes /\ WellFormed(spaces[party], Storage[party])
      BY <1>2 DEF SpacesAreWellFormed
    <2>2. h \in HostsIn(spaces[party], a + i) /\ h \in HostsIn(spaces[party], a + j)
      BY <1>2, HostsOfIsHostsIn DEF PlacesOf
    <2>3. a + i \in Int /\ a + j \in Int
      BY <1>0
    <2>4. a + i = a + j
      BY <2>1, <2>2, <2>3, HostsInjective
    <2>5. QED
      BY <1>0, <2>4
  <1>3. QED
    BY <1>1, <1>2

\* The places of a range lie in memory, those of the kernel's while it stays in the buffer.
LEMMA PlacesArePlaces ==
    ASSUME SpacesAreWellFormed,
           NEW party \in Processes \cup {Kernel}, NEW a \in Address, party = Kernel => a = 0,
           NEW i \in 0 .. BufferSize - 1, NEW h \in PlacesOf(party, a, i)
    PROVE  h \in Places
  <1>0. a \in Nat /\ BufferSize \in Nat /\ i \in Nat
    BY NumberFacts
  <1>1. CASE party = Kernel
    <2>1. h = i - BufferSize
      BY <1>0, <1>1 DEF PlacesOf
    <2>2. h \in -BufferSize .. -1
      BY <1>0, <2>1
    <2>3. QED
      BY <2>2 DEF Places, Buffer
  <1>2. CASE party # Kernel
    <2>1. party \in Processes /\ WellFormed(spaces[party], Storage[party])
      BY <1>2 DEF SpacesAreWellFormed
    <2>2. h \in HostsIn(spaces[party], a + i) /\ a + i \in Int
      BY <1>0, <1>2, HostsOfIsHostsIn DEF PlacesOf
    <2>3. PICK k \in DOMAIN spaces[party] :
             spaces[party][k].user <= a + i /\ a + i < spaces[party][k].user + spaces[party][k].size
      BY <2>1, <2>2, MappedBy
    <2>4. h \in Storage[party]
      BY <2>1, <2>2, <2>3, CoveredOnce
    <2>5. QED
      BY <2>1, <2>4, NumberFacts DEF Places
  <1>3. QED
    BY <1>1, <1>2

-----------------------------------------------------------------------------
(* The invariant holds and is preserved *)

\* Copying begins with the invariant.
LEMMA InitEstablishes == Init => CInv
  <1> SUFFICES ASSUME Init PROVE CInv
    OBVIOUS
  <1>1. op = NoOp /\ op.kind = "setup"
    BY DEF Init, NoOp
  <1>2. DOMAIN memory = Places /\ before = memory
    BY DEF Init
  <1>3. SpacesAreWellFormed
    BY DEF Init, SpacesAreWellFormed, WellFormed, MappingsValid, MappingsApart
  <1>4. QED
    BY <1>1, <1>2, <1>3 DEF CInv, OpIsACall, PassedBytesHavePlaces, NothingElseTouched,
       PassedBytesArrived, PassedCharactersArrived, StringTerminated

\* add_address_space_mapping keeps a space well formed, if the bootstrap gives it
\* storage that is mapped nowhere else.
LEMMA AddKeepsWellFormed ==
    ASSUME NEW S, NEW space, WellFormed(space, S),
           NEW user \in Address, NEW size \in Address, NEW host \in Address,
           host .. host + size - 1 \subseteq S,
           \A i \in DOMAIN space : HostRange(space[i]) \cap (host .. host + size - 1) = {},
           NEW larger \in AddMapping(space, user, host, size)
    PROVE  WellFormed(larger, S)
  <1>1. PICK m : m = [user |-> user, host |-> host, size |-> size]
    OBVIOUS
  <1>2. /\ larger = Append(space, m)
        /\ IsValidAddressRange(user, size) /\ IsValidAddressRange(host, size)
        /\ \A i \in DOMAIN space : ~RangesOverlap(user, size, space[i].user, space[i].size)
    BY <1>1 DEF AddMapping
  <1>3. m \in Mapping /\ m.user = user /\ m.host = host /\ m.size = size
    BY <1>1 DEF Mapping
  <1>4. space \in Seq(Mapping) /\ larger \in Seq(Mapping)
    BY <1>2, <1>3 DEF WellFormed
  <1>5. PICK k : k = Len(space)
    OBVIOUS
  <1>6. /\ k \in Nat /\ DOMAIN space = 1 .. k /\ DOMAIN larger = 1 .. k + 1
        /\ \A i \in 1 .. k : larger[i] = space[i]
        /\ larger[k + 1] = m
    BY <1>2, <1>3, <1>4, <1>5
  <1>7. user \in Nat /\ host \in Nat /\ size \in Nat /\ Top \in Nat
    BY NumberFacts
  <1>8. /\ size >= 1 /\ user + size <= Top /\ host + size <= Top
        /\ Plus(user, size) = user + size
    <2>1. size >= 1 /\ user + size <= Top /\ host + size <= Top
      BY <1>2, <1>7 DEF IsValidAddressRange
    <2>2. size \in 0 .. Top
      BY <1>7 DEF Address
    <2>3. QED
      BY <2>1, <2>2, PlusIs
  <1>9. MappingsValid(larger, S)
    <2>1. HostRange(m) \subseteq S
      BY <1>3 DEF HostRange
    <2>2. ASSUME NEW i \in DOMAIN larger
          PROVE  /\ IsValidAddressRange(larger[i].user, larger[i].size)
                 /\ IsValidAddressRange(larger[i].host, larger[i].size)
                 /\ HostRange(larger[i]) \subseteq S
      <3>1. CASE i \in 1 .. k
        BY <1>6, <3>1 DEF WellFormed, MappingsValid
      <3>2. CASE i = k + 1
        BY <1>2, <1>3, <1>6, <2>1, <3>2
      <3>3. QED
        BY <1>6, <3>1, <3>2
    <2>3. QED
      BY <2>2 DEF MappingsValid
  <1>10. ASSUME NEW i \in 1 .. k
         PROVE  /\ Apart(space[i].user, space[i].size, user, size)
                /\ Apart(space[i].host, space[i].size, host, size)
    <2>0. i \in DOMAIN space
      BY <1>6
    <2>1. /\ space[i].user \in Nat /\ space[i].host \in Nat /\ space[i].size \in Nat
          /\ space[i].size >= 1
          /\ Plus(space[i].user, space[i].size) = space[i].user + space[i].size
      BY <2>0, MappingFacts
    <2>2. ~(user < space[i].user + space[i].size /\ space[i].user < user + size)
      BY <1>2, <1>8, <2>0, <2>1 DEF RangesOverlap
    <2>3. HostRange(space[i]) \cap (host .. host + size - 1) = {}
      BY <2>0
    <2>4. \A h \in Int : ~(/\ space[i].host <= h /\ h <= space[i].host + space[i].size - 1
                           /\ host <= h /\ h <= host + size - 1)
      BY <2>1, <2>3, <1>7 DEF HostRange
    <2>5. Apart(space[i].user, space[i].size, user, size)
      BY <1>7, <2>1, <2>2 DEF Apart
    <2>6. Apart(space[i].host, space[i].size, host, size)
      <3>1. SUFFICES ASSUME host < space[i].host + space[i].size, space[i].host < host + size
                     PROVE  FALSE
        BY <1>7, <2>1 DEF Apart
      <3>2. CASE host <= space[i].host
        BY <1>7, <1>8, <2>1, <2>4, <3>1, <3>2
      <3>3. CASE space[i].host <= host
        BY <1>7, <1>8, <2>1, <2>4, <3>1, <3>3
      <3>4. QED
        BY <1>7, <2>1, <3>2, <3>3
    <2>7. QED
      BY <2>5, <2>6
  <1>11. MappingsApart(larger)
    <2>1. ASSUME NEW i \in DOMAIN larger, NEW j \in DOMAIN larger, i # j
          PROVE  /\ Apart(larger[i].user, larger[i].size, larger[j].user, larger[j].size)
                 /\ Apart(larger[i].host, larger[i].size, larger[j].host, larger[j].size)
      <3>1. CASE i \in 1 .. k /\ j \in 1 .. k
        BY <1>6, <2>1, <3>1 DEF WellFormed, MappingsApart
      <3>2. CASE i \in 1 .. k /\ j = k + 1
        BY <1>3, <1>6, <1>10, <3>2
      <3>3. CASE i = k + 1 /\ j \in 1 .. k
        BY <1>3, <1>6, <1>10, <3>3 DEF Apart
      <3>4. QED
        BY <1>6, <2>1, <3>1, <3>2, <3>3
    <2>2. QED
      BY <2>1 DEF MappingsApart
  <1>12. QED
    BY <1>4, <1>9, <1>11 DEF WellFormed

\* A new mapping leaves the others as they were.
LEMMA MapPreserves ==
    ASSUME CInv, NEW p \in Processes, Map(p)
    PROVE  CInv'
  <1>1. op = NoOp /\ op' = NoOp /\ op'.kind = "setup" /\ memory' = memory /\ before' = before
    BY DEF Map, NoOp
  <1>2. PICK user \in UserBases, size \in Sizes, host \in Storage[p] :
           /\ host .. host + size - 1 \subseteq Storage[p]
           /\ \A i \in DOMAIN spaces[p] : HostRange(spaces[p][i]) \cap (host .. host + size - 1) = {}
           /\ \E space \in AddMapping(spaces[p], user, host, size) :
                 spaces' = [spaces EXCEPT ![p] = space]
    BY DEF Map
  <1>3. PICK space \in AddMapping(spaces[p], user, host, size) :
           spaces' = [spaces EXCEPT ![p] = space]
    BY <1>2
  <1>4. SpacesAreWellFormed
    BY DEF CInv
  <1>5. user \in Address /\ size \in Address /\ host \in Address
    BY UserCopyAssumption, NumberFacts
  <1>6. WellFormed(space, Storage[p])
    BY <1>2, <1>4, <1>5, AddKeepsWellFormed DEF SpacesAreWellFormed
  <1>7. SpacesAreWellFormed'
    BY <1>3, <1>4, <1>6 DEF SpacesAreWellFormed
  <1>8. NothingElseTouched'
    BY <1>1 DEF CInv, NothingElseTouched
  <1>9. QED
    BY <1>1, <1>7, <1>8 DEF CInv, OpIsACall, PassedBytesHavePlaces,
       PassedBytesArrived, PassedCharactersArrived, StringTerminated

\* A call begins with no byte passed.
LEMMA BeginPreserves ==
    ASSUME CInv, NEW kind \in {"bytes", "string"},
           NEW src \in Processes \cup {Kernel}, NEW from \in Address,
           NEW dst \in Processes \cup {Kernel}, NEW to \in Address,
           NEW size \in 0 .. BufferSize,
           src = Kernel => from = 0, dst = Kernel => to = 0,
           kind = "string" => src # Kernel /\ dst = Kernel /\ size # 0,
           Begin(kind, src, from, dst, to, size)
    PROVE  CInv'
  <1>0. BufferSize \in Nat /\ size \in Nat
    BY NumberFacts
  <1>1. op = NoOp /\ spaces' = spaces /\ memory' = memory /\ before' = before
    BY DEF Begin
  <1>2. op' = [kind |-> kind, src |-> src, from |-> from, dst |-> dst, to |-> to,
               size |-> size, done |-> 0,
               status |-> IF kind = "bytes" /\ size = 0 THEN "OK" ELSE "copying"]
    BY DEF Begin
  <1>3. /\ op'.kind = kind /\ op'.src = src /\ op'.from = from /\ op'.dst = dst /\ op'.to = to
        /\ op'.size = size /\ op'.done = 0
        /\ op'.status = IF kind = "bytes" /\ size = 0 THEN "OK" ELSE "copying"
    BY <1>2
  <1>4. op' \in Op
    BY <1>0, <1>2 DEF Op
  <1>5. SpacesAreWellFormed' /\ DOMAIN memory' = Places
    BY <1>1 DEF CInv, SpacesAreWellFormed
  <1>6. OpIsACall'
    BY <1>0, <1>3, <1>4 DEF OpIsACall
  <1>7. 0 .. op'.done - 1 = {}
    BY <1>3
  <1>8. PassedBytesHavePlaces' /\ PassedBytesArrived' /\ PassedCharactersArrived'
    BY <1>3, <1>7 DEF PassedBytesHavePlaces, PassedBytesArrived, PassedCharactersArrived
  <1>9. NothingElseTouched'
    BY <1>1 DEF CInv, NothingElseTouched
  <1>10. StringTerminated'
    BY <1>3 DEF StringTerminated, Finished
  <1>11. QED
    BY <1>5, <1>6, <1>8, <1>9, <1>10 DEF CInv

\* What every turn of a loop leaves alone.
LEMMA TurnKeepsPlaces ==
    ASSUME spaces' = spaces, op'.src = op.src, op'.from = op.from, op'.dst = op.dst,
           op'.to = op.to, NEW i
    PROVE  /\ Sources(i)' = Sources(i) /\ Targets(i)' = Targets(i)
           /\ HostsOf(op.src, op.from + i)' = HostsOf(op.src, op.from + i)
           /\ PlacesOf(op.dst, op.to, i)' = PlacesOf(op.dst, op.to, i)
  BY DEF Sources, Targets, PlacesOf, HostsOf

\* The typed fields of a copy that has begun.
LEMMA OpFields ==
    ASSUME CInv, op.kind = "bytes" \/ op.kind = "string"
    PROVE  /\ op # NoOp /\ op \in Op
           /\ op.src \in Processes \cup {Kernel} /\ op.dst \in Processes \cup {Kernel}
           /\ op.from \in Address /\ op.to \in Address
           /\ op.size \in Nat /\ op.done \in Nat /\ op.done <= op.size /\ op.size <= BufferSize
           /\ op.status \in {"copying", "OK", "FAULT", "BUFFER_TOO_SMALL"}
  <1>1. op # NoOp
    BY DEF NoOp
  <1>2. op \in Op
    BY <1>1 DEF CInv, OpIsACall
  <1>3. QED
    BY <1>1, <1>2, NumberFacts DEF CInv, OpIsACall, Op

\* A chunk passes its bytes, or the copy ends where it was.
LEMMA ChunkPreserves ==
    ASSUME CInv, CopyChunk
    PROVE  CInv'
  <1> DEFINE left == op.size - op.done
             sources == Piece(op.src, Plus(op.from, op.done), left)
             targets(n) == Piece(op.dst, Plus(op.to, op.done), n)
  <1>1. op.kind = "bytes" /\ op.status = "copying" /\ spaces' = spaces /\ before' = before
    BY DEF CopyChunk, Copying
  <1>2. /\ op # NoOp /\ op \in Op
        /\ op.src \in Processes \cup {Kernel} /\ op.dst \in Processes \cup {Kernel}
        /\ op.from \in Address /\ op.to \in Address
        /\ op.size \in Nat /\ op.done \in Nat /\ op.done < op.size /\ op.size <= BufferSize
        /\ op.src = Kernel => op.from = 0
        /\ op.dst = Kernel => op.to = 0
    BY <1>1, OpFields DEF CInv, OpIsACall
  <1>3. SpacesAreWellFormed /\ DOMAIN memory = Places
    BY DEF CInv
  <1>4. \A i \in 0 .. op.done - 1 : Sources(i) # {} /\ Targets(i) # {}
    BY <1>2 DEF CInv, PassedBytesHavePlaces
  <1>5. left \in Nat \ {0} /\ left = op.size - op.done /\ op.done + left <= BufferSize
    BY <1>2
  <1>6. \/ sources = {} /\ Sources(op.done) = {}
        \/ \E host \in Int, length \in 1 .. left :
              IsPiece(op.src, op.from, op.done, left, host, length)
    <2>1. \A i \in 0 .. op.done - 1 : PlacesOf(op.src, op.from, i) # {}
      BY <1>4 DEF Sources
    <2> HIDE DEF left
    <2>2. QED
      BY <1>2, <1>3, <1>5, <2>1, PieceIs DEF Sources
  <1>7. ASSUME NEW n \in Nat \ {0}, op.done + n <= BufferSize
        PROVE  \/ targets(n) = {} /\ Targets(op.done) = {}
               \/ \E host \in Int, length \in 1 .. n :
                     IsPiece(op.dst, op.to, op.done, n, host, length)
    <2>1. \A i \in 0 .. op.done - 1 : PlacesOf(op.dst, op.to, i) # {}
      BY <1>4 DEF Targets
    <2>2. QED
      BY <1>2, <1>3, <1>7, <2>1, PieceIs DEF Targets
  <1>8. CASE /\ sources = {} \/ \E s \in sources : targets(s.length) = {}
             /\ op' = [op EXCEPT !.status = "FAULT"]
             /\ UNCHANGED memory
    <2>1. /\ op' \in Op /\ op' # NoOp /\ op'.status = "FAULT" /\ op'.kind = "bytes"
          /\ op'.src = op.src /\ op'.from = op.from /\ op'.dst = op.dst /\ op'.to = op.to
          /\ op'.size = op.size /\ op'.done = op.done
      <3>1. op' \in Op /\ op'.kind = "bytes"
        BY <1>1, <1>2, <1>8 DEF Op
      <3>2. op' # NoOp
        BY <3>1 DEF NoOp
      <3>3. QED
        BY <1>2, <1>8, <3>1, <3>2 DEF Op
    <2>2. \A i : /\ Sources(i)' = Sources(i) /\ Targets(i)' = Targets(i)
                 /\ PlacesOf(op.dst, op.to, i)' = PlacesOf(op.dst, op.to, i)
      BY <1>1, <2>1, TurnKeepsPlaces
    <2>3. Sources(op.done) = {} \/ Targets(op.done) = {}
      <3>1. SUFFICES ASSUME Sources(op.done) # {} PROVE Targets(op.done) = {}
        OBVIOUS
      <3>2. PICK host \in Int, length \in 1 .. left :
               IsPiece(op.src, op.from, op.done, left, host, length)
        BY <1>6, <3>1
      <3>3. sources = {[host |-> host, length |-> length]}
        BY <3>2 DEF IsPiece
      <3>4. targets(length) = {}
        <4>1. PICK s \in sources : targets(s.length) = {}
          BY <1>8, <3>3
        <4>2. s.length = length
          BY <3>3
        <4>3. QED
          BY <4>1, <4>2
      <3>5. length \in Nat \ {0} /\ op.done + length <= BufferSize
        BY <1>2, <1>5, <3>2, NumberFacts
      <3>6. ASSUME NEW h \in Int, NEW l \in 1 .. length,
                   IsPiece(op.dst, op.to, op.done, length, h, l)
            PROVE  FALSE
        BY <3>4, <3>6 DEF IsPiece
      <3>7. QED
        BY <1>7, <3>5, <3>6
    <2>4. SpacesAreWellFormed' /\ DOMAIN memory' = Places
      BY <1>1, <1>3, <1>8 DEF SpacesAreWellFormed
    <2>5. OpIsACall'
      BY <1>2, <2>1 DEF OpIsACall
    <2>6. PassedBytesHavePlaces'
      BY <1>2, <1>4, <2>1, <2>2, <2>3 DEF PassedBytesHavePlaces
    <2>7. NothingElseTouched'
      BY <1>1, <1>8, <2>1, <2>2 DEF CInv, NothingElseTouched
    <2>8. PassedBytesArrived'
      <3>1. RangesAreDisjoint' => RangesAreDisjoint
        BY <2>1, <2>2 DEF RangesAreDisjoint
      <3>2. QED
        BY <1>1, <1>8, <2>1, <2>2, <3>1 DEF CInv, PassedBytesArrived
    <2>9. PassedCharactersArrived' /\ StringTerminated'
      BY <2>1 DEF PassedCharactersArrived, StringTerminated
    <2>10. QED
      BY <2>4, <2>5, <2>6, <2>7, <2>8, <2>9 DEF CInv
  <1>9. CASE \E s \in sources : \E d \in targets(s.length) :
                /\ memory' = Memcpy(d.host, s.host, d.length)
                /\ op' = [op EXCEPT !.done = Advanced(d.length),
                                    !.status = IF d.length = left THEN "OK" ELSE "copying"]
    <2>1. PICK s \in sources : \E d \in targets(s.length) :
                /\ memory' = Memcpy(d.host, s.host, d.length)
                /\ op' = [op EXCEPT !.done = Advanced(d.length),
                                    !.status = IF d.length = left THEN "OK" ELSE "copying"]
      BY <1>9
    <2>2. PICK hs \in Int, ls \in 1 .. left : IsPiece(op.src, op.from, op.done, left, hs, ls)
      BY <1>6, <2>1
    <2>3. s = [host |-> hs, length |-> ls] /\ s.host = hs /\ s.length = ls
      BY <2>1, <2>2 DEF IsPiece
    <2>4. ls \in Nat \ {0} /\ op.done + ls <= BufferSize /\ ls <= left
      BY <1>2, <1>5, <2>2, NumberFacts
    <2>5. PICK d \in targets(ls) :
                /\ memory' = Memcpy(d.host, s.host, d.length)
                /\ op' = [op EXCEPT !.done = Advanced(d.length),
                                    !.status = IF d.length = left THEN "OK" ELSE "copying"]
      BY <2>1, <2>3
    <2>6. PICK hd \in Int, ld \in 1 .. ls : IsPiece(op.dst, op.to, op.done, ls, hd, ld)
      BY <1>7, <2>4, <2>5
    <2>7. d = [host |-> hd, length |-> ld] /\ d.host = hd /\ d.length = ld
      BY <2>5, <2>6 DEF IsPiece
    <2>8. ld \in Nat /\ ld >= 1 /\ ld <= left /\ ld <= ls
      BY <1>5, <2>4, <2>6
    <2>9. /\ memory' = [h \in Places |-> IF h \in hd .. hd + ld - 1
                                         THEN memory[ReadFrom(hd, hs, ld, h - hd)] ELSE memory[h]]
          /\ op' = [op EXCEPT !.done = op.done + ld,
                              !.status = IF ld = left THEN "OK" ELSE "copying"]
      BY <2>3, <2>5, <2>7 DEF Memcpy, Advanced
    <2>10. /\ op' \in Op /\ op' # NoOp /\ op'.kind = "bytes"
           /\ op'.status = IF ld = left THEN "OK" ELSE "copying"
           /\ op'.src = op.src /\ op'.from = op.from /\ op'.dst = op.dst /\ op'.to = op.to
           /\ op'.size = op.size /\ op'.done = op.done + ld
      <3>0. op.done + ld \in 0 .. BufferSize
        BY <1>2, <1>5, <2>8, NumberFacts
      <3>1. op' \in Op /\ op'.kind = "bytes"
        BY <1>1, <1>2, <2>9, <3>0 DEF Op
      <3>2. op' # NoOp
        BY <3>1 DEF NoOp
      <3>3. QED
        BY <1>2, <2>9, <3>1, <3>2 DEF Op
    <2>11. \A i : /\ Sources(i)' = Sources(i) /\ Targets(i)' = Targets(i)
                  /\ PlacesOf(op.dst, op.to, i)' = PlacesOf(op.dst, op.to, i)
      BY <1>1, <2>10, TurnKeepsPlaces
    <2>12. /\ \A i \in 0 .. ls - 1 : Sources(op.done + i) = {hs + i} /\ hs + i \in Places
           /\ \A i \in 0 .. ld - 1 : Targets(op.done + i) = {hd + i} /\ hd + i \in Places
      BY <2>2, <2>6 DEF IsPiece, Sources, Targets
    <2>13. ASSUME NEW i \in 0 .. op'.done - 1
           PROVE  \/ i \in 0 .. op.done - 1
                  \/ \E k \in 0 .. ld - 1 : i = op.done + k
      <3>1. i \in 0 .. op.done - 1 \/ (i - op.done \in 0 .. ld - 1 /\ i = op.done + (i - op.done))
        BY <1>2, <2>8, <2>10
      <3>2. QED
        BY <3>1
    <2>14. \A k \in 0 .. ld - 1 : /\ k \in 0 .. ls - 1
                                  /\ op.done + k \in 0 .. op.size - 1
                                  /\ op.done + k \in 0 .. op'.done - 1
                                  /\ op.done + k \in Nat
      BY <1>2, <1>5, <2>8, <2>10, <2>4
    <2>15. SpacesAreWellFormed' /\ DOMAIN memory' = Places
      BY <1>1, <1>3, <2>9 DEF SpacesAreWellFormed
    <2>16. OpIsACall'
      BY <1>2, <1>5, <2>8, <2>10 DEF OpIsACall
    <2>17. PassedBytesHavePlaces'
      <3>1. ASSUME NEW i \in 0 .. op'.done - 1 PROVE Sources(i) # {} /\ Targets(i) # {}
        <4>1. CASE i \in 0 .. op.done - 1
          BY <1>4, <4>1
        <4>2. CASE \E k \in 0 .. ld - 1 : i = op.done + k
          BY <2>12, <2>14, <4>2
        <4>3. QED
          BY <2>13, <4>1, <4>2
      <3>2. QED
        BY <2>10, <2>11, <3>1 DEF PassedBytesHavePlaces
    <2>18. NothingElseTouched'
      <3>1. ASSUME NEW h \in Places, memory'[h] # before'[h]
            PROVE  \E i \in 0 .. op'.done - 1 : h \in Targets(i)
        <4>1. CASE h \in hd .. hd + ld - 1
          <5>1. h - hd \in 0 .. ld - 1 /\ hd + (h - hd) = h
            BY <2>6, <2>8, <4>1
          <5>2. h \in Targets(op.done + (h - hd))
            BY <2>12, <5>1
          <5>3. QED
            BY <2>14, <5>1, <5>2
        <4>2. CASE h \notin hd .. hd + ld - 1
          <5>1. memory[h] # before[h]
            BY <1>1, <2>9, <3>1, <4>2
          <5>2. PICK i \in 0 .. op.done - 1 : h \in PlacesOf(op.dst, op.to, i)
            BY <5>1 DEF CInv, NothingElseTouched
          <5>3. i \in 0 .. op'.done - 1
            BY <1>2, <2>8, <2>10
          <5>4. QED
            BY <5>2, <5>3 DEF Targets
        <4>3. QED
          BY <4>1, <4>2
      <3>2. QED
        BY <2>10, <2>11, <3>1 DEF NothingElseTouched, Targets
    <2>19. PassedBytesArrived'
      <3>1. SUFFICES ASSUME RangesAreDisjoint, NEW i \in 0 .. op'.done - 1,
                            NEW u \in Sources(i), NEW v \in Targets(i)
                     PROVE  memory'[v] = before[u]
        <4>1. RangesAreDisjoint' => RangesAreDisjoint
          BY <2>10, <2>11 DEF RangesAreDisjoint
        <4>2. QED
          BY <1>1, <2>11, <4>1 DEF PassedBytesArrived
      <3>2. CASE i \in 0 .. op.done - 1
        <4>1. memory[v] = before[u]
          BY <1>1, <3>1, <3>2 DEF CInv, PassedBytesArrived
        <4>2. v \notin hd .. hd + ld - 1
          <5>1. SUFFICES ASSUME v \in hd .. hd + ld - 1 PROVE FALSE
            OBVIOUS
          <5>2. v - hd \in 0 .. ld - 1 /\ hd + (v - hd) = v
            BY <2>6, <2>8, <5>1
          <5>3. v \in Targets(op.done + (v - hd))
            BY <2>12, <5>2
          <5>4. op.done + (v - hd) \in Nat /\ i \in Nat /\ i # op.done + (v - hd)
            BY <1>2, <2>14, <3>2, <5>2
          <5>5. QED
            BY <1>2, <1>3, <5>3, <5>4, PlacesInjective DEF Targets
        <4>3. v \in Places
          <5>1. i \in 0 .. BufferSize - 1
            BY <1>2, <3>2, NumberFacts
          <5>2. QED
            BY <1>2, <1>3, <5>1, PlacesArePlaces DEF Targets
        <4>4. QED
          BY <2>9, <4>1, <4>2, <4>3
      <3>3. ASSUME NEW k \in 0 .. ld - 1, i = op.done + k
            PROVE  memory'[v] = before[u]
        <4>1. u = hs + k /\ v = hd + k /\ hd + k \in Places /\ hs + k \in Places
          BY <2>12, <2>14, <3>1, <3>3
        <4>2. hd + k \in hd .. hd + ld - 1 /\ (hd + k) - hd = k
          BY <2>6, <2>8
        <4>3. memory'[v] = memory[ReadFrom(hd, hs, ld, k)]
          BY <2>9, <4>1, <4>2
        <4>4. ~(hs < hd /\ hd < hs + ld)
          <5>1. SUFFICES ASSUME hs < hd, hd < hs + ld PROVE FALSE
            OBVIOUS
          <5>2. /\ hd - hs \in 0 .. ld - 1 /\ 0 \in 0 .. ld - 1
                /\ hs + (hd - hs) = hd /\ hd + 0 = hd /\ op.done + 0 = op.done
            BY <1>2, <2>8, <5>1
          <5>3. hd \in Sources(op.done + (hd - hs))
            BY <2>12, <2>14, <5>2
          <5>4. hd \in Targets(op.done + 0)
            BY <2>12, <5>2
          <5>5. QED
            BY <2>14, <3>1, <5>2, <5>3, <5>4 DEF RangesAreDisjoint
        <4>5. ReadFrom(hd, hs, ld, k) = u
          BY <4>1, <4>4 DEF ReadFrom
        <4>6. memory[u] = before[u]
          <5>1. SUFFICES ASSUME memory[u] # before[u] PROVE FALSE
            OBVIOUS
          <5>2. PICK j \in 0 .. op.done - 1 : u \in Targets(j)
            BY <4>1, <5>1 DEF CInv, NothingElseTouched, Targets
          <5>3. j \in 0 .. op.size - 1
            BY <1>2
          <5>4. QED
            BY <2>14, <3>1, <3>3, <5>2, <5>3 DEF RangesAreDisjoint
        <4>7. QED
          BY <4>3, <4>5, <4>6
      <3>4. QED
        BY <2>13, <3>2, <3>3
    <2>20. PassedCharactersArrived' /\ StringTerminated'
      BY <2>10 DEF PassedCharactersArrived, StringTerminated
    <2>21. QED
      BY <2>15, <2>16, <2>17, <2>18, <2>19, <2>20 DEF CInv
  <1>10. QED
    BY <1>8, <1>9 DEF CopyChunk

\* A character of a string is passed, terminates it, or ends the copy.
LEMMA CharacterPreserves ==
    ASSUME CInv, CopyCharacter
    PROVE  CInv'
  <1> DEFINE hosts == TranslateAddress(spaces[op.src], Plus(op.from, op.done), 1)
             slot == op.done - BufferSize
  <1>1. op.kind = "string" /\ op.status = "copying" /\ spaces' = spaces /\ before' = before
    BY DEF CopyCharacter, Copying
  <1>2. /\ op # NoOp /\ op \in Op
        /\ op.src \in Processes /\ op.src # Kernel /\ op.dst = Kernel
        /\ op.from \in Address /\ op.to = 0
        /\ op.size \in Nat /\ op.done \in Nat /\ op.done < op.size /\ op.size <= BufferSize
    <2>1. op # NoOp
      BY <1>1, OpFields
    <2>2. op.src # Kernel /\ op.dst = Kernel /\ op.to = 0 /\ op.done < op.size
      BY <1>1, <2>1 DEF CInv, OpIsACall
    <2>3. QED
      BY <1>1, <2>2, OpFields
  <1>3. /\ SpacesAreWellFormed /\ DOMAIN memory = Places
        /\ WellFormed(spaces[op.src], Storage[op.src])
        /\ 0 \notin Storage[op.src] /\ Storage[op.src] \subseteq Address
    BY <1>2, NumberFacts DEF CInv, SpacesAreWellFormed
  <1>4. /\ BufferSize \in Nat /\ Top \in Nat /\ BufferSize <= Top /\ 1 <= Top
        /\ op.from \in Nat /\ op.from <= Top /\ op.done \in 0 .. Top
    BY <1>2, NumberFacts DEF Address
  <1>5. \A i : /\ Sources(i) = HostsIn(spaces[op.src], op.from + i)
               /\ HostsOf(op.src, op.from + i) = Sources(i)
               /\ Targets(i) = {op.to + i - BufferSize}
    BY <1>2, HostsOfIsHostsIn DEF Sources, Targets, PlacesOf
  <1>6. \A i \in Nat : Targets(i) = {i - BufferSize}
    <2>1. \A i \in Nat : op.to + i - BufferSize = i - BufferSize
      BY <1>2, <1>4
    <2>2. QED
      BY <1>5, <2>1
  <1>7. \A i \in 0 .. op.done - 1 : Sources(i) # {} /\ Targets(i) # {}
    BY <1>2 DEF CInv, PassedBytesHavePlaces
  <1>8. Plus(op.from, op.done) = op.from + op.done /\ op.from + op.done \in Address
    <2>1. op.from + op.done <= Top
      <3>1. SUFFICES ASSUME op.from + op.done > Top PROVE FALSE
        BY <1>4
      <3>2. /\ op.done - 1 \in 0 .. op.done - 1 /\ op.from + (op.done - 1) \in Int
            /\ ~(op.from + (op.done - 1) < Top)
        BY <1>4, <3>1
      <3>3. HostsIn(spaces[op.src], op.from + (op.done - 1)) # {}
        BY <1>5, <1>7, <3>2
      <3>4. QED
        BY <1>3, <3>2, <3>3, MappedBy
    <2>2. QED
      BY <1>2, <1>4, <2>1, PlusIs DEF Address
  <1>9. hosts = Sources(op.done)
    <2>1. hosts = HostsIn(spaces[op.src], op.from + op.done)
      BY <1>3, <1>4, <1>8, TranslateByte
    <2>2. QED
      BY <1>5, <2>1
  <1>10. SpacesAreWellFormed'
    BY <1>1, <1>3 DEF SpacesAreWellFormed
  <1>11. slot \in Places /\ slot = op.done - BufferSize
    <2>1. slot \in -BufferSize .. -1
      BY <1>2, <1>4
    <2>2. QED
      BY <2>1 DEF Places, Buffer
  <1> HIDE DEF hosts, slot
  <1>12. CASE /\ hosts = {}
              /\ op' = [op EXCEPT !.status = "FAULT"]
              /\ UNCHANGED memory
    <2>1. /\ op' \in Op /\ op' # NoOp /\ op'.status = "FAULT" /\ op'.kind = "string"
          /\ op'.src = op.src /\ op'.from = op.from /\ op'.dst = op.dst /\ op'.to = op.to
          /\ op'.size = op.size /\ op'.done = op.done
      <3>1. op' \in Op /\ op'.kind = "string"
        BY <1>1, <1>2, <1>12 DEF Op
      <3>2. op' # NoOp
        BY <3>1 DEF NoOp
      <3>3. QED
        BY <1>2, <1>12, <3>1, <3>2 DEF Op
    <2>2. \A i : /\ Sources(i)' = Sources(i) /\ Targets(i)' = Targets(i)
                 /\ HostsOf(op.src, op.from + i)' = HostsOf(op.src, op.from + i)
                 /\ PlacesOf(op.dst, op.to, i)' = PlacesOf(op.dst, op.to, i)
      BY <1>1, <2>1, TurnKeepsPlaces
    <2>3. OpIsACall'
      BY <1>2, <2>1 DEF OpIsACall
    <2>4. PassedBytesHavePlaces'
      BY <1>2, <1>7, <1>9, <1>12, <2>1, <2>2 DEF PassedBytesHavePlaces
    <2>5. NothingElseTouched'
      BY <1>1, <1>12, <2>1, <2>2 DEF CInv, NothingElseTouched
    <2>6. PassedBytesArrived' /\ PassedCharactersArrived'
      BY <2>1 DEF PassedBytesArrived, PassedCharactersArrived
    <2>7. StringTerminated'
      <3>1. HostsOf(op.src, op.from + op.done)' = {}
        BY <1>5, <1>9, <1>12, <2>1, <2>2
      <3>2. QED
        BY <2>1, <3>1 DEF StringTerminated
    <2>8. QED
      BY <1>3, <1>10, <1>12, <2>3, <2>4, <2>5, <2>6, <2>7 DEF CInv
  <1>13. ASSUME NEW h \in hosts,
                op' = [op EXCEPT !.done = op.done + 1,
                                 !.status = IF memory[h] = Nul THEN "OK"
                                            ELSE IF BufferFull THEN "BUFFER_TOO_SMALL"
                                            ELSE "copying"],
                memory' = [memory EXCEPT ![slot] = IF BufferFull THEN Nul ELSE memory[h]]
         PROVE  CInv'
    <2>1. /\ op' \in Op /\ op' # NoOp /\ op'.kind = "string"
          /\ op'.status = IF memory[h] = Nul THEN "OK"
                          ELSE IF op.done + 1 = op.size THEN "BUFFER_TOO_SMALL" ELSE "copying"
          /\ op'.src = op.src /\ op'.from = op.from /\ op'.dst = op.dst /\ op'.to = op.to
          /\ op'.size = op.size /\ op'.done = op.done + 1
      <3>0. op.done + 1 \in 0 .. BufferSize
        BY <1>2, <1>4
      <3>1. op' \in Op /\ op'.kind = "string"
        BY <1>1, <1>2, <1>13, <3>0 DEF Op
      <3>2. op' # NoOp
        BY <3>1 DEF NoOp
      <3>3. QED
        BY <1>2, <1>13, <3>1, <3>2 DEF Op, BufferFull
    <2>2. \A i : /\ Sources(i)' = Sources(i) /\ Targets(i)' = Targets(i)
                 /\ HostsOf(op.src, op.from + i)' = Sources(i)
                 /\ PlacesOf(op.dst, op.to, i)' = Targets(i)
      BY <1>1, <1>5, <2>1, TurnKeepsPlaces DEF Targets
    <2>3. /\ DOMAIN memory' = Places
          /\ memory'[slot] = IF op.done + 1 = op.size THEN Nul ELSE memory[h]
          /\ \A g \in Places \ {slot} : memory'[g] = memory[g]
      BY <1>3, <1>11, <1>13 DEF BufferFull
    <2>4. Sources(op.done) = {h} /\ h \in Address
      <3>1. PICK i \in DOMAIN spaces[op.src] :
               /\ spaces[op.src][i].user <= op.from + op.done
               /\ op.from + op.done < spaces[op.src][i].user + spaces[op.src][i].size
        BY <1>3, <1>5, <1>8, <1>9, <1>13, MappedBy, NumberFacts
      <3>2. PICK g \in Storage[op.src] : HostsIn(spaces[op.src], op.from + op.done) = {g}
        BY <1>3, <1>8, <3>1, CoveredOnce, NumberFacts
      <3>3. QED
        BY <1>3, <1>5, <1>9, <1>13, <3>2
    <2>5. memory[h] = before[h]
      <3>1. SUFFICES ASSUME memory[h] # before[h] PROVE FALSE
        OBVIOUS
      <3>2. PICK i \in 0 .. op.done - 1 : h \in Targets(i)
        BY <2>4, <3>1 DEF CInv, NothingElseTouched, Places, Targets
      <3>3. h = i - BufferSize /\ i \in Nat /\ i < BufferSize
        BY <1>2, <1>4, <1>6, <3>2
      <3>4. QED
        BY <1>4, <2>4, <3>3, NumberFacts
    <2>6. ASSUME NEW i \in 0 .. op'.done - 1 PROVE i \in 0 .. op.done - 1 \/ i = op.done
      BY <1>2, <2>1
    <2>7. \A i \in 0 .. op.done - 1 : i - BufferSize \in Places \ {slot}
      <3>1. ASSUME NEW i \in 0 .. op.done - 1
            PROVE  i - BufferSize \in -BufferSize .. -1 /\ i - BufferSize # slot
        BY <1>2, <1>4, <1>11
      <3>2. QED
        BY <3>1 DEF Places, Buffer
    <2>8. OpIsACall'
      BY <1>2, <2>1 DEF OpIsACall
    <2>9. PassedBytesHavePlaces'
      <3>1. ASSUME NEW i \in 0 .. op'.done - 1 PROVE Sources(i) # {} /\ Targets(i) # {}
        BY <1>2, <1>6, <1>7, <2>4, <2>6
      <3>2. op'.status # "FAULT"
        BY <2>1
      <3>3. QED
        BY <2>2, <3>1, <3>2 DEF PassedBytesHavePlaces
    <2>10. NothingElseTouched'
      <3>1. ASSUME NEW g \in Places, memory'[g] # before'[g]
            PROVE  \E i \in 0 .. op'.done - 1 : g \in Targets(i)
        <4>1. CASE g = slot
          <5>1. g \in Targets(op.done)
            BY <1>2, <1>6, <1>11, <4>1
          <5>2. op.done \in 0 .. op'.done - 1
            BY <1>2, <2>1
          <5>3. QED
            BY <5>1, <5>2
        <4>2. CASE g # slot
          <5>1. memory[g] # before[g]
            BY <1>1, <2>3, <3>1, <4>2
          <5>2. PICK i \in 0 .. op.done - 1 : g \in Targets(i)
            BY <5>1 DEF CInv, NothingElseTouched, Targets
          <5>3. i \in 0 .. op'.done - 1
            BY <1>2, <2>1
          <5>4. QED
            BY <5>2, <5>3
        <4>3. QED
          BY <4>1, <4>2
      <3>2. QED
        BY <2>1, <2>2, <3>1 DEF NothingElseTouched
    <2>11. PassedBytesArrived'
      BY <2>1 DEF PassedBytesArrived
    <2>12. ASSUME NEW i \in 0 .. op.done - 1
           PROVE  /\ \A s \in Sources(i) : memory'[i - BufferSize] = before[s]
                  /\ memory'[i - BufferSize] # Nul
      <3>1. memory'[i - BufferSize] = memory[i - BufferSize]
        BY <2>3, <2>7
      <3>2. \A s \in Sources(i) : memory[i - BufferSize] = before[s] /\ memory[i - BufferSize] # Nul
        BY <1>1, <1>5 DEF CInv, PassedCharactersArrived
      <3>3. QED
        BY <1>7, <3>1, <3>2
    <2>13. ~(op.done + 1 = op.size) \/ memory[h] = Nul =>
              /\ memory'[op.done - BufferSize] = before[h]
              /\ memory'[op.done - BufferSize] = memory[h]
      BY <1>11, <2>3, <2>5
    <2>14. PassedCharactersArrived'
      <3>1. SUFFICES ASSUME op'.status = "copying", NEW i \in 0 .. op'.done - 1, NEW s \in Sources(i)
                     PROVE  memory'[i - BufferSize] = before[s] /\ memory'[i - BufferSize] # Nul
        BY <1>1, <2>2 DEF PassedCharactersArrived
      <3>2. memory[h] # Nul /\ ~(op.done + 1 = op.size)
        BY <2>1, <3>1
      <3>3. CASE i \in 0 .. op.done - 1
        BY <2>12, <3>3
      <3>4. CASE i = op.done
        BY <2>4, <2>13, <3>2, <3>4
      <3>5. QED
        BY <2>6, <3>3, <3>4
    <2>15. StringTerminated'
      <3>1. CASE op'.status = "OK"
        <4>1. memory[h] = Nul
          BY <2>1, <3>1
        <4>2. op'.done - 1 - BufferSize = op.done - BufferSize /\ op'.done - 2 = op.done - 1
          BY <1>2, <1>4, <2>1
        <4>3. memory'[op'.done - 1 - BufferSize] = Nul
          BY <2>13, <4>1, <4>2
        <4>4. ASSUME NEW i \in 0 .. op'.done - 1, NEW s \in Sources(i)
              PROVE  memory'[i - BufferSize] = before[s]
          <5>1. CASE i \in 0 .. op.done - 1
            BY <2>12, <5>1
          <5>2. CASE i = op.done
            BY <2>4, <2>13, <4>1, <5>2
          <5>3. QED
            BY <2>6, <5>1, <5>2
        <4>5. \A i \in 0 .. op'.done - 2 : memory'[i - BufferSize] # Nul
          BY <2>12, <4>2
        <4>6. QED
          BY <1>1, <2>2, <3>1, <4>3, <4>4, <4>5 DEF StringTerminated
      <3>2. CASE op'.status = "BUFFER_TOO_SMALL"
        <4>1. op.done + 1 = op.size
          BY <2>1, <3>2
        <4>2. op'.done = op'.size /\ op'.size - 1 - BufferSize = slot
          BY <1>2, <1>4, <1>11, <2>1, <4>1
        <4>3. memory'[op'.size - 1 - BufferSize] = Nul
          BY <2>3, <4>1, <4>2
        <4>4. QED
          BY <3>2, <4>2, <4>3 DEF StringTerminated
      <3>3. CASE op'.status = "copying"
        BY <3>3 DEF StringTerminated, Finished
      <3>4. QED
        BY <2>1, <3>1, <3>2, <3>3
    <2>16. QED
      BY <1>10, <2>3, <2>8, <2>9, <2>10, <2>11, <2>14, <2>15 DEF CInv
  <1>14. QED
    BY <1>12, <1>13 DEF CopyCharacter, hosts, slot

\* No step of a copy ends the invariant.
LEMMA NextPreserves == CInv /\ [Next]_vars => CInv'
  <1> SUFFICES ASSUME CInv, [Next]_vars PROVE CInv'
    OBVIOUS
  <1>1. BufferSize \in Nat /\ 0 \in Address /\ \A p \in Processes : p # Kernel
    BY NumberFacts DEF Address
  <1>2. ASSUME NEW p \in Processes, Map(p) PROVE CInv'
    BY <1>2, MapPreserves
  <1>3. ASSUME NEW p \in Processes, CopyUserBytes(p) PROVE CInv'
    <2>1. PICK from \in Address, size \in 0 .. BufferSize :
             Begin("bytes", p, from, Kernel, 0, size)
      BY <1>3 DEF CopyUserBytes
    <2>2. QED
      BY <1>1, <2>1, BeginPreserves
  <1>4. ASSUME NEW p \in Processes, WriteUserBytes(p) PROVE CInv'
    <2>1. PICK to \in Address, size \in 0 .. BufferSize :
             Begin("bytes", Kernel, 0, p, to, size)
      BY <1>4 DEF WriteUserBytes
    <2>2. QED
      BY <1>1, <2>1, BeginPreserves
  <1>5. ASSUME NEW p \in Processes, CopyUserString(p) PROVE CInv'
    <2>1. PICK from \in Address, size \in 1 .. BufferSize :
             Begin("string", p, from, Kernel, 0, size)
      BY <1>5 DEF CopyUserString
    <2>2. size \in 0 .. BufferSize /\ size # 0
      BY <1>1
    <2>3. QED
      BY <1>1, <2>1, <2>2, BeginPreserves
  <1>6. ASSUME NEW p \in Processes, NEW q \in Processes, CopyBetweenUserProcesses(p, q) PROVE CInv'
    <2>1. PICK from \in Address, to \in Address, size \in 0 .. BufferSize :
             Begin("bytes", p, from, q, to, size)
      BY <1>6 DEF CopyBetweenUserProcesses
    <2>2. QED
      BY <1>1, <2>1, BeginPreserves
  <1>7. CASE CopyChunk
    BY <1>7, ChunkPreserves
  <1>8. CASE CopyCharacter
    BY <1>8, CharacterPreserves
  <1>9. CASE Return \/ UNCHANGED vars
    <2>1. spaces' = spaces /\ memory' = memory /\ before' = before /\ op' = op
      BY <1>9 DEF Return, vars
    <2>2. \A i : Sources(i)' = Sources(i) /\ Targets(i)' = Targets(i)
      BY <2>1, TurnKeepsPlaces
    <2>3. NothingElseTouched' /\ StringTerminated' /\ PassedCharactersArrived'
      BY <2>1 DEF CInv, NothingElseTouched, StringTerminated, PassedCharactersArrived,
         PlacesOf, HostsOf, Finished
    <2>4. PassedBytesHavePlaces' /\ PassedBytesArrived'
      BY <2>1, <2>2 DEF CInv, PassedBytesHavePlaces, PassedBytesArrived, RangesAreDisjoint
    <2>5. SpacesAreWellFormed' /\ DOMAIN memory' = Places /\ OpIsACall'
      BY <2>1 DEF CInv, SpacesAreWellFormed, OpIsACall
    <2>6. QED
      BY <2>3, <2>4, <2>5 DEF CInv
  <1>10. QED
    BY <1>2, <1>3, <1>4, <1>5, <1>6, <1>7, <1>8, <1>9 DEF Next

-----------------------------------------------------------------------------
(* Theorems *)

\* The copies of kernel/user_runtime.cpp keep the invariant, for every machine word,
\* every layout of the processes' storage and every buffer.
THEOREM CopyInvariant == Spec => []CInv
  BY InitEstablishes, NextPreserves, PTL DEF Spec

\* Translation and validation of user addresses (address_space.cpp) say what the
\* mappings say, byte by byte, in every address space the bootstrap can build.
THEOREM TranslationCorrect == Spec => []TranslationExact
  <1>1. CInv => TranslationExact
    BY TranslationIsExact DEF CInv
  <1>2. QED
    BY <1>1, CopyInvariant, PTL

\* copy_user_bytes, write_user_bytes and copy_between_user_processes move the bytes
\* they were asked for and no others, and succeed exactly if every byte is mapped.
THEOREM CopiesCorrect == Spec => []CopiesExactly
  <1>1. CInv => CopiesExactly
    <2> SUFFICES ASSUME CInv PROVE CopiesExactly
      OBVIOUS
    <2>1. op \in Op \cup {NoOp}
      BY DEF CInv, OpIsACall
    <2>2. CopyArrives
      <3>1. SUFFICES ASSUME op.kind = "bytes", Finished
                     PROVE  /\ op.status = "OK" <=>
                                  \A i \in 0 .. op.size - 1 : Sources(i) # {} /\ Targets(i) # {}
                            /\ op.status = "OK" /\ RangesAreDisjoint =>
                                  \A i \in 0 .. op.size - 1 :
                                     \A s \in Sources(i), d \in Targets(i) : memory[d] = before[s]
        BY DEF CopyArrives, RangesAreDisjoint, Sources, Targets
      <3>2. op # NoOp /\ op.status \in {"OK", "FAULT"} /\ op.size \in Nat /\ op.done \in Nat
        BY <3>1, OpFields DEF CInv, OpIsACall, Finished
      <3>3. op.status = "OK" => op.done = op.size
        BY <3>1, <3>2 DEF CInv, OpIsACall
      <3>4. op.status = "FAULT" =>
               op.done \in 0 .. op.size - 1 /\ (Sources(op.done) = {} \/ Targets(op.done) = {})
        BY <3>2 DEF CInv, PassedBytesHavePlaces
      <3>5. \A i \in 0 .. op.done - 1 : Sources(i) # {} /\ Targets(i) # {}
        BY <3>2 DEF CInv, PassedBytesHavePlaces
      <3>6. RangesAreDisjoint =>
               \A i \in 0 .. op.done - 1 :
                  \A s \in Sources(i), d \in Targets(i) : memory[d] = before[s]
        BY <3>1 DEF CInv, PassedBytesArrived
      <3>7. QED
        BY <3>2, <3>3, <3>4, <3>5, <3>6
    <2>3. QED
      BY <2>1, <2>2 DEF CInv, CopiesExactly
  <1>2. QED
    BY <1>1, CopyInvariant, PTL

\* copy_user_string returns the user's whole string with its end, or a cut one that
\* still has an end, and faults only at a character that is not mapped.
THEOREM StringsCorrect == Spec => []StringTerminated
  <1>1. CInv => StringTerminated
    BY DEF CInv
  <1>2. QED
    BY <1>1, CopyInvariant, PTL
=============================================================================
