----------------------------- MODULE LibcString -----------------------------
(* The byte loops of the user libc (src/user/libc/src/string.cpp; memcpy and *)
(* memset of src/kernel/klibc/memory.cpp are the same): one step per byte,    *)
(* so that a loop over overlapping ranges reads what it has written.         *)
EXTENDS Integers

CONSTANTS
  Size,   \* bytes of memory
  Bytes   \* the values of a byte that are distinguished; 0 ends a string

ASSUME MemoryAssumption == Size \in Nat /\ Bytes \subseteq 0 .. 255 /\ 0 \in Bytes

VARIABLES
  bytes,        \* memory
  operation,    \* "memmove", "memcpy", "memset", "memcmp" or "strlen"
  destination, source, length, value,  \* the arguments; memcmp's left and right
  index,        \* the loop variable
  original,     \* history: memory when the function was called
  returned      \* <<>>, or <<result>> of a call that is done

stringVars == <<bytes, operation, destination, source, length, value, index, original, returned>>
callVars == <<operation, destination, source, length, value, original>>

Addresses == 0 .. Size - 1
Disjoint == destination + length <= source \/ source + length <= destination

-----------------------------------------------------------------------------
(* The callers pass ranges that exist, memcpy's without overlap, and a       *)
(* string that ends.                                                         *)
StringInit ==
  /\ bytes \in [Addresses -> Bytes] /\ original = bytes
  /\ operation \in {"memmove", "memcpy", "memset", "memcmp", "strlen"}
  /\ length \in 0 .. Size /\ destination \in 0 .. Size - length /\ source \in 0 .. Size - length
  /\ value \in Bytes
  /\ operation = "memcpy" => Disjoint
  /\ operation = "strlen" => \E a \in source .. Size - 1 : bytes[a] = 0
  /\ index = 0 /\ returned = <<>>

Runs(o) == operation = o /\ returned = <<>>
ReturnsWith(r) == returned' = <<r>> /\ UNCHANGED <<bytes, index>>
Assigns(a, v) == bytes' = [bytes EXCEPT ![a] = v] /\ index' = index + 1 /\ UNCHANGED returned

Memcpy ==
  /\ Runs("memcpy")
  /\ \/ index < length /\ Assigns(destination + index, bytes[source + index])
     \/ index >= length /\ ReturnsWith(destination)
  /\ UNCHANGED callVars

\* Mutant: the direction depends on the other range.
ForwardWhenAbove == destination > source

(* The loop goes up when the destination is below the source.                *)
Forward == destination < source

(* The byte a turn moves: index counts the turns in both directions.         *)
Moved == IF Forward THEN index ELSE length - 1 - index

Memmove ==
  /\ Runs("memmove")
  /\ \/ /\ destination # source /\ index < length
        /\ Assigns(destination + Moved, bytes[source + Moved])
     \/ (destination = source \/ index >= length) /\ ReturnsWith(destination)
  /\ UNCHANGED callVars

Memset ==
  /\ Runs("memset")
  /\ \/ index < length /\ Assigns(destination + index, value)
     \/ index >= length /\ ReturnsWith(destination)
  /\ UNCHANGED callVars

\* Mutant: bytes are compared as signed characters.
DifferenceSigned(l, r) == (IF l > 127 THEN l - 256 ELSE l) - (IF r > 127 THEN r - 256 ELSE r)

Difference(l, r) == l - r

Memcmp ==
  /\ Runs("memcmp")
  /\ \/ /\ index < length /\ bytes[destination + index] = bytes[source + index]
        /\ index' = index + 1 /\ UNCHANGED <<bytes, returned>>
     \/ /\ index < length /\ bytes[destination + index] # bytes[source + index]
        /\ ReturnsWith(Difference(bytes[destination + index], bytes[source + index]))
     \/ index >= length /\ ReturnsWith(0)
  /\ UNCHANGED callVars

Strlen ==
  /\ Runs("strlen")
  /\ \/ bytes[source + index] # 0 /\ index' = index + 1 /\ UNCHANGED <<bytes, returned>>
     \/ bytes[source + index] = 0 /\ ReturnsWith(index)
  /\ UNCHANGED callVars

StringNext == Memcpy \/ Memmove \/ Memset \/ Memcmp \/ Strlen

StringSpec == StringInit /\ [][StringNext]_stringVars

-----------------------------------------------------------------------------
(* Properties.                                                               *)

InDestination(a) == a \in destination .. destination + length - 1

(* What the destination should hold: what the source held before the call,   *)
(* or the value of memset.                                                   *)
Wanted(a) == IF operation = "memset" THEN value ELSE original[source + (a - destination)]

(* memmove gives the destination what the source held before the call, for   *)
(* every overlap of the two; memcpy and memset do so too, and none of them   *)
(* writes outside the destination.                                           *)
DestinationAsWanted ==
  returned # <<>> =>
    \A a \in Addresses :
      bytes[a] = IF operation \in {"memmove", "memcpy", "memset"} /\ InDestination(a) THEN Wanted(a)
                 ELSE original[a]

(* memcmp orders ranges as sequences of unsigned bytes: the sign of its      *)
(* result is decided by the first difference.                                *)
ComparesUnsigned ==
  returned # <<>> /\ operation = "memcmp" =>
    LET Differs(k) == original[destination + k] # original[source + k]
        First(k) == Differs(k) /\ \A j \in 0 .. k - 1 : ~Differs(j) IN
    /\ returned[1] = 0 <=> \A k \in 0 .. length - 1 : ~Differs(k)
    /\ \A k \in 0 .. length - 1 :
         First(k) => (returned[1] < 0 <=> original[destination + k] < original[source + k])

(* strlen counts the bytes in front of the first terminator and never reads  *)
(* behind the one that is there.                                             *)
CountsToTheTerminator ==
  operation = "strlen" =>
    /\ source + index <= Size - 1
    /\ \A k \in 0 .. index - 1 : original[source + k] # 0
    /\ returned # <<>> => returned[1] = index /\ original[source + index] = 0

(* memcmp and strlen find what they look for at its first place.             *)
ScansExactly == ComparesUnsigned /\ CountsToTheTerminator
=============================================================================
