----------------------------- MODULE MCX64Host -----------------------------
(* Instances of the emulator for TLC: uint32_t has 2 bytes and uint64_t 3,   *)
(* and the region holds 44 bytes.  Every handler gets encodings that reach   *)
(* each of its exits, at the start of the region and cut off by its end at   *)
(* every byte; the kernel also runs short programs around syscalls.          *)
EXTENDS X64Host, TLC

Top == Base + Size
Pointer == Base + 16   \* leaves room for a 16-byte access

\* 32-bit displacements and immediates are two bytes here.
StackAndControl ==
  { <<\h50>>, <<\h41, \h54>>, <<\h48, \h50>>, <<\h5B>>, <<\h48, \h5B>>, <<\h5C>>,
    <<\hC3>>, <<\h48, \hC3>>, <<\hE8, 2, 0>>, <<\h48, \hE8, 0, 0>>,
    <<\hFF, \hC0>>, <<\h48, \hFF, \hCB>>, <<\hFF, \hCA>>, <<\hFF, \h00>>, <<\hFF, \hD1>>, <<\hFF, \h15, 2, 0>>,
    <<\hFF, \h15, 2, \h70>>, <<\h41, \hFF, \h15, 2, 0>>, <<\hFF, \h11>>, <<\hFF, \hE0>>,
    <<\hE9, 2, 0>>, <<\h48, \hE9, 0, 0>>, <<\hEB, \hFE>>, <<\h48, \hEB, 0>>,
    <<\h74, 2>>, <<\h75, 2>>, <<\h48, \h74, 0>>, <<\h0F, \h84, 2, 0>>, <<\h0F, \h85, 2, 0>> }

DataMovement ==
  { <<\hB8, 1, \h80>>, <<\h41, \hB9, 1, 0>>, <<\h48, \hB8, 1, 0>>,
    <<\hC7, \hC0, 1, \h80>>, <<\h48, \hC7, \hC0, 1, \h80>>, <<\hC7, \h01, 1, 0>>, <<\h48, \hC7, \h01, 1, \h80>>,
    <<\hC7, \h41, 1, 1, 0>>, <<\hC7, \hC8, 1, 0>>,
    <<\h89, \hCB>>, <<\h48, \h89, \hCB>>, <<\h89, \h01>>, <<\h48, \h89, \h01>>, <<\h8B, \hD9>>,
    <<\h8B, \h01>>, <<\h48, \h8B, \h41, 2>>, <<\h8B, \h81, 2, 0>>, <<\h8B, \h05, 2, 0>>, <<\h41, \h8B, \h45, \hFF>>,
    <<\h41, \h8B, \h5D, 1>>, <<\h8B, \h1C, \h31>>, <<\h8B, \h5C, \h31, 1>>, <<\h8B, \h9C, \h71, 1, 0>>,
    <<\h8B, \h1C, \h25, 80, 0>>, <<\h8B, \h1C, \h24>>, <<\h42, \h8B, \h1C, \h21>>,
    <<\h8D, \h41, \hFF>>, <<\h48, \h8D, \h05, 0, \hFF>>, <<\h8D, \hC0>>,
    <<\h80, \hF9, 80>>, <<\h80, \h39, 0>>, <<\h80, \hC0, 0>>,
    <<\h0F, \h94, \hC0>>, <<\h0F, \h95, \hC1>>, <<\h0F, \h94, \h01>>,
    <<\h0F, \hB6, \hD9>>, <<\h0F, \hB6, \h19>>, <<\h90>>, <<\h48, \h90>>, <<\h66, \h48, \h90>>, <<\h48, \h41, \h66, \h50>> }

Arithmetic ==
  { <<\h31, \hC8>>, <<\h48, \h31, \hC0>>, <<\h31, \h01>>, <<\h08, \hC8>>, <<\h08, \h01>>,
    <<\h0B, \hC1>>, <<\h48, \h0B, \h01>>, <<\h0B, \h01>>, <<\h85, \hC9>>, <<\h48, \h85, \hC9>>, <<\h85, \h01>>,
    <<\hA9, 1, \h80>>, <<\h48, \hA9, 0, \h80>>, <<\hF6, \hC1, 1>>, <<\hF6, \h01, 1>>, <<\hF6, \hD0, 0>>,
    <<\hF7, \hD8>>, <<\h48, \hF7, \h19>>, <<\hF7, \h19>>, <<\hF7, \hD0>>,
    <<\h83, \hC0, 1>>, <<\h83, \hE8, 5>>, <<\h48, \h83, \hF8, \hFF>>, <<\h48, \h83, \h01, \hFF>>, <<\h83, \h29, 1>>,
    <<\h83, \hC8, 1>>, <<\h48, \h83, \hC4, 3>>,
    <<\h81, \hC0, 1, \h80>>, <<\h81, \hE8, 5, 0>>, <<\h48, \h81, \hF8, 5, \h80>>, <<\h48, \h81, \h01, 1, \h80>>,
    <<\h81, \hC8, 1, 0>>, <<\h81, \h29, 1, 0>>, <<\h39, \hC8>>, <<\h48, \h39, \h01>>, <<\h39, \h01>> }

SimdAndSystem ==
  { <<\h0F, \h10, \h01>>, <<\h0F, \h10, \hC1>>, <<\h66, \h0F, \h10, \h01>>,
    <<\h0F, \h11, \h01>>, <<\h0F, \h29, \hC8>>, <<\hF3, \h0F, \h7F, \h01>>, <<\h0F, \h7F, \h01>>,
    <<\h0F, \h57, \h01>>, <<\h66, \h0F, \h57, \hC0>>, <<\h66, \h0F, \h6E, \hC0>>, <<\h66, \h0F, \h6E, \h01>>,
    <<\h0F, \h6E, \hC0>>, <<\h66, \h0F, \h60, \hC1>>, <<\h0F, \h60, \hC1>>,
    <<\h66, \h0F, \h70, \hC1, \h1B>>, <<\hF2, \h0F, \h70, \h01, \h1B>>, <<\h0F, \h70, \hC1, 0>>,
    <<\h66, \h0F, \hD6, \h01>>, <<\h66, \h0F, \hD6, \hC0>>, <<\h0F, \hD6, \h01>>,
    <<\h06>>, <<\h0F, \hFF>>, <<\h48, \h0F, \h05>>, <<\h0F, \h05>>,
    <<\h0F, \h1F, \h00>>, <<\h0F, \h1F, \h44, 0, 0>>, <<\h2E, \h66, \h0F, \h1F, \h84, 0, 0, 0>>,
    <<\h0F, \h1F, \h04, \h25, 0, 0>>, <<\h0F, \h1F, \hC8>> }

Syscall == <<\h0F, \h05>>

\* Programs of several instructions: a call and its return, a counted loop, a
\* guarded branch, the byte broadcast of memset, a program that writes over itself.
Listings ==
  { << <<\hE8, 2, 0>>, Syscall, <<\h50>>, <<\h5B>>, <<\hC3>> >>,
    << <<\hB8, 2, 0>>, <<\hFF, \hC8>>, <<\h75, \hFC>>, Syscall >>,
    << <<\h83, \hF8, 5>>, <<\h74, 2>>, Syscall, <<\h31, \hC0>>, Syscall >>,
    << <<\h66, \h0F, \h6E, \hC0>>, <<\h66, \h0F, \h60, \hC0>>, <<\hF2, \h0F, \h70, \hC0, 0>>,
       <<\h66, \h0F, \h70, \hC0, 0>>, <<\h0F, \h11, \h01>>, Syscall >>,
    << <<\hC7, \h05, 0, 0, \hC3, \hC3>>, <<\h90>>, <<\h90>>, Syscall >> }

Singles == {<<s>> : s \in StackAndControl \cup DataMovement \cup Arithmetic \cup SimdAndSystem}

LengthOf(p) ==
  LET before[k \in 0 .. Len(p)] == IF k = 0 THEN 0 ELSE before[k - 1] + Len(p[k])
  IN  before[Len(p)]

Flat(p) ==
  LET to[k \in 0 .. Len(p)] == IF k = 0 THEN <<>> ELSE to[k - 1] \o p[k]
  IN  to[Len(p)]

Image(p, origin) ==
  LET bytes == Flat(p)
  IN  [mem |-> [a \in Region |-> IF a - origin + 1 \in DOMAIN bytes THEN bytes[a - origin + 1] ELSE 0],
       code |-> p, origin |-> origin]

Wholes == {Image(p \o <<Syscall>>, Base) : p \in Singles}
Cuts == UNION {{Image(p, Top - n) : n \in 0 .. LengthOf(p)} : p \in Singles}

RegistersWith(special) ==
  [r \in Registers |-> IF r \in DOMAIN special THEN special[r] ELSE 0]

\* rax 0, rcx 1, rdx 2, rsp 4, rbp 5, rsi 6, r12 12, r13 13.
Ordinary == RegistersWith(0 :> 5 @@ 1 :> Pointer @@ 2 :> 0 @@ 4 :> Top @@ 6 :> 2 @@ 12 :> 1 @@ 13 :> Pointer)
AtTheEdges == RegistersWith(0 :> Dword.half @@ 1 :> Top - 1 @@ 2 :> 2 * Dword.half - 1 @@ 4 :> Base + 2
                            @@ 6 :> 2 * Qword.half - 1 @@ 13 :> Base)
Outside == RegistersWith(0 :> Qword.half @@ 1 :> Base - 1 @@ 2 :> Dword.half - 1 @@ 4 :> Top + 6
                         @@ 6 :> 1 @@ 13 :> 2 * Qword.half - 1)

Starts == {[reg |-> r, zero |-> z] : r \in {Ordinary, AtTheEdges, Outside}, z \in BOOLEAN}

Budget(n) == [engine |-> "INTERPRETER", handle_syscall |-> TRUE, bytes |-> TRUE, budget |-> n]

Refused == { [Budget(2) EXCEPT !.engine = "JIT"], [Budget(2) EXCEPT !.handle_syscall = FALSE],
             [Budget(2) EXCEPT !.bytes = FALSE], Budget(0) }

Called(images, starts, invocations) ==
  {[image |-> m, start |-> s, invocation |-> v] : m \in images, s \in starts, v \in invocations}

GuestMemory(bytes) == [a \in Region |-> IF a - Base + 1 \in DOMAIN bytes THEN bytes[a - Base + 1] ELSE 0]

\* push and pop around a syscall; inc and dec of a preserved register; an
\* endless loop; a loop of syscalls; an unsupported opcode; a return to
\* nowhere; an xmm6 that is loaded before and stored behind a syscall; a
\* comparison before one; an empty program; a server that loops over a syscall
\* with a stack slot, rcx and its flags in use, whose callback, 8 bytes behind
\* the start, changes rbx, rcx, the flags and the stack, waits in a syscall of
\* its own, and completes; a server whose callback only completes; a server
\* whose stack pointer is above the region.
Guests ==
  { <<\h50, \h0F, \h05, \h5B, \h0F, \h05>>,
    <<\hFF, \hC3, \h0F, \h05, \h48, \hFF, \hCB, \h0F, \h05>>,
    <<\hEB, \hFE>>,
    <<\h0F, \h05, \hEB, \hFC>>,
    <<\h0F, \h05, \h06>>,
    <<\h0F, \h05, \h50, \hC3>>,
    <<\hB8, 7, \h80, \h66, \h0F, \h6E, \hF0, \h0F, \h05, \h66, \h0F, \hD6, \h35, 0, 0>>,
    <<\h83, \hF8, 5, \h0F, \h05, \h74, \hF9>>,
    <<>>,
    <<\hFF, \hC1, \h50, \h0F, \h05, \h5B, \hEB, \hFA,
      \hBB, 9, 0, \h31, \hC9, \h50, \h0F, \h05, \hB8, 8, 0, \h0F, \h05>>,
    <<\h0F, \h05, \h5B, \hEB, \hFB, \h90, \h90, \h90, \hB8, 8, 0, \h0F, \h05, \hC3>>,
    <<\h48, \h83, \hC4, 6, \h0F, \h05, \hEB, \hFC>> }

\* What populate_x64_emulator_bootstrap leaves: zeros, and the stack pointer at
\* the top slot of the region.
Bootstrapped == {[mem |-> GuestMemory(p), code |-> <<>>, origin |-> Base] : p \in Guests}
AtBoot == [reg |-> RegistersWith(4 :> Top - QwordBytes), zero |-> FALSE]

MCCalls ==
  UNION { Called(Wholes \cup Cuts, Starts, {Budget(2)}),
          Called({Image(p, Base) : p \in Listings}, Starts, {Budget(12)}),
          Called({Image(<<Syscall>>, Base)}, Starts, Refused),
          Called(Bootstrapped, {AtBoot}, {Budget(4)}) }

MCSyscallResults ==
  {[status |-> 0, action |-> "CONTINUE"], [status |-> 0, action |-> "YIELD"], [status |-> 0, action |-> "EXIT_THREAD"]}

MCStatuses == {0, -5}

\* The longer one is cut off by the end of the region below a stack above it.
MCRequests == {<<7>>, <<1, 2, 3, 4, 5>>}
MCEndpoints == {[callback |-> Base + 8, completion |-> Base]}

\* The guests alone.
GuestCalls == Called(Bootstrapped, {AtBoot}, {Budget(4)})
=============================================================================
