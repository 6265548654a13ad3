----------------------------- MODULE X64Machine -----------------------------
(* The guest machine of the x64 emulator: registers, flags, instruction      *)
(* pointer, one contiguous region of guest memory, and the result record of  *)
(* a run (x64_execution_context, x64_decoder and the operand decoders).      *)
(*                                                                           *)
(* The widths of uint32_t and uint64_t are parameters, so that an instance   *)
(* whose numbers TLC can hold keeps the wrap-around at both widths.  Opcode, *)
(* ModRM and SIB bytes, and the 16 bytes of an xmm register, keep their real *)
(* size.                                                                     *)
EXTENDS X64Arithmetic, Sequences, FiniteSets

CONSTANTS
  DwordBytes,  \* sizeof(uint32_t)
  QwordBytes,  \* sizeof(uint64_t)
  Base,        \* x64_emulator_memory::base_address
  Size         \* x64_emulator_memory::size

Width(bytes) == [bytes |-> bytes, half |-> 128 * Power(256, bytes - 1)]
Byte == Width(1)
Dword == Width(DwordBytes)
Qword == Width(QwordBytes)
XmmBytes == 16

ASSUME WidthsAssumption ==
  /\ DwordBytes \in Nat /\ QwordBytes \in Nat
  /\ 0 < DwordBytes /\ DwordBytes < QwordBytes /\ QwordBytes < XmmBytes

(* Base and size come from the kernel's constants: the region fits below the *)
(* end of the address space and holds at least one stack slot.               *)
ASSUME RegionAssumption ==
  /\ Base \in Nat /\ Size \in Nat
  /\ QwordBytes <= Size /\ Base + Size < 2 * Qword.half

Region == Base .. Base + Size - 1
RegionEnd == Base + Size
Addresses == Word(Qword.half)

VARIABLES
  mem,     \* bytes of the region, by guest address
  reg,     \* general_registers
  xmm,     \* simd_registers
  flags,   \* the four status flags of x64_emulator_state::flags
  ip,      \* instruction_pointer
  result   \* x64_emulator_result

machine == <<mem, reg, xmm, flags, ip>>

RAX == 0
RSP == 4
Registers == 0 .. 15

-----------------------------------------------------------------------------
(* Guest memory.  translate_guest_pointer accepts a range exactly when its   *)
(* three comparisons pass; the subtractions it makes cannot wrap then.       *)
Translatable(a, n) ==
  /\ Base <= a
  /\ a - Base <= Size
  /\ n <= Size - (a - Base)

(* memcpy between guest memory and a host integer: little-endian.            *)
LoadBytes(a, n) == [k \in 0 .. n - 1 |-> mem[a + k]]
Load(a, n) == Number(LoadBytes(a, n), n, 256)

Stored(a, n, v) ==
  [x \in Region |-> IF x \in a .. a + n - 1 THEN (v \div Power(256, x - a)) % 256 ELSE mem[x]]

StoredBytes(a, bytes) ==
  [x \in Region |-> IF x - a \in DOMAIN bytes THEN bytes[x - a] ELSE mem[x]]

(* uintptr_t arithmetic on guest addresses, and a signed displacement.       *)
Beyond(a, n) == (a + n) % (2 * Qword.half)
Displacement(a, n) == Signed(Load(a, n), Width(n).half)

Truncated(v, w) == v % (2 * w.half)
GetRegister(r, w) == Truncated(reg[r], w)
SetRegister8Low(r, v) == [reg EXCEPT ![r] = (@ - (@ % 256)) + v]

-----------------------------------------------------------------------------
(* decode_x64_instruction: the opcode byte is the first one that is not a    *)
(* prefix.  Legacy prefixes accumulate; each REX byte replaces the REX bits  *)
(* of the one before it, and stays in force across later legacy prefixes.    *)
RexBytes == \h40 .. \h4F
Prefixes == {\h66, \hF2, \hF3, \h2E} \cup RexBytes

OpcodeAddress ==
  IF ip \notin Region THEN ip
  ELSE CHOOSE a \in ip .. RegionEnd :
         /\ a = RegionEnd \/ mem[a] \notin Prefixes
         /\ \A b \in ip .. a - 1 : mem[b] \in Prefixes

Instruction ==
  LET at     == OpcodeAddress
      before == IF ip \in Region THEN ip .. at - 1 ELSE {}
      rex    == {b \in before : mem[b] \in RexBytes}
      last   == CHOOSE b \in rex : \A c \in rex : c <= b
      RexBit(k) == rex # {} /\ (mem[last] \div Power(2, k)) % 2 = 1
      Seen(p) == \E b \in before : mem[b] = p
      next   == Beyond(at, 1)
      opcode == IF Translatable(at, 1) THEN mem[at] ELSE 0
  IN [address |-> ip, opcode_address |-> at, next |-> next, opcode |-> opcode,
      prefix_66 |-> Seen(\h66), prefix_f2 |-> Seen(\hF2), prefix_f3 |-> Seen(\hF3),
      w |-> RexBit(3), r |-> RexBit(2), x |-> RexBit(1), b |-> RexBit(0),
      secondary |-> IF opcode = \h0F /\ Translatable(next, 1) THEN mem[next] ELSE 0]

NoPrefix(i) == ~i.prefix_66 /\ ~i.prefix_f2 /\ ~i.prefix_f3
Only66(i) == i.prefix_66 /\ ~i.prefix_f2 /\ ~i.prefix_f3
OnlyF2(i) == i.prefix_f2 /\ ~i.prefix_66 /\ ~i.prefix_f3
OnlyF3(i) == i.prefix_f3 /\ ~i.prefix_66 /\ ~i.prefix_f2

OperandWidth(i) == IF i.w THEN Qword ELSE Dword

-----------------------------------------------------------------------------
(* The ModRM byte at an address, and the operand it describes.  ok is FALSE  *)
(* when a byte of the encoding is out of the region; address is then the     *)
(* read that failed, otherwise the effective address.                        *)
Mod(at) == mem[at] \div 64
Operation(at) == (mem[at] \div 8) % 8
Extended(field, extension) == field + IF extension THEN 8 ELSE 0
RegIndex(i, at) == Extended(Operation(at), i.r)
RmIndex(i, at) == Extended(mem[at] % 8, i.b)

Unreadable(a) == [ok |-> FALSE, is_register |-> FALSE, address |-> a, next |-> a]

\* Mutant: the displacement behind a SIB byte is not counted into the instruction.
TryReadSibAddressShort(i, at, mod) ==
  LET sib       == mem[at + 1]
      no_base   == mod = 0 /\ sib % 8 = 5 /\ ~i.b
      disp_size == IF mod = 1 THEN 1 ELSE IF mod = 2 \/ no_base THEN DwordBytes ELSE 0
      disp_at   == Beyond(at, 2)
      base      == IF no_base THEN 0 ELSE reg[Extended(sib % 8, i.b)]
      index     == Extended((sib \div 8) % 8, i.x)
      scaled    == IF index = 4 THEN 0 ELSE reg[index] * Power(2, sib \div 64)
      disp      == IF disp_size = 0 THEN 0 ELSE Displacement(disp_at, disp_size)
  IN IF ~Translatable(Beyond(at, 1), 1) THEN Unreadable(Beyond(at, 1))
     ELSE IF disp_size > 0 /\ ~Translatable(disp_at, disp_size) THEN Unreadable(disp_at)
     ELSE [ok |-> TRUE, is_register |-> FALSE,
           address |-> Beyond(base + scaled, disp), next |-> disp_at]

TryReadSibAddress(i, at, mod) ==
  LET sib       == mem[at + 1]
      no_base   == mod = 0 /\ sib % 8 = 5 /\ ~i.b
      disp_size == IF mod = 1 THEN 1 ELSE IF mod = 2 \/ no_base THEN DwordBytes ELSE 0
      disp_at   == Beyond(at, 2)
      base      == IF no_base THEN 0 ELSE reg[Extended(sib % 8, i.b)]
      index     == Extended((sib \div 8) % 8, i.x)
      scaled    == IF index = 4 THEN 0 ELSE reg[index] * Power(2, sib \div 64)
      disp      == IF disp_size = 0 THEN 0 ELSE Displacement(disp_at, disp_size)
  IN IF ~Translatable(Beyond(at, 1), 1) THEN Unreadable(Beyond(at, 1))
     ELSE IF disp_size > 0 /\ ~Translatable(disp_at, disp_size) THEN Unreadable(disp_at)
     ELSE [ok |-> TRUE, is_register |-> FALSE,
           address |-> Beyond(base + scaled, disp), next |-> Beyond(disp_at, disp_size)]

TryGetMemoryOperandAddress(i, at) ==
  LET mod          == Mod(at)
      rm           == mem[at] % 8
      rip_relative == mod = 0 /\ rm = 5 /\ ~i.b
      disp_size    == IF mod = 1 THEN 1 ELSE IF mod = 2 \/ rip_relative THEN DwordBytes ELSE 0
      disp_at      == Beyond(at, 1)
      next         == Beyond(disp_at, disp_size)
      base         == IF rip_relative THEN next ELSE reg[RmIndex(i, at)]
      disp         == IF disp_size = 0 THEN 0 ELSE Displacement(disp_at, disp_size)
  IN IF rm = 4 THEN TryReadSibAddress(i, at, mod)
     ELSE IF disp_size > 0 /\ ~Translatable(disp_at, disp_size) THEN Unreadable(disp_at)
     ELSE [ok |-> TRUE, is_register |-> FALSE, address |-> Beyond(base, disp), next |-> next]

(* The ALU handlers' decoder; the one of the SIMD handlers is the same text. *)
TryDecodeRmOperand(i, at) ==
  IF ~Translatable(at, 1) THEN Unreadable(at)
  ELSE IF Mod(at) = 3
       THEN [ok |-> TRUE, is_register |-> TRUE, address |-> 0, next |-> Beyond(at, 1)]
       ELSE TryGetMemoryOperandAddress(i, at)

TryDecodeModrmOperand(i, at) == TryDecodeRmOperand(i, at)

(* An operand can be used with a width when its encoding was read and it is  *)
(* a register or a range of the region.                                      *)
Usable(operand, n) == operand.ok /\ (operand.is_register \/ Translatable(operand.address, n))

RmValue(operand, i, at, w) ==
  IF operand.is_register THEN GetRegister(RmIndex(i, at), w) ELSE Load(operand.address, w.bytes)

(* Writing back where a value was read from: the range was translated by the *)
(* read, so the write that the code also checks cannot fail.                 *)
StoreRm(operand, i, at, w, v) ==
  IF operand.is_register
  THEN reg' = [reg EXCEPT ![RmIndex(i, at)] = v] /\ mem' = mem
  ELSE mem' = Stored(operand.address, w.bytes, v) /\ reg' = reg

XmmValue(operand, i, at) ==
  IF operand.is_register THEN xmm[RmIndex(i, at)] ELSE LoadBytes(operand.address, XmmBytes)

-----------------------------------------------------------------------------
(* The result record.                                                        *)
InitializedResult ==
  [completion |-> "INSTRUCTION_LIMIT_REACHED", guest_stop_reason |-> "NONE",
   backend_failure |-> "INSTRUCTION_LIMIT_REACHED", retired |-> 0,
   fault_address |-> ip, fault_opcode |-> 0,
   fault |-> [instruction_pointer |-> ip, memory_address |-> 0, opcode |-> 0]]

\* Mutant: the fault names the opcode byte, behind the prefixes.
SetFaultAtTheOpcode(i) ==
  LET opcode == IF i.opcode = \h0F THEN i.secondary ELSE i.opcode
  IN  [result EXCEPT !.fault = [instruction_pointer |-> i.opcode_address, memory_address |-> 0,
                                opcode |-> opcode],
                     !.fault_address = i.opcode_address, !.fault_opcode = opcode]

(* dispatch: set_fault, and set_fault_opcode when the opcode has two bytes.  *)
SetFault(i) ==
  LET opcode == IF i.opcode = \h0F THEN i.secondary ELSE i.opcode
  IN  [result EXCEPT !.fault = [instruction_pointer |-> i.address, memory_address |-> 0,
                                opcode |-> opcode],
                     !.fault_address = i.address, !.fault_opcode = opcode]

\* Mutant: only the completion is set, as the handlers themselves do after a failed access.
SetInvalidMemoryAccessCompletionOnly(r, a, opcode) ==
  [r EXCEPT !.completion = "INVALID_MEMORY_ACCESS",
            !.fault.memory_address = a, !.fault.opcode = opcode,
            !.fault_address = a, !.fault_opcode = opcode]

SetInvalidMemoryAccess(r, a, opcode) ==
  [r EXCEPT !.completion = "INVALID_MEMORY_ACCESS", !.guest_stop_reason = "INVALID_MEMORY_ACCESS",
            !.backend_failure = "NONE",
            !.fault.memory_address = a, !.fault.opcode = opcode,
            !.fault_address = a, !.fault_opcode = opcode]

SetUnsupportedInstruction(r, opcode) ==
  [r EXCEPT !.completion = "UNSUPPORTED_INSTRUCTION",
            !.guest_stop_reason = "UNSUPPORTED_INSTRUCTION", !.backend_failure = "NONE",
            !.fault.memory_address = 0, !.fault.opcode = opcode, !.fault_opcode = opcode]

SetThreadExited(r) ==
  [r EXCEPT !.completion = "THREAD_EXITED", !.guest_stop_reason = "THREAD_EXITED",
            !.backend_failure = "NONE"]

SetYielded(r) ==
  [r EXCEPT !.completion = "YIELDED", !.guest_stop_reason = "YIELDED", !.backend_failure = "NONE"]

SetBackendFailure(r, failure) ==
  [r EXCEPT !.completion = failure, !.guest_stop_reason = "NONE", !.backend_failure = failure]
=============================================================================
