--------------------------- MODULE X64Interpreter ---------------------------
(* run_x64_emulator: the interpreter loop and one action per instruction     *)
(* handler of src/emulator/x64.  A step decodes the instruction at ip,       *)
(* dispatches it and runs its whole handler, with the handler's early        *)
(* returns as disjuncts in the order of the code.                            *)
EXTENDS X64Machine

CONSTANTS
  Calls,           \* [image, start, invocation]: the calls of run_x64_emulator, where
                   \*   image is [mem, code, origin]: guest memory and what is laid out in it,
                   \*   start is [reg, zero]: the registers and the zero flag,
                   \*   invocation is [engine, handle_syscall, bytes, budget]
  SyscallResults   \* [status, action]: what the syscall callback may answer

ASSUME BudgetAssumption == \A call \in Calls : call.invocation.budget \in Nat

(* Memory is bytes, registers and addresses are words.                       *)
ASSUME GuestAssumption ==
  /\ \A call \in Calls : /\ call.image.mem \in [Region -> 0 .. 255]
                         /\ call.image.origin \in Addresses
                         /\ call.start.reg \in [Registers -> Addresses]
  /\ \A answer \in SyscallResults : answer.status \in Int

VARIABLES
  phase,       \* "called", "running" or "returned"
  invocation,  \* the arguments of the call
  code         \* [instructions, origin]: what the assembler laid out

control == <<phase, invocation, code>>
vars == <<mem, reg, xmm, flags, ip, result, phase, invocation, code>>

ZeroXmm == [k \in 0 .. XmmBytes - 1 |-> 0]

Init ==
  \E call \in Calls :
    /\ mem = call.image.mem
    /\ code = [instructions |-> call.image.code, origin |-> call.image.origin]
    /\ reg = call.start.reg
    /\ xmm = [r \in Registers |-> ZeroXmm]
    /\ flags = [carry |-> TRUE, zero |-> call.start.zero, sign |-> FALSE, overflow |-> FALSE]
    /\ ip = call.image.origin
    /\ result = InitializedResult
    /\ phase = "called"
    /\ invocation = call.invocation

-----------------------------------------------------------------------------
(* How a call begins and how a step ends.                                    *)
Returns(r) == phase' = "returned" /\ result' = r /\ UNCHANGED <<invocation, code>>

ValidInvocation ==
  invocation.handle_syscall /\ invocation.bytes /\ invocation.budget # 0

AcceptedCall == invocation.engine = "INTERPRETER" /\ ValidInvocation

Run ==
  /\ phase = "called"
  /\ \/ /\ invocation.engine # "INTERPRETER"
        /\ Returns(SetBackendFailure(InitializedResult, "UNSUPPORTED_ENGINE"))
     \/ /\ invocation.engine = "INTERPRETER" /\ ~ValidInvocation
        /\ Returns(SetBackendFailure(InitializedResult, "INVALID_ARGUMENT"))
     \/ /\ AcceptedCall
        /\ phase' = "running" /\ result' = InitializedResult
        /\ UNCHANGED <<invocation, code>>
  /\ UNCHANGED machine

\* Mutant: the loop runs once more than the budget says.
WithinBudgetAndOne == phase = "running" /\ result.retired <= invocation.budget

WithinBudget == phase = "running" /\ result.retired < invocation.budget

LimitReached ==
  /\ phase = "running" /\ result.retired >= invocation.budget
  /\ Returns(SetBackendFailure(result, "INSTRUCTION_LIMIT_REACHED"))
  /\ UNCHANGED machine

(* A byte of the prefixes or the opcode is out of the region.  Nothing was   *)
(* dispatched: fault.instruction_pointer keeps the previous dispatch's value.*)
DecodeFails ==
  /\ WithinBudget
  /\ ~Translatable(OpcodeAddress, 1)
  /\ Returns(SetInvalidMemoryAccess(result, OpcodeAddress, 0))
  /\ UNCHANGED machine

Dispatches(i, opcodes) == /\ WithinBudget
                          /\ Translatable(i.opcode_address, 1)
                          /\ i.opcode \in opcodes

DispatchesSecondary(i, opcodes) == /\ Dispatches(i, {\h0F})
                                   /\ ~i.w /\ Translatable(i.next, 1)
                                   /\ i.secondary \in opcodes

Unsupported(i, opcode) ==
  Returns(SetUnsupportedInstruction(SetFault(i), opcode)) /\ UNCHANGED machine

FaultedAt(i, a) ==
  LET r == SetFault(i) IN Returns(SetInvalidMemoryAccess(r, a, r.fault.opcode))

InvalidMemory(i, a) == FaultedAt(i, a) /\ UNCHANGED machine

\* Mutant: instructions are not counted.
RetiresUncounted(i, next) == ip' = next /\ result' = SetFault(i) /\ UNCHANGED control

Retires(i, next) ==
  /\ ip' = next
  /\ result' = [SetFault(i) EXCEPT !.retired = @ + 1]
  /\ UNCHANGED control

-----------------------------------------------------------------------------
(* Stack.  push_u64 refuses a stack pointer close to the region's start, but *)
(* lowers it before a write that may still fail at the region's end.         *)
PushRefused == reg[RSP] < Base + QwordBytes
PushTarget == reg[RSP] - QwordBytes
LoweredStack == [reg EXCEPT ![RSP] = PushTarget]

PushFails(i) ==
  \/ PushRefused /\ InvalidMemory(i, reg[RSP])
  \/ /\ ~PushRefused /\ ~Translatable(PushTarget, QwordBytes)
     /\ reg' = LoweredStack
     /\ FaultedAt(i, PushTarget) /\ UNCHANGED <<mem, xmm, flags, ip>>

Pushes(i, value, next) ==
  /\ ~PushRefused /\ Translatable(PushTarget, QwordBytes)
  /\ reg' = LoweredStack
  /\ mem' = Stored(PushTarget, QwordBytes, value)
  /\ Retires(i, next) /\ UNCHANGED <<xmm, flags>>

ExecutePushRegister ==
  LET i == Instruction IN
  /\ Dispatches(i, \h50 .. \h57)
  /\ \/ i.w /\ Unsupported(i, i.opcode)
     \/ ~i.w /\ PushFails(i)
     \/ ~i.w /\ Pushes(i, reg[Extended(i.opcode - \h50, i.b)], i.next)

Popped == Load(reg[RSP], QwordBytes)
RaisedStack == Beyond(reg[RSP], QwordBytes)

\* Mutant: rsp is raised before the read that may fail.
ExecutePopRegisterEarly ==
  LET i == Instruction IN
  /\ Dispatches(i, \h58 .. \h5F)
  /\ ~i.w
  /\ \/ /\ ~Translatable(reg[RSP], QwordBytes)
        /\ reg' = [reg EXCEPT ![RSP] = RaisedStack]
        /\ FaultedAt(i, reg[RSP]) /\ UNCHANGED <<mem, xmm, flags, ip>>
     \/ /\ Translatable(reg[RSP], QwordBytes)
        /\ reg' = [reg EXCEPT ![RSP] = RaisedStack, ![Extended(i.opcode - \h58, i.b)] = Popped]
        /\ Retires(i, i.next) /\ UNCHANGED <<mem, xmm, flags>>

ExecutePopRegister ==
  LET i == Instruction IN
  /\ Dispatches(i, \h58 .. \h5F)
  /\ \/ i.w /\ Unsupported(i, i.opcode)
     \/ ~i.w /\ ~Translatable(reg[RSP], QwordBytes) /\ InvalidMemory(i, reg[RSP])
     \/ /\ ~i.w /\ Translatable(reg[RSP], QwordBytes)
        /\ reg' = [reg EXCEPT ![RSP] = RaisedStack, ![Extended(i.opcode - \h58, i.b)] = Popped]
        /\ Retires(i, i.next) /\ UNCHANGED <<mem, xmm, flags>>

-----------------------------------------------------------------------------
(* Control flow.                                                             *)
ExecuteReturn ==
  LET i == Instruction IN
  /\ Dispatches(i, {\hC3})
  /\ \/ i.w /\ Unsupported(i, i.opcode)
     \/ ~i.w /\ ~Translatable(reg[RSP], QwordBytes) /\ InvalidMemory(i, reg[RSP])
     \/ /\ ~i.w /\ Translatable(reg[RSP], QwordBytes)
        /\ reg' = [reg EXCEPT ![RSP] = RaisedStack]
        /\ Retires(i, Popped) /\ UNCHANGED <<mem, xmm, flags>>

ExecuteCallRelative ==
  LET i == Instruction
      return_address == Beyond(i.next, DwordBytes) IN
  /\ Dispatches(i, {\hE8})
  /\ \/ i.w /\ Unsupported(i, i.opcode)
     \/ ~i.w /\ ~Translatable(i.next, DwordBytes) /\ InvalidMemory(i, i.next)
     \/ ~i.w /\ Translatable(i.next, DwordBytes) /\ PushFails(i)
     \/ /\ ~i.w /\ Translatable(i.next, DwordBytes)
        /\ Pushes(i, return_address, Beyond(return_address, Displacement(i.next, DwordBytes)))

(* Group FF: inc and dec of a register, call through a register or through a *)
(* rip-relative pointer.                                                     *)
IncDec(i, w) ==
  LET r == RmIndex(i, i.next)
      lhs == GetRegister(r, w)
      is_decrement == Operation(i.next) = 1
      value == IF is_decrement THEN Minus(lhs, 1, w.half) ELSE Plus(lhs, 1, w.half) IN
  /\ reg' = [reg EXCEPT ![r] = value]
  /\ flags' = SetIncDecFlags(flags.carry, lhs, value, is_decrement, w.half)
  /\ Retires(i, Beyond(i.next, 1)) /\ UNCHANGED <<mem, xmm>>

CallIndirect(i) ==
  LET pointer == TryGetMemoryOperandAddress(i, i.next) IN
  \/ /\ Mod(i.next) = 3
     /\ \/ PushFails(i)
        \/ Pushes(i, Beyond(i.next, 1), reg[RmIndex(i, i.next)])
  \/ /\ Mod(i.next) = 0 /\ mem[i.next] % 8 = 5 /\ ~i.b
     /\ \/ ~Usable(pointer, QwordBytes) /\ InvalidMemory(i, pointer.address)
        \/ Usable(pointer, QwordBytes) /\ PushFails(i)
        \/ /\ Usable(pointer, QwordBytes)
           /\ Pushes(i, pointer.next, Load(pointer.address, QwordBytes))
  \/ /\ Mod(i.next) # 3 /\ ~(Mod(i.next) = 0 /\ mem[i.next] % 8 = 5 /\ ~i.b)
     /\ Unsupported(i, i.opcode)

ExecuteGroupFF ==
  LET i == Instruction IN
  /\ Dispatches(i, {\hFF})
  /\ \/ ~Translatable(i.next, 1) /\ InvalidMemory(i, i.next)
     \/ /\ Translatable(i.next, 1)
        /\ \/ Operation(i.next) \in {0, 1} /\ Mod(i.next) # 3 /\ Unsupported(i, i.opcode)
           \/ Operation(i.next) \in {0, 1} /\ Mod(i.next) = 3 /\ IncDec(i, OperandWidth(i))
           \/ Operation(i.next) \notin {0, 1, 2} /\ Unsupported(i, i.opcode)
           \/ Operation(i.next) = 2 /\ CallIndirect(i)

(* A relative jump with a displacement of n bytes at an address.             *)
JumpsRelative(i, at, n, taken) ==
  \/ ~Translatable(at, n) /\ InvalidMemory(i, at)
  \/ /\ Translatable(at, n)
     /\ Retires(i, Beyond(at, n + IF taken THEN Displacement(at, n) ELSE 0))
     /\ UNCHANGED <<mem, reg, xmm, flags>>

ExecuteJumpRelativeNear ==
  LET i == Instruction IN
  /\ Dispatches(i, {\hE9})
  /\ \/ i.w /\ Unsupported(i, i.opcode)
     \/ ~i.w /\ JumpsRelative(i, i.next, DwordBytes, TRUE)

ExecuteJumpRelativeShort ==
  LET i == Instruction IN
  /\ Dispatches(i, {\hEB})
  /\ \/ i.w /\ Unsupported(i, i.opcode)
     \/ ~i.w /\ JumpsRelative(i, i.next, 1, TRUE)

ExecuteJumpShortCondition ==
  LET i == Instruction IN
  /\ Dispatches(i, {\h74, \h75})
  /\ \/ i.w /\ Unsupported(i, i.opcode)
     \/ ~i.w /\ JumpsRelative(i, i.next, 1, (i.opcode = \h74) = flags.zero)

ExecuteJumpNearCondition ==
  LET i == Instruction IN
  /\ DispatchesSecondary(i, {\h84, \h85})
  /\ JumpsRelative(i, Beyond(i.next, 1), DwordBytes, (i.secondary = \h84) = flags.zero)

-----------------------------------------------------------------------------
(* Data movement.                                                            *)
Immediate(a, n, w) == Truncated(SignExtended(Load(a, n), Width(n).half, Qword.half), w)

ExecuteMovImmediate32 ==
  LET i == Instruction IN
  /\ Dispatches(i, \hB8 .. \hBF)
  /\ \/ i.w /\ Unsupported(i, i.opcode)
     \/ ~i.w /\ ~Translatable(i.next, DwordBytes) /\ InvalidMemory(i, i.next)
     \/ /\ ~i.w /\ Translatable(i.next, DwordBytes)
        /\ reg' = [reg EXCEPT ![Extended(i.opcode - \hB8, i.b)] = Load(i.next, DwordBytes)]
        /\ Retires(i, Beyond(i.next, DwordBytes)) /\ UNCHANGED <<mem, xmm, flags>>

(* The immediate is read before the destination is touched.                  *)
ExecuteMovImmediateToRm ==
  LET i == Instruction
      operand == TryDecodeRmOperand(i, i.next)
      w == OperandWidth(i) IN
  /\ Dispatches(i, {\hC7})
  /\ \/ ~Translatable(i.next, 1) /\ InvalidMemory(i, i.next)
     \/ Translatable(i.next, 1) /\ Operation(i.next) # 0 /\ Unsupported(i, i.opcode)
     \/ /\ Translatable(i.next, 1) /\ Operation(i.next) = 0
        /\ \/ ~operand.ok /\ InvalidMemory(i, operand.address)
           \/ /\ operand.ok /\ ~Translatable(operand.next, DwordBytes)
              /\ InvalidMemory(i, operand.next)
           \/ /\ operand.ok /\ Translatable(operand.next, DwordBytes)
              /\ ~Usable(operand, w.bytes) /\ InvalidMemory(i, operand.address)
           \/ /\ Usable(operand, w.bytes) /\ Translatable(operand.next, DwordBytes)
              /\ StoreRm(operand, i, i.next, w, Immediate(operand.next, DwordBytes, w))
              /\ Retires(i, Beyond(operand.next, DwordBytes)) /\ UNCHANGED <<xmm, flags>>

ExecuteMovRegister ==
  LET i == Instruction
      operand == TryDecodeRmOperand(i, i.next)
      w == OperandWidth(i)
      r == RegIndex(i, i.next) IN
  /\ Dispatches(i, {\h89, \h8B})
  /\ \/ ~Usable(operand, w.bytes) /\ InvalidMemory(i, operand.address)
     \/ /\ Usable(operand, w.bytes) /\ i.opcode = \h89
        /\ StoreRm(operand, i, i.next, w, GetRegister(r, w))
        /\ Retires(i, operand.next) /\ UNCHANGED <<xmm, flags>>
     \/ /\ Usable(operand, w.bytes) /\ i.opcode = \h8B
        /\ reg' = [reg EXCEPT ![r] = RmValue(operand, i, i.next, w)]
        /\ Retires(i, operand.next) /\ UNCHANGED <<mem, xmm, flags>>

ExecuteLea ==
  LET i == Instruction
      operand == TryDecodeRmOperand(i, i.next) IN
  /\ Dispatches(i, {\h8D})
  /\ \/ ~operand.ok /\ InvalidMemory(i, operand.address)
     \/ operand.ok /\ operand.is_register /\ Unsupported(i, i.opcode)
     \/ /\ operand.ok /\ ~operand.is_register
        /\ reg' = [reg EXCEPT ![RegIndex(i, i.next)] = Truncated(operand.address, OperandWidth(i))]
        /\ Retires(i, operand.next) /\ UNCHANGED <<mem, xmm, flags>>

(* cmp of a byte; the operand is read before the immediate.  The flags are   *)
(* derived at 32 bits.                                                       *)
ExecuteGroup80 ==
  LET i == Instruction
      operand == TryDecodeRmOperand(i, i.next)
      lhs == RmValue(operand, i, i.next, Byte)
      immediate == mem[operand.next] IN
  /\ Dispatches(i, {\h80})
  /\ \/ ~Translatable(i.next, 1) /\ InvalidMemory(i, i.next)
     \/ Translatable(i.next, 1) /\ Operation(i.next) # 7 /\ Unsupported(i, i.opcode)
     \/ /\ Translatable(i.next, 1) /\ Operation(i.next) = 7
        /\ \/ ~Usable(operand, 1) /\ InvalidMemory(i, operand.address)
           \/ /\ Usable(operand, 1) /\ ~Translatable(operand.next, 1)
              /\ InvalidMemory(i, operand.next)
           \/ /\ Usable(operand, 1) /\ Translatable(operand.next, 1)
              /\ flags' = SetCompareFlags(lhs, immediate, Minus(lhs, immediate, Byte.half), Dword.half)
              /\ Retires(i, Beyond(operand.next, 1)) /\ UNCHANGED <<mem, reg, xmm>>

ExecuteSecondarySetcc ==
  LET i == Instruction
      at == Beyond(i.next, 1)
      condition == (i.secondary = \h94) = flags.zero IN
  /\ DispatchesSecondary(i, {\h94, \h95})
  /\ \/ ~Translatable(at, 1) /\ InvalidMemory(i, at)
     \/ Translatable(at, 1) /\ Mod(at) # 3 /\ Unsupported(i, i.secondary)
     \/ /\ Translatable(at, 1) /\ Mod(at) = 3
        /\ reg' = SetRegister8Low(RmIndex(i, at), IF condition THEN 1 ELSE 0)
        /\ Retires(i, Beyond(at, 1)) /\ UNCHANGED <<mem, xmm, flags>>

ExecuteSecondaryMovzxByte ==
  LET i == Instruction
      at == Beyond(i.next, 1)
      operand == TryDecodeRmOperand(i, at) IN
  /\ DispatchesSecondary(i, {\hB6})
  /\ \/ ~Usable(operand, 1) /\ InvalidMemory(i, operand.address)
     \/ /\ Usable(operand, 1)
        /\ reg' = [reg EXCEPT ![RegIndex(i, at)] = RmValue(operand, i, at, Byte)]
        /\ Retires(i, operand.next) /\ UNCHANGED <<mem, xmm, flags>>

ExecuteNop ==
  LET i == Instruction IN
  /\ Dispatches(i, {\h90})
  /\ \/ i.w /\ Unsupported(i, i.opcode)
     \/ ~i.w /\ Retires(i, i.next) /\ UNCHANGED <<mem, reg, xmm, flags>>

-----------------------------------------------------------------------------
(* Arithmetic and logic.                                                     *)

(* Handlers that only accept a register operand behind their opcode.         *)
RegisterForm(i, effect) ==
  \/ ~Translatable(i.next, 1) /\ InvalidMemory(i, i.next)
  \/ Translatable(i.next, 1) /\ Mod(i.next) # 3 /\ Unsupported(i, i.opcode)
  \/ /\ Translatable(i.next, 1) /\ Mod(i.next) = 3
     /\ effect
     /\ Retires(i, Beyond(i.next, 1)) /\ UNCHANGED <<mem, xmm>>

ExecuteXorRegister ==
  LET i == Instruction
      value == BitXor(GetRegister(RmIndex(i, i.next), Dword),
                      GetRegister(RegIndex(i, i.next), Dword), 8 * DwordBytes)
      effect == /\ reg' = [reg EXCEPT ![RmIndex(i, i.next)] = value]
                /\ flags' = SetLogicFlags(value, Dword.half) IN
  /\ Dispatches(i, {\h31})
  /\ \/ i.w /\ Unsupported(i, i.opcode)
     \/ ~i.w /\ RegisterForm(i, effect)

ExecuteOrRegisterByte ==
  LET i == Instruction
      value == BitOr(GetRegister(RmIndex(i, i.next), Byte), GetRegister(RegIndex(i, i.next), Byte), 8)
      effect == /\ reg' = SetRegister8Low(RmIndex(i, i.next), value)
                /\ flags' = SetLogicFlags(value, Dword.half) IN
  Dispatches(i, {\h08}) /\ RegisterForm(i, effect)

ExecuteTestRegister ==
  LET i == Instruction
      w == OperandWidth(i)
      value == BitAnd(GetRegister(RmIndex(i, i.next), w), GetRegister(RegIndex(i, i.next), w), 8 * w.bytes)
      effect == flags' = SetLogicFlags(value, w.half) /\ reg' = reg IN
  Dispatches(i, {\h85}) /\ RegisterForm(i, effect)

ExecuteOrRmToRegister ==
  LET i == Instruction
      operand == TryDecodeRmOperand(i, i.next)
      w == OperandWidth(i)
      r == RegIndex(i, i.next)
      value == BitOr(GetRegister(r, w), RmValue(operand, i, i.next, w), 8 * w.bytes) IN
  /\ Dispatches(i, {\h0B})
  /\ \/ ~Usable(operand, w.bytes) /\ InvalidMemory(i, operand.address)
     \/ /\ Usable(operand, w.bytes)
        /\ reg' = [reg EXCEPT ![r] = value]
        /\ flags' = SetLogicFlags(value, w.half)
        /\ Retires(i, operand.next) /\ UNCHANGED <<mem, xmm>>

ExecuteTestAccumulatorImmediate ==
  LET i == Instruction
      w == OperandWidth(i)
      value == BitAnd(GetRegister(RAX, w), Immediate(i.next, DwordBytes, w), 8 * w.bytes) IN
  /\ Dispatches(i, {\hA9})
  /\ \/ ~Translatable(i.next, DwordBytes) /\ InvalidMemory(i, i.next)
     \/ /\ Translatable(i.next, DwordBytes)
        /\ flags' = SetLogicFlags(value, w.half)
        /\ Retires(i, Beyond(i.next, DwordBytes)) /\ UNCHANGED <<mem, reg, xmm>>

ExecuteGroupF6 ==
  LET i == Instruction
      operand == TryDecodeRmOperand(i, i.next) IN
  /\ Dispatches(i, {\hF6})
  /\ \/ ~operand.ok /\ InvalidMemory(i, operand.address)
     \/ operand.ok /\ ~Translatable(operand.next, 1) /\ InvalidMemory(i, operand.next)
     \/ /\ operand.ok /\ Translatable(operand.next, 1)
        /\ \/ Operation(i.next) # 0 /\ Unsupported(i, i.opcode)
           \/ Operation(i.next) = 0 /\ ~Usable(operand, 1) /\ InvalidMemory(i, operand.address)
           \/ /\ Operation(i.next) = 0 /\ Usable(operand, 1)
              /\ flags' = SetLogicFlags(BitAnd(RmValue(operand, i, i.next, Byte),
                                               mem[operand.next], 8), Dword.half)
              /\ Retires(i, Beyond(operand.next, 1)) /\ UNCHANGED <<mem, reg, xmm>>

(* neg.                                                                      *)
ExecuteGroupF7 ==
  LET i == Instruction
      operand == TryDecodeRmOperand(i, i.next)
      w == OperandWidth(i)
      rhs == RmValue(operand, i, i.next, w)
      value == Minus(0, rhs, w.half) IN
  /\ Dispatches(i, {\hF7})
  /\ \/ ~operand.ok /\ InvalidMemory(i, operand.address)
     \/ operand.ok /\ Operation(i.next) # 3 /\ Unsupported(i, i.opcode)
     \/ /\ operand.ok /\ Operation(i.next) = 3
        /\ \/ ~Usable(operand, w.bytes) /\ InvalidMemory(i, operand.address)
           \/ /\ Usable(operand, w.bytes)
              /\ StoreRm(operand, i, i.next, w, value)
              /\ flags' = SetCompareFlags(0, rhs, value, w.half)
              /\ Retires(i, operand.next) /\ xmm' = xmm

(* add, sub and cmp with an immediate of n bytes: the operation is checked   *)
(* after the operand was read.                                               *)
AddSubCmpImmediate(i, n) ==
  LET operand == TryDecodeRmOperand(i, i.next)
      w == OperandWidth(i)
      lhs == RmValue(operand, i, i.next, w)
      rhs == Immediate(operand.next, n, w)
      sum == Plus(lhs, rhs, w.half)
      difference == Minus(lhs, rhs, w.half) IN
  \/ ~operand.ok /\ InvalidMemory(i, operand.address)
  \/ operand.ok /\ ~Translatable(operand.next, n) /\ InvalidMemory(i, operand.next)
  \/ /\ operand.ok /\ Translatable(operand.next, n)
     /\ \/ ~Usable(operand, w.bytes) /\ InvalidMemory(i, operand.address)
        \/ /\ Usable(operand, w.bytes) /\ Operation(i.next) \notin {0, 5, 7}
           /\ Unsupported(i, i.opcode)
        \/ /\ Usable(operand, w.bytes) /\ Operation(i.next) = 0
           /\ StoreRm(operand, i, i.next, w, sum)
           /\ flags' = SetAddFlags(lhs, rhs, sum, w.half)
           /\ Retires(i, Beyond(operand.next, n)) /\ xmm' = xmm
        \/ /\ Usable(operand, w.bytes) /\ Operation(i.next) \in {5, 7}
           /\ IF Operation(i.next) = 5 THEN StoreRm(operand, i, i.next, w, difference)
                                       ELSE UNCHANGED <<mem, reg>>
           /\ flags' = SetCompareFlags(lhs, rhs, difference, w.half)
           /\ Retires(i, Beyond(operand.next, n)) /\ xmm' = xmm

ExecuteGroup83 ==
  LET i == Instruction IN Dispatches(i, {\h83}) /\ AddSubCmpImmediate(i, 1)

ExecuteGroup81 ==
  LET i == Instruction IN Dispatches(i, {\h81}) /\ AddSubCmpImmediate(i, DwordBytes)

ExecuteCompareRmWithRegister ==
  LET i == Instruction
      operand == TryDecodeRmOperand(i, i.next)
      w == OperandWidth(i)
      lhs == RmValue(operand, i, i.next, w)
      rhs == GetRegister(RegIndex(i, i.next), w) IN
  /\ Dispatches(i, {\h39})
  /\ \/ ~Usable(operand, w.bytes) /\ InvalidMemory(i, operand.address)
     \/ /\ Usable(operand, w.bytes)
        /\ flags' = SetCompareFlags(lhs, rhs, Minus(lhs, rhs, w.half), w.half)
        /\ Retires(i, operand.next) /\ UNCHANGED <<mem, reg, xmm>>

-----------------------------------------------------------------------------
(* SIMD moves and shuffles on 16-byte registers.                             *)

(* A SIMD handler whose prefixes are accepted and whose operand is read as a *)
(* source of n bytes: what it writes into its destination register.          *)
LoadsXmm(i, opcode, accepted, n, value) ==
  LET at == Beyond(i.next, 1)
      operand == TryDecodeModrmOperand(i, at) IN
  \/ ~accepted /\ Unsupported(i, opcode)
  \/ accepted /\ ~Usable(operand, n) /\ InvalidMemory(i, operand.address)
  \/ /\ accepted /\ Usable(operand, n)
     /\ xmm' = [xmm EXCEPT ![RegIndex(i, at)] = value]
     /\ Retires(i, operand.next) /\ UNCHANGED <<mem, reg, flags>>

SimdAt(i) == Beyond(i.next, 1)
SimdOperand(i) == TryDecodeModrmOperand(i, SimdAt(i))
SimdSource(i) == XmmValue(SimdOperand(i), i, SimdAt(i))
SimdDestination(i) == xmm[RegIndex(i, SimdAt(i))]

ExecuteSecondaryMovXmm ==
  LET i == Instruction IN
  /\ DispatchesSecondary(i, {\h10})
  /\ LoadsXmm(i, \h10, NoPrefix(i), XmmBytes, SimdSource(i))

ExecuteSecondaryXorps ==
  LET i == Instruction IN
  /\ DispatchesSecondary(i, {\h57})
  /\ LoadsXmm(i, \h57, NoPrefix(i), XmmBytes,
              [k \in 0 .. XmmBytes - 1 |-> BitXor(SimdDestination(i)[k], SimdSource(i)[k], 8)])

ExecuteSecondaryMovd ==
  LET i == Instruction
      source == RmValue(SimdOperand(i), i, SimdAt(i), Dword) IN
  /\ DispatchesSecondary(i, {\h6E})
  /\ LoadsXmm(i, \h6E, Only66(i), DwordBytes,
              [k \in 0 .. XmmBytes - 1 |-> IF k < DwordBytes THEN (source \div Power(256, k)) % 256 ELSE 0])

ExecuteSecondaryPunpcklbw ==
  LET i == Instruction IN
  /\ DispatchesSecondary(i, {\h60})
  /\ LoadsXmm(i, \h60, Only66(i), XmmBytes,
              [k \in 0 .. XmmBytes - 1 |->
                 IF k % 2 = 0 THEN SimdDestination(i)[k \div 2] ELSE SimdSource(i)[k \div 2]])

(* pshufd moves four lanes of 4 bytes, pshuflw the four low lanes of 2 bytes *)
(* and keeps the high half.  The control byte is read before the source.     *)
Shuffled(source, order, lane) ==
  [k \in 0 .. XmmBytes - 1 |->
     IF k < 4 * lane
     THEN source[((order \div Power(4, k \div lane)) % 4) * lane + (k % lane)]
     ELSE source[k]]

ExecuteSecondaryShuffle ==
  LET i == Instruction
      operand == SimdOperand(i)
      lane == IF Only66(i) THEN 4 ELSE 2 IN
  /\ DispatchesSecondary(i, {\h70})
  /\ \/ ~Only66(i) /\ ~OnlyF2(i) /\ Unsupported(i, \h70)
     \/ /\ Only66(i) \/ OnlyF2(i)
        /\ \/ ~operand.ok /\ InvalidMemory(i, operand.address)
           \/ operand.ok /\ ~Translatable(operand.next, 1) /\ InvalidMemory(i, operand.next)
           \/ /\ operand.ok /\ Translatable(operand.next, 1) /\ ~Usable(operand, XmmBytes)
              /\ InvalidMemory(i, operand.address)
           \/ /\ Translatable(operand.next, 1) /\ Usable(operand, XmmBytes)
              /\ xmm' = [xmm EXCEPT ![RegIndex(i, SimdAt(i))] =
                           Shuffled(SimdSource(i), mem[operand.next], lane)]
              /\ Retires(i, Beyond(operand.next, 1)) /\ UNCHANGED <<mem, reg, flags>>

ExecuteSecondaryStoreXmm ==
  LET i == Instruction
      operand == SimdOperand(i)
      accepted == IF i.secondary = \h7F THEN OnlyF3(i) ELSE NoPrefix(i) IN
  /\ DispatchesSecondary(i, {\h11, \h29, \h7F})
  /\ \/ ~accepted /\ Unsupported(i, i.secondary)
     \/ accepted /\ ~Usable(operand, XmmBytes) /\ InvalidMemory(i, operand.address)
     \/ /\ accepted /\ Usable(operand, XmmBytes)
        /\ IF operand.is_register
           THEN mem' = mem /\ xmm' = [xmm EXCEPT ![RmIndex(i, SimdAt(i))] = SimdDestination(i)]
           ELSE xmm' = xmm /\ mem' = StoredBytes(operand.address, SimdDestination(i))
        /\ Retires(i, operand.next) /\ UNCHANGED <<reg, flags>>

ExecuteSecondaryMovqStore ==
  LET i == Instruction
      operand == SimdOperand(i)
      low == [k \in 0 .. QwordBytes - 1 |-> SimdDestination(i)[k]] IN
  /\ DispatchesSecondary(i, {\hD6})
  /\ \/ ~Only66(i) /\ Unsupported(i, \hD6)
     \/ /\ Only66(i)
        /\ \/ ~Usable(operand, QwordBytes) /\ InvalidMemory(i, operand.address)
           \/ operand.ok /\ operand.is_register /\ Unsupported(i, \hD6)
           \/ /\ Usable(operand, QwordBytes) /\ ~operand.is_register
              /\ mem' = StoredBytes(operand.address, low)
              /\ Retires(i, operand.next) /\ UNCHANGED <<reg, xmm, flags>>

-----------------------------------------------------------------------------
(* System.                                                                   *)
PrimaryOpcodes ==
  {\h08, \h0B, \h0F, \h31, \h39, \h74, \h75, \h80, \h81, \h83, \h85, \h89, \h8B, \h8D, \h90,
   \hA9, \hC3, \hC7, \hE8, \hE9, \hEB, \hF6, \hF7, \hFF} \cup (\h50 .. \h5F) \cup (\hB8 .. \hBF)

SecondaryOpcodes ==
  {\h05, \h10, \h11, \h1F, \h29, \h57, \h60, \h6E, \h70, \h7F, \h84, \h85, \h94, \h95, \hB6, \hD6}

ExecuteUnsupported ==
  LET i == Instruction IN
  /\ \/ Dispatches(i, (0 .. 255) \ PrimaryOpcodes)
     \/ DispatchesSecondary(i, (0 .. 255) \ SecondaryOpcodes)
  /\ Unsupported(i, i.opcode)

(* dispatch_secondary_opcode: REX.W is refused before the second byte is     *)
(* read, for every two-byte opcode.                                          *)
DispatchSecondaryOpcodeFails ==
  LET i == Instruction IN
  /\ Dispatches(i, {\h0F})
  /\ \/ i.w /\ Unsupported(i, i.opcode)
     \/ /\ ~i.w /\ ~Translatable(i.next, 1)
        /\ Returns(SetInvalidMemoryAccess(SetFault(i), i.next, 0)) /\ UNCHANGED machine

(* The callback sees the state with ip behind the instruction and answers    *)
(* with a status and an action; what it does to guest memory is the kernel's.*)
ExecuteSyscall ==
  LET i == Instruction
      retired == [SetFault(i) EXCEPT !.retired = @ + 1] IN
  /\ DispatchesSecondary(i, {\h05})
  /\ \E answer \in SyscallResults :
       /\ reg' = [reg EXCEPT ![RAX] = Truncated(answer.status, Qword)]
       /\ \/ answer.action = "EXIT_THREAD" /\ Returns(SetThreadExited(retired))
          \/ answer.action = "YIELD" /\ Returns(SetYielded(retired))
          \/ answer.action = "CONTINUE" /\ result' = retired /\ UNCHANGED control
  /\ ip' = Beyond(i.next, 1)
  /\ UNCHANGED <<mem, xmm, flags>>

(* A nop whose operand cannot be skipped is an unsupported instruction, also *)
(* when the reason is a read out of the region: fault_address then keeps the *)
(* address of that read, while fault.memory_address is cleared.              *)
ExecuteSecondaryNop ==
  LET i == Instruction
      at == Beyond(i.next, 1)
      operand == TryDecodeRmOperand(i, at)
      refused == Translatable(at, 1) /\ Operation(at) # 0 IN
  /\ DispatchesSecondary(i, {\h1F})
  /\ \/ refused /\ Unsupported(i, \h1F)
     \/ /\ ~refused /\ ~operand.ok
        /\ Returns(SetUnsupportedInstruction(
                     SetInvalidMemoryAccess(SetFault(i), operand.address, \h1F), \h1F))
        /\ UNCHANGED machine
     \/ /\ ~refused /\ operand.ok
        /\ Retires(i, operand.next) /\ UNCHANGED <<mem, reg, xmm, flags>>

-----------------------------------------------------------------------------
Execute ==
  \/ ExecutePushRegister \/ ExecutePopRegister
  \/ ExecuteReturn \/ ExecuteCallRelative \/ ExecuteGroupFF
  \/ ExecuteJumpRelativeNear \/ ExecuteJumpRelativeShort
  \/ ExecuteJumpShortCondition \/ ExecuteJumpNearCondition
  \/ ExecuteMovImmediate32 \/ ExecuteMovImmediateToRm \/ ExecuteMovRegister \/ ExecuteLea
  \/ ExecuteGroup80 \/ ExecuteSecondarySetcc \/ ExecuteSecondaryMovzxByte \/ ExecuteNop
  \/ ExecuteXorRegister \/ ExecuteOrRegisterByte \/ ExecuteOrRmToRegister \/ ExecuteTestRegister
  \/ ExecuteTestAccumulatorImmediate \/ ExecuteGroupF6 \/ ExecuteGroupF7
  \/ ExecuteGroup83 \/ ExecuteGroup81 \/ ExecuteCompareRmWithRegister
  \/ ExecuteSecondaryMovXmm \/ ExecuteSecondaryXorps \/ ExecuteSecondaryMovd
  \/ ExecuteSecondaryPunpcklbw \/ ExecuteSecondaryShuffle \/ ExecuteSecondaryStoreXmm
  \/ ExecuteSecondaryMovqStore
  \/ ExecuteUnsupported \/ DispatchSecondaryOpcodeFails \/ ExecuteSyscall \/ ExecuteSecondaryNop

Next == Run \/ LimitReached \/ DecodeFails \/ Execute

-----------------------------------------------------------------------------
(* Properties.                                                               *)

GuestFaults == {"INVALID_MEMORY_ACCESS", "UNSUPPORTED_INSTRUCTION"}
GuestStops == {"THREAD_EXITED", "YIELDED"} \cup GuestFaults

(* A run that returned tells the same story three times: completion, guest   *)
(* stop reason and backend failure agree.  The handlers set only completion  *)
(* after a failed access and rely on translate_guest_pointer and push_u64    *)
(* for the other two, which start out as a backend failure.                  *)
StopIsClassified ==
  phase = "returned" =>
    \/ /\ result.completion \in GuestStops
       /\ result.guest_stop_reason = result.completion /\ result.backend_failure = "NONE"
    \/ /\ result.completion \in {"INSTRUCTION_LIMIT_REACHED", "INVALID_ARGUMENT", "UNSUPPORTED_ENGINE"}
       /\ result.guest_stop_reason = "NONE" /\ result.backend_failure = result.completion

(* The budget is exact: no run retires more instructions than its budget,    *)
(* the limit is reported only by a run that retired all of them, and a run   *)
(* whose last instruction of the budget ends the thread reports that.        *)
BudgetIsExact ==
  phase # "called" =>
    /\ result.retired <= invocation.budget \/ result.completion \in {"INVALID_ARGUMENT", "UNSUPPORTED_ENGINE"}
    /\ phase = "returned" /\ result.completion = "INSTRUCTION_LIMIT_REACHED"
         => result.retired = invocation.budget
    /\ phase = "returned" /\ result.completion \in GuestFaults
         => result.retired < invocation.budget

(* Guest faults are precise: a step that ends in one leaves memory, flags,   *)
(* instruction pointer and registers as they were, so that the thread could  *)
(* be resumed or examined at the faulting instruction.  The one exception is *)
(* a push whose stack slot lies beyond the region: rsp is already lowered.   *)
FaultsArePrecise ==
  [][result'.completion \in GuestFaults /\ phase = "running"
       => /\ UNCHANGED <<mem, xmm, flags, ip>>
          /\ result'.retired = result.retired
          /\ \/ reg' = reg
             \/ /\ reg' = [reg EXCEPT ![RSP] = reg[RSP] - QwordBytes]
                /\ reg[RSP] > RegionEnd]_vars

(* A reported memory address is one where an access can really fail: it is   *)
(* outside the region, or so close to one of its ends that a stack slot      *)
(* below it or a 16-byte access above it leaves the region.                  *)
FaultAddressAtTheEdge ==
  phase = "returned" /\ result.completion = "INVALID_MEMORY_ACCESS" =>
    /\ result.fault.memory_address = result.fault_address
    /\ \/ result.fault.memory_address < Base + QwordBytes
       \/ result.fault.memory_address > RegionEnd - XmmBytes

(* A fault names the instruction that caused it, counted from its first      *)
(* prefix: fault.instruction_pointer is where the guest stopped.  A fetch    *)
(* that fails is the exception: nothing was dispatched, and the field still  *)
(* names the instruction before it.                                          *)
FaultNamesItsInstruction ==
  phase = "returned" /\ result.completion \in GuestFaults /\ Translatable(OpcodeAddress, 1)
    => result.fault.instruction_pointer = ip

(* The address of the k-th instruction of the program as it was laid out,    *)
(* whether ip is there, and whether its bytes are still the laid out ones.   *)
Boundary(k) ==
  LET before[j \in 1 .. Len(code.instructions) + 1] ==
        IF j = 1 THEN code.origin ELSE before[j - 1] + Len(code.instructions[j - 1])
  IN  before[k]

Executing(k) ==
  LET bytes == code.instructions[k] IN
  /\ ip = Boundary(k)
  /\ \A j \in 1 .. Len(bytes) : ip + j - 1 \in Region /\ mem[ip + j - 1] = bytes[j]

IsCall == LET i == Instruction IN i.opcode = \hE8 \/ (i.opcode = \hFF /\ Operation(i.next) = 2)

IsJump ==
  LET i == Instruction IN
  \/ i.opcode \in {\hC3, \hE9, \hEB, \h74, \h75}
  \/ i.opcode = \h0F /\ i.secondary \in {\h84, \h85}

(* Execution keeps to the instructions the assembler laid out: an            *)
(* instruction that does not transfer control continues exactly at the next  *)
(* one, whatever prefixes, ModRM, SIB, displacement and immediate it has,    *)
(* and a call leaves the address of the next one on the stack.               *)
KeepsToTheProgram ==
  [][\A k \in 1 .. Len(code.instructions) :
       phase = "running" /\ Executing(k) /\ result'.retired = result.retired + 1 =>
         IF IsCall THEN Load(reg[RSP], QwordBytes)' = Boundary(k + 1)
         ELSE IsJump \/ ip' = Boundary(k + 1)]_vars

(* What the kernel logs of a fault leads to its cause.                       *)
FaultIsLocated == FaultAddressAtTheEdge /\ FaultNamesItsInstruction
=============================================================================
