--------------------------- MODULE X64HostProofs ---------------------------
(* Proofs about the x64 emulator and its host for every guest: any memory,   *)
(* any registers, any budget, any widths.                                    *)
EXTENDS X64Host, SequenceTheorems, WellFoundedInduction, TLAPS

-----------------------------------------------------------------------------
(* What the status flags mean.                                               *)

(* set_compare_flags after a subtraction: carry, zero and sign # overflow    *)
(* are the unsigned order, equality and the signed order of the operands.    *)
THEOREM CompareFlagsMean ==
  ASSUME NEW half \in Nat, half > 0, NEW l \in Word(half), NEW r \in Word(half)
  PROVE  LET f == SetCompareFlags(l, r, Minus(l, r, half), half)
         IN  /\ f.carry <=> l < r
             /\ f.zero <=> l = r
             /\ (f.sign # f.overflow) <=> Signed(l, half) < Signed(r, half)
<1> DEFINE d == Minus(l, r, half)
           f == SetCompareFlags(l, r, d, half)
<1>1. /\ f.carry = (l < r) /\ f.zero = (d = 0) /\ f.sign = HasSign(d, half)
      /\ f.overflow = (/\ HasSign(l, half) # HasSign(r, half) /\ HasSign(l, half) # HasSign(d, half))
  <2> HIDE DEF d
  <2>1. QED
    BY DEF SetCompareFlags
<1>2. d = 0 <=> l = r
  BY DEF Word, Minus
<1>3. /\ HasSign(d, half) /\ ~(HasSign(l, half) # HasSign(r, half) /\ HasSign(l, half) # HasSign(d, half))
        => Signed(l, half) < Signed(r, half)
      /\ ~HasSign(d, half) /\ HasSign(l, half) # HasSign(r, half) /\ HasSign(l, half) # HasSign(d, half)
        => Signed(l, half) < Signed(r, half)
      /\ HasSign(d, half) /\ HasSign(l, half) # HasSign(r, half) /\ HasSign(l, half) # HasSign(d, half)
        => ~(Signed(l, half) < Signed(r, half))
      /\ ~HasSign(d, half) /\ ~(HasSign(l, half) # HasSign(r, half) /\ HasSign(l, half) # HasSign(d, half))
        => ~(Signed(l, half) < Signed(r, half))
  BY DEF Word, Minus, HasSign, Signed
<1>4. f.sign \in BOOLEAN /\ f.overflow \in BOOLEAN
  BY <1>1 DEF HasSign
<1> HIDE DEF f, d
<1>5. (f.sign # f.overflow) <=> Signed(l, half) < Signed(r, half)
  BY <1>1, <1>3, <1>4
<1>6. QED
  BY <1>1, <1>2, <1>5 DEF f, d

(* set_add_flags: carry is the carry out of the word, though the code only   *)
(* compares the wrapped sum with one operand; overflow is that of the signed *)
(* sum.                                                                      *)
THEOREM AddFlagsMean ==
  ASSUME NEW half \in Nat, half > 0, NEW l \in Word(half), NEW r \in Word(half)
  PROVE  LET f == SetAddFlags(l, r, Plus(l, r, half), half)
             sum == Signed(l, half) + Signed(r, half)
         IN  /\ f.carry <=> l + r >= 2 * half
             /\ f.zero <=> Signed(Plus(l, r, half), half) = 0
             /\ f.overflow <=> ~(-half <= sum /\ sum < half)
<1> DEFINE p == Plus(l, r, half)
           f == SetAddFlags(l, r, p, half)
           sum == Signed(l, half) + Signed(r, half)
<1>1. /\ f.carry = (p < l) /\ f.zero = (p = 0)
      /\ f.overflow = (/\ HasSign(l, half) = HasSign(r, half) /\ HasSign(l, half) # HasSign(p, half))
  <2> HIDE DEF p
  <2>1. QED
    BY DEF SetAddFlags
<1>2. p < l <=> l + r >= 2 * half
  BY DEF Word, Plus
<1>3. p = 0 <=> Signed(p, half) = 0
  BY DEF Word, Plus, Signed
<1>4. HasSign(l, half) = HasSign(r, half) /\ HasSign(l, half) # HasSign(p, half)
        <=> ~(-half <= sum /\ sum < half)
  BY DEF Word, Plus, HasSign, Signed
<1>5. QED
  BY <1>1, <1>2, <1>3, <1>4

-----------------------------------------------------------------------------
(* How the step of an instruction ends.                                      *)

(* The result record has the fields of x64_emulator_result.                  *)
IsResult(r) ==
  r = [completion |-> r.completion, guest_stop_reason |-> r.guest_stop_reason,
       backend_failure |-> r.backend_failure, retired |-> r.retired,
       fault_address |-> r.fault_address, fault_opcode |-> r.fault_opcode,
       fault |-> [instruction_pointer |-> r.fault.instruction_pointer,
                  memory_address |-> r.fault.memory_address, opcode |-> r.fault.opcode]]

(* A fault keeps the count, a retired instruction raises it by one and       *)
(* leaves the classification alone, and a callback that stops the guest      *)
(* counts its syscall.                                                       *)
Faults(r, s) ==
  /\ IsResult(s) /\ s.retired = r.retired
  /\ s.completion \in GuestFaults /\ s.guest_stop_reason = s.completion /\ s.backend_failure = "NONE"

Goes(r, s) ==
  /\ IsResult(s) /\ s.retired = r.retired + 1
  /\ s.completion = r.completion /\ s.guest_stop_reason = r.guest_stop_reason
  /\ s.backend_failure = r.backend_failure

StopsByCallback(r, s) ==
  /\ IsResult(s) /\ s.retired = r.retired + 1
  /\ s.completion \in {"THREAD_EXITED", "YIELDED"}
  /\ s.guest_stop_reason = s.completion /\ s.backend_failure = "NONE"

(* An instruction faults, retires, or is a syscall that ends the run.        *)
Outcome ==
  /\ WithinBudget
  /\ \/ phase' = "returned" /\ Faults(result, result')
     \/ phase' = phase /\ Goes(result, result')
     \/ phase' = "returned" /\ StopsByCallback(result, result')
  /\ UNCHANGED <<invocation, code>>

(* Every way a handler can end, by name.                                     *)
HandlerEnds ==
  /\ WithinBudget
  /\ \/ \E i, opcode : Unsupported(i, opcode)
     \/ \E i, a : InvalidMemory(i, a)
     \/ \E i, a : FaultedAt(i, a)
     \/ \E i, next : Retires(i, next)

(* set_fault writes the place of the instruction and nothing of the          *)
(* classification.                                                           *)
LEMMA SetFaultIsResult ==
  ASSUME IsResult(result), NEW i
  PROVE  /\ IsResult(SetFault(i)) /\ SetFault(i).retired = result.retired
         /\ SetFault(i).completion = result.completion
         /\ SetFault(i).guest_stop_reason = result.guest_stop_reason
         /\ SetFault(i).backend_failure = result.backend_failure
         /\ SetFault(i).fault.instruction_pointer = i.address
<1> DEFINE o == IF i.opcode = \h0F THEN i.secondary ELSE i.opcode
<1>1. SetFault(i) = [completion |-> result.completion, guest_stop_reason |-> result.guest_stop_reason,
                     backend_failure |-> result.backend_failure, retired |-> result.retired,
                     fault_address |-> i.address, fault_opcode |-> o,
                     fault |-> [instruction_pointer |-> i.address, memory_address |-> 0, opcode |-> o]]
  <2> HIDE DEF o
  <2>1. SetFault(i) = [result EXCEPT !.fault = [instruction_pointer |-> i.address, memory_address |-> 0, opcode |-> o],
                                     !.fault_address = i.address, !.fault_opcode = o]
    BY DEF SetFault, o
  <2>2. QED
    BY <2>1 DEF IsResult
<1> HIDE DEF o
<1>2. QED
  BY <1>1 DEF IsResult

(* A record written out field by field is a result.                          *)
LEMMA LiteralIsResult ==
  ASSUME NEW c, NEW g, NEW b, NEW n, NEW a, NEW o, NEW x, NEW y, NEW z,
         NEW s, s = [completion |-> c, guest_stop_reason |-> g, backend_failure |-> b, retired |-> n,
                     fault_address |-> a, fault_opcode |-> o,
                     fault |-> [instruction_pointer |-> x, memory_address |-> y, opcode |-> z]]
  PROVE  /\ IsResult(s) /\ s.retired = n
         /\ s.completion = c /\ s.guest_stop_reason = g /\ s.backend_failure = b
BY DEF IsResult

(* The three fields that classify a stop are written together.               *)
Reclassify(r, c, g, b) == [r EXCEPT !.completion = c, !.guest_stop_reason = g, !.backend_failure = b]

(* Writing the three fields together changes nothing else.                   *)
LEMMA Reclassified ==
  ASSUME NEW r, IsResult(r), NEW c, NEW g, NEW b, NEW s, s = Reclassify(r, c, g, b)
  PROVE  /\ IsResult(s) /\ s.retired = r.retired
         /\ s.completion = c /\ s.guest_stop_reason = g /\ s.backend_failure = b
<1> DEFINE c0 == r.completion
           g0 == r.guest_stop_reason
           b0 == r.backend_failure
           n == r.retired
           a == r.fault_address
           o == r.fault_opcode
           x == r.fault.instruction_pointer
           y == r.fault.memory_address
           z == r.fault.opcode
           f == [instruction_pointer |-> x, memory_address |-> y, opcode |-> z]
<1>1. r = [completion |-> c0, guest_stop_reason |-> g0, backend_failure |-> b0, retired |-> n,
           fault_address |-> a, fault_opcode |-> o, fault |-> f]
  BY DEF IsResult
<1>2. n = r.retired
  OBVIOUS
<1> HIDE DEF c0, g0, b0, n, a, o, f
<1>3. s = [k \in {"completion", "guest_stop_reason", "backend_failure", "retired", "fault_address", "fault_opcode", "fault"} |->
             IF k = "completion" THEN c ELSE IF k = "guest_stop_reason" THEN g
             ELSE IF k = "backend_failure" THEN b ELSE r[k]]
  BY <1>1 DEF Reclassify
<1>4. s = [completion |-> c, guest_stop_reason |-> g, backend_failure |-> b, retired |-> n,
           fault_address |-> a, fault_opcode |-> o, fault |-> f]
  BY <1>1, <1>3
<1>5. s = [completion |-> c, guest_stop_reason |-> g, backend_failure |-> b, retired |-> n,
           fault_address |-> a, fault_opcode |-> o,
           fault |-> [instruction_pointer |-> x, memory_address |-> y, opcode |-> z]]
  BY <1>4 DEF f
<1> HIDE DEF x, y, z
<1>6. QED
  BY <1>2, <1>5, LiteralIsResult

(* Both kinds of guest fault are classified in all three fields and keep the *)
(* count; an invalid access names its address twice, and the instruction     *)
(* pointer of the dispatch stays.                                            *)
LEMMA FaultIsClassified ==
  ASSUME NEW r, IsResult(r), NEW a, NEW opcode
  PROVE  /\ Faults(r, SetInvalidMemoryAccess(r, a, opcode))
         /\ SetInvalidMemoryAccess(r, a, opcode).fault_address = a
         /\ SetInvalidMemoryAccess(r, a, opcode).fault.memory_address = a
         /\ SetInvalidMemoryAccess(r, a, opcode).fault.instruction_pointer = r.fault.instruction_pointer
         /\ Faults(r, SetUnsupportedInstruction(r, opcode))
         /\ SetUnsupportedInstruction(r, opcode).completion = "UNSUPPORTED_INSTRUCTION"
         /\ SetUnsupportedInstruction(r, opcode).fault.instruction_pointer = r.fault.instruction_pointer
<1>0. r.fault = [instruction_pointer |-> r.fault.instruction_pointer,
                 memory_address |-> r.fault.memory_address, opcode |-> r.fault.opcode]
  BY DEF IsResult
<1>1. SetInvalidMemoryAccess(r, a, opcode) =
        [completion |-> "INVALID_MEMORY_ACCESS", guest_stop_reason |-> "INVALID_MEMORY_ACCESS",
         backend_failure |-> "NONE", retired |-> r.retired, fault_address |-> a, fault_opcode |-> opcode,
         fault |-> [instruction_pointer |-> r.fault.instruction_pointer, memory_address |-> a, opcode |-> opcode]]
  <2>1. [r.fault EXCEPT !.memory_address = a, !.opcode = opcode] =
          [instruction_pointer |-> r.fault.instruction_pointer, memory_address |-> a, opcode |-> opcode]
    <3> DEFINE f == r.fault
               x == r.fault.instruction_pointer
               y == r.fault.memory_address
               z == r.fault.opcode
    <3>1. f = [instruction_pointer |-> x, memory_address |-> y, opcode |-> z]
      BY <1>0
    <3> HIDE DEF f, x, y, z
    <3>2. [f EXCEPT !.memory_address = a, !.opcode = opcode] =
            [k \in {"instruction_pointer", "memory_address", "opcode"} |->
               IF k = "opcode" THEN opcode ELSE IF k = "memory_address" THEN a ELSE f[k]]
      BY <3>1
    <3>3. [f EXCEPT !.memory_address = a, !.opcode = opcode] =
            [instruction_pointer |-> x, memory_address |-> a, opcode |-> opcode]
      BY <3>1, <3>2
    <3>4. QED
      BY <3>3 DEF f, x
  <2>2. SetInvalidMemoryAccess(r, a, opcode) =
          [r EXCEPT !.completion = "INVALID_MEMORY_ACCESS", !.guest_stop_reason = "INVALID_MEMORY_ACCESS",
                    !.backend_failure = "NONE", !.fault = [r.fault EXCEPT !.memory_address = a, !.opcode = opcode],
                    !.fault_address = a, !.fault_opcode = opcode]
    BY <1>0 DEF IsResult, SetInvalidMemoryAccess
  <2>3. QED
    BY <2>1, <2>2 DEF IsResult
<1>2. SetUnsupportedInstruction(r, opcode) =
        [completion |-> "UNSUPPORTED_INSTRUCTION", guest_stop_reason |-> "UNSUPPORTED_INSTRUCTION",
         backend_failure |-> "NONE", retired |-> r.retired, fault_address |-> r.fault_address,
         fault_opcode |-> opcode,
         fault |-> [instruction_pointer |-> r.fault.instruction_pointer, memory_address |-> 0, opcode |-> opcode]]
  <2>1. [r.fault EXCEPT !.memory_address = 0, !.opcode = opcode] =
          [instruction_pointer |-> r.fault.instruction_pointer, memory_address |-> 0, opcode |-> opcode]
    <3> DEFINE f == r.fault
               x == r.fault.instruction_pointer
               y == r.fault.memory_address
               z == r.fault.opcode
    <3>1. f = [instruction_pointer |-> x, memory_address |-> y, opcode |-> z]
      BY <1>0
    <3> HIDE DEF f, x, y, z
    <3>2. [f EXCEPT !.memory_address = 0, !.opcode = opcode] =
            [k \in {"instruction_pointer", "memory_address", "opcode"} |->
               IF k = "opcode" THEN opcode ELSE IF k = "memory_address" THEN 0 ELSE f[k]]
      BY <3>1
    <3>3. [f EXCEPT !.memory_address = 0, !.opcode = opcode] =
            [instruction_pointer |-> x, memory_address |-> 0, opcode |-> opcode]
      BY <3>1, <3>2
    <3>4. QED
      BY <3>3 DEF f, x
  <2>2. SetUnsupportedInstruction(r, opcode) =
          [r EXCEPT !.completion = "UNSUPPORTED_INSTRUCTION", !.guest_stop_reason = "UNSUPPORTED_INSTRUCTION",
                    !.backend_failure = "NONE", !.fault = [r.fault EXCEPT !.memory_address = 0, !.opcode = opcode],
                    !.fault_opcode = opcode]
    BY <1>0 DEF IsResult, SetUnsupportedInstruction
  <2>3. QED
    BY <2>1, <2>2 DEF IsResult
<1>3. QED
  BY <1>1, <1>2 DEF Faults, IsResult, GuestFaults

(* The named ends have the outcome they should.                              *)
LEMMA EndsHaveOutcome == IsResult(result) /\ HandlerEnds => Outcome
<1> SUFFICES ASSUME IsResult(result), HandlerEnds PROVE Outcome
  OBVIOUS
<1>0. WithinBudget
  BY DEF HandlerEnds
<1>1. ASSUME NEW i, NEW opcode, Unsupported(i, opcode) PROVE Outcome
  <2>1. phase' = "returned" /\ UNCHANGED <<invocation, code>>
        /\ result' = SetUnsupportedInstruction(SetFault(i), opcode)
    BY <1>1 DEF Unsupported, Returns
  <2>2. Faults(SetFault(i), result')
    BY <2>1, SetFaultIsResult, FaultIsClassified
  <2>3. QED
    BY <1>0, <2>1, <2>2, SetFaultIsResult DEF Outcome, Faults
<1>2. ASSUME NEW i, NEW a, FaultedAt(i, a) PROVE Outcome
  <2>1. phase' = "returned" /\ UNCHANGED <<invocation, code>>
        /\ result' = SetInvalidMemoryAccess(SetFault(i), a, SetFault(i).fault.opcode)
    BY <1>2 DEF FaultedAt, Returns
  <2>2. Faults(SetFault(i), result')
    BY <2>1, SetFaultIsResult, FaultIsClassified
  <2>3. QED
    BY <1>0, <2>1, <2>2, SetFaultIsResult DEF Outcome, Faults
<1>3. ASSUME NEW i, NEW next, Retires(i, next) PROVE Outcome
  <2>1. phase' = phase /\ UNCHANGED <<invocation, code>>
        /\ result' = [SetFault(i) EXCEPT !.retired = @ + 1]
    BY <1>3 DEF Retires, control
  <2>2. Goes(SetFault(i), result')
    <3> DEFINE r == SetFault(i)
    <3>1. IsResult(r)
      BY SetFaultIsResult
    <3> HIDE DEF r
    <3>2. result' = [r EXCEPT !.retired = @ + 1]
      BY <2>1 DEF r
    <3>3. Goes(r, result')
      BY <3>1, <3>2 DEF IsResult, Goes
    <3>4. QED
      BY <3>3 DEF r
  <2>3. QED
    BY <1>0, <2>1, <2>2, SetFaultIsResult DEF Outcome, Goes
<1>4. QED
  BY <1>1, <1>2, <1>3 DEF HandlerEnds, InvalidMemory

(* The handlers end in no other way, except the three that build their       *)
(* result themselves.                                                        *)
LEMMA HandlersEnd ==
  Execute => HandlerEnds \/ DispatchSecondaryOpcodeFails \/ ExecuteSyscall \/ ExecuteSecondaryNop
<1> SUFFICES ASSUME Execute
             PROVE  HandlerEnds \/ DispatchSecondaryOpcodeFails \/ ExecuteSyscall \/ ExecuteSecondaryNop
  OBVIOUS
<1> USE DEF Dispatches, DispatchesSecondary, HandlerEnds
<1>1. CASE ExecutePushRegister
  BY <1>1 DEF ExecutePushRegister, PushFails, Pushes
<1>2. CASE ExecutePopRegister
  BY <1>2 DEF ExecutePopRegister
<1>3. CASE ExecuteReturn
  BY <1>3 DEF ExecuteReturn
<1>4. CASE ExecuteCallRelative
  BY <1>4 DEF ExecuteCallRelative, PushFails, Pushes
<1>5. CASE ExecuteGroupFF
  BY <1>5 DEF ExecuteGroupFF, IncDec, CallIndirect, PushFails, Pushes
<1>6. CASE ExecuteJumpRelativeNear
  BY <1>6 DEF ExecuteJumpRelativeNear, JumpsRelative
<1>7. CASE ExecuteJumpRelativeShort
  BY <1>7 DEF ExecuteJumpRelativeShort, JumpsRelative
<1>8. CASE ExecuteJumpShortCondition
  BY <1>8 DEF ExecuteJumpShortCondition, JumpsRelative
<1>9. CASE ExecuteJumpNearCondition
  BY <1>9 DEF ExecuteJumpNearCondition, JumpsRelative
<1>10. CASE ExecuteMovImmediate32
  BY <1>10 DEF ExecuteMovImmediate32
<1>11. CASE ExecuteMovImmediateToRm
  BY <1>11 DEF ExecuteMovImmediateToRm
<1>12. CASE ExecuteMovRegister
  BY <1>12 DEF ExecuteMovRegister
<1>13. CASE ExecuteLea
  BY <1>13 DEF ExecuteLea
<1>14. CASE ExecuteGroup80
  BY <1>14 DEF ExecuteGroup80
<1>15. CASE ExecuteSecondarySetcc
  BY <1>15 DEF ExecuteSecondarySetcc
<1>16. CASE ExecuteSecondaryMovzxByte
  BY <1>16 DEF ExecuteSecondaryMovzxByte
<1>17. CASE ExecuteNop
  BY <1>17 DEF ExecuteNop
<1>18. CASE ExecuteXorRegister
  BY <1>18 DEF ExecuteXorRegister, RegisterForm
<1>19. CASE ExecuteOrRegisterByte
  BY <1>19 DEF ExecuteOrRegisterByte, RegisterForm
<1>20. CASE ExecuteOrRmToRegister
  BY <1>20 DEF ExecuteOrRmToRegister
<1>21. CASE ExecuteTestRegister
  BY <1>21 DEF ExecuteTestRegister, RegisterForm
<1>22. CASE ExecuteTestAccumulatorImmediate
  BY <1>22 DEF ExecuteTestAccumulatorImmediate
<1>23. CASE ExecuteGroupF6
  BY <1>23 DEF ExecuteGroupF6
<1>24. CASE ExecuteGroupF7
  BY <1>24 DEF ExecuteGroupF7
<1>25. CASE ExecuteGroup83
  BY <1>25 DEF ExecuteGroup83, AddSubCmpImmediate
<1>26. CASE ExecuteGroup81
  BY <1>26 DEF ExecuteGroup81, AddSubCmpImmediate
<1>27. CASE ExecuteCompareRmWithRegister
  BY <1>27 DEF ExecuteCompareRmWithRegister
<1>28. CASE ExecuteSecondaryMovXmm
  BY <1>28 DEF ExecuteSecondaryMovXmm, LoadsXmm
<1>29. CASE ExecuteSecondaryXorps
  BY <1>29 DEF ExecuteSecondaryXorps, LoadsXmm
<1>30. CASE ExecuteSecondaryMovd
  BY <1>30 DEF ExecuteSecondaryMovd, LoadsXmm
<1>31. CASE ExecuteSecondaryPunpcklbw
  BY <1>31 DEF ExecuteSecondaryPunpcklbw, LoadsXmm
<1>32. CASE ExecuteSecondaryShuffle
  BY <1>32 DEF ExecuteSecondaryShuffle
<1>33. CASE ExecuteSecondaryStoreXmm
  BY <1>33 DEF ExecuteSecondaryStoreXmm
<1>34. CASE ExecuteSecondaryMovqStore
  BY <1>34 DEF ExecuteSecondaryMovqStore
<1>35. CASE ExecuteUnsupported
  BY <1>35 DEF ExecuteUnsupported
<1>36. QED
  BY <1>1, <1>2, <1>3, <1>4, <1>5, <1>6, <1>7, <1>8, <1>9, <1>10, <1>11, <1>12, <1>13, <1>14, <1>15, <1>16, <1>17, <1>18, <1>19, <1>20, <1>21, <1>22, <1>23, <1>24, <1>25, <1>26, <1>27, <1>28, <1>29, <1>30, <1>31, <1>32, <1>33, <1>34, <1>35 DEF Execute

(* A syscall retires and goes on, or ends the run.                           *)
LEMMA SyscallStops ==
  ASSUME IsResult(result), ExecuteSyscall
  PROVE  /\ \/ phase' = phase /\ Goes(result, result')
            \/ phase' = "returned" /\ StopsByCallback(result, result')
         /\ UNCHANGED <<invocation, code>>
<1> DEFINE r == SetFault(Instruction)
           retired == [r EXCEPT !.retired = @ + 1]
<1>1. /\ IsResult(r) /\ r.retired = result.retired /\ r.completion = result.completion
      /\ r.guest_stop_reason = result.guest_stop_reason /\ r.backend_failure = result.backend_failure
  BY SetFaultIsResult
<1>2. \/ Returns(SetThreadExited(retired)) \/ Returns(SetYielded(retired))
      \/ result' = retired /\ UNCHANGED control
  BY DEF ExecuteSyscall
<1> HIDE DEF r
<1>3. Goes(r, retired)
  BY <1>1 DEF IsResult, Goes
<1> HIDE DEF retired
<1>4. StopsByCallback(r, SetThreadExited(retired)) /\ StopsByCallback(r, SetYielded(retired))
  <2>1. IsResult(retired) /\ retired.retired = r.retired + 1
    BY <1>3 DEF Goes
  <2>2. /\ SetThreadExited(retired) = Reclassify(retired, "THREAD_EXITED", "THREAD_EXITED", "NONE")
        /\ SetYielded(retired) = Reclassify(retired, "YIELDED", "YIELDED", "NONE")
    BY Zenon DEF SetThreadExited, SetYielded, Reclassify
  <2>3. QED
    BY <2>1, <2>2, Reclassified DEF StopsByCallback
<1>5. QED
  BY <1>1, <1>2, <1>3, <1>4 DEF Goes, StopsByCallback, Returns, control

(* The syscall, the long nop and the dispatch of two-byte opcodes.           *)
LEMMA OthersHaveOutcome ==
  ASSUME IsResult(result), DispatchSecondaryOpcodeFails \/ ExecuteSyscall \/ ExecuteSecondaryNop
  PROVE  Outcome
<1> DEFINE i == Instruction
<1>0. WithinBudget
  BY DEF DispatchSecondaryOpcodeFails, ExecuteSyscall, ExecuteSecondaryNop, Dispatches, DispatchesSecondary
<1> DEFINE r == SetFault(i)
<1>1. /\ IsResult(r) /\ r.retired = result.retired /\ r.completion = result.completion
      /\ r.guest_stop_reason = result.guest_stop_reason /\ r.backend_failure = result.backend_failure
  BY SetFaultIsResult
<1>2. CASE DispatchSecondaryOpcodeFails
  <2>1. \/ Unsupported(i, i.opcode)
        \/ Returns(SetInvalidMemoryAccess(r, i.next, 0))
    BY <1>2 DEF DispatchSecondaryOpcodeFails
  <2>2. CASE Unsupported(i, i.opcode)
    BY <1>0, <2>2, EndsHaveOutcome DEF HandlerEnds
  <2>3. CASE Returns(SetInvalidMemoryAccess(r, i.next, 0))
    <3> HIDE DEF r, i
    <3>1. Faults(r, SetInvalidMemoryAccess(r, i.next, 0))
      BY <1>1, FaultIsClassified
    <3>2. QED
      BY <1>0, <1>1, <2>3, <3>1 DEF Returns, Outcome, Faults
  <2>4. QED
    BY <2>1, <2>2, <2>3
<1>3. CASE ExecuteSecondaryNop
  <2> DEFINE operand == TryDecodeRmOperand(i, Beyond(i.next, 1))
  <2>1. \/ Unsupported(i, \h1F)
        \/ Returns(SetUnsupportedInstruction(SetInvalidMemoryAccess(r, operand.address, \h1F), \h1F))
        \/ Retires(i, operand.next)
    BY <1>3 DEF ExecuteSecondaryNop
  <2>2. CASE Unsupported(i, \h1F) \/ Retires(i, operand.next)
    BY <1>0, <2>2, EndsHaveOutcome DEF HandlerEnds
  <2>3. CASE Returns(SetUnsupportedInstruction(SetInvalidMemoryAccess(r, operand.address, \h1F), \h1F))
    <3> DEFINE a == operand.address
               u == SetInvalidMemoryAccess(r, a, \h1F)
    <3> HIDE DEF r, i, a
    <3>1. Faults(r, u)
      BY <1>1, FaultIsClassified
    <3> HIDE DEF u
    <3>2. Faults(u, SetUnsupportedInstruction(u, \h1F))
      BY <3>1, FaultIsClassified DEF Faults
    <3>3. Returns(SetUnsupportedInstruction(u, \h1F))
      BY <2>3 DEF u, a
    <3>4. QED
      BY <1>0, <1>1, <3>1, <3>2, <3>3 DEF Returns, Outcome, Faults
  <2>4. QED
    BY <2>1, <2>2, <2>3
<1>4. CASE ExecuteSyscall
  BY <1>0, <1>4, SyscallStops DEF Outcome
<1>5. QED
  BY <1>2, <1>3, <1>4

(* Every handler of the interpreter ends in one of the three outcomes.       *)
LEMMA ExecuteHasOutcome == IsResult(result) /\ Execute => Outcome
BY HandlersEnd, EndsHaveOutcome, OthersHaveOutcome

-----------------------------------------------------------------------------
(* The interpreter.                                                          *)

(* While the loop runs the result still says what it was initialized to, and *)
(* the count has not passed the budget.                                      *)
RunningResult ==
  phase = "running" =>
    /\ result.completion = "INSTRUCTION_LIMIT_REACHED" /\ result.guest_stop_reason = "NONE"
    /\ result.backend_failure = "INSTRUCTION_LIMIT_REACHED"
    /\ result.retired <= invocation.budget

(* The inductive invariant of the interpreter.                               *)
InterpreterInv ==
  /\ IsResult(result) /\ result.retired \in Nat /\ invocation.budget \in Nat
  /\ phase \in {"called", "running", "returned"}
  /\ RunningResult /\ StopIsClassified /\ BudgetIsExact

(* What a call starts from: a backend failure, until something else is       *)
(* known.                                                                    *)
LEMMA FreshResult ==
  /\ IsResult(InitializedResult) /\ InitializedResult.retired = 0
  /\ InitializedResult.completion = "INSTRUCTION_LIMIT_REACHED"
  /\ InitializedResult.guest_stop_reason = "NONE"
  /\ InitializedResult.backend_failure = "INSTRUCTION_LIMIT_REACHED"
BY DEF InitializedResult, IsResult

(* set_backend_failure is no guest stop.                                     *)
LEMMA BackendFailure ==
  ASSUME NEW r, IsResult(r), NEW failure
  PROVE  LET s == SetBackendFailure(r, failure)
         IN  /\ IsResult(s) /\ s.retired = r.retired
             /\ s.completion = failure /\ s.guest_stop_reason = "NONE" /\ s.backend_failure = failure
<1>1. SetBackendFailure(r, failure) = Reclassify(r, failure, "NONE", failure)
  BY Zenon DEF SetBackendFailure, Reclassify
<1>2. QED
  BY <1>1, Reclassified

(* It holds when run_x64_emulator is called.                                 *)
LEMMA InterpreterInitial == Init => InterpreterInv
<1> SUFFICES ASSUME Init PROVE InterpreterInv
  OBVIOUS
<1>1. result = InitializedResult /\ phase = "called" /\ invocation.budget \in Nat
  BY BudgetAssumption DEF Init
<1>2. QED
  BY <1>1, FreshResult DEF InterpreterInv, RunningResult, StopIsClassified, BudgetIsExact

(* Entering the loop, leaving it, and every instruction in between.          *)
LEMMA InterpreterStep == InterpreterInv /\ [Next]_vars => InterpreterInv'
<1> SUFFICES ASSUME InterpreterInv, [Next]_vars PROVE InterpreterInv'
  OBVIOUS
<1>0. /\ IsResult(result) /\ result.retired \in Nat /\ invocation.budget \in Nat
      /\ RunningResult
  BY DEF InterpreterInv
<1>1. CASE Run
  <2>1. UNCHANGED invocation
    BY <1>1 DEF Run, Returns
  <2>2. ASSUME NEW failure, failure \in {"INVALID_ARGUMENT", "UNSUPPORTED_ENGINE"},
               Returns(SetBackendFailure(InitializedResult, failure))
        PROVE  InterpreterInv'
    <3>1. phase' = "returned" /\ IsResult(result)' /\ result'.retired = 0
          /\ result'.completion = failure /\ result'.guest_stop_reason = "NONE"
          /\ result'.backend_failure = failure
      BY <2>2, FreshResult, BackendFailure DEF Returns
    <3>2. QED
      BY <1>0, <2>1, <2>2, <3>1 DEF InterpreterInv, RunningResult, StopIsClassified, BudgetIsExact, GuestStops, GuestFaults
  <2>3. CASE phase' = "running" /\ result' = InitializedResult
    BY <1>0, <2>1, <2>3, FreshResult DEF InterpreterInv, RunningResult, StopIsClassified, BudgetIsExact
  <2>4. QED
    BY <1>1, <2>2, <2>3 DEF Run
<1>2. CASE LimitReached
  <2>1. phase = "running" /\ result.retired >= invocation.budget /\ UNCHANGED invocation
        /\ phase' = "returned" /\ result' = SetBackendFailure(result, "INSTRUCTION_LIMIT_REACHED")
    BY <1>2 DEF LimitReached, Returns
  <2>2. /\ IsResult(result)' /\ result'.retired = result.retired
        /\ result'.completion = "INSTRUCTION_LIMIT_REACHED" /\ result'.guest_stop_reason = "NONE"
        /\ result'.backend_failure = "INSTRUCTION_LIMIT_REACHED"
    BY <1>0, <2>1, BackendFailure
  <2>3. QED
    BY <1>0, <2>1, <2>2 DEF InterpreterInv, RunningResult, StopIsClassified, BudgetIsExact, GuestStops, GuestFaults
<1>3. CASE DecodeFails \/ Execute
  <2>1. Outcome
    <3>1. CASE DecodeFails
      <4>1. Faults(result, SetInvalidMemoryAccess(result, OpcodeAddress, 0))
        BY <1>0, FaultIsClassified
      <4>2. QED
        BY <3>1, <4>1 DEF DecodeFails, Returns, Outcome
    <3>2. QED
      BY <1>0, <1>3, <3>1, ExecuteHasOutcome
  <2>2. phase = "running" /\ result.retired < invocation.budget /\ UNCHANGED invocation
    BY <2>1 DEF Outcome, WithinBudget
  <2>3. CASE phase' = "returned" /\ Faults(result, result')
    BY <1>0, <2>2, <2>3
       DEF Faults, InterpreterInv, RunningResult, StopIsClassified, BudgetIsExact, GuestStops, GuestFaults
  <2>4. CASE phase' = phase /\ Goes(result, result')
    BY <1>0, <2>2, <2>4
       DEF Goes, InterpreterInv, RunningResult, StopIsClassified, BudgetIsExact
  <2>5. CASE phase' = "returned" /\ StopsByCallback(result, result')
    BY <1>0, <2>2, <2>5
       DEF StopsByCallback, InterpreterInv, RunningResult, StopIsClassified, BudgetIsExact, GuestStops, GuestFaults
  <2>6. QED
    BY <2>1, <2>3, <2>4, <2>5 DEF Outcome
<1>4. CASE UNCHANGED vars
  BY <1>4 DEF vars, InterpreterInv, RunningResult, StopIsClassified, BudgetIsExact, IsResult
<1>5. QED
  BY <1>1, <1>2, <1>3, <1>4 DEF Next

-----------------------------------------------------------------------------
(* The host.                                                                 *)

(* A run with acceptable arguments never ends in a complaint about them.     *)
AcceptedRun ==
  AcceptedCall /\ phase = "returned" => result.completion \notin {"INVALID_ARGUMENT", "UNSUPPORTED_ENGINE"}

(* The inductive invariant of the host.                                      *)
HostInv ==
  /\ InterpreterInv /\ AcceptedRun
  /\ host \in {"running", "waiting", "exited", "terminated", "panicked"}
  /\ host # "running" => phase = "returned"
  /\ GuestFaultsEndTheThread

(* It holds when the thread is started.                                      *)
LEMMA HostInitial == HostInit => HostInv
<1> SUFFICES ASSUME HostInit PROVE HostInv
  OBVIOUS
<1>1. InterpreterInv
  BY InterpreterInitial DEF HostInit
<1>2. AcceptedRun
  BY DEF HostInit, Init, AcceptedRun
<1>3. QED
  BY <1>1, <1>2 DEF HostInit, HostInv, GuestFaultsEndTheThread

(* No instruction turns an accepted call into a refused one.                 *)
LEMMA RunsStayValid == InterpreterInv /\ AcceptedRun /\ Next => AcceptedRun'
<1> SUFFICES ASSUME InterpreterInv, AcceptedRun, Next PROVE AcceptedRun'
  OBVIOUS
<1>0. IsResult(result)
  BY DEF InterpreterInv
<1>1. CASE Run
  <2>1. UNCHANGED invocation /\ (AcceptedCall => phase' = "running")
    BY <1>1 DEF Run, Returns, AcceptedCall
  <2>2. QED
    BY <2>1 DEF AcceptedRun, AcceptedCall, ValidInvocation
<1>2. CASE LimitReached
  <2>1. result'.completion = "INSTRUCTION_LIMIT_REACHED" /\ UNCHANGED invocation
    BY <1>0, <1>2, BackendFailure DEF LimitReached, Returns
  <2>2. QED
    BY <2>1 DEF AcceptedRun, AcceptedCall, ValidInvocation
<1>3. CASE DecodeFails
  <2>1. Faults(result, result') /\ UNCHANGED invocation
    BY <1>0, <1>3, FaultIsClassified DEF DecodeFails, Returns
  <2>2. QED
    BY <2>1 DEF Faults, GuestFaults, AcceptedRun, AcceptedCall, ValidInvocation
<1>4. CASE Execute
  <2>1. Outcome
    BY <1>0, <1>4, ExecuteHasOutcome
  <2>2. QED
    BY <2>1 DEF Outcome, WithinBudget, Faults, Goes, StopsByCallback, GuestFaults, AcceptedRun, AcceptedCall, ValidInvocation
<1>5. QED
  BY <1>1, <1>2, <1>3, <1>4 DEF Next

(* A step of the interpreter is taken only while the host runs the thread;   *)
(* what the host then makes of the result is decided by its classification.  *)
LEMMA HostStep == HostInv /\ [HostNext]_allVars => HostInv'
<1> SUFFICES ASSUME HostInv, [HostNext]_allVars PROVE HostInv'
  OBVIOUS
<1>0. InterpreterInv /\ AcceptedRun
  BY DEF HostInv
<1>1. CASE HostSyscall \/ HostCompletes \/ HostExecutes
  <2>1. Next /\ host = "running" /\ UNCHANGED <<host, status>>
    BY <1>1 DEF HostSyscall, HostCompletes, HostExecutes, hostVars, Next, Execute
  <2>2. InterpreterInv' /\ AcceptedRun'
    BY <1>0, <2>1, InterpreterStep, RunsStayValid
  <2>3. QED
    BY <2>1, <2>2 DEF HostInv, GuestFaultsEndTheThread
<1>2. CASE HostReturns
  <2>1. /\ phase = "returned" /\ UNCHANGED <<result, phase, invocation>>
        /\ StopIsClassified /\ BudgetIsExact
    BY <1>0, <1>2 DEF HostReturns, InterpreterInv
  <2>2. InterpreterInv' /\ AcceptedRun'
    BY <1>0, <2>1 DEF InterpreterInv, IsResult, RunningResult, StopIsClassified, BudgetIsExact, AcceptedRun, AcceptedCall, ValidInvocation
  <2>3. host' \in {"waiting", "exited", "terminated", "panicked"}
    BY <1>2 DEF HostReturns
  <2>4. CASE /\ result.backend_failure # "NONE" \/ result.guest_stop_reason \notin GuestStops
             /\ host' = "panicked"
    <3>1. AcceptedCall => result.completion = "INSTRUCTION_LIMIT_REACHED"
      BY <1>0, <2>1, <2>4 DEF StopIsClassified, AcceptedRun
    <3>2. AcceptedCall => result.retired = invocation.budget
      BY <2>1, <3>1 DEF BudgetIsExact
    <3>3. AcceptedCall' = AcceptedCall
      BY <2>1 DEF AcceptedCall, ValidInvocation
    <3>4. QED
      BY <2>1, <2>2, <2>3, <2>4, <3>1, <3>2, <3>3 DEF HostInv, GuestFaultsEndTheThread
  <2>5. CASE /\ result.backend_failure = "NONE" /\ result.guest_stop_reason \in GuestFaults
             /\ host' = "terminated" /\ status' = GuestFaultStatus
    <3>1. result.guest_stop_reason = result.completion
      BY <2>1, <2>5 DEF StopIsClassified
    <3>2. QED
      BY <2>1, <2>2, <2>5, <3>1 DEF HostInv, GuestFaultsEndTheThread, GuestFaultStatus
  <2>6. CASE host' \in {"exited", "waiting"}
    BY <2>1, <2>2, <2>6 DEF HostInv, GuestFaultsEndTheThread
  <2>7. QED
    BY <1>2, <2>4, <2>5, <2>6 DEF HostReturns
<1>3. CASE HostResumes \/ HostServes
  <2>1. phase' = "called" /\ host' = "running" /\ UNCHANGED <<result, invocation>>
    BY <1>3 DEF HostResumes, HostServes, Resumes
  <2>2. InterpreterInv' /\ AcceptedRun'
    BY <1>0, <2>1 DEF InterpreterInv, IsResult, RunningResult, StopIsClassified, BudgetIsExact, AcceptedRun, AcceptedCall, ValidInvocation
  <2>3. QED
    BY <2>1, <2>2 DEF HostInv, GuestFaultsEndTheThread
<1>4. CASE HostRequestBreaksOff \/ UNCHANGED allVars
  BY <1>4 DEF HostRequestBreaksOff, allVars, HostInv, InterpreterInv, IsResult, RunningResult, StopIsClassified, BudgetIsExact,
              AcceptedRun, AcceptedCall, ValidInvocation, GuestFaultsEndTheThread
<1>5. QED
  BY <1>1, <1>2, <1>3, <1>4 DEF HostNext

(* The invariant holds whatever image, budget and syscall answers a guest    *)
(* meets, and however often the scheduler comes back to it.                  *)
THEOREM HostInvariant == HostSpec => []HostInv
BY HostInitial, HostStep, PTL DEF HostSpec

(* A run that returned gives one consistent account of why it stopped        *)
(* (x64_execution_context.cpp:96-150), whatever the guest executed.          *)
THEOREM StopsAreClassified == HostSpec => []StopIsClassified
<1>1. HostInv => StopIsClassified
  BY DEF HostInv, InterpreterInv
<1>2. QED
  BY <1>1, HostInvariant, PTL

(* The budget is kept exactly (x64_interpreter.cpp:25-48), for every budget. *)
THEOREM BudgetsAreExact == HostSpec => []BudgetIsExact
<1>1. HostInv => BudgetIsExact
  BY DEF HostInv, InterpreterInv
<1>2. QED
  BY <1>1, HostInvariant, PTL

(* arm64_initial_user_runtime_platform.cpp:783-828: the kernel panics over   *)
(* an emulated guest only when the whole budget is spent, and terminates it  *)
(* with the status of its fault.                                             *)
THEOREM GuestsCannotStopTheKernel == HostSpec => []GuestFaultsEndTheThread
<1>1. HostInv => GuestFaultsEndTheThread
  BY DEF HostInv
<1>2. QED
  BY <1>1, HostInvariant, PTL

-----------------------------------------------------------------------------
(* Numbers written in digits.                                                *)

(* A set of natural numbers that is not empty has a least element.           *)
LEMMA LeastNatural ==
  ASSUME NEW T, T \subseteq Nat, T # {}
  PROVE  \E x \in T : \A y \in T : x <= y
<1>1. PICK R : R = OpToRel(<, Nat)
  OBVIOUS
<1>2. IsWellFoundedOn(R, Nat)
  BY <1>1, NatLessThanWellFounded
<1>3. PICK x \in T : \A y \in T : ~ (<<y, x>> \in R)
  BY <1>2, WFMin
<1>4. \A y \in Nat : y < x => <<y, x>> \in R
  BY <1>1 DEF OpToRel
<1>5. ASSUME NEW y \in T PROVE x <= y
  <2>1. x \in Nat /\ y \in Nat
    OBVIOUS
  <2>2. ~ (y < x)
    BY <1>3, <1>4, <2>1
  <2>3. QED
    BY <2>1, <2>2
<1>6. QED
  BY <1>5

(* One turn of the recursion in Number.                                      *)
Turn(value, digits, n, base, k) == IF k = 0 THEN 0 ELSE digits[n - k] + base * value[k - 1]

(* The k highest of the n digits, for every k up to m.                       *)
Evaluates(value, digits, n, base, m) == value = [k \in 0 .. m |-> Turn(value, digits, n, base, k)]

(* Natural digits have natural values.  With a one on top and a base of two, *)
(* four or 256 the value is not zero.                                        *)
Positive(value, digits, n, m) ==
  n > 0 /\ digits[n - 1] > 0 => \A k \in 1 .. m : value[k] > 0

(* The recursion in Number has a solution, with natural values, and a        *)
(* positive one when the highest digit is.                                   *)
LEMMA ValuesExist ==
  ASSUME NEW n \in Nat, NEW digits, \A k \in 0 .. n - 1 : digits[k] \in Nat,
         NEW base \in {2, 4, 256}
  PROVE  \E value : /\ Evaluates(value, digits, n, base, n)
                    /\ \A k \in 0 .. n : value[k] \in Nat
                    /\ Positive(value, digits, n, n)
<1> DEFINE Good(m) == \E value : /\ Evaluates(value, digits, n, base, m)
                                 /\ \A k \in 0 .. m : value[k] \in Nat
                                 /\ Positive(value, digits, n, m)
           T == {m \in 0 .. n : ~Good(m)}
<1>1. SUFFICES ASSUME T # {} PROVE FALSE
  OBVIOUS
<1>2. T \subseteq Nat
  OBVIOUS
<1>3. PICK m \in T : \A y \in T : m <= y
  BY <1>1, <1>2, LeastNatural
<1>4. m \in 0 .. n /\ ~Good(m)
  BY <1>3
<1>5. CASE m = 0
  <2>1. PICK value : value = [k \in 0 .. 0 |-> 0]
    OBVIOUS
  <2>2. \A k \in 0 .. 0 : Turn(value, digits, n, base, k) = 0 /\ value[k] = 0
    BY <2>1 DEF Turn
  <2>3. Evaluates(value, digits, n, base, 0)
    BY <2>1, <2>2 DEF Evaluates
  <2>4. Positive(value, digits, n, 0)
    BY DEF Positive
  <2>5. QED
    BY <1>4, <1>5, <2>2, <2>3, <2>4
<1>6. CASE m # 0
  <2>1. m - 1 \in 0 .. n /\ m \in 1 .. n /\ ~(m <= m - 1) /\ n - m \in 0 .. n - 1 /\ m - 1 \in 0 .. m - 1
    BY <1>4, <1>6
  <2>2. Good(m - 1)
    BY <1>3, <2>1
  <2>3. PICK old : /\ Evaluates(old, digits, n, base, m - 1)
                   /\ \A k \in 0 .. m - 1 : old[k] \in Nat
                   /\ Positive(old, digits, n, m - 1)
    BY <2>2
  <2> HIDE DEF Good
  <2>4. PICK value : value = [k \in 0 .. m |-> IF k = m THEN Turn(old, digits, n, base, m) ELSE old[k]]
    OBVIOUS
  <2>5. \A k \in 0 .. m - 1 : value[k] = old[k]
    BY <2>1, <2>4
  <2>6. ASSUME NEW k \in 0 .. m PROVE value[k] = Turn(value, digits, n, base, k)
    <3>1. CASE k = m
      BY <2>1, <2>4, <2>5, <3>1 DEF Turn
    <3>2. CASE k \in 0 .. m - 1
      <4>1. old[k] = Turn(old, digits, n, base, k)
        BY <2>3, <3>2 DEF Evaluates
      <4>2. k # 0 => k - 1 \in 0 .. m - 1
        BY <2>1, <3>2
      <4>3. QED
        BY <2>5, <3>2, <4>1, <4>2 DEF Turn
    <3>3. QED
      BY <2>1, <3>1, <3>2
  <2>7. Evaluates(value, digits, n, base, m)
    <3>1. value = [k \in 0 .. m |-> value[k]]
      BY <2>4
    <3>2. QED
      BY <2>6, <3>1 DEF Evaluates
  <2>8. digits[n - m] \in Nat /\ old[m - 1] \in Nat /\ value[m] = digits[n - m] + base * old[m - 1]
    BY <1>6, <2>1, <2>3, <2>4 DEF Turn
  <2>9. base * old[m - 1] \in Nat /\ (old[m - 1] > 0 => base * old[m - 1] > 0)
    <3>1. CASE base = 2
      BY <2>8, <3>1
    <3>2. CASE base = 4
      BY <2>8, <3>2
    <3>3. CASE base = 256
      BY <2>8, <3>3
    <3>4. QED
      BY <3>1, <3>2, <3>3
  <2>10. value[m] \in Nat
    BY <2>8, <2>9
  <2>11. \A k \in 0 .. m : value[k] \in Nat
    BY <2>1, <2>3, <2>5, <2>10
  <2>12. Positive(value, digits, n, m)
    <3> SUFFICES ASSUME n > 0, digits[n - 1] > 0, NEW k \in 1 .. m PROVE value[k] > 0
      BY DEF Positive
    <3>1. \A j \in 1 .. m - 1 : old[j] > 0
      BY <2>3 DEF Positive
    <3>2. CASE k # m
      BY <2>1, <2>5, <3>1, <3>2
    <3>3. CASE k = m /\ m = 1
      BY <2>8, <2>9, <3>3
    <3>4. CASE k = m /\ m # 1
      <4>1. old[m - 1] > 0
        BY <2>1, <3>1, <3>4
      <4>2. QED
        BY <2>8, <2>9, <3>4, <4>1
    <3>5. QED
      BY <3>2, <3>3, <3>4
  <2>13. QED
    BY <1>4, <2>7, <2>11, <2>12 DEF Good
<1>7. QED
  BY <1>5, <1>6

(* The recursion has one solution.                                           *)
LEMMA ValuesAgree ==
  ASSUME NEW n \in Nat, NEW digits, NEW base, NEW f, NEW g,
         Evaluates(f, digits, n, base, n), Evaluates(g, digits, n, base, n)
  PROVE  f[n] = g[n]
<1> DEFINE T == {k \in 0 .. n : f[k] # g[k]}
<1>1. T = {}
  <2>1. SUFFICES ASSUME T # {} PROVE FALSE
    OBVIOUS
  <2>2. T \subseteq Nat
    OBVIOUS
  <2>3. PICK j \in T : \A y \in T : j <= y
    BY <2>1, <2>2, LeastNatural
  <2>4. j \in 0 .. n /\ f[j] # g[j]
    BY <2>3
  <2>5. f[j] = Turn(f, digits, n, base, j) /\ g[j] = Turn(g, digits, n, base, j)
    BY <2>4 DEF Evaluates
  <2>6. j # 0
    BY <2>4, <2>5 DEF Turn
  <2>7. j - 1 \in 0 .. n /\ ~(j <= j - 1)
    BY <2>4, <2>6
  <2>8. f[j - 1] = g[j - 1]
    BY <2>3, <2>7
  <2>9. QED
    BY <2>4, <2>5, <2>6, <2>8 DEF Turn
<1>2. n \in 0 .. n
  OBVIOUS
<1>3. QED
  BY <1>1, <1>2

(* Number is a natural number for every string of digits.                    *)
LEMMA NumberIsNatural ==
  ASSUME NEW n \in Nat, NEW digits, \A k \in 0 .. n - 1 : digits[k] \in Nat,
         NEW base \in {2, 4, 256}
  PROVE  /\ Number(digits, n, base) \in Nat
         /\ n > 0 /\ digits[n - 1] > 0 => Number(digits, n, base) > 0
<1> DEFINE V == CHOOSE value : value = [k \in 0 .. n |-> Turn(value, digits, n, base, k)]
<1>1. PICK f : /\ Evaluates(f, digits, n, base, n)
               /\ \A k \in 0 .. n : f[k] \in Nat
               /\ Positive(f, digits, n, n)
  BY ValuesExist
<1>2. V = [k \in 0 .. n |-> Turn(V, digits, n, base, k)]
  BY <1>1 DEF Evaluates
<1>3. Number(digits, n, base) = V[n]
  BY DEF Number, Turn
<1>4. Evaluates(V, digits, n, base, n)
  BY <1>2 DEF Evaluates
<1> HIDE DEF V
<1>5. V[n] = f[n]
  BY <1>1, <1>4, ValuesAgree
<1>6. n \in 0 .. n /\ (n > 0 => n \in 1 .. n)
  OBVIOUS
<1>7. QED
  BY <1>1, <1>3, <1>5, <1>6 DEF Positive

(* Power is positive: the divisions and remainders of the emulator are by    *)
(* positive numbers.                                                         *)
LEMMA PowerIsPositive ==
  ASSUME NEW n \in Nat, NEW base \in {2, 4, 256}
  PROVE  Power(base, n) \in Nat /\ Power(base, n) > 0
<1>1. PICK d : d = [k \in 0 .. n |-> IF k = n THEN 1 ELSE 0]
  OBVIOUS
<1>2. \A k \in 0 .. (n + 1) - 1 : d[k] \in Nat
  BY <1>1
<1>3. n + 1 \in Nat /\ n + 1 > 0 /\ d[(n + 1) - 1] > 0
  BY <1>1
<1>4. Power(base, n) = Number(d, n + 1, base)
  BY <1>1 DEF Power
<1>5. QED
  BY <1>2, <1>3, <1>4, NumberIsNatural

-----------------------------------------------------------------------------
(* The guest's numbers.                                                      *)

(* Memory holds bytes, registers and the instruction pointer integers.       *)
MemoryTyped == mem \in [Region -> Nat]
RegistersTyped == reg \in [Registers -> Int]
GuestTyped ==
  /\ MemoryTyped /\ RegistersTyped
  /\ xmm \in [Registers -> [0 .. XmmBytes - 1 -> Nat]]
  /\ ip \in Int

(* An address at which an access of at most 16 bytes, or a push, can fail.   *)
AtTheEdge(a) == a < Base + QwordBytes \/ a > RegionEnd - XmmBytes

(* The widths have a sign bit.                                               *)
LEMMA WidthIs ==
  ASSUME NEW n \in Nat, n > 0
  PROVE  Width(n).bytes = n /\ Width(n).half \in Nat /\ Width(n).half > 0
<1>1. n - 1 \in Nat /\ 256 \in {2, 4, 256}
  OBVIOUS
<1>2. PICK p : p = Power(256, n - 1)
  OBVIOUS
<1>3. p \in Nat /\ p > 0
  BY <1>1, <1>2, PowerIsPositive
<1>4. Width(n) = [bytes |-> n, half |-> 128 * p]
  BY <1>2 DEF Width
<1>5. QED
  BY <1>3, <1>4

(* The three operand widths.                                                 *)
LEMMA Widths ==
  /\ DwordBytes \in 1 .. 15 /\ QwordBytes \in 1 .. 15
  /\ Byte.bytes = 1 /\ Dword.bytes = DwordBytes /\ Qword.bytes = QwordBytes
  /\ \A w \in {Byte, Dword, Qword} : w.half \in Nat /\ w.half > 0 /\ w.bytes \in 1 .. 15
<1>1. DwordBytes \in 1 .. 15 /\ QwordBytes \in 1 .. 15
  BY WidthsAssumption DEF XmmBytes
<1>2. 1 \in Nat /\ DwordBytes \in Nat /\ QwordBytes \in Nat /\ 1 > 0 /\ DwordBytes > 0 /\ QwordBytes > 0
  BY <1>1
<1>3. QED
  BY <1>1, <1>2, WidthIs DEF Byte, Dword, Qword

(* The region lies in the address space.                                     *)
LEMMA RegionIs ==
  /\ Base \in Nat /\ Size \in Nat /\ Region = Base .. Base + Size - 1 /\ RegionEnd = Base + Size
  /\ RegionEnd < 2 * Qword.half
BY RegionAssumption DEF Region, RegionEnd

(* A range that translates lies in the region, one that does not is at one   *)
(* of its ends.                                                              *)
LEMMA RangeInRegion ==
  ASSUME NEW a \in Int, NEW n \in Nat, Translatable(a, n)
  PROVE  \A k \in 0 .. n - 1 : a + k \in Region
BY RegionIs DEF Translatable

(* The case of one byte.                                                     *)
LEMMA ByteInRegion ==
  ASSUME NEW a \in Int, Translatable(a, 1)
  PROVE  a \in Region
BY RegionIs DEF Translatable

(* An access that translate_guest_pointer refuses is at an end of the        *)
(* region.                                                                   *)
LEMMA FailsAtTheEdge ==
  ASSUME NEW a \in Int, NEW n \in 0 .. 16, ~Translatable(a, n)
  PROVE  AtTheEdge(a)
BY RegionIs, Widths DEF Translatable, AtTheEdge, XmmBytes

(* Addresses that arithmetic yields are words.                               *)
LEMMA BeyondIs ==
  ASSUME NEW a \in Int, NEW n \in Int
  PROVE  /\ Beyond(a, n) \in Int
         /\ a + n \in 0 .. RegionEnd => Beyond(a, n) = a + n
<1>1. PICK m : m = 2 * Qword.half
  OBVIOUS
<1>2. m \in Nat /\ m > 0 /\ RegionEnd < m /\ RegionEnd \in Nat
  <2>1. Qword.half \in Nat /\ Qword.half > 0
    BY Widths
  <2>2. RegionEnd \in Nat /\ RegionEnd < 2 * Qword.half
    BY RegionIs
  <2>3. QED
    BY <1>1, <2>1, <2>2
<1>3. Beyond(a, n) = (a + n) % m
  BY <1>1 DEF Beyond
<1>4. PICK s : s = a + n
  OBVIOUS
<1>5. s \in Int /\ s % m \in Int
  BY <1>2, <1>4
<1>6. s \in 0 .. RegionEnd => s % m = s
  BY <1>2, <1>4
<1>7. QED
  BY <1>3, <1>4, <1>5, <1>6

(* Values stay integers when they are cut to a width, loaded, sign-extended  *)
(* or combined bit by bit.                                                   *)
LEMMA TruncatedIs ==
  ASSUME NEW v \in Int, NEW w \in {Byte, Dword, Qword}
  PROVE  Truncated(v, w) \in Int
<1>1. PICK m : m = 2 * w.half
  OBVIOUS
<1>2. m \in Nat /\ m > 0
  BY <1>1, Widths
<1>3. QED
  BY <1>1, <1>2 DEF Truncated

(* A load of bytes that are there.                                           *)
LEMMA LoadIs ==
  ASSUME MemoryTyped, NEW a \in Int, NEW n \in Nat, Translatable(a, n)
  PROVE  Load(a, n) \in Int
<1>1. PICK d : d = LoadBytes(a, n)
  OBVIOUS
<1>2. \A k \in 0 .. n - 1 : d[k] \in Nat
  BY <1>1, RangeInRegion DEF LoadBytes, MemoryTyped
<1>3. QED
  BY <1>1, <1>2, NumberIsNatural DEF Load

(* A displacement that is there.                                             *)
LEMMA DisplacementIs ==
  ASSUME MemoryTyped, NEW a \in Int, NEW n \in Nat, n > 0, Translatable(a, n)
  PROVE  Displacement(a, n) \in Int
<1>1. PICK v, h : v = Load(a, n) /\ h = Width(n).half
  OBVIOUS
<1>2. v \in Int /\ h \in Int
  BY <1>1, LoadIs, WidthIs
<1>3. QED
  BY <1>1, <1>2 DEF Displacement, Signed

(* An immediate that is there.                                               *)
LEMMA ImmediateIs ==
  ASSUME MemoryTyped, NEW a \in Int, NEW n \in Nat, n > 0, Translatable(a, n),
         NEW w \in {Byte, Dword, Qword}
  PROVE  Immediate(a, n, w) \in Int
<1>1. PICK v, h, q : v = Load(a, n) /\ h = Width(n).half /\ q = Qword.half
  OBVIOUS
<1>2. v \in Int /\ h \in Int /\ q \in Int
  BY <1>1, LoadIs, WidthIs, Widths
<1>3. PICK s : s = SignExtended(v, h, q)
  OBVIOUS
<1>4. s \in Int
  BY <1>2, <1>3 DEF SignExtended
<1>5. QED
  BY <1>1, <1>3, <1>4, TruncatedIs DEF Immediate

(* One bit of a number.                                                      *)
LEMMA BitIs ==
  ASSUME NEW v \in Int, NEW k \in Nat
  PROVE  (v \div Power(2, k)) % 2 \in 0 .. 1
<1>1. PICK p : p = Power(2, k)
  OBVIOUS
<1>2. p \in Nat /\ p > 0
  BY <1>1, PowerIsPositive
<1>3. PICK d : d = v \div p
  OBVIOUS
<1>4. d \in Int
  BY <1>2, <1>3
<1>5. QED
  BY <1>1, <1>3, <1>4

(* And, or and exclusive or of two words.                                    *)
LEMMA BitwiseIs ==
  ASSUME NEW a \in Int, NEW b \in Int, NEW bits \in Nat
  PROVE  BitAnd(a, b, bits) \in Nat /\ BitOr(a, b, bits) \in Nat /\ BitXor(a, b, bits) \in Nat
<1>1. PICK x, y : /\ x = [k \in 0 .. bits - 1 |-> (a \div Power(2, k)) % 2]
                  /\ y = [k \in 0 .. bits - 1 |-> (b \div Power(2, k)) % 2]
  OBVIOUS
<1>2. ASSUME NEW k \in 0 .. bits - 1 PROVE x[k] \in 0 .. 1 /\ y[k] \in 0 .. 1
  <2>1. k \in Nat
    OBVIOUS
  <2>2. QED
    BY <1>1, <2>1, BitIs
<1>3. PICK and, or, xor : /\ and = [k \in 0 .. bits - 1 |-> x[k] * y[k]]
                          /\ or = [k \in 0 .. bits - 1 |-> IF x[k] + y[k] > 0 THEN 1 ELSE 0]
                          /\ xor = [k \in 0 .. bits - 1 |-> (x[k] + y[k]) % 2]
  OBVIOUS
<1>4. BitAnd(a, b, bits) = Number(and, bits, 2)
  <2>1. and = [k \in 0 .. bits - 1 |-> ((a \div Power(2, k)) % 2) * ((b \div Power(2, k)) % 2)]
    BY <1>1, <1>3, Zenon
  <2>2. QED
    BY <2>1 DEF BitAnd, BitByBit
<1>5. BitOr(a, b, bits) = Number(or, bits, 2)
  <2>1. or = [k \in 0 .. bits - 1 |-> IF ((a \div Power(2, k)) % 2) + ((b \div Power(2, k)) % 2) > 0 THEN 1 ELSE 0]
    BY <1>1, <1>3
  <2>2. QED
    BY <2>1 DEF BitOr, BitByBit
<1>6. BitXor(a, b, bits) = Number(xor, bits, 2)
  <2>1. xor = [k \in 0 .. bits - 1 |-> (((a \div Power(2, k)) % 2) + ((b \div Power(2, k)) % 2)) % 2]
    BY <1>1, <1>3
  <2>2. QED
    BY <2>1 DEF BitXor, BitByBit
<1>7. ASSUME NEW k \in 0 .. bits - 1 PROVE and[k] \in Nat /\ or[k] \in Nat /\ xor[k] \in Nat
  <2>1. x[k] \in {0, 1} /\ y[k] \in {0, 1}
    BY <1>2
  <2>2. QED
    BY <1>3, <2>1
<1>8. QED
  BY <1>4, <1>5, <1>6, <1>7, NumberIsNatural

(* What is stored is bytes.                                                  *)
LEMMA DigitIs ==
  ASSUME NEW v \in Int, NEW k \in Nat
  PROVE  (v \div Power(256, k)) % 256 \in Nat
<1>1. PICK p : p = Power(256, k)
  OBVIOUS
<1>2. p \in Nat /\ p > 0
  BY <1>1, PowerIsPositive
<1>3. PICK d : d = v \div p
  OBVIOUS
<1>4. d \in Int
  BY <1>2, <1>3
<1>5. QED
  BY <1>1, <1>3, <1>4

(* A store keeps memory a memory of numbers.                                 *)
LEMMA StoredIs ==
  ASSUME MemoryTyped, NEW a \in Int, NEW n \in Nat, NEW v \in Int
  PROVE  Stored(a, n, v) \in [Region -> Nat]
<1>1. ASSUME NEW x \in Region
      PROVE  (IF x \in a .. a + n - 1 THEN (v \div Power(256, x - a)) % 256 ELSE mem[x]) \in Nat
  <2>1. CASE x \in a .. a + n - 1
    <3>1. x - a \in Nat
      BY <2>1
    <3>2. QED
      BY <2>1, <3>1, DigitIs
  <2>2. CASE x \notin a .. a + n - 1
    BY <2>2 DEF MemoryTyped
  <2>3. QED
    BY <2>1, <2>2
<1>2. QED
  BY <1>1 DEF Stored

(* Fields of a ModRM byte name registers.                                    *)
LEMMA IndexIs ==
  ASSUME MemoryTyped, NEW at \in Region, NEW i
  PROVE  RegIndex(i, at) \in Registers /\ RmIndex(i, at) \in Registers
BY DEF MemoryTyped, RegIndex, RmIndex, Operation, Extended, Registers

(* A decoded operand: it has addresses, and one that could not be decoded    *)
(* names the read that failed.                                               *)
OperandTyped(operand) ==
  /\ operand.address \in Int /\ operand.next \in Int
  /\ ~operand.ok => AtTheEdge(operand.address)

(* A read of the encoding that failed.                                       *)
LEMMA UnreadableIs ==
  ASSUME NEW a \in Int, AtTheEdge(a)
  PROVE  OperandTyped(Unreadable(a)) /\ ~Unreadable(a).ok
BY DEF OperandTyped, Unreadable

(* An operand that was decoded.                                              *)
LEMMA ReadableIs ==
  ASSUME NEW a \in Int, NEW n \in Int, NEW b, NEW r,
         r = [ok |-> TRUE, is_register |-> b, address |-> a, next |-> n]
  PROVE  OperandTyped(r)
BY DEF OperandTyped

(* try_read_sib_address yields an operand.                                   *)
LEMMA SibIs ==
  ASSUME MemoryTyped, RegistersTyped, NEW at \in Region, NEW i, NEW mod
  PROVE  OperandTyped(TryReadSibAddress(i, at, mod))
<1> DEFINE sib       == mem[at + 1]
           no_base   == mod = 0 /\ sib % 8 = 5 /\ ~i.b
           disp_size == IF mod = 1 THEN 1 ELSE IF mod = 2 \/ no_base THEN DwordBytes ELSE 0
           disp_at   == Beyond(at, 2)
           base      == IF no_base THEN 0 ELSE reg[Extended(sib % 8, i.b)]
           index     == Extended((sib \div 8) % 8, i.x)
           scaled    == IF index = 4 THEN 0 ELSE reg[index] * Power(2, sib \div 64)
           disp      == IF disp_size = 0 THEN 0 ELSE Displacement(disp_at, disp_size)
<1>1. at \in Int /\ at + 1 \in 0 .. RegionEnd /\ disp_size \in 0 .. 16 /\ disp_size \in Nat
  BY RegionIs, Widths
<1>2. Beyond(at, 1) = at + 1 /\ disp_at \in Int
  <2>1. 1 \in Int /\ 2 \in Int
    OBVIOUS
  <2>2. Beyond(at, 1) = at + 1
    BY <1>1, <2>1, BeyondIs
  <2>3. Beyond(at, 2) \in Int
    BY <1>1, <2>1, BeyondIs
  <2>4. QED
    BY <2>2, <2>3
<1>3. CASE ~Translatable(Beyond(at, 1), 1)
  <2>1. TryReadSibAddress(i, at, mod) = Unreadable(Beyond(at, 1))
    BY <1>3 DEF TryReadSibAddress
  <2>2. AtTheEdge(at + 1)
    BY <1>1, <1>2, <1>3, FailsAtTheEdge
  <2>3. QED
    BY <1>1, <1>2, <2>1, <2>2, UnreadableIs
<1>4. CASE Translatable(Beyond(at, 1), 1) /\ disp_size > 0 /\ ~Translatable(disp_at, disp_size)
  <2>1. TryReadSibAddress(i, at, mod) = Unreadable(disp_at)
    BY <1>4 DEF TryReadSibAddress
  <2>2. AtTheEdge(disp_at)
    BY <1>1, <1>2, <1>4, FailsAtTheEdge
  <2> HIDE DEF disp_at
  <2>3. QED
    BY <1>2, <2>1, <2>2, UnreadableIs
<1>5. CASE Translatable(Beyond(at, 1), 1) /\ ~(disp_size > 0 /\ ~Translatable(disp_at, disp_size))
  <2>1. sib \in Nat
    <3>1. at + 1 \in Region
      BY <1>1, <1>2, <1>5, ByteInRegion
    <3>2. QED
      BY <3>1 DEF MemoryTyped
  <2>2. base \in Int
    <3> HIDE DEF sib
    <3>1. Extended(sib % 8, i.b) \in Registers
      BY <2>1 DEF Extended, Registers
    <3>2. QED
      BY <3>1 DEF RegistersTyped
  <2>3. scaled \in Int
    <3> HIDE DEF sib
    <3>1. index \in Registers
      BY <2>1 DEF Extended, Registers
    <3>2. sib \div 64 \in Nat
      BY <2>1
    <3>3. PICK p : p = Power(2, sib \div 64)
      OBVIOUS
    <3>4. p \in Int
      BY <3>2, <3>3, PowerIsPositive
    <3>5. reg[index] \in Int
      BY <3>1 DEF RegistersTyped
    <3>6. PICK x : x = reg[index]
      OBVIOUS
    <3>7. x * p \in Int
      BY <3>4, <3>5, <3>6
    <3> HIDE DEF index
    <3>8. QED
      BY <3>3, <3>6, <3>7
  <2>4. disp \in Int
    <3> HIDE DEF disp_size, disp_at
    <3>1. QED
      BY <1>1, <1>2, <1>5, DisplacementIs
  <2>5. TryReadSibAddress(i, at, mod) =
          [ok |-> TRUE, is_register |-> FALSE,
           address |-> Beyond(base + scaled, disp), next |-> Beyond(disp_at, disp_size)]
    BY <1>5 DEF TryReadSibAddress
  <2> HIDE DEF base, scaled, disp, disp_at, disp_size
  <2>6. base + scaled \in Int /\ disp_size \in Int
    BY <1>1, <2>2, <2>3
  <2>7. Beyond(base + scaled, disp) \in Int /\ Beyond(disp_at, disp_size) \in Int
    BY <1>2, <2>4, <2>6, BeyondIs
  <2>8. QED
    BY <2>5, <2>7, ReadableIs
<1>6. QED
  BY <1>3, <1>4, <1>5

(* So does try_get_memory_operand_address.                                   *)
LEMMA MemoryOperandIs ==
  ASSUME MemoryTyped, RegistersTyped, NEW at \in Region, NEW i
  PROVE  OperandTyped(TryGetMemoryOperandAddress(i, at))
<1> DEFINE mod          == Mod(at)
           rm           == mem[at] % 8
           rip_relative == mod = 0 /\ rm = 5 /\ ~i.b
           disp_size    == IF mod = 1 THEN 1 ELSE IF mod = 2 \/ rip_relative THEN DwordBytes ELSE 0
           disp_at      == Beyond(at, 1)
           next         == Beyond(disp_at, disp_size)
           base         == IF rip_relative THEN next ELSE reg[RmIndex(i, at)]
           disp         == IF disp_size = 0 THEN 0 ELSE Displacement(disp_at, disp_size)
<1>1. at \in Int /\ disp_size \in 0 .. 16 /\ disp_size \in Nat
  BY RegionIs, Widths
<1>2. disp_at \in Int
  BY <1>1, BeyondIs
<1>3. CASE rm = 4
  <2>1. TryGetMemoryOperandAddress(i, at) = TryReadSibAddress(i, at, mod)
    BY <1>3 DEF TryGetMemoryOperandAddress
  <2>2. QED
    BY <2>1, SibIs
<1>4. CASE rm # 4 /\ disp_size > 0 /\ ~Translatable(disp_at, disp_size)
  <2>1. TryGetMemoryOperandAddress(i, at) = Unreadable(disp_at)
    BY <1>4 DEF TryGetMemoryOperandAddress
  <2>2. AtTheEdge(disp_at)
    BY <1>1, <1>2, <1>4, FailsAtTheEdge
  <2> HIDE DEF disp_at
  <2>3. QED
    BY <1>2, <2>1, <2>2, UnreadableIs
<1>5. CASE rm # 4 /\ ~(disp_size > 0 /\ ~Translatable(disp_at, disp_size))
  <2>1. TryGetMemoryOperandAddress(i, at) =
          [ok |-> TRUE, is_register |-> FALSE, address |-> Beyond(base, disp), next |-> next]
    BY <1>5 DEF TryGetMemoryOperandAddress
  <2> HIDE DEF disp_at, disp_size
  <2>2. next \in Int
    BY <1>1, <1>2, BeyondIs
  <2>3. disp \in Int
    BY <1>1, <1>2, <1>5, DisplacementIs
  <2>4. base \in Int
    <3>1. reg[RmIndex(i, at)] \in Int
      BY IndexIs DEF RegistersTyped
    <3> HIDE DEF next
    <3>2. QED
      BY <2>2, <3>1
  <2> HIDE DEF base, disp, next
  <2>5. Beyond(base, disp) \in Int
    BY <2>3, <2>4, BeyondIs
  <2>6. QED
    BY <2>1, <2>2, <2>5, ReadableIs
<1>6. QED
  BY <1>3, <1>4, <1>5

(* An operand behind an opcode.                                              *)
LEMMA OperandIs ==
  ASSUME MemoryTyped, RegistersTyped, NEW at \in Int, NEW i
  PROVE  LET operand == TryDecodeRmOperand(i, at)
         IN  /\ OperandTyped(operand)
             /\ operand.ok => at \in Region
<1>1. CASE ~Translatable(at, 1)
  <2>1. TryDecodeRmOperand(i, at) = Unreadable(at)
    BY <1>1 DEF TryDecodeRmOperand
  <2>2. AtTheEdge(at)
    BY <1>1, FailsAtTheEdge
  <2>3. QED
    BY <2>1, <2>2, UnreadableIs
<1>2. CASE Translatable(at, 1) /\ Mod(at) = 3
  <2>1. TryDecodeRmOperand(i, at) =
          [ok |-> TRUE, is_register |-> TRUE, address |-> 0, next |-> Beyond(at, 1)]
    BY <1>2 DEF TryDecodeRmOperand
  <2>2. 0 \in Int /\ Beyond(at, 1) \in Int /\ at \in Region
    BY <1>2, BeyondIs, ByteInRegion
  <2>3. QED
    BY <2>1, <2>2, ReadableIs
<1>3. CASE Translatable(at, 1) /\ Mod(at) # 3
  <2>1. TryDecodeRmOperand(i, at) = TryGetMemoryOperandAddress(i, at)
    BY <1>3 DEF TryDecodeRmOperand
  <2>2. at \in Region
    BY <1>3, ByteInRegion
  <2>3. QED
    BY <2>1, <2>2, MemoryOperandIs
<1>4. QED
  BY <1>1, <1>2, <1>3

(* An operand that cannot be used lies at the edge; one that can has a value.*)
LEMMA UnusableAtTheEdge ==
  ASSUME NEW operand, OperandTyped(operand), NEW n \in 0 .. 16, ~Usable(operand, n)
  PROVE  AtTheEdge(operand.address)
BY FailsAtTheEdge DEF OperandTyped, Usable

(* The value of a register at a width.                                       *)
LEMMA GetRegisterIs ==
  ASSUME RegistersTyped, NEW r \in Registers, NEW w \in {Byte, Dword, Qword}
  PROVE  GetRegister(r, w) \in Int
<1>1. reg[r] \in Int
  BY DEF RegistersTyped
<1>2. QED
  BY <1>1, TruncatedIs DEF GetRegister

(* The value of an operand that can be used.                                 *)
LEMMA ValueIs ==
  ASSUME MemoryTyped, RegistersTyped, NEW at \in Region, NEW i, NEW operand, OperandTyped(operand),
         NEW w \in {Byte, Dword, Qword}, Usable(operand, w.bytes)
  PROVE  RmValue(operand, i, at, w) \in Int
<1>1. CASE operand.is_register
  BY <1>1, IndexIs, GetRegisterIs DEF RmValue
<1>2. CASE ~operand.is_register
  <2>1. w.bytes \in Nat /\ operand.address \in Int /\ Translatable(operand.address, w.bytes)
    BY <1>2, Widths DEF OperandTyped, Usable
  <2>2. QED
    BY <1>2, <2>1, LoadIs DEF RmValue
<1>3. QED
  BY <1>1, <1>2

(* Writing to an operand keeps memory and registers typed.                   *)
LEMMA StoreRmKeeps ==
  ASSUME MemoryTyped, RegistersTyped, NEW at \in Region, NEW i, NEW operand, OperandTyped(operand),
         NEW w \in {Byte, Dword, Qword}, NEW v \in Int, StoreRm(operand, i, at, w, v)
  PROVE  MemoryTyped' /\ RegistersTyped'
<1>1. RmIndex(i, at) \in Registers /\ w.bytes \in Nat /\ operand.address \in Int
  BY IndexIs, Widths DEF OperandTyped
<1>2. Stored(operand.address, w.bytes, v) \in [Region -> Nat]
  BY <1>1, StoredIs
<1>3. Region' = Region
  BY DEF Region
<1>4. QED
  BY <1>1, <1>2, <1>3 DEF StoreRm, MemoryTyped, RegistersTyped

(* Sums and differences that wrap around.                                    *)
LEMMA WordSumsAre ==
  ASSUME NEW a \in Int, NEW b \in Int, NEW h \in Int
  PROVE  Plus(a, b, h) \in Int /\ Minus(a, b, h) \in Int
BY DEF Plus, Minus

(* The instruction at ip.                                                    *)
LEMMA OpcodeAddressIs ==
  ASSUME GuestTyped
  PROVE  OpcodeAddress \in Int
<1>1. ip \in Int
  BY DEF GuestTyped
<1>2. CASE ip \notin Region
  BY <1>1, <1>2 DEF OpcodeAddress
<1>3. CASE ip \in Region
  <2> DEFINE Stops(a) == a = RegionEnd \/ mem[a] \notin Prefixes
             T == {a \in ip .. RegionEnd : Stops(a)}
  <2>1. ip \in Nat /\ RegionEnd \in Nat /\ ip <= RegionEnd
    BY <1>3, RegionIs
  <2>2. T \subseteq Nat /\ T # {}
    BY <2>1
  <2>3. PICK least \in T : \A y \in T : least <= y
    BY <2>2, LeastNatural
  <2>4. least \in ip .. RegionEnd /\ Stops(least)
    BY <2>3
  <2>5. ASSUME NEW b \in ip .. least - 1 PROVE mem[b] \in Prefixes
    <3>1. b \in ip .. RegionEnd /\ ~(least <= b)
      BY <2>1, <2>4
    <3>2. QED
      BY <2>3, <3>1
  <2>6. OpcodeAddress = CHOOSE a \in ip .. RegionEnd :
                          /\ a = RegionEnd \/ mem[a] \notin Prefixes
                          /\ \A b \in ip .. a - 1 : mem[b] \in Prefixes
    BY <1>3 DEF OpcodeAddress
  <2>7. OpcodeAddress \in ip .. RegionEnd
    BY <2>4, <2>5, <2>6
  <2>8. QED
    BY <2>1, <2>7
<1>4. QED
  BY <1>2, <1>3

(* The fields of a decoded instruction that place it.                        *)
LEMMA InstructionFields ==
  /\ Instruction.address = ip /\ Instruction.opcode_address = OpcodeAddress
  /\ Instruction.next = Beyond(OpcodeAddress, 1)
  /\ Instruction.opcode = IF Translatable(OpcodeAddress, 1) THEN mem[OpcodeAddress] ELSE 0
<1> DEFINE
      at     == OpcodeAddress
      before == IF ip \in Region THEN ip .. at - 1 ELSE {}
      rex    == {b \in before : mem[b] \in RexBytes}
      last   == CHOOSE b \in rex : \A c \in rex : c <= b
      RexBit(k) == rex # {} /\ (mem[last] \div Power(2, k)) % 2 = 1
      Seen(p) == \E b \in before : mem[b] = p
      next   == Beyond(at, 1)
      opcode == IF Translatable(at, 1) THEN mem[at] ELSE 0
      secondary == IF opcode = \h0F /\ Translatable(next, 1) THEN mem[next] ELSE 0
<1>1. Instruction =
        [address |-> ip, opcode_address |-> at, next |-> next, opcode |-> opcode,
         prefix_66 |-> Seen(\h66), prefix_f2 |-> Seen(\hF2), prefix_f3 |-> Seen(\hF3),
         w |-> RexBit(3), r |-> RexBit(2), x |-> RexBit(1), b |-> RexBit(0), secondary |-> secondary]
  BY Zenon DEF Instruction
<1> HIDE DEF at, next, opcode, secondary, RexBit, Seen
<1>2. QED
  BY <1>1 DEF at, next, opcode

(* They are addresses, and the opcode is a byte.                             *)
LEMMA InstructionIs ==
  ASSUME GuestTyped
  PROVE  /\ Instruction.address = ip /\ Instruction.opcode_address \in Int /\ Instruction.next \in Int
         /\ Translatable(Instruction.opcode_address, 1) => Instruction.opcode \in Nat
         /\ Beyond(Instruction.next, 1) \in Int
<1>1. OpcodeAddress \in Int /\ 1 \in Int
  BY OpcodeAddressIs
<1>2. Beyond(OpcodeAddress, 1) \in Int
  BY <1>1, BeyondIs
<1>3. Translatable(OpcodeAddress, 1) => mem[OpcodeAddress] \in Nat
  BY <1>1, ByteInRegion DEF GuestTyped, MemoryTyped
<1>4. Beyond(Instruction.next, 1) \in Int
  BY <1>1, <1>2, InstructionFields, BeyondIs
<1>5. QED
  BY <1>1, <1>2, <1>3, <1>4, InstructionFields

(* What an instruction may write.                                            *)
LEMMA NothingWritten ==
  ASSUME GuestTyped, UNCHANGED <<mem, reg, xmm>>, ip' \in Int
  PROVE  GuestTyped'
BY DEF GuestTyped, MemoryTyped, RegistersTyped, Region, Registers, XmmBytes

(* A handler that writes one register.                                       *)
LEMMA RegisterWritten ==
  ASSUME GuestTyped, NEW r \in Registers, NEW v \in Int, reg' = [reg EXCEPT ![r] = v],
         UNCHANGED <<mem, xmm>>, ip' \in Int
  PROVE  GuestTyped'
BY DEF GuestTyped, MemoryTyped, RegistersTyped, Region, Registers, XmmBytes

(* A handler that writes memory or registers through an operand.             *)
LEMMA BothWritten ==
  ASSUME GuestTyped, MemoryTyped', RegistersTyped', xmm' = xmm, ip' \in Int
  PROVE  GuestTyped'
BY DEF GuestTyped, Registers, XmmBytes

(* A handler that writes memory alone.                                       *)
LEMMA MemoryWritten ==
  ASSUME GuestTyped, MemoryTyped', UNCHANGED <<reg, xmm>>, ip' \in Int
  PROVE  GuestTyped'
BY DEF GuestTyped, RegistersTyped, Registers, XmmBytes

(* A handler that writes one xmm register.                                   *)
LEMMA XmmWritten ==
  ASSUME GuestTyped, NEW r \in Registers, NEW v \in [0 .. XmmBytes - 1 -> Nat],
         xmm' = [xmm EXCEPT ![r] = v], UNCHANGED <<mem, reg>>, ip' \in Int
  PROVE  GuestTyped'
BY DEF GuestTyped, MemoryTyped, RegistersTyped, Region, Registers, XmmBytes

-----------------------------------------------------------------------------
(* How an instruction ends on a typed machine.                               *)

(* A push whose slot lies behind the region has already lowered rsp.         *)
StackAlreadyLowered ==
  /\ reg' = LoweredStack /\ reg[RSP] > RegionEnd
  /\ UNCHANGED <<mem, xmm, flags, ip>>

(* An instruction reports itself as unsupported, faults at an end of the     *)
(* region with the guest untouched or with rsp lowered, or retires into a    *)
(* typed guest.                                                              *)
Ends ==
  /\ WithinBudget
  /\ \/ \E opcode : Unsupported(Instruction, opcode)
     \/ \E a : AtTheEdge(a) /\ InvalidMemory(Instruction, a)
     \/ \E a : AtTheEdge(a) /\ FaultedAt(Instruction, a) /\ StackAlreadyLowered
     \/ \E next : Retires(Instruction, next) /\ GuestTyped'

(* The ways to end, one by one.                                              *)
LEMMA UnsupportedEnds ==
  ASSUME WithinBudget, NEW opcode, Unsupported(Instruction, opcode)
  PROVE  Ends
BY DEF Ends

(* A fault at an address at the edge.                                        *)
LEMMA FaultEnds ==
  ASSUME WithinBudget, NEW a, AtTheEdge(a), InvalidMemory(Instruction, a)
  PROVE  Ends
BY DEF Ends

(* A read or a write of at most 16 bytes that fails.                         *)
LEMMA ReadFaultEnds ==
  ASSUME WithinBudget, NEW a \in Int, NEW n \in 0 .. 16, ~Translatable(a, n), InvalidMemory(Instruction, a)
  PROVE  Ends
BY FailsAtTheEdge, FaultEnds

(* An operand that cannot be used.                                           *)
LEMMA OperandFaultEnds ==
  ASSUME WithinBudget, NEW operand, OperandTyped(operand), NEW n \in 0 .. 16, ~Usable(operand, n),
         InvalidMemory(Instruction, operand.address)
  PROVE  Ends
BY UnusableAtTheEdge, FaultEnds

(* An operand that could not be decoded.                                     *)
LEMMA UndecodedEnds ==
  ASSUME WithinBudget, NEW operand, OperandTyped(operand), ~operand.ok,
         InvalidMemory(Instruction, operand.address)
  PROVE  Ends
BY FaultEnds DEF OperandTyped

(* An instruction that retires.                                              *)
LEMMA Retired ==
  ASSUME WithinBudget, NEW next \in Int, Retires(Instruction, next), ip' \in Int => GuestTyped'
  PROVE  Ends
BY DEF Ends, Retires

(* What a handler can rely on.                                               *)
LEMMA Begins ==
  ASSUME GuestTyped
  PROVE  /\ MemoryTyped /\ RegistersTyped
         /\ Instruction.next \in Int /\ Beyond(Instruction.next, 1) \in Int
         /\ OperandWidth(Instruction) \in {Byte, Dword, Qword}
         /\ 1 \in 0 .. 16 /\ DwordBytes \in 0 .. 16 /\ QwordBytes \in 0 .. 16 /\ XmmBytes \in 0 .. 16
         /\ DwordBytes \in Nat /\ DwordBytes > 0 /\ QwordBytes \in Nat /\ QwordBytes > 0
         /\ \A w \in {Byte, Dword, Qword} : /\ w.bytes \in 0 .. 16 /\ w.bytes \in Nat
                                            /\ w.half \in Int
         /\ RAX \in Registers /\ RSP \in Registers /\ reg[RSP] \in Int
<1>1. MemoryTyped /\ RegistersTyped
  BY DEF GuestTyped
<1>2. RAX \in Registers /\ RSP \in Registers
  BY DEF RAX, RSP, Registers
<1>3. reg[RSP] \in Int
  BY <1>1, <1>2 DEF RegistersTyped
<1>4. QED
  BY <1>1, <1>2, <1>3, InstructionIs, Widths DEF OperandWidth, XmmBytes

(* A handler runs within the budget and has an opcode.                       *)
LEMMA Dispatched ==
  ASSUME GuestTyped, NEW opcodes, Dispatches(Instruction, opcodes) \/ DispatchesSecondary(Instruction, opcodes)
  PROVE  WithinBudget /\ Instruction.opcode \in Nat
BY InstructionIs DEF Dispatches, DispatchesSecondary

(* The register named by the low bits of an opcode.                          *)
LEMMA OpcodeIndexIs ==
  ASSUME NEW opcode \in Nat, NEW first \in Nat, opcode \in first .. first + 7, NEW x
  PROVE  Extended(opcode - first, x) \in Registers
BY DEF Extended, Registers

(* push_u64.                                                                 *)
LEMMA PushFailsEnds ==
  ASSUME GuestTyped, WithinBudget, PushFails(Instruction)
  PROVE  Ends
<1>1. reg[RSP] \in Int /\ QwordBytes \in Nat /\ QwordBytes > 0 /\ QwordBytes \in 0 .. 16
  BY Begins
<1>2. CASE PushRefused /\ InvalidMemory(Instruction, reg[RSP])
  <2>1. AtTheEdge(reg[RSP])
    BY <1>2 DEF PushRefused, AtTheEdge
  <2>2. QED
    BY <1>2, <2>1, FaultEnds
<1>3. CASE /\ ~PushRefused /\ ~Translatable(PushTarget, QwordBytes)
           /\ reg' = LoweredStack
           /\ FaultedAt(Instruction, PushTarget) /\ UNCHANGED <<mem, xmm, flags, ip>>
  <2>1. PICK s : s = reg[RSP]
    OBVIOUS
  <2>2. PushTarget = s - QwordBytes /\ s \in Int
    BY <1>1, <2>1 DEF PushTarget
  <2>3. AtTheEdge(PushTarget)
    BY <1>1, <1>3, <2>2, FailsAtTheEdge
  <2>4. s > RegionEnd
    BY <1>1, <1>3, <2>1, <2>2, RegionIs DEF PushRefused, Translatable
  <2>5. QED
    BY <1>3, <2>1, <2>3, <2>4 DEF Ends, StackAlreadyLowered
<1>4. QED
  BY <1>2, <1>3 DEF PushFails

(* A push that succeeds.                                                     *)
LEMMA PushEnds ==
  ASSUME GuestTyped, WithinBudget, NEW v \in Int, NEW next \in Int, Pushes(Instruction, v, next)
  PROVE  Ends
<1>1. reg[RSP] \in Int /\ QwordBytes \in Nat /\ RSP \in Registers /\ MemoryTyped /\ RegistersTyped
  BY Begins
<1>2. PushTarget \in Int
  BY <1>1 DEF PushTarget
<1>3. MemoryTyped'
  <2>1. Stored(PushTarget, QwordBytes, v) \in [Region -> Nat]
    BY <1>1, <1>2, StoredIs
  <2>2. QED
    BY <2>1 DEF Pushes, MemoryTyped, Region
<1>4. RegistersTyped'
  BY <1>1, <1>2 DEF Pushes, LoweredStack, RegistersTyped
<1>5. xmm' = xmm /\ Retires(Instruction, next)
  BY DEF Pushes
<1>6. QED
  BY <1>3, <1>4, <1>5, BothWritten, Retired

(* execute_x64_push_register.                                                *)
LEMMA PushRegisterEnds == ASSUME GuestTyped, ExecutePushRegister PROVE Ends
<1> DEFINE i == Instruction
<1>1. WithinBudget /\ i.opcode \in Nat /\ i.next \in Int /\ i.opcode \in \h50 .. \h57
  BY Dispatched, Begins DEF ExecutePushRegister, Dispatches
<1>2. CASE Unsupported(i, i.opcode)
  BY <1>1, <1>2, UnsupportedEnds
<1>3. CASE PushFails(i)
  BY <1>1, <1>3, PushFailsEnds
<1>4. CASE Pushes(i, reg[Extended(i.opcode - \h50, i.b)], i.next)
  <2>1. Extended(i.opcode - \h50, i.b) \in Registers
    <3>1. \h50 \in Nat /\ i.opcode \in \h50 .. \h50 + 7
      BY <1>1
    <3>2. QED
      BY <1>1, <3>1, OpcodeIndexIs
  <2>2. reg[Extended(i.opcode - \h50, i.b)] \in Int
    BY <2>1, Begins DEF RegistersTyped
  <2>3. QED
    BY <1>1, <1>4, <2>2, PushEnds
<1>5. QED
  BY <1>2, <1>3, <1>4 DEF ExecutePushRegister

(* The slot at the top of the stack.                                         *)
LEMMA StackIs ==
  ASSUME GuestTyped, Translatable(reg[RSP], QwordBytes)
  PROVE  Popped \in Int /\ RaisedStack \in Int
<1>1. reg[RSP] \in Int /\ QwordBytes \in Nat /\ QwordBytes \in Int /\ MemoryTyped
  BY Begins
<1>2. Popped \in Int
  BY <1>1, LoadIs DEF Popped
<1>3. RaisedStack \in Int
  BY <1>1, BeyondIs DEF RaisedStack
<1>4. QED
  BY <1>2, <1>3

(* execute_x64_pop_register.                                                 *)
LEMMA PopRegisterEnds == ASSUME GuestTyped, ExecutePopRegister PROVE Ends
<1> DEFINE i == Instruction
<1>1. WithinBudget /\ i.opcode \in Nat /\ i.next \in Int /\ i.opcode \in \h58 .. \h5F
      /\ reg[RSP] \in Int /\ QwordBytes \in 0 .. 16
  BY Dispatched, Begins DEF ExecutePopRegister, Dispatches
<1>2. CASE Unsupported(i, i.opcode)
  BY <1>1, <1>2, UnsupportedEnds
<1>3. CASE ~Translatable(reg[RSP], QwordBytes) /\ InvalidMemory(i, reg[RSP])
  BY <1>1, <1>3, ReadFaultEnds
<1>4. CASE /\ Translatable(reg[RSP], QwordBytes)
           /\ reg' = [reg EXCEPT ![RSP] = RaisedStack, ![Extended(i.opcode - \h58, i.b)] = Popped]
           /\ Retires(i, i.next) /\ UNCHANGED <<mem, xmm, flags>>
  <2>1. Extended(i.opcode - \h58, i.b) \in Registers
    <3>1. \h58 \in Nat /\ i.opcode \in \h58 .. \h58 + 7
      BY <1>1
    <3>2. QED
      BY <1>1, <3>1, OpcodeIndexIs
  <2>2. Popped \in Int /\ RaisedStack \in Int
    BY <1>4, StackIs
  <2>3. RegistersTyped'
    BY <1>4, <2>1, <2>2, Begins DEF RegistersTyped
  <2>4. MemoryTyped'
    BY <1>4, Begins DEF MemoryTyped, Region
  <2>5. QED
    BY <1>1, <1>4, <2>3, <2>4, BothWritten, Retired
<1>5. QED
  BY <1>2, <1>3, <1>4 DEF ExecutePopRegister

(* execute_x64_return.                                                       *)
LEMMA ReturnEnds == ASSUME GuestTyped, ExecuteReturn PROVE Ends
<1> DEFINE i == Instruction
<1>1. WithinBudget /\ reg[RSP] \in Int /\ QwordBytes \in 0 .. 16 /\ RSP \in Registers
  BY Dispatched, Begins DEF ExecuteReturn
<1>2. CASE Unsupported(i, i.opcode)
  BY <1>1, <1>2, UnsupportedEnds
<1>3. CASE ~Translatable(reg[RSP], QwordBytes) /\ InvalidMemory(i, reg[RSP])
  BY <1>1, <1>3, ReadFaultEnds
<1>4. CASE /\ Translatable(reg[RSP], QwordBytes)
           /\ reg' = [reg EXCEPT ![RSP] = RaisedStack]
           /\ Retires(i, Popped) /\ UNCHANGED <<mem, xmm, flags>>
  BY <1>1, <1>4, StackIs, RegisterWritten, Retired
<1>5. QED
  BY <1>2, <1>3, <1>4 DEF ExecuteReturn

(* execute_x64_call_relative.                                                *)
LEMMA CallRelativeEnds == ASSUME GuestTyped, ExecuteCallRelative PROVE Ends
<1> DEFINE i == Instruction
           return_address == Beyond(i.next, DwordBytes)
           target == Beyond(return_address, Displacement(i.next, DwordBytes))
<1>1. WithinBudget /\ i.next \in Int /\ DwordBytes \in 0 .. 16 /\ DwordBytes \in Nat /\ DwordBytes > 0
      /\ MemoryTyped
  BY Dispatched, Begins DEF ExecuteCallRelative
<1>2. CASE Unsupported(i, i.opcode)
  BY <1>1, <1>2, UnsupportedEnds
<1>3. CASE ~Translatable(i.next, DwordBytes) /\ InvalidMemory(i, i.next)
  BY <1>1, <1>3, ReadFaultEnds
<1>4. CASE PushFails(i)
  BY <1>1, <1>4, PushFailsEnds
<1>5. CASE Translatable(i.next, DwordBytes) /\ Pushes(i, return_address, target)
  <2>1. Displacement(i.next, DwordBytes) \in Int
    BY <1>1, <1>5, DisplacementIs
  <2>2. return_address \in Int
    <3>1. DwordBytes \in Int
      BY <1>1
    <3>2. QED
      BY <1>1, <3>1, BeyondIs
  <2>3. target \in Int
    BY <2>1, <2>2, BeyondIs
  <2>4. QED
    BY <1>1, <1>5, <2>2, <2>3, PushEnds
<1>6. QED
  BY <1>2, <1>3, <1>4, <1>5 DEF ExecuteCallRelative

(* A relative jump, taken or not.                                            *)
LEMMA JumpEnds ==
  ASSUME GuestTyped, WithinBudget, NEW at \in Int, NEW n \in 1 .. 15, NEW taken,
         JumpsRelative(Instruction, at, n, taken)
  PROVE  Ends
<1>1. CASE ~Translatable(at, n) /\ InvalidMemory(Instruction, at)
  BY <1>1, ReadFaultEnds
<1>2. CASE /\ Translatable(at, n)
           /\ Retires(Instruction, Beyond(at, n + IF taken THEN Displacement(at, n) ELSE 0))
           /\ UNCHANGED <<mem, reg, xmm, flags>>
  <2>1. PICK d : d = n + IF taken THEN Displacement(at, n) ELSE 0
    OBVIOUS
  <2>2. d \in Int
    <3>1. Displacement(at, n) \in Int
      BY <1>2, Begins, DisplacementIs
    <3>2. QED
      BY <2>1, <3>1
  <2>3. Beyond(at, d) \in Int
    BY <2>2, BeyondIs
  <2>4. QED
    BY <1>2, <2>1, <2>3, NothingWritten, Retired
<1>3. QED
  BY <1>1, <1>2 DEF JumpsRelative

(* The four handlers of relative jumps.                                      *)
LEMMA JumpsEnd ==
  ASSUME GuestTyped, \/ ExecuteJumpRelativeNear \/ ExecuteJumpRelativeShort
                     \/ ExecuteJumpShortCondition \/ ExecuteJumpNearCondition
  PROVE  Ends
<1> DEFINE i == Instruction
<1>1. WithinBudget /\ i.next \in Int /\ Beyond(i.next, 1) \in Int /\ DwordBytes \in 1 .. 15 /\ 1 \in 1 .. 15
  BY Dispatched, Begins, Widths
     DEF ExecuteJumpRelativeNear, ExecuteJumpRelativeShort, ExecuteJumpShortCondition, ExecuteJumpNearCondition
<1>2. CASE Unsupported(i, i.opcode)
  BY <1>1, <1>2, UnsupportedEnds
<1>3. ASSUME NEW at \in {i.next, Beyond(i.next, 1)}, NEW n \in {1, DwordBytes}, NEW taken, JumpsRelative(i, at, n, taken)
      PROVE Ends
  BY <1>1, <1>3, JumpEnds
<1>4. QED
  BY <1>2, <1>3
     DEF ExecuteJumpRelativeNear, ExecuteJumpRelativeShort, ExecuteJumpShortCondition, ExecuteJumpNearCondition

(* The operand behind a one-byte or a two-byte opcode.                       *)
LEMMA OperandBegins ==
  ASSUME GuestTyped, NEW at \in {Instruction.next, Beyond(Instruction.next, 1)}
  PROVE  /\ OperandTyped(TryDecodeRmOperand(Instruction, at))
         /\ TryDecodeRmOperand(Instruction, at).ok => at \in Region
<1>1. at \in Int /\ MemoryTyped /\ RegistersTyped
  BY Begins
<1>2. QED
  BY <1>1, OperandIs

(* Where the immediate behind an operand begins and ends.                    *)
LEMMA NextIs ==
  ASSUME NEW operand, OperandTyped(operand), NEW n \in {1, DwordBytes}
  PROVE  operand.next \in Int /\ Beyond(operand.next, n) \in Int
<1>1. operand.next \in Int /\ n \in Int
  BY Widths DEF OperandTyped
<1>2. QED
  BY <1>1, BeyondIs

(* inc and dec of a register.                                                *)
LEMMA IncDecEnds ==
  ASSUME GuestTyped, WithinBudget, Translatable(Instruction.next, 1),
         NEW w \in {Byte, Dword, Qword}, IncDec(Instruction, w)
  PROVE  Ends
<1> DEFINE i == Instruction
           r == RmIndex(i, i.next)
           lhs == GetRegister(r, w)
           is_decrement == Operation(i.next) = 1
           value == IF is_decrement THEN Minus(lhs, 1, w.half) ELSE Plus(lhs, 1, w.half)
<1>1. i.next \in Region /\ RegistersTyped /\ MemoryTyped /\ w.half \in Int /\ Beyond(i.next, 1) \in Int
  BY Begins, ByteInRegion
<1>2. r \in Registers
  BY <1>1, IndexIs
<1>3. lhs \in Int
  BY <1>1, <1>2, GetRegisterIs
<1>4. value \in Int
  <2> HIDE DEF lhs
  <2>1. 1 \in Int
    OBVIOUS
  <2>2. Minus(lhs, 1, w.half) \in Int /\ Plus(lhs, 1, w.half) \in Int
    BY <1>1, <1>3, <2>1, WordSumsAre
  <2>3. QED
    BY <2>2
<1>5. reg' = [reg EXCEPT ![r] = value] /\ Retires(i, Beyond(i.next, 1)) /\ UNCHANGED <<mem, xmm>>
  BY DEF IncDec
<1> HIDE DEF r, value
<1>6. QED
  BY <1>1, <1>2, <1>4, <1>5, RegisterWritten, Retired

(* The indirect call: its pointer is read before the push.                   *)
LEMMA CallIndirectEnds ==
  ASSUME GuestTyped, WithinBudget, Translatable(Instruction.next, 1), CallIndirect(Instruction)
  PROVE  Ends
<1> DEFINE i == Instruction
           pointer == TryGetMemoryOperandAddress(i, i.next)
<1>1. i.next \in Region /\ RegistersTyped /\ MemoryTyped /\ Beyond(i.next, 1) \in Int
      /\ QwordBytes \in 0 .. 16 /\ QwordBytes \in Nat
  BY Begins, ByteInRegion
<1>2. OperandTyped(pointer)
  BY <1>1, MemoryOperandIs
<1>3. reg[RmIndex(i, i.next)] \in Int
  BY <1>1, IndexIs DEF RegistersTyped
<1>4. CASE PushFails(i)
  BY <1>4, PushFailsEnds
<1>5. CASE Pushes(i, Beyond(i.next, 1), reg[RmIndex(i, i.next)])
  BY <1>1, <1>3, <1>5, PushEnds
<1>6. CASE ~Usable(pointer, QwordBytes) /\ InvalidMemory(i, pointer.address)
  BY <1>1, <1>2, <1>6, OperandFaultEnds
<1>7. CASE Unsupported(i, i.opcode)
  BY <1>7, UnsupportedEnds
<1>8. CASE /\ Usable(pointer, QwordBytes) /\ Mod(i.next) = 0 /\ mem[i.next] % 8 = 5 /\ ~i.b
           /\ Pushes(i, pointer.next, Load(pointer.address, QwordBytes))
  <2>1. pointer.next \in Int /\ pointer.address \in Int
    BY <1>2 DEF OperandTyped
  <2>2. ~pointer.is_register
    <3> DEFINE disp_at == Beyond(i.next, 1)
    <3>1. mem[i.next] % 8 # 4
      BY <1>8
    <3>2. \/ pointer = Unreadable(disp_at)
          \/ \E a, n : pointer = [ok |-> TRUE, is_register |-> FALSE, address |-> a, next |-> n]
      BY <3>1, Zenon DEF TryGetMemoryOperandAddress
    <3>3. ~Unreadable(disp_at).is_register
      BY DEF Unreadable
    <3>4. \A a, n : ~[ok |-> TRUE, is_register |-> FALSE, address |-> a, next |-> n].is_register
      OBVIOUS
    <3> HIDE DEF pointer
    <3>5. QED
      BY <3>2, <3>3, <3>4
  <2>3. Translatable(pointer.address, QwordBytes)
    BY <1>8, <2>2 DEF Usable
  <2>4. Load(pointer.address, QwordBytes) \in Int
    BY <1>1, <2>1, <2>3, LoadIs
  <2> HIDE DEF pointer
  <2>5. QED
    BY <1>8, <2>1, <2>4, PushEnds
<1>9. QED
  BY <1>4, <1>5, <1>6, <1>7, <1>8 DEF CallIndirect

(* execute_x64_group_ff.                                                     *)
LEMMA GroupFFEnds == ASSUME GuestTyped, ExecuteGroupFF PROVE Ends
<1> DEFINE i == Instruction
<1>1. WithinBudget /\ i.next \in Int /\ 1 \in 0 .. 16 /\ OperandWidth(i) \in {Byte, Dword, Qword}
  BY Dispatched, Begins DEF ExecuteGroupFF
<1>2. CASE Unsupported(i, i.opcode)
  BY <1>1, <1>2, UnsupportedEnds
<1>3. CASE ~Translatable(i.next, 1) /\ InvalidMemory(i, i.next)
  BY <1>1, <1>3, ReadFaultEnds
<1>4. CASE Translatable(i.next, 1) /\ IncDec(i, OperandWidth(i))
  BY <1>1, <1>4, IncDecEnds
<1>5. CASE Translatable(i.next, 1) /\ CallIndirect(i)
  BY <1>1, <1>5, CallIndirectEnds
<1>6. QED
  BY <1>2, <1>3, <1>4, <1>5 DEF ExecuteGroupFF

(* execute_x64_mov_immediate32.                                              *)
LEMMA MovImmediate32Ends == ASSUME GuestTyped, ExecuteMovImmediate32 PROVE Ends
<1> DEFINE i == Instruction
           r == Extended(i.opcode - \hB8, i.b)
<1>1. WithinBudget /\ i.opcode \in Nat /\ i.next \in Int /\ i.opcode \in \hB8 .. \hBF
      /\ DwordBytes \in 0 .. 16 /\ DwordBytes \in Nat /\ DwordBytes \in Int /\ MemoryTyped
  BY Dispatched, Begins DEF ExecuteMovImmediate32, Dispatches
<1>2. CASE Unsupported(i, i.opcode)
  BY <1>1, <1>2, UnsupportedEnds
<1>3. CASE ~Translatable(i.next, DwordBytes) /\ InvalidMemory(i, i.next)
  BY <1>1, <1>3, ReadFaultEnds
<1>4. CASE /\ Translatable(i.next, DwordBytes)
           /\ reg' = [reg EXCEPT ![r] = Load(i.next, DwordBytes)]
           /\ Retires(i, Beyond(i.next, DwordBytes)) /\ UNCHANGED <<mem, xmm, flags>>
  <2>1. r \in Registers
    <3>1. \hB8 \in Nat /\ i.opcode \in \hB8 .. \hB8 + 7
      BY <1>1
    <3>2. QED
      BY <1>1, <3>1, OpcodeIndexIs
  <2>2. Load(i.next, DwordBytes) \in Int /\ Beyond(i.next, DwordBytes) \in Int
    BY <1>1, <1>4, LoadIs, BeyondIs
  <2> HIDE DEF r
  <2>3. QED
    BY <1>1, <1>4, <2>1, <2>2, RegisterWritten, Retired
<1>5. QED
  BY <1>2, <1>3, <1>4 DEF ExecuteMovImmediate32

(* execute_x64_mov_immediate_to_rm reads the immediate before it writes.     *)
LEMMA MovImmediateToRmEnds == ASSUME GuestTyped, ExecuteMovImmediateToRm PROVE Ends
<1> DEFINE i == Instruction
           operand == TryDecodeRmOperand(i, i.next)
           w == OperandWidth(i)
<1>1. WithinBudget /\ i.next \in Int /\ 1 \in 0 .. 16 /\ w \in {Byte, Dword, Qword} /\ w.bytes \in 0 .. 16
      /\ DwordBytes \in 0 .. 16 /\ DwordBytes \in Nat /\ DwordBytes > 0 /\ MemoryTyped /\ RegistersTyped
  BY Dispatched, Begins DEF ExecuteMovImmediateToRm
<1>2. OperandTyped(operand) /\ (operand.ok => i.next \in Region)
  BY OperandBegins
<1>3. operand.next \in Int /\ Beyond(operand.next, DwordBytes) \in Int
  BY <1>2, NextIs
<1> HIDE DEF operand, w
<1>4. CASE Unsupported(i, i.opcode)
  BY <1>1, <1>4, UnsupportedEnds
<1>5. CASE ~Translatable(i.next, 1) /\ InvalidMemory(i, i.next)
  BY <1>1, <1>5, ReadFaultEnds
<1>6. CASE ~operand.ok /\ InvalidMemory(i, operand.address)
  BY <1>1, <1>2, <1>6, UndecodedEnds
<1>7. CASE ~Translatable(operand.next, DwordBytes) /\ InvalidMemory(i, operand.next)
  BY <1>1, <1>3, <1>7, ReadFaultEnds
<1>8. CASE ~Usable(operand, w.bytes) /\ InvalidMemory(i, operand.address)
  BY <1>1, <1>2, <1>8, OperandFaultEnds
<1>9. CASE /\ Usable(operand, w.bytes) /\ Translatable(operand.next, DwordBytes)
           /\ StoreRm(operand, i, i.next, w, Immediate(operand.next, DwordBytes, w))
           /\ Retires(i, Beyond(operand.next, DwordBytes)) /\ UNCHANGED <<xmm, flags>>
  <2>1. Immediate(operand.next, DwordBytes, w) \in Int
    BY <1>1, <1>3, <1>9, ImmediateIs
  <2>2. i.next \in Region
    BY <1>2, <1>9 DEF Usable
  <2>3. MemoryTyped' /\ RegistersTyped'
    BY <1>1, <1>2, <1>9, <2>1, <2>2, StoreRmKeeps
  <2>4. QED
    BY <1>1, <1>3, <1>9, <2>3, BothWritten, Retired
<1>10. QED
  BY <1>4, <1>5, <1>6, <1>7, <1>8, <1>9 DEF ExecuteMovImmediateToRm, operand, w

(* execute_x64_mov_register, in both directions.                             *)
LEMMA MovRegisterEnds == ASSUME GuestTyped, ExecuteMovRegister PROVE Ends
<1> DEFINE i == Instruction
           operand == TryDecodeRmOperand(i, i.next)
           w == OperandWidth(i)
           r == RegIndex(i, i.next)
<1>1. WithinBudget /\ w \in {Byte, Dword, Qword} /\ w.bytes \in 0 .. 16 /\ MemoryTyped /\ RegistersTyped
  BY Dispatched, Begins DEF ExecuteMovRegister
<1>2. OperandTyped(operand) /\ (operand.ok => i.next \in Region) /\ operand.next \in Int
  BY OperandBegins DEF OperandTyped
<1> HIDE DEF operand, w
<1>3. CASE ~Usable(operand, w.bytes) /\ InvalidMemory(i, operand.address)
  BY <1>1, <1>2, <1>3, OperandFaultEnds
<1>4. Usable(operand, w.bytes) => i.next \in Region /\ r \in Registers
  BY <1>1, <1>2, IndexIs DEF Usable
<1> HIDE DEF r
<1>5. CASE /\ Usable(operand, w.bytes)
           /\ StoreRm(operand, i, i.next, w, GetRegister(r, w))
           /\ Retires(i, operand.next) /\ UNCHANGED <<xmm, flags>>
  <2>1. GetRegister(r, w) \in Int
    BY <1>1, <1>4, <1>5, GetRegisterIs
  <2>2. MemoryTyped' /\ RegistersTyped'
    BY <1>1, <1>2, <1>4, <1>5, <2>1, StoreRmKeeps
  <2>3. QED
    BY <1>1, <1>2, <1>5, <2>2, BothWritten, Retired
<1>6. CASE /\ Usable(operand, w.bytes)
           /\ reg' = [reg EXCEPT ![r] = RmValue(operand, i, i.next, w)]
           /\ Retires(i, operand.next) /\ UNCHANGED <<mem, xmm, flags>>
  <2>1. RmValue(operand, i, i.next, w) \in Int
    BY <1>1, <1>2, <1>4, <1>6, ValueIs
  <2>2. QED
    BY <1>1, <1>2, <1>4, <1>6, <2>1, RegisterWritten, Retired
<1>7. QED
  BY <1>3, <1>5, <1>6 DEF ExecuteMovRegister, operand, w, r

(* execute_x64_lea: the effective address is never accessed.                 *)
LEMMA LeaEnds == ASSUME GuestTyped, ExecuteLea PROVE Ends
<1> DEFINE i == Instruction
           operand == TryDecodeRmOperand(i, i.next)
           w == OperandWidth(i)
           r == RegIndex(i, i.next)
<1>1. WithinBudget /\ w \in {Byte, Dword, Qword} /\ MemoryTyped
  BY Dispatched, Begins DEF ExecuteLea
<1>2. OperandTyped(operand) /\ (operand.ok => i.next \in Region) /\ operand.next \in Int /\ operand.address \in Int
  BY OperandBegins DEF OperandTyped
<1> HIDE DEF operand, w
<1>3. operand.ok => r \in Registers
  BY <1>1, <1>2, IndexIs
<1> HIDE DEF r
<1>4. CASE ~operand.ok /\ InvalidMemory(i, operand.address)
  BY <1>1, <1>2, <1>4, UndecodedEnds
<1>5. CASE Unsupported(i, i.opcode)
  BY <1>1, <1>5, UnsupportedEnds
<1>6. CASE /\ operand.ok
           /\ reg' = [reg EXCEPT ![r] = Truncated(operand.address, w)]
           /\ Retires(i, operand.next) /\ UNCHANGED <<mem, xmm, flags>>
  <2>1. Truncated(operand.address, w) \in Int
    BY <1>1, <1>2, TruncatedIs
  <2>2. QED
    BY <1>1, <1>2, <1>3, <1>6, <2>1, RegisterWritten, Retired
<1>7. QED
  BY <1>4, <1>5, <1>6 DEF ExecuteLea, operand, w, r

(* execute_x64_group80.                                                      *)
LEMMA Group80Ends == ASSUME GuestTyped, ExecuteGroup80 PROVE Ends
<1> DEFINE i == Instruction
           operand == TryDecodeRmOperand(i, i.next)
<1>1. WithinBudget /\ i.next \in Int /\ 1 \in 0 .. 16
  BY Dispatched, Begins DEF ExecuteGroup80
<1>2. OperandTyped(operand) /\ operand.next \in Int /\ Beyond(operand.next, 1) \in Int
  BY OperandBegins, NextIs
<1> HIDE DEF operand
<1>3. CASE Unsupported(i, i.opcode)
  BY <1>1, <1>3, UnsupportedEnds
<1>4. CASE ~Translatable(i.next, 1) /\ InvalidMemory(i, i.next)
  BY <1>1, <1>4, ReadFaultEnds
<1>5. CASE ~Usable(operand, 1) /\ InvalidMemory(i, operand.address)
  BY <1>1, <1>2, <1>5, OperandFaultEnds
<1>6. CASE ~Translatable(operand.next, 1) /\ InvalidMemory(i, operand.next)
  BY <1>1, <1>2, <1>6, ReadFaultEnds
<1>7. CASE Retires(i, Beyond(operand.next, 1)) /\ UNCHANGED <<mem, reg, xmm>>
  BY <1>1, <1>2, <1>7, NothingWritten, Retired
<1>8. QED
  BY <1>3, <1>4, <1>5, <1>6, <1>7 DEF ExecuteGroup80, operand

(* set_register8_low writes one register.                                    *)
LEMMA LowByteIs ==
  ASSUME RegistersTyped, NEW r \in Registers, NEW v \in Int
  PROVE  SetRegister8Low(r, v) = [reg EXCEPT ![r] = (reg[r] - (reg[r] % 256)) + v]
         /\ (reg[r] - (reg[r] % 256)) + v \in Int
BY DEF SetRegister8Low, RegistersTyped

(* execute_x64_secondary_setcc.                                              *)
LEMMA SetccEnds == ASSUME GuestTyped, ExecuteSecondarySetcc PROVE Ends
<1> DEFINE i == Instruction
           at == Beyond(i.next, 1)
           condition == (i.secondary = \h94) = flags.zero
           v == IF condition THEN 1 ELSE 0
<1>1. WithinBudget /\ at \in Int /\ 1 \in 0 .. 16 /\ 1 \in Int /\ MemoryTyped /\ RegistersTyped
  BY Dispatched, Begins DEF ExecuteSecondarySetcc
<1>2. CASE Unsupported(i, i.secondary)
  BY <1>1, <1>2, UnsupportedEnds
<1>3. CASE ~Translatable(at, 1) /\ InvalidMemory(i, at)
  BY <1>1, <1>3, ReadFaultEnds
<1>4. CASE /\ Translatable(at, 1)
           /\ reg' = SetRegister8Low(RmIndex(i, at), v)
           /\ Retires(i, Beyond(at, 1)) /\ UNCHANGED <<mem, xmm, flags>>
  <2>1. v \in Int
    OBVIOUS
  <2>2. RmIndex(i, at) \in Registers
    BY <1>1, <1>4, ByteInRegion, IndexIs
  <2>3. Beyond(at, 1) \in Int
    BY <1>1, BeyondIs
  <2> HIDE DEF v, at
  <2>4. QED
    BY <1>1, <1>4, <2>1, <2>2, <2>3, LowByteIs, RegisterWritten, Retired
<1>5. QED
  BY <1>2, <1>3, <1>4 DEF ExecuteSecondarySetcc

(* execute_x64_secondary_movzx_byte.                                         *)
LEMMA MovzxEnds == ASSUME GuestTyped, ExecuteSecondaryMovzxByte PROVE Ends
<1> DEFINE i == Instruction
           at == Beyond(i.next, 1)
           operand == TryDecodeRmOperand(i, at)
           r == RegIndex(i, at)
<1>1. WithinBudget /\ at \in Int /\ 1 \in 0 .. 16 /\ MemoryTyped /\ RegistersTyped /\ Byte.bytes = 1
  BY Dispatched, Begins, Widths DEF ExecuteSecondaryMovzxByte
<1>2. OperandTyped(operand) /\ (operand.ok => at \in Region) /\ operand.next \in Int
  BY OperandBegins DEF OperandTyped
<1> HIDE DEF operand, at
<1>3. CASE ~Usable(operand, 1) /\ InvalidMemory(i, operand.address)
  BY <1>1, <1>2, <1>3, OperandFaultEnds
<1>4. CASE /\ Usable(operand, 1)
           /\ reg' = [reg EXCEPT ![r] = RmValue(operand, i, at, Byte)]
           /\ Retires(i, operand.next) /\ UNCHANGED <<mem, xmm, flags>>
  <2>1. at \in Region /\ r \in Registers /\ Byte \in {Byte, Dword, Qword}
    BY <1>1, <1>2, <1>4, IndexIs DEF Usable
  <2>2. RmValue(operand, i, at, Byte) \in Int
    BY <1>1, <1>2, <1>4, <2>1, ValueIs
  <2> HIDE DEF r
  <2>3. QED
    BY <1>1, <1>2, <1>4, <2>1, <2>2, RegisterWritten, Retired
<1>5. QED
  BY <1>3, <1>4 DEF ExecuteSecondaryMovzxByte, operand, at

(* execute_x64_nop.                                                          *)
LEMMA NopEnds == ASSUME GuestTyped, ExecuteNop PROVE Ends
<1> DEFINE i == Instruction
<1>1. WithinBudget /\ i.next \in Int
  BY Dispatched, Begins DEF ExecuteNop
<1>2. CASE Unsupported(i, i.opcode)
  BY <1>1, <1>2, UnsupportedEnds
<1>3. CASE Retires(i, i.next) /\ UNCHANGED <<mem, reg, xmm, flags>>
  BY <1>1, <1>3, NothingWritten, Retired
<1>4. QED
  BY <1>2, <1>3 DEF ExecuteNop

(* The handlers that take only a register operand.                           *)
LEMMA RegisterOperandIs ==
  ASSUME GuestTyped, Translatable(Instruction.next, 1), NEW w \in {Byte, Dword, Qword}
  PROVE  /\ RmIndex(Instruction, Instruction.next) \in Registers
         /\ GetRegister(RmIndex(Instruction, Instruction.next), w) \in Int
         /\ GetRegister(RegIndex(Instruction, Instruction.next), w) \in Int
<1> DEFINE at == Instruction.next
<1>1. at \in Region /\ MemoryTyped /\ RegistersTyped
  BY Begins, ByteInRegion
<1>2. RmIndex(Instruction, at) \in Registers /\ RegIndex(Instruction, at) \in Registers
  BY <1>1, IndexIs
<1>3. QED
  BY <1>1, <1>2, GetRegisterIs

(* The number of bits of an operand.                                         *)
LEMMA BitsAre ==
  ASSUME NEW w \in {Byte, Dword, Qword}
  PROVE  8 * w.bytes \in Nat
<1>1. w.bytes \in Nat
  BY Widths
<1>2. QED
  BY <1>1

(* execute_x64_xor_register.                                                 *)
LEMMA XorRegisterEnds == ASSUME GuestTyped, ExecuteXorRegister PROVE Ends
<1> DEFINE i == Instruction
           r == RmIndex(i, i.next)
           value == BitXor(GetRegister(r, Dword), GetRegister(RegIndex(i, i.next), Dword), 8 * DwordBytes)
<1>1. WithinBudget /\ i.next \in Int /\ Beyond(i.next, 1) \in Int /\ 1 \in 0 .. 16
      /\ Dword \in {Byte, Dword, Qword} /\ Dword.bytes = DwordBytes
  BY Dispatched, Begins, Widths DEF ExecuteXorRegister
<1>2. CASE Unsupported(i, i.opcode)
  BY <1>1, <1>2, UnsupportedEnds
<1>3. CASE ~Translatable(i.next, 1) /\ InvalidMemory(i, i.next)
  BY <1>1, <1>3, ReadFaultEnds
<1>4. CASE /\ Translatable(i.next, 1) /\ reg' = [reg EXCEPT ![r] = value]
           /\ Retires(i, Beyond(i.next, 1)) /\ UNCHANGED <<mem, xmm>>
  <2>1. r \in Registers
    BY <1>1, <1>4, RegisterOperandIs
  <2>2. value \in Int
    <3>1. GetRegister(r, Dword) \in Int /\ GetRegister(RegIndex(i, i.next), Dword) \in Int
      BY <1>1, <1>4, RegisterOperandIs
    <3>2. 8 * DwordBytes \in Nat
      BY <1>1, BitsAre
    <3>3. value \in Nat
      BY <3>1, <3>2, BitwiseIs
    <3> HIDE DEF value
    <3>4. QED
      BY <3>3
  <2> HIDE DEF value, r
  <2>3. QED
    BY <1>1, <1>4, <2>1, <2>2, RegisterWritten, Retired
<1>5. QED
  BY <1>2, <1>3, <1>4 DEF ExecuteXorRegister, RegisterForm

(* execute_x64_or_register_byte.                                             *)
LEMMA OrRegisterByteEnds == ASSUME GuestTyped, ExecuteOrRegisterByte PROVE Ends
<1> DEFINE i == Instruction
           r == RmIndex(i, i.next)
           value == BitOr(GetRegister(r, Byte), GetRegister(RegIndex(i, i.next), Byte), 8)
<1>1. WithinBudget /\ i.next \in Int /\ Beyond(i.next, 1) \in Int /\ 1 \in 0 .. 16
      /\ Byte \in {Byte, Dword, Qword} /\ RegistersTyped
  BY Dispatched, Begins, Widths DEF ExecuteOrRegisterByte
<1>2. CASE Unsupported(i, i.opcode)
  BY <1>1, <1>2, UnsupportedEnds
<1>3. CASE ~Translatable(i.next, 1) /\ InvalidMemory(i, i.next)
  BY <1>1, <1>3, ReadFaultEnds
<1>4. CASE /\ Translatable(i.next, 1) /\ reg' = SetRegister8Low(r, value)
           /\ Retires(i, Beyond(i.next, 1)) /\ UNCHANGED <<mem, xmm>>
  <2>1. r \in Registers
    BY <1>1, <1>4, RegisterOperandIs
  <2>2. value \in Int
    <3>1. GetRegister(r, Byte) \in Int /\ GetRegister(RegIndex(i, i.next), Byte) \in Int
      BY <1>1, <1>4, RegisterOperandIs
    <3>2. 8 \in Nat
      OBVIOUS
    <3>3. value \in Nat
      BY <3>1, <3>2, BitwiseIs
    <3> HIDE DEF value
    <3>4. QED
      BY <3>3
  <2> HIDE DEF value, r
  <2>3. QED
    BY <1>1, <1>4, <2>1, <2>2, LowByteIs, RegisterWritten, Retired
<1>5. QED
  BY <1>2, <1>3, <1>4 DEF ExecuteOrRegisterByte, RegisterForm

(* execute_x64_test_register.                                                *)
LEMMA TestRegisterEnds == ASSUME GuestTyped, ExecuteTestRegister PROVE Ends
<1> DEFINE i == Instruction
<1>1. WithinBudget /\ i.next \in Int /\ Beyond(i.next, 1) \in Int /\ 1 \in 0 .. 16
  BY Dispatched, Begins DEF ExecuteTestRegister
<1>2. CASE Unsupported(i, i.opcode)
  BY <1>1, <1>2, UnsupportedEnds
<1>3. CASE ~Translatable(i.next, 1) /\ InvalidMemory(i, i.next)
  BY <1>1, <1>3, ReadFaultEnds
<1>4. CASE reg' = reg /\ Retires(i, Beyond(i.next, 1)) /\ UNCHANGED <<mem, xmm>>
  BY <1>1, <1>4, NothingWritten, Retired
<1>5. QED
  BY <1>2, <1>3, <1>4 DEF ExecuteTestRegister, RegisterForm

(* execute_x64_or_rm_to_register.                                            *)
LEMMA OrRmToRegisterEnds == ASSUME GuestTyped, ExecuteOrRmToRegister PROVE Ends
<1> DEFINE i == Instruction
           operand == TryDecodeRmOperand(i, i.next)
           w == OperandWidth(i)
           r == RegIndex(i, i.next)
           value == BitOr(GetRegister(r, w), RmValue(operand, i, i.next, w), 8 * w.bytes)
<1>1. WithinBudget /\ w \in {Byte, Dword, Qword} /\ w.bytes \in 0 .. 16 /\ MemoryTyped /\ RegistersTyped
  BY Dispatched, Begins DEF ExecuteOrRmToRegister
<1>2. OperandTyped(operand) /\ (operand.ok => i.next \in Region) /\ operand.next \in Int
  BY OperandBegins DEF OperandTyped
<1> HIDE DEF operand, w
<1>3. CASE ~Usable(operand, w.bytes) /\ InvalidMemory(i, operand.address)
  BY <1>1, <1>2, <1>3, OperandFaultEnds
<1>4. CASE /\ Usable(operand, w.bytes) /\ reg' = [reg EXCEPT ![r] = value]
           /\ Retires(i, operand.next) /\ UNCHANGED <<mem, xmm>>
  <2>1. i.next \in Region /\ r \in Registers
    BY <1>1, <1>2, <1>4, IndexIs DEF Usable
  <2>2. GetRegister(r, w) \in Int /\ RmValue(operand, i, i.next, w) \in Int
    BY <1>1, <1>2, <1>4, <2>1, GetRegisterIs, ValueIs
  <2>3. 8 * w.bytes \in Nat
    BY <1>1, BitsAre
  <2>4. value \in Nat
    BY <2>2, <2>3, BitwiseIs
  <2> HIDE DEF value, r
  <2>5. value \in Int
    BY <2>4
  <2>6. QED
    BY <1>1, <1>2, <1>4, <2>1, <2>5, RegisterWritten, Retired
<1>5. QED
  BY <1>3, <1>4 DEF ExecuteOrRmToRegister, operand, w

(* execute_x64_test_accumulator_immediate.                                   *)
LEMMA TestAccumulatorEnds == ASSUME GuestTyped, ExecuteTestAccumulatorImmediate PROVE Ends
<1> DEFINE i == Instruction
<1>1. WithinBudget /\ i.next \in Int /\ DwordBytes \in 0 .. 16 /\ DwordBytes \in Int
  BY Dispatched, Begins DEF ExecuteTestAccumulatorImmediate
<1>2. Beyond(i.next, DwordBytes) \in Int
  BY <1>1, BeyondIs
<1>3. CASE ~Translatable(i.next, DwordBytes) /\ InvalidMemory(i, i.next)
  BY <1>1, <1>3, ReadFaultEnds
<1>4. CASE Retires(i, Beyond(i.next, DwordBytes)) /\ UNCHANGED <<mem, reg, xmm>>
  BY <1>1, <1>2, <1>4, NothingWritten, Retired
<1>5. QED
  BY <1>3, <1>4 DEF ExecuteTestAccumulatorImmediate

(* execute_x64_group_f6.                                                     *)
LEMMA GroupF6Ends == ASSUME GuestTyped, ExecuteGroupF6 PROVE Ends
<1> DEFINE i == Instruction
           operand == TryDecodeRmOperand(i, i.next)
<1>1. WithinBudget /\ 1 \in 0 .. 16
  BY Dispatched, Begins DEF ExecuteGroupF6
<1>2. OperandTyped(operand) /\ operand.next \in Int /\ Beyond(operand.next, 1) \in Int
  BY OperandBegins, NextIs
<1> HIDE DEF operand
<1>3. CASE Unsupported(i, i.opcode)
  BY <1>1, <1>3, UnsupportedEnds
<1>4. CASE ~operand.ok /\ InvalidMemory(i, operand.address)
  BY <1>1, <1>2, <1>4, UndecodedEnds
<1>5. CASE ~Translatable(operand.next, 1) /\ InvalidMemory(i, operand.next)
  BY <1>1, <1>2, <1>5, ReadFaultEnds
<1>6. CASE ~Usable(operand, 1) /\ InvalidMemory(i, operand.address)
  BY <1>1, <1>2, <1>6, OperandFaultEnds
<1>7. CASE Retires(i, Beyond(operand.next, 1)) /\ UNCHANGED <<mem, reg, xmm>>
  BY <1>1, <1>2, <1>7, NothingWritten, Retired
<1>8. QED
  BY <1>3, <1>4, <1>5, <1>6, <1>7 DEF ExecuteGroupF6, operand

(* execute_x64_group_f7.                                                     *)
LEMMA GroupF7Ends == ASSUME GuestTyped, ExecuteGroupF7 PROVE Ends
<1> DEFINE i == Instruction
           operand == TryDecodeRmOperand(i, i.next)
           w == OperandWidth(i)
           rhs == RmValue(operand, i, i.next, w)
           value == Minus(0, rhs, w.half)
<1>1. WithinBudget /\ w \in {Byte, Dword, Qword} /\ w.bytes \in 0 .. 16 /\ w.half \in Int
      /\ MemoryTyped /\ RegistersTyped
  BY Dispatched, Begins DEF ExecuteGroupF7
<1>2. OperandTyped(operand) /\ (operand.ok => i.next \in Region) /\ operand.next \in Int
  BY OperandBegins DEF OperandTyped
<1> HIDE DEF operand, w
<1>3. CASE Unsupported(i, i.opcode)
  BY <1>1, <1>3, UnsupportedEnds
<1>4. CASE ~operand.ok /\ InvalidMemory(i, operand.address)
  BY <1>1, <1>2, <1>4, UndecodedEnds
<1>5. CASE ~Usable(operand, w.bytes) /\ InvalidMemory(i, operand.address)
  BY <1>1, <1>2, <1>5, OperandFaultEnds
<1>6. CASE /\ Usable(operand, w.bytes) /\ StoreRm(operand, i, i.next, w, value)
           /\ Retires(i, operand.next) /\ xmm' = xmm
  <2>1. i.next \in Region
    BY <1>2, <1>6 DEF Usable
  <2>2. rhs \in Int /\ 0 \in Int
    BY <1>1, <1>2, <1>6, <2>1, ValueIs
  <2> HIDE DEF rhs
  <2>3. value \in Int
    BY <1>1, <2>2, WordSumsAre
  <2> HIDE DEF value
  <2>4. MemoryTyped' /\ RegistersTyped'
    BY <1>1, <1>2, <1>6, <2>1, <2>3, StoreRmKeeps
  <2>5. QED
    BY <1>1, <1>2, <1>6, <2>4, BothWritten, Retired
<1>7. QED
  BY <1>3, <1>4, <1>5, <1>6 DEF ExecuteGroupF7, operand, w

(* add, sub and cmp with an immediate: the store comes last.                 *)
LEMMA AddSubCmpEnds ==
  ASSUME GuestTyped, WithinBudget, NEW n \in {1, DwordBytes}, AddSubCmpImmediate(Instruction, n)
  PROVE  Ends
<1> DEFINE i == Instruction
           operand == TryDecodeRmOperand(i, i.next)
           w == OperandWidth(i)
           lhs == RmValue(operand, i, i.next, w)
           rhs == Immediate(operand.next, n, w)
           sum == Plus(lhs, rhs, w.half)
           difference == Minus(lhs, rhs, w.half)
           next == Beyond(operand.next, n)
<1>1. /\ w \in {Byte, Dword, Qword} /\ w.bytes \in 0 .. 16 /\ w.half \in Int
      /\ MemoryTyped /\ RegistersTyped /\ n \in 0 .. 16 /\ n \in Nat /\ n > 0
  BY Begins
<1>2. OperandTyped(operand) /\ (operand.ok => i.next \in Region) /\ operand.next \in Int /\ next \in Int
  BY OperandBegins, NextIs
<1> HIDE DEF operand, w, next
<1>3. CASE Unsupported(i, i.opcode)
  BY <1>3, UnsupportedEnds
<1>4. CASE ~operand.ok /\ InvalidMemory(i, operand.address)
  BY <1>2, <1>4, UndecodedEnds
<1>5. CASE ~Translatable(operand.next, n) /\ InvalidMemory(i, operand.next)
  BY <1>1, <1>2, <1>5, ReadFaultEnds
<1>6. CASE ~Usable(operand, w.bytes) /\ InvalidMemory(i, operand.address)
  BY <1>1, <1>2, <1>6, OperandFaultEnds
<1>7. CASE /\ Usable(operand, w.bytes) /\ Translatable(operand.next, n)
           /\ \E v \in {sum, difference} : StoreRm(operand, i, i.next, w, v)
           /\ Retires(i, next) /\ xmm' = xmm
  <2>1. i.next \in Region
    BY <1>2, <1>7 DEF Usable
  <2>2. lhs \in Int
    BY <1>1, <1>2, <1>7, <2>1, ValueIs
  <2>3. rhs \in Int
    BY <1>1, <1>2, <1>7, ImmediateIs
  <2> HIDE DEF lhs, rhs
  <2>4. sum \in Int /\ difference \in Int
    BY <1>1, <2>2, <2>3, WordSumsAre
  <2> HIDE DEF sum, difference
  <2>5. MemoryTyped' /\ RegistersTyped'
    BY <1>1, <1>2, <1>7, <2>1, <2>4, StoreRmKeeps
  <2>6. QED
    BY <1>1, <1>2, <1>7, <2>5, BothWritten, Retired
<1>8. CASE UNCHANGED <<mem, reg>> /\ Retires(i, next) /\ xmm' = xmm
  BY <1>2, <1>8, NothingWritten, Retired
<1> HIDE DEF sum, difference
<1>9. QED
  BY <1>3, <1>4, <1>5, <1>6, <1>7, <1>8 DEF AddSubCmpImmediate, operand, w, next, sum, difference

(* execute_x64_group83 and execute_x64_group81.                              *)
LEMMA Group8Ends == ASSUME GuestTyped, ExecuteGroup83 \/ ExecuteGroup81 PROVE Ends
<1>1. WithinBudget
  BY Dispatched DEF ExecuteGroup83, ExecuteGroup81
<1>2. QED
  BY <1>1, AddSubCmpEnds DEF ExecuteGroup83, ExecuteGroup81

(* execute_x64_compare_rm_with_register.                                     *)
LEMMA CompareEnds == ASSUME GuestTyped, ExecuteCompareRmWithRegister PROVE Ends
<1> DEFINE i == Instruction
           operand == TryDecodeRmOperand(i, i.next)
           w == OperandWidth(i)
<1>1. WithinBudget /\ w.bytes \in 0 .. 16
  BY Dispatched, Begins DEF ExecuteCompareRmWithRegister
<1>2. OperandTyped(operand) /\ operand.next \in Int
  BY OperandBegins DEF OperandTyped
<1> HIDE DEF operand, w
<1>3. CASE ~Usable(operand, w.bytes) /\ InvalidMemory(i, operand.address)
  BY <1>1, <1>2, <1>3, OperandFaultEnds
<1>4. CASE Retires(i, operand.next) /\ UNCHANGED <<mem, reg, xmm>>
  BY <1>1, <1>2, <1>4, NothingWritten, Retired
<1>5. QED
  BY <1>3, <1>4 DEF ExecuteCompareRmWithRegister, operand, w

(* The operand of a SIMD handler, its source and its destination.            *)
LEMMA SimdBegins ==
  ASSUME GuestTyped
  PROVE  LET operand == SimdOperand(Instruction)
         IN  /\ operand = TryDecodeModrmOperand(Instruction, Beyond(Instruction.next, 1))
             /\ OperandTyped(operand) /\ operand.address \in Int
             /\ operand.next \in Int /\ Beyond(operand.next, 1) \in Int
             /\ operand.ok => /\ SimdAt(Instruction) \in Region
                              /\ RegIndex(Instruction, SimdAt(Instruction)) \in Registers
                              /\ RmIndex(Instruction, SimdAt(Instruction)) \in Registers
                              /\ SimdDestination(Instruction) \in [0 .. XmmBytes - 1 -> Nat]
<1> DEFINE operand == SimdOperand(Instruction)
           at == SimdAt(Instruction)
<1>1. at = Beyond(Instruction.next, 1) /\ operand = TryDecodeRmOperand(Instruction, at)
  BY DEF SimdAt, SimdOperand, TryDecodeModrmOperand
<1>2. OperandTyped(operand) /\ (operand.ok => at \in Region)
  BY <1>1, OperandBegins
<1>3. operand.address \in Int /\ operand.next \in Int
  BY <1>2 DEF OperandTyped
<1>4. Beyond(operand.next, 1) \in Int
  BY <1>2, NextIs
<1>5. operand.ok => RegIndex(Instruction, at) \in Registers /\ RmIndex(Instruction, at) \in Registers
  BY <1>2, Begins, IndexIs
<1>6. operand.ok => SimdDestination(Instruction) \in [0 .. XmmBytes - 1 -> Nat]
  BY <1>5 DEF GuestTyped, SimdDestination
<1>7. operand = TryDecodeModrmOperand(Instruction, Beyond(Instruction.next, 1))
  BY <1>1 DEF TryDecodeModrmOperand
<1> HIDE DEF operand, at
<1>8. QED
  BY <1>2, <1>3, <1>4, <1>5, <1>6, <1>7 DEF operand, at

(* The sixteen bytes of a source that can be used.                           *)
LEMMA SourceIs ==
  ASSUME GuestTyped, Usable(SimdOperand(Instruction), XmmBytes)
  PROVE  SimdSource(Instruction) \in [0 .. XmmBytes - 1 -> Nat]
<1> DEFINE i == Instruction
           operand == SimdOperand(i)
<1>1. operand.ok /\ operand.address \in Int /\ RmIndex(i, SimdAt(i)) \in Registers
  BY SimdBegins DEF Usable
<1>2. CASE operand.is_register
  BY <1>1, <1>2 DEF SimdSource, XmmValue, GuestTyped
<1>3. CASE ~operand.is_register
  <2>1. Translatable(operand.address, XmmBytes)
    BY <1>3 DEF Usable
  <2>2. \A k \in 0 .. XmmBytes - 1 : operand.address + k \in Region
    <3>1. XmmBytes \in Nat
      BY DEF XmmBytes
    <3>2. QED
      BY <1>1, <2>1, <3>1, RangeInRegion
  <2>3. LoadBytes(operand.address, XmmBytes) \in [0 .. XmmBytes - 1 -> Nat]
    BY <2>2 DEF LoadBytes, GuestTyped, MemoryTyped
  <2>4. QED
    BY <1>3, <2>3 DEF SimdSource, XmmValue
<1>4. QED
  BY <1>2, <1>3

(* A SIMD handler that writes its destination register.                      *)
LEMMA LoadsXmmEnds ==
  ASSUME GuestTyped, WithinBudget, NEW opcode, NEW accepted, NEW n \in 0 .. 16, NEW value,
         Usable(SimdOperand(Instruction), n) => value \in [0 .. XmmBytes - 1 -> Nat],
         LoadsXmm(Instruction, opcode, accepted, n, value)
  PROVE  Ends
<1> DEFINE i == Instruction
           at == Beyond(i.next, 1)
           operand == TryDecodeModrmOperand(i, at)
           r == RegIndex(i, at)
<1>1. operand = SimdOperand(i) /\ OperandTyped(operand) /\ operand.next \in Int
      /\ (operand.ok => r \in Registers)
  BY SimdBegins DEF SimdAt
<1> HIDE DEF operand, r
<1>2. CASE Unsupported(i, opcode)
  BY <1>2, UnsupportedEnds
<1>3. CASE ~Usable(operand, n) /\ InvalidMemory(i, operand.address)
  BY <1>1, <1>3, OperandFaultEnds
<1>4. CASE /\ Usable(operand, n) /\ xmm' = [xmm EXCEPT ![r] = value]
           /\ Retires(i, operand.next) /\ UNCHANGED <<mem, reg, flags>>
  <2>1. value \in [0 .. XmmBytes - 1 -> Nat] /\ r \in Registers
    BY <1>1, <1>4 DEF Usable
  <2>2. QED
    BY <1>1, <1>4, <2>1, XmmWritten, Retired
<1>5. QED
  BY <1>2, <1>3, <1>4 DEF LoadsXmm, operand, r

(* execute_x64_secondary_mov_xmm.                                            *)
LEMMA MovXmmEnds == ASSUME GuestTyped, ExecuteSecondaryMovXmm PROVE Ends
<1>1. WithinBudget /\ XmmBytes \in 0 .. 16
  BY Dispatched, Begins DEF ExecuteSecondaryMovXmm
<1>2. QED
  BY <1>1, SourceIs, LoadsXmmEnds DEF ExecuteSecondaryMovXmm

(* execute_x64_secondary_xorps.                                              *)
LEMMA XorpsEnds == ASSUME GuestTyped, ExecuteSecondaryXorps PROVE Ends
<1> DEFINE i == Instruction
           value == [k \in 0 .. XmmBytes - 1 |-> BitXor(SimdDestination(i)[k], SimdSource(i)[k], 8)]
<1>1. WithinBudget /\ XmmBytes \in 0 .. 16
  BY Dispatched, Begins DEF ExecuteSecondaryXorps
<1>2. ASSUME Usable(SimdOperand(i), XmmBytes)
      PROVE  value \in [0 .. XmmBytes - 1 -> Nat]
  <2>1. SimdSource(i) \in [0 .. XmmBytes - 1 -> Nat] /\ SimdDestination(i) \in [0 .. XmmBytes - 1 -> Nat]
    BY <1>2, SourceIs, SimdBegins DEF Usable
  <2>2. ASSUME NEW k \in 0 .. XmmBytes - 1 PROVE BitXor(SimdDestination(i)[k], SimdSource(i)[k], 8) \in Nat
    <3>1. SimdDestination(i)[k] \in Int /\ SimdSource(i)[k] \in Int /\ 8 \in Nat
      BY <2>1
    <3>2. QED
      BY <3>1, BitwiseIs
  <2>3. QED
    BY <2>2
<1> HIDE DEF value
<1>3. LoadsXmm(i, \h57, NoPrefix(i), XmmBytes, value)
  BY DEF ExecuteSecondaryXorps, value
<1>4. QED
  BY <1>1, <1>2, <1>3, LoadsXmmEnds

(* execute_x64_secondary_movd.                                               *)
LEMMA MovdEnds == ASSUME GuestTyped, ExecuteSecondaryMovd PROVE Ends
<1> DEFINE i == Instruction
           source == RmValue(SimdOperand(i), i, SimdAt(i), Dword)
           value == [k \in 0 .. XmmBytes - 1 |->
                       IF k < DwordBytes THEN (source \div Power(256, k)) % 256 ELSE 0]
<1>1. WithinBudget /\ DwordBytes \in 0 .. 16 /\ Dword \in {Byte, Dword, Qword} /\ Dword.bytes = DwordBytes
  BY Dispatched, Begins, Widths DEF ExecuteSecondaryMovd
<1>2. ASSUME Usable(SimdOperand(i), DwordBytes)
      PROVE  value \in [0 .. XmmBytes - 1 -> Nat]
  <2>1. source \in Int
    BY <1>1, <1>2, SimdBegins, Begins, ValueIs DEF Usable
  <2> HIDE DEF source
  <2>2. ASSUME NEW k \in 0 .. XmmBytes - 1
        PROVE  (IF k < DwordBytes THEN (source \div Power(256, k)) % 256 ELSE 0) \in Nat
    <3>1. k \in Nat
      OBVIOUS
    <3>2. (source \div Power(256, k)) % 256 \in Nat
      BY <2>1, <3>1, DigitIs
    <3>3. QED
      BY <3>2
  <2>3. QED
    BY <2>2
<1> HIDE DEF value
<1>3. LoadsXmm(i, \h6E, Only66(i), DwordBytes, value)
  BY DEF ExecuteSecondaryMovd, value
<1>4. QED
  BY <1>1, <1>2, <1>3, LoadsXmmEnds

(* execute_x64_secondary_punpcklbw.                                          *)
LEMMA PunpcklbwEnds == ASSUME GuestTyped, ExecuteSecondaryPunpcklbw PROVE Ends
<1> DEFINE i == Instruction
           value == [k \in 0 .. XmmBytes - 1 |->
                       IF k % 2 = 0 THEN SimdDestination(i)[k \div 2] ELSE SimdSource(i)[k \div 2]]
<1>1. WithinBudget /\ XmmBytes \in 0 .. 16
  BY Dispatched, Begins DEF ExecuteSecondaryPunpcklbw
<1>2. ASSUME Usable(SimdOperand(i), XmmBytes)
      PROVE  value \in [0 .. XmmBytes - 1 -> Nat]
  <2>1. SimdSource(i) \in [0 .. XmmBytes - 1 -> Nat] /\ SimdDestination(i) \in [0 .. XmmBytes - 1 -> Nat]
    BY <1>2, SourceIs, SimdBegins DEF Usable
  <2>2. \A k \in 0 .. XmmBytes - 1 : k \div 2 \in 0 .. XmmBytes - 1
    BY DEF XmmBytes
  <2>3. QED
    BY <2>1, <2>2
<1> HIDE DEF value
<1>3. LoadsXmm(i, \h60, Only66(i), XmmBytes, value)
  BY DEF ExecuteSecondaryPunpcklbw, value
<1>4. QED
  BY <1>1, <1>2, <1>3, LoadsXmmEnds

(* A shuffle takes every byte from its source: no lane index leaves it.      *)
LEMMA ShuffledIs ==
  ASSUME NEW source \in [0 .. XmmBytes - 1 -> Nat], NEW order \in Nat, NEW lane \in {2, 4}
  PROVE  Shuffled(source, order, lane) \in [0 .. XmmBytes - 1 -> Nat]
<1>1. ASSUME NEW k \in 0 .. XmmBytes - 1, k < 4 * lane
      PROVE  ((order \div Power(4, k \div lane)) % 4) * lane + (k % lane) \in 0 .. XmmBytes - 1
  <2>1. k \div lane \in Nat
    OBVIOUS
  <2>2. PICK p : p = Power(4, k \div lane)
    OBVIOUS
  <2>3. p \in Nat /\ p > 0
    BY <2>1, <2>2, PowerIsPositive
  <2>4. PICK d : d = (order \div p) % 4
    OBVIOUS
  <2>5. d \in 0 .. 3
    <3>1. PICK q : q = order \div p
      OBVIOUS
    <3>2. q \in Int
      BY <2>3, <3>1
    <3>3. QED
      BY <2>4, <3>1, <3>2
  <2>6. d * lane + (k % lane) \in 0 .. 15
    <3>1. k \in Nat
      OBVIOUS
    <3>2. k % 2 \in 0 .. 1 /\ k % 4 \in 0 .. 3
      BY <3>1
    <3>3. CASE lane = 2
      BY <2>5, <3>2, <3>3
    <3>4. CASE lane = 4
      BY <2>5, <3>2, <3>4
    <3>5. QED
      BY <3>3, <3>4
  <2>7. QED
    BY <2>2, <2>4, <2>6 DEF XmmBytes
<1>2. QED
  BY <1>1 DEF Shuffled

(* execute_x64_secondary_shuffle.                                            *)
LEMMA ShuffleEnds == ASSUME GuestTyped, ExecuteSecondaryShuffle PROVE Ends
<1> DEFINE i == Instruction
           operand == SimdOperand(i)
           lane == IF Only66(i) THEN 4 ELSE 2
           r == RegIndex(i, SimdAt(i))
           value == Shuffled(SimdSource(i), mem[operand.next], lane)
<1>1. WithinBudget /\ 1 \in 0 .. 16 /\ XmmBytes \in 0 .. 16 /\ MemoryTyped
  BY Dispatched, Begins DEF ExecuteSecondaryShuffle
<1>2. OperandTyped(operand) /\ operand.next \in Int /\ Beyond(operand.next, 1) \in Int
      /\ (operand.ok => r \in Registers)
  BY SimdBegins
<1>3. ASSUME Usable(operand, XmmBytes), Translatable(operand.next, 1)
      PROVE  value \in [0 .. XmmBytes - 1 -> Nat]
  <2>1. SimdSource(i) \in [0 .. XmmBytes - 1 -> Nat]
    BY <1>3, SourceIs
  <2>2. mem[operand.next] \in Nat
    BY <1>1, <1>2, <1>3, ByteInRegion DEF MemoryTyped
  <2>3. lane \in {2, 4}
    OBVIOUS
  <2> HIDE DEF lane
  <2>4. QED
    BY <2>1, <2>2, <2>3, ShuffledIs
<1> HIDE DEF operand, r, value
<1>4. CASE Unsupported(i, \h70)
  BY <1>1, <1>4, UnsupportedEnds
<1>5. CASE ~operand.ok /\ InvalidMemory(i, operand.address)
  BY <1>1, <1>2, <1>5, UndecodedEnds
<1>6. CASE ~Translatable(operand.next, 1) /\ InvalidMemory(i, operand.next)
  BY <1>1, <1>2, <1>6, ReadFaultEnds
<1>7. CASE ~Usable(operand, XmmBytes) /\ InvalidMemory(i, operand.address)
  BY <1>1, <1>2, <1>7, OperandFaultEnds
<1>8. CASE /\ Translatable(operand.next, 1) /\ Usable(operand, XmmBytes)
           /\ xmm' = [xmm EXCEPT ![r] = value]
           /\ Retires(i, Beyond(operand.next, 1)) /\ UNCHANGED <<mem, reg, flags>>
  <2>1. value \in [0 .. XmmBytes - 1 -> Nat] /\ r \in Registers
    BY <1>2, <1>3, <1>8 DEF Usable
  <2>2. QED
    BY <1>1, <1>2, <1>8, <2>1, XmmWritten, Retired
<1>9. QED
  BY <1>4, <1>5, <1>6, <1>7, <1>8 DEF ExecuteSecondaryShuffle, operand, r, value

(* A store of several bytes keeps memory a memory of numbers.                *)
LEMMA StoredBytesAre ==
  ASSUME MemoryTyped, NEW a, NEW n \in 0 .. 16, NEW bytes \in [0 .. n - 1 -> Nat]
  PROVE  StoredBytes(a, bytes) \in [Region -> Nat]
<1>1. ASSUME NEW x \in Region
      PROVE  (IF x - a \in DOMAIN bytes THEN bytes[x - a] ELSE mem[x]) \in Nat
  BY DEF MemoryTyped
<1>2. QED
  BY <1>1 DEF StoredBytes

(* A handler that writes several bytes to memory.                            *)
LEMMA BytesWritten ==
  ASSUME GuestTyped, NEW a, NEW n \in 0 .. 16, NEW bytes \in [0 .. n - 1 -> Nat],
         mem' = StoredBytes(a, bytes), UNCHANGED <<reg, xmm>>, ip' \in Int
  PROVE  GuestTyped'
<1>1. MemoryTyped
  BY DEF GuestTyped
<1>2. StoredBytes(a, bytes) \in [Region -> Nat]
  BY <1>1, StoredBytesAre
<1>3. MemoryTyped'
  BY <1>2 DEF MemoryTyped, Region
<1>4. QED
  BY <1>3, MemoryWritten

(* execute_x64_secondary_store_xmm.                                          *)
LEMMA StoreXmmEnds == ASSUME GuestTyped, ExecuteSecondaryStoreXmm PROVE Ends
<1> DEFINE i == Instruction
           operand == SimdOperand(i)
           r == RmIndex(i, SimdAt(i))
           value == SimdDestination(i)
<1>1. WithinBudget /\ XmmBytes \in 0 .. 16
  BY Dispatched, Begins DEF ExecuteSecondaryStoreXmm
<1>2. OperandTyped(operand) /\ operand.next \in Int
      /\ (operand.ok => r \in Registers /\ value \in [0 .. XmmBytes - 1 -> Nat])
  BY SimdBegins
<1> HIDE DEF operand, r, value
<1>3. CASE Unsupported(i, i.secondary)
  BY <1>1, <1>3, UnsupportedEnds
<1>4. CASE ~Usable(operand, XmmBytes) /\ InvalidMemory(i, operand.address)
  BY <1>1, <1>2, <1>4, OperandFaultEnds
<1>5. CASE /\ Usable(operand, XmmBytes) /\ mem' = mem /\ xmm' = [xmm EXCEPT ![r] = value]
           /\ Retires(i, operand.next) /\ UNCHANGED <<reg, flags>>
  <2>1. value \in [0 .. XmmBytes - 1 -> Nat] /\ r \in Registers
    BY <1>2, <1>5 DEF Usable
  <2>2. QED
    BY <1>1, <1>2, <1>5, <2>1, XmmWritten, Retired
<1>6. CASE /\ Usable(operand, XmmBytes) /\ xmm' = xmm /\ mem' = StoredBytes(operand.address, value)
           /\ Retires(i, operand.next) /\ UNCHANGED <<reg, flags>>
  <2>1. value \in [0 .. XmmBytes - 1 -> Nat]
    BY <1>2, <1>6 DEF Usable
  <2>2. QED
    BY <1>1, <1>2, <1>6, <2>1, BytesWritten, Retired
<1>7. QED
  BY <1>3, <1>4, <1>5, <1>6 DEF ExecuteSecondaryStoreXmm, operand, r, value

(* execute_x64_secondary_movq_store.                                         *)
LEMMA MovqStoreEnds == ASSUME GuestTyped, ExecuteSecondaryMovqStore PROVE Ends
<1> DEFINE i == Instruction
           operand == SimdOperand(i)
           low == [k \in 0 .. QwordBytes - 1 |-> SimdDestination(i)[k]]
<1>1. WithinBudget /\ QwordBytes \in 0 .. 16
  BY Dispatched, Begins DEF ExecuteSecondaryMovqStore
<1>2. OperandTyped(operand) /\ operand.next \in Int
  BY SimdBegins
<1>3. operand.ok => low \in [0 .. QwordBytes - 1 -> Nat]
  <2>1. \A k \in 0 .. QwordBytes - 1 : k \in 0 .. XmmBytes - 1
    BY Widths DEF XmmBytes
  <2>2. QED
    BY <2>1, SimdBegins
<1> HIDE DEF operand, low
<1>4. CASE Unsupported(i, \hD6)
  BY <1>1, <1>4, UnsupportedEnds
<1>5. CASE ~Usable(operand, QwordBytes) /\ InvalidMemory(i, operand.address)
  BY <1>1, <1>2, <1>5, OperandFaultEnds
<1>6. CASE /\ Usable(operand, QwordBytes) /\ mem' = StoredBytes(operand.address, low)
           /\ Retires(i, operand.next) /\ UNCHANGED <<reg, xmm, flags>>
  <2>1. low \in [0 .. QwordBytes - 1 -> Nat]
    BY <1>3, <1>6 DEF Usable
  <2>2. QED
    BY <1>1, <1>2, <1>6, <2>1, BytesWritten, Retired
<1>7. QED
  BY <1>4, <1>5, <1>6 DEF ExecuteSecondaryMovqStore, operand, low

(* Opcodes without a handler.                                                *)
LEMMA UnsupportedOpcodeEnds == ASSUME GuestTyped, ExecuteUnsupported PROVE Ends
<1>1. WithinBudget
  BY Dispatched DEF ExecuteUnsupported
<1>2. QED
  BY <1>1, UnsupportedEnds DEF ExecuteUnsupported

(* All handlers but the three that build their result themselves end in one  *)
(* of these ways.                                                            *)
LEMMA HandlersKeepTheGuest ==
  ASSUME GuestTyped, Execute
  PROVE  Ends \/ DispatchSecondaryOpcodeFails \/ ExecuteSyscall \/ ExecuteSecondaryNop
<1>1. CASE ExecutePushRegister \/ ExecutePopRegister \/ ExecuteReturn \/ ExecuteCallRelative \/ ExecuteGroupFF
  BY <1>1, PushRegisterEnds, PopRegisterEnds, ReturnEnds, CallRelativeEnds, GroupFFEnds
<1>2. CASE \/ ExecuteJumpRelativeNear \/ ExecuteJumpRelativeShort
           \/ ExecuteJumpShortCondition \/ ExecuteJumpNearCondition
  BY <1>2, JumpsEnd
<1>3. CASE \/ ExecuteMovImmediate32 \/ ExecuteMovImmediateToRm \/ ExecuteMovRegister \/ ExecuteLea
           \/ ExecuteGroup80 \/ ExecuteSecondarySetcc \/ ExecuteSecondaryMovzxByte \/ ExecuteNop
  BY <1>3, MovImmediate32Ends, MovImmediateToRmEnds, MovRegisterEnds, LeaEnds, Group80Ends, SetccEnds,
     MovzxEnds, NopEnds
<1>4. CASE \/ ExecuteXorRegister \/ ExecuteOrRegisterByte \/ ExecuteOrRmToRegister \/ ExecuteTestRegister
           \/ ExecuteTestAccumulatorImmediate \/ ExecuteGroupF6 \/ ExecuteGroupF7
           \/ ExecuteGroup83 \/ ExecuteGroup81 \/ ExecuteCompareRmWithRegister
  BY <1>4, XorRegisterEnds, OrRegisterByteEnds, OrRmToRegisterEnds, TestRegisterEnds, TestAccumulatorEnds,
     GroupF6Ends, GroupF7Ends, Group8Ends, CompareEnds
<1>5. CASE \/ ExecuteSecondaryMovXmm \/ ExecuteSecondaryXorps \/ ExecuteSecondaryMovd
           \/ ExecuteSecondaryPunpcklbw \/ ExecuteSecondaryShuffle \/ ExecuteSecondaryStoreXmm
           \/ ExecuteSecondaryMovqStore \/ ExecuteUnsupported
  BY <1>5, MovXmmEnds, XorpsEnds, MovdEnds, PunpcklbwEnds, ShuffleEnds, StoreXmmEnds, MovqStoreEnds,
     UnsupportedOpcodeEnds
<1>6. QED
  BY <1>1, <1>2, <1>3, <1>4, <1>5 DEF Execute

-----------------------------------------------------------------------------
(* Where a fault is reported, and what it leaves behind.                     *)

(* The result of a fault of the instruction at ip.                           *)
LocatedFault(r) ==
  /\ r.completion \in GuestFaults /\ r.retired = result.retired /\ r.guest_stop_reason = r.completion
  /\ r.completion = "INVALID_MEMORY_ACCESS" =>
       r.fault.memory_address = r.fault_address /\ AtTheEdge(r.fault_address)
  /\ Translatable(OpcodeAddress, 1) => r.fault.instruction_pointer = ip

(* What a fault leaves of the guest.                                         *)
GuestKept ==
  /\ UNCHANGED <<mem, xmm, flags, ip>>
  /\ reg' = reg \/ (reg' = LoweredStack /\ reg[RSP] > RegionEnd)

(* A step that ends in a fault.                                              *)
PreciseFault == phase' = "returned" /\ LocatedFault(result') /\ GuestKept

(* A step after which the loop goes on.                                      *)
Moves == phase' = phase /\ result'.completion = result.completion /\ GuestTyped'

(* The three results that handlers report a fault with.                      *)
LEMMA FaultsAreLocated ==
  ASSUME IsResult(result), NEW a, NEW opcode
  PROVE  /\ AtTheEdge(a) => LocatedFault(SetInvalidMemoryAccess(SetFault(Instruction), a, opcode))
         /\ LocatedFault(SetUnsupportedInstruction(SetFault(Instruction), opcode))
         /\ LocatedFault(SetUnsupportedInstruction(
                           SetInvalidMemoryAccess(SetFault(Instruction), a, opcode), opcode))
<1> DEFINE r == SetFault(Instruction)
           s == SetInvalidMemoryAccess(r, a, opcode)
           u == SetUnsupportedInstruction(r, opcode)
           v == SetUnsupportedInstruction(s, opcode)
<1>1. IsResult(r) /\ r.retired = result.retired /\ r.fault.instruction_pointer = ip
  BY SetFaultIsResult, InstructionFields
<1> HIDE DEF r
<1>2. /\ Faults(r, s) /\ s.fault_address = a /\ s.fault.memory_address = a
      /\ s.fault.instruction_pointer = r.fault.instruction_pointer
      /\ Faults(r, u) /\ u.completion = "UNSUPPORTED_INSTRUCTION"
      /\ u.fault.instruction_pointer = r.fault.instruction_pointer
  BY <1>1, FaultIsClassified
<1> HIDE DEF s, u
<1>3. /\ Faults(s, v) /\ v.completion = "UNSUPPORTED_INSTRUCTION"
      /\ v.fault.instruction_pointer = s.fault.instruction_pointer
  BY <1>2, FaultIsClassified DEF Faults
<1> HIDE DEF v
<1>4. (AtTheEdge(a) => LocatedFault(s)) /\ LocatedFault(u) /\ LocatedFault(v)
  BY <1>1, <1>2, <1>3 DEF LocatedFault, Faults
<1>5. QED
  BY <1>4 DEF r, s, u, v

(* A handler that ends in one of the named ways faults precisely or goes on. *)
LEMMA EndsAreExact ==
  ASSUME IsResult(result), Ends
  PROVE  PreciseFault \/ Moves
<1> DEFINE i == Instruction
<1>1. ASSUME NEW opcode, Unsupported(i, opcode) PROVE PreciseFault
  BY <1>1, FaultsAreLocated DEF Unsupported, Returns, machine, PreciseFault, GuestKept
<1>2. ASSUME NEW a, AtTheEdge(a), FaultedAt(i, a) PROVE phase' = "returned" /\ LocatedFault(result')
  BY <1>2, FaultsAreLocated DEF FaultedAt, Returns
<1>3. ASSUME NEW a, AtTheEdge(a), InvalidMemory(i, a) PROVE PreciseFault
  BY <1>2, <1>3 DEF InvalidMemory, machine, PreciseFault, GuestKept
<1>4. ASSUME NEW a, AtTheEdge(a), FaultedAt(i, a), StackAlreadyLowered PROVE PreciseFault
  BY <1>2, <1>4 DEF StackAlreadyLowered, PreciseFault, GuestKept
<1>5. ASSUME NEW next, Retires(i, next), GuestTyped' PROVE Moves
  <2>1. phase' = phase /\ result' = [SetFault(i) EXCEPT !.retired = @ + 1]
    BY <1>5 DEF Retires, control
  <2>2. result'.completion = SetFault(i).completion
    BY <2>1, SetFaultIsResult DEF IsResult
  <2>3. QED
    BY <1>5, <2>1, <2>2, SetFaultIsResult DEF Moves
<1>6. QED
  BY <1>1, <1>3, <1>4, <1>5 DEF Ends

(* The fetch, the second opcode byte and the long nop.                       *)
LEMMA OthersAreExact ==
  ASSUME IsResult(result), GuestTyped, DecodeFails \/ DispatchSecondaryOpcodeFails \/ ExecuteSecondaryNop
  PROVE  PreciseFault \/ Moves
<1> DEFINE i == Instruction
<1>0. i.next \in Int /\ OpcodeAddress \in Int /\ 1 \in 0 .. 16
  BY Begins, OpcodeAddressIs
<1>1. CASE DecodeFails
  <2>1. /\ phase' = "returned" /\ result' = SetInvalidMemoryAccess(result, OpcodeAddress, 0)
        /\ ~Translatable(OpcodeAddress, 1) /\ UNCHANGED machine
    BY <1>1 DEF DecodeFails, Returns
  <2>2. AtTheEdge(OpcodeAddress)
    BY <1>0, <2>1, FailsAtTheEdge
  <2>3. /\ Faults(result, result') /\ result'.fault_address = OpcodeAddress
        /\ result'.fault.memory_address = OpcodeAddress
    BY <2>1, FaultIsClassified
  <2>4. LocatedFault(result')
    BY <2>1, <2>2, <2>3 DEF LocatedFault, Faults
  <2>5. QED
    BY <2>1, <2>4 DEF PreciseFault, GuestKept, machine
<1>2. CASE DispatchSecondaryOpcodeFails
  <2>1. WithinBudget
    BY <1>2, Dispatched DEF DispatchSecondaryOpcodeFails
  <2>2. CASE Unsupported(i, i.opcode)
    BY <2>1, <2>2, UnsupportedEnds, EndsAreExact
  <2>3. CASE /\ ~Translatable(i.next, 1)
             /\ Returns(SetInvalidMemoryAccess(SetFault(i), i.next, 0)) /\ UNCHANGED machine
    <3>1. AtTheEdge(i.next)
      BY <1>0, <2>3, FailsAtTheEdge
    <3>2. LocatedFault(result')
      BY <2>3, <3>1, FaultsAreLocated DEF Returns
    <3>3. QED
      BY <2>3, <3>2 DEF PreciseFault, GuestKept, machine, Returns
  <2>4. QED
    BY <1>2, <2>2, <2>3 DEF DispatchSecondaryOpcodeFails
<1>3. CASE ExecuteSecondaryNop
  <2> DEFINE operand == TryDecodeRmOperand(i, Beyond(i.next, 1))
  <2>1. WithinBudget /\ operand.next \in Int
    BY <1>3, Dispatched, OperandBegins DEF ExecuteSecondaryNop, OperandTyped
  <2> HIDE DEF operand
  <2>2. CASE Unsupported(i, \h1F)
    BY <2>1, <2>2, UnsupportedEnds, EndsAreExact
  <2>3. CASE /\ Returns(SetUnsupportedInstruction(SetInvalidMemoryAccess(SetFault(i), operand.address, \h1F), \h1F))
             /\ UNCHANGED machine
    <3>1. LocatedFault(result')
      BY <2>3, FaultsAreLocated DEF Returns
    <3>2. QED
      BY <2>3, <3>1 DEF PreciseFault, GuestKept, machine, Returns
  <2>4. CASE Retires(i, operand.next) /\ UNCHANGED <<mem, reg, xmm, flags>>
    BY <2>1, <2>4, NothingWritten, Retired, EndsAreExact
  <2>5. QED
    BY <1>3, <2>2, <2>3, <2>4 DEF ExecuteSecondaryNop, operand
<1>4. QED
  BY <1>1, <1>2, <1>3

(* The callback's answer goes to rax and nowhere else.                       *)
LEMMA SyscallKeepsTheGuest ==
  ASSUME GuestTyped, ExecuteSyscall
  PROVE  /\ GuestTyped' /\ UNCHANGED <<mem, xmm, flags>>
         /\ \E v \in Int : reg' = [reg EXCEPT ![RAX] = v]
<1>1. PICK answer \in SyscallResults : reg' = [reg EXCEPT ![RAX] = Truncated(answer.status, Qword)]
  BY DEF ExecuteSyscall
<1>2. answer.status \in Int /\ Qword \in {Byte, Dword, Qword}
  BY GuestAssumption
<1>3. Truncated(answer.status, Qword) \in Int
  BY <1>2, TruncatedIs
<1>4. ip' \in Int /\ UNCHANGED <<mem, xmm, flags>>
  BY Begins DEF ExecuteSyscall
<1>5. QED
  BY <1>1, <1>3, <1>4, Begins, RegisterWritten

-----------------------------------------------------------------------------
(* The guest across runs.                                                    *)

(* The thread object holds what a flow of the guest had when it was left.    *)
Keeps(stored, flow) ==
  /\ stored.instruction_pointer = flow.ip /\ stored.flags = flow.flags
  /\ stored.stack_pointer = flow.reg[RSP]
  /\ \A r \in PreservedRegisters : stored.registers[r] = flow.reg[r]
  /\ \A r \in PreservedXmm : stored.xmm[r] = flow.xmm[r]

(* The guest state of the process still holds the registers of a flow that   *)
(* the thread object has no place for, except rax.                           *)
OtherRegisters == Registers \ (PreservedRegisters \cup {RAX, RSP})

StillHolds(guest, flow) ==
  /\ \A r \in OtherRegisters : guest.reg[r] = flow.reg[r]
  /\ \A r \in Registers \ PreservedXmm : guest.xmm[r] = flow.xmm[r]

FlowTyped(flow) ==
  /\ flow.reg \in [Registers -> Int] /\ flow.ip \in Int
  /\ flow.xmm \in [Registers -> [0 .. XmmBytes - 1 -> Nat]]

FlowsTyped ==
  /\ left = [f \in Flows |-> left[f]] /\ call.pending \in BOOLEAN
  /\ FlowTyped(left["main"]) /\ FlowTyped(left["callback"])

(* The run ended because the thread waits in a syscall.                      *)
Yielded == phase = "returned" /\ result.guest_stop_reason = "YIELDED"

(* The inductive invariant of the guest: a fault is located, only a run that *)
(* yielded makes the host wait, what is saved then belongs to the flow that  *)
(* waits, and what begin_call kept belongs to the flow it interrupted,       *)
(* whatever the callback does meanwhile.                                     *)
GuestInv ==
  /\ GuestTyped /\ FaultIsLocated /\ FlowsTyped
  /\ host = "waiting" => Yielded
  /\ Yielded => Keeps(saved, left[Flow]) /\ StillHolds(Guest, left[Flow])
  /\ call.pending => Keeps(call.server, left["main"])

(* The sets of registers.                                                    *)
LEMMA RegisterSets ==
  /\ RAX \in Registers /\ RSP \in Registers /\ RSI \in PreservedRegisters /\ RDI \in PreservedRegisters
  /\ RAX # RSP /\ RSI # RDI /\ RAX \notin PreservedRegisters /\ RSP \notin PreservedRegisters
  /\ PreservedRegisters \subseteq Registers /\ PreservedXmm \subseteq Registers
BY DEF RAX, RSP, RSI, RDI, PreservedRegisters, PreservedXmm, Registers

(* It holds when the thread is started.                                      *)
LEMMA GuestInitial == HostInit => GuestInv
<1> SUFFICES ASSUME HostInit PROVE GuestInv
  OBVIOUS
<1>1. PICK c \in Calls : /\ mem = c.image.mem /\ reg = c.start.reg /\ ip = c.image.origin
                         /\ xmm = [r \in Registers |-> ZeroXmm]
  BY DEF HostInit, Init
<1>2. /\ mem \in [Region -> 0 .. 255] /\ ip \in Addresses /\ reg \in [Registers -> Addresses]
  BY <1>1, GuestAssumption
<1>3. \A v \in Addresses : v \in Int
  BY Widths DEF Addresses, Word
<1>4. MemoryTyped
  BY <1>2 DEF MemoryTyped
<1>5. RegistersTyped /\ ip \in Int
  BY <1>2, <1>3 DEF RegistersTyped
<1>6. xmm \in [Registers -> [0 .. XmmBytes - 1 -> Nat]]
  BY <1>1 DEF ZeroXmm
<1>7. phase = "called" /\ host = "running" /\ call.pending = FALSE
  BY DEF HostInit, Init, NoCall
<1>8. FlowsTyped
  <2>1. left = [f \in Flows |-> Guest]
    BY DEF HostInit
  <2>2. FlowTyped(Guest)
    BY <1>5, <1>6 DEF FlowTyped, Guest, RegistersTyped
  <2>3. QED
    BY <1>7, <2>1, <2>2 DEF FlowsTyped, Flows
<1>9. QED
  BY <1>4, <1>5, <1>6, <1>7, <1>8
     DEF GuestInv, GuestTyped, FaultIsLocated, FaultAddressAtTheEdge, FaultNamesItsInstruction, Yielded

(* A fault that is located when it is reported stays so: the guest is kept.  *)
LEMMA LocatedFaultStays ==
  ASSUME GuestTyped, PreciseFault
  PROVE  GuestTyped' /\ FaultIsLocated'
<1>1. GuestTyped'
  <2>1. reg[RSP] \in Int /\ QwordBytes \in Nat
    BY Begins
  <2>2. LoweredStack \in [Registers -> Int]
    <3>1. PushTarget \in Int
      BY <2>1 DEF PushTarget
    <3>2. reg \in [Registers -> Int]
      BY DEF GuestTyped, RegistersTyped
    <3>3. QED
      BY <3>1, <3>2 DEF LoweredStack
  <2>3. RegistersTyped'
    BY <2>2 DEF PreciseFault, GuestKept, GuestTyped, RegistersTyped, Registers
  <2>4. QED
    BY <2>3 DEF PreciseFault, GuestKept, GuestTyped, MemoryTyped, Region, Registers, XmmBytes
<1>2. mem' = mem /\ ip' = ip /\ LocatedFault(result')
  BY DEF PreciseFault, GuestKept
<1>3. OpcodeAddress' = OpcodeAddress
  BY <1>2 DEF OpcodeAddress, Region, RegionEnd
<1>4. FaultNamesItsInstruction'
  BY <1>2, <1>3 DEF LocatedFault, FaultNamesItsInstruction, Translatable
<1>5. FaultAddressAtTheEdge'
  BY <1>2 DEF LocatedFault, FaultAddressAtTheEdge, AtTheEdge, RegionEnd
<1>6. QED
  BY <1>1, <1>4, <1>5 DEF FaultIsLocated

(* A step of the emulator that is not a syscall.                             *)
LEMMA GuestSteps ==
  ASSUME IsResult(result), RunningResult, GuestTyped, FaultIsLocated, Next, ~ExecuteSyscall
  PROVE  /\ GuestTyped' /\ FaultIsLocated' /\ ~Yielded'
         /\ phase = "running" /\ result'.completion \in GuestFaults => PreciseFault
<1>1. CASE Run \/ LimitReached
  <2>1. UNCHANGED machine
    BY <1>1 DEF Run, LimitReached
  <2>2. GuestTyped'
    BY <2>1, NothingWritten DEF machine, GuestTyped
  <2>3. \/ phase' = "running"
        \/ \E r, failure : /\ IsResult(r) /\ result' = SetBackendFailure(r, failure)
                           /\ failure \in {"UNSUPPORTED_ENGINE", "INVALID_ARGUMENT", "INSTRUCTION_LIMIT_REACHED"}
    BY <1>1, FreshResult DEF Run, LimitReached, Returns
  <2>4. \/ phase' = "running"
        \/ result'.completion \notin GuestFaults /\ result'.guest_stop_reason = "NONE"
    BY <2>3, BackendFailure DEF GuestFaults
  <2>5. FaultIsLocated' /\ ~Yielded'
    BY <2>4 DEF FaultIsLocated, FaultAddressAtTheEdge, FaultNamesItsInstruction, GuestFaults, Yielded
  <2>6. phase = "running" => result'.completion \notin GuestFaults
    BY <1>1, <2>4 DEF Run, LimitReached, Returns
  <2>7. QED
    BY <2>2, <2>5, <2>6
<1>2. CASE DecodeFails \/ Execute
  <2>1. PreciseFault \/ Moves
    BY <1>2, HandlersKeepTheGuest, EndsAreExact, OthersAreExact
  <2>2. phase = "running"
    <3>1. CASE DecodeFails
      BY <3>1 DEF DecodeFails, WithinBudget
    <3>2. CASE Execute
      BY <3>2, ExecuteHasOutcome DEF Outcome, WithinBudget
    <3>3. QED
      BY <1>2, <3>1, <3>2
  <2>3. CASE PreciseFault
    <3>1. ~Yielded'
      BY <2>3 DEF PreciseFault, LocatedFault, GuestFaults, Yielded
    <3>2. QED
      BY <2>3, <3>1, LocatedFaultStays
  <2>4. CASE Moves
    <3>1. phase' = "running" /\ result'.completion = "INSTRUCTION_LIMIT_REACHED" /\ GuestTyped'
      BY <2>2, <2>4 DEF Moves, RunningResult
    <3>2. QED
      BY <3>1 DEF FaultIsLocated, FaultAddressAtTheEdge, FaultNamesItsInstruction, GuestFaults, Yielded
  <2>5. QED
    BY <2>1, <2>3, <2>4
<1>3. QED
  BY <1>1, <1>2 DEF Next

(* What a syscall of the guest leaves: the guest with another rax.           *)
LEMMA SyscallLeaves ==
  ASSUME GuestTyped, IsResult(result), ExecuteSyscall
  PROVE  /\ GuestTyped' /\ FaultIsLocated' /\ FlowTyped(Guest') /\ Keeps(StoredState(ip'), Guest')
         /\ result'.completion \in GuestFaults => result'.completion = result.completion
         /\ Yielded' => result'.guest_stop_reason # "THREAD_EXITED"
<1>1. GuestTyped' /\ UNCHANGED <<mem, xmm, flags>>
  BY SyscallKeepsTheGuest
<1>2. PICK v \in Int : reg' = [reg EXCEPT ![RAX] = v]
  BY SyscallKeepsTheGuest
<1>3. \A r \in Registers \ {RAX} : reg'[r] = reg[r]
  BY <1>2 DEF GuestTyped, RegistersTyped
<1>4. Guest' = [reg |-> reg', xmm |-> xmm', flags |-> flags', ip |-> ip']
  BY DEF Guest
<1>5. FlowTyped(Guest')
  BY <1>1, <1>4 DEF FlowTyped, GuestTyped, RegistersTyped, Registers, XmmBytes
<1>6. Keeps(StoredState(ip'), Guest')
  BY <1>1, <1>3, <1>4, RegisterSets DEF Keeps, StoredState
<1>7. /\ phase' = "returned" => result'.completion \notin GuestFaults
      /\ result'.completion \in GuestFaults => result'.completion = result.completion
  <2>1. phase = "running"
    BY DEF ExecuteSyscall, DispatchesSecondary, Dispatches, WithinBudget
  <2>2. \/ phase' = "running" /\ result'.completion = result.completion
        \/ result'.completion \in {"THREAD_EXITED", "YIELDED"}
    BY <2>1, SyscallStops DEF Goes, StopsByCallback
  <2>3. QED
    BY <2>2 DEF GuestFaults
<1>8. FaultIsLocated'
  BY <1>7 DEF FaultIsLocated, FaultAddressAtTheEdge, FaultNamesItsInstruction, GuestFaults
<1>9. Yielded' => result'.guest_stop_reason # "THREAD_EXITED"
  BY DEF Yielded
<1>10. QED
  BY <1>1, <1>5, <1>6, <1>7, <1>8, <1>9

(* dispatch_x64_syscall saves the flow that makes the syscall.               *)
LEMMA SyscallSaves ==
  ASSUME GuestInv, IsResult(result), HostSyscall
  PROVE  GuestInv'
<1>1. /\ ExecuteSyscall /\ saved' = StoredState(ip') /\ host' = "running"
      /\ call' = IF result'.guest_stop_reason = "THREAD_EXITED" THEN NoCall ELSE call
      /\ left' = [left EXCEPT ![Flow] = Guest']
  BY DEF HostSyscall
<1>2. /\ GuestTyped' /\ FaultIsLocated' /\ FlowTyped(Guest') /\ Keeps(saved', Guest')
      /\ Yielded' => call' = call
  BY <1>1, SyscallLeaves DEF GuestInv
<1>3. Flow \in Flows /\ "main" \in Flows /\ "callback" \in Flows
  BY DEF Flow, Flows
<1>4. /\ left' = [f \in Flows |-> left'[f]] /\ left'[Flow] = Guest'
      /\ \A f \in Flows : f # Flow => left'[f] = left[f]
  BY <1>1, <1>3 DEF GuestInv, FlowsTyped
<1>5. FlowsTyped'
  <2>1. FlowTyped(left'["main"]) /\ FlowTyped(left'["callback"])
    BY <1>2, <1>3, <1>4 DEF GuestInv, FlowsTyped
  <2>2. call'.pending \in BOOLEAN
    BY <1>1 DEF GuestInv, FlowsTyped, NoCall
  <2>3. QED
    BY <1>4, <2>1, <2>2 DEF FlowsTyped, FlowTyped, Flows, Registers, XmmBytes
<1>6. Yielded' => Keeps(saved', left'[Flow']) /\ StillHolds(Guest', left'[Flow'])
  <2>1. Yielded' => left'[Flow'] = Guest'
    BY <1>2, <1>4 DEF Flow
  <2>2. StillHolds(Guest', Guest')
    BY DEF StillHolds
  <2>3. QED
    BY <1>2, <2>1, <2>2
<1>7. call'.pending => Keeps(call'.server, left'["main"])
  <2>1. SUFFICES ASSUME call'.pending PROVE Keeps(call'.server, left'["main"])
    OBVIOUS
  <2>2. call' = call
    BY <1>1, <2>1 DEF NoCall
  <2>3. Flow # "main"
    BY <2>1, <2>2 DEF Flow
  <2>4. QED
    BY <1>3, <1>4, <2>1, <2>2, <2>3 DEF GuestInv
<1>8. QED
  BY <1>1, <1>2, <1>5, <1>6, <1>7
     DEF GuestInv, Keeps, StillHolds, OtherRegisters, RSP, RAX, PreservedRegisters, PreservedXmm, Registers

(* finish_call brings back the flow that the callback interrupted.           *)
LEMMA CompletionRestores ==
  ASSUME GuestInv, IsResult(result), HostCompletes
  PROVE  GuestInv'
<1> DEFINE main == left["main"]
           restored == Interrupted(main, Guest')
<1>1. /\ ExecuteSyscall /\ saved' = call.server /\ host' = "running" /\ call' = NoCall
      /\ left' = [left EXCEPT !["main"] = restored] /\ call.pending
  BY DEF HostCompletes, Completing
<1>2. GuestTyped' /\ FaultIsLocated' /\ FlowTyped(Guest')
  BY <1>1, SyscallLeaves DEF GuestInv
<1>3. /\ left' = [f \in Flows |-> left'[f]] /\ left'["main"] = restored
      /\ left'["callback"] = left["callback"]
  BY <1>1 DEF GuestInv, FlowsTyped, Flows
<1>4. FlowTyped(main) /\ Keeps(saved', main)
  BY <1>1 DEF GuestInv, FlowsTyped
<1>5. /\ restored.flags = main.flags /\ restored.ip = main.ip
      /\ restored.reg = [r \in Registers |-> IF r \in PreservedRegisters \cup {RSP} THEN main.reg[r] ELSE Guest'.reg[r]]
      /\ restored.xmm = [r \in Registers |-> IF r \in PreservedXmm THEN main.xmm[r] ELSE Guest'.xmm[r]]
  BY DEF Interrupted
<1> HIDE DEF main, restored
<1>6. FlowTyped(restored)
  BY <1>2, <1>4, <1>5 DEF FlowTyped
<1>7. FlowsTyped'
  <2>1. FlowTyped(left["callback"])
    BY DEF GuestInv, FlowsTyped
  <2>2. QED
    BY <1>1, <1>3, <1>6, <2>1 DEF FlowsTyped, FlowTyped, Flows, Registers, XmmBytes, NoCall
<1>8. Keeps(saved', restored)
  BY <1>4, <1>5, RegisterSets DEF Keeps
<1>9. StillHolds(Guest', restored)
  BY <1>5 DEF StillHolds, OtherRegisters
<1>10. Flow' = "main" /\ ~call'.pending
  BY <1>1 DEF Flow, NoCall
<1>11. QED
  BY <1>1, <1>2, <1>3, <1>7, <1>8, <1>9, <1>10
     DEF GuestInv, Keeps, StillHolds, OtherRegisters, RSP, RAX, PreservedRegisters, PreservedXmm, Registers

(* A step that leaves the guest, its flows and what is kept of them alone.   *)
LEMMA GuestUnchanged ==
  ASSUME GuestInv, UNCHANGED <<mem, reg, xmm, flags, ip, result, phase, saved, left>>,
         call' = call \/ (call' = NoCall /\ ~Yielded), host' = "waiting" => Yielded
  PROVE  GuestInv'
<1>1. GuestTyped'
  BY NothingWritten DEF GuestInv, GuestTyped
<1>2. OpcodeAddress' = OpcodeAddress
  BY DEF OpcodeAddress, Region, RegionEnd
<1>3. FaultIsLocated'
  BY <1>2 DEF GuestInv, FaultIsLocated, FaultAddressAtTheEdge, FaultNamesItsInstruction, Translatable, RegionEnd
<1>4. FlowsTyped'
  <2>1. call'.pending \in BOOLEAN
    <3>1. CASE call' = call
      BY <3>1 DEF GuestInv, FlowsTyped
    <3>2. CASE call' = NoCall
      BY <3>2 DEF NoCall
    <3>3. QED
      BY <3>1, <3>2
  <2>2. QED
    BY <2>1 DEF GuestInv, FlowsTyped, FlowTyped, Flows, Registers, XmmBytes
<1>5. Guest' = Guest /\ Yielded' = Yielded /\ (call' = call => Flow' = Flow)
  BY DEF Guest, Yielded, Flow
<1>6. call'.pending => call' = call
  BY DEF NoCall
<1>7. QED
  BY <1>1, <1>3, <1>4, <1>5, <1>6
     DEF GuestInv, Keeps, StillHolds, OtherRegisters, RSP, RAX, PreservedRegisters, PreservedXmm, Registers

(* The elements and the beginnings of a sequence.                            *)
LEMMA SequenceIs ==
  ASSUME NEW S, NEW s \in Seq(S)
  PROVE  /\ Len(s) \in Nat /\ DOMAIN s = 1 .. Len(s) /\ \A k \in 1 .. Len(s) : s[k] \in S
         /\ \A n \in 0 .. Len(s) : SubSeq(s, 1, n) \in Seq(S) /\ Len(SubSeq(s, 1, n)) = n
BY LenProperties, SubSeqProperties

(* A request that is written to the guest's memory.                          *)
LEMMA RequestIsTyped ==
  ASSUME MemoryTyped, NEW a, NEW S, S \subseteq Nat, NEW bytes \in Seq(S)
  PROVE  StoredBytes(a, bytes) \in [Region -> Nat]
<1>1. DOMAIN bytes = 1 .. Len(bytes) /\ \A k \in 1 .. Len(bytes) : bytes[k] \in S
  BY SequenceIs
<1>2. ASSUME NEW x \in Region
      PROVE  (IF x - a \in DOMAIN bytes THEN bytes[x - a] ELSE mem[x]) \in Nat
  BY <1>1 DEF MemoryTyped
<1>3. QED
  BY <1>2 DEF StoredBytes

(* load_x64_emulator_resume_state, register by register.                     *)
LEMMA ResumedRegisters ==
  ASSUME NEW resume, Resumes(resume)
  PROVE  /\ reg'[RAX] = Truncated(resume.status_code, Qword) /\ reg'[RSP] = resume.stack_pointer
         /\ \A r \in PreservedRegisters \ {RSI, RDI} : reg'[r] = saved.registers[r]
         /\ resume.kind = "RPC" => reg'[RDI] = resume.argument0 /\ reg'[RSI] = resume.argument1
         /\ resume.kind # "RPC" => reg'[RDI] = saved.registers[RDI] /\ reg'[RSI] = saved.registers[RSI]
         /\ \A r \in OtherRegisters : reg'[r] = reg[r]
         /\ reg' = [r \in Registers |-> reg'[r]]
<1>1. reg' = [r \in Registers |-> ResumedRegister(resume, r)]
  BY DEF Resumes
<1>2. \A r \in Registers : reg'[r] = ResumedRegister(resume, r)
  BY <1>1
<1>3. /\ RSI # RAX /\ RSI # RSP /\ RDI # RAX /\ RDI # RSP
  BY RegisterSets
<1>4. reg'[RAX] = Truncated(resume.status_code, Qword)
  BY <1>2, <1>3, RegisterSets DEF ResumedRegister
<1>5. reg'[RSP] = resume.stack_pointer
  BY <1>2, <1>3, RegisterSets DEF ResumedRegister
<1>6. ASSUME NEW r \in PreservedRegisters \ {RSI, RDI} PROVE reg'[r] = saved.registers[r]
  <2>1. r \in Registers /\ r # RAX /\ r # RSP /\ r # RSI /\ r # RDI
    BY RegisterSets
  <2>2. ResumedRegister(resume, r) = saved.registers[r]
    BY <2>1 DEF ResumedRegister
  <2>3. QED
    BY <1>2, <2>1, <2>2
<1>7. ASSUME resume.kind = "RPC" PROVE reg'[RDI] = resume.argument0 /\ reg'[RSI] = resume.argument1
  <2>1. ResumedRegister(resume, RDI) = resume.argument0
    BY <1>3, <1>7, RegisterSets DEF ResumedRegister
  <2>2. ResumedRegister(resume, RSI) = resume.argument1
    BY <1>3, <1>7, RegisterSets DEF ResumedRegister
  <2>3. QED
    BY <1>2, <2>1, <2>2, RegisterSets
<1>8. ASSUME resume.kind # "RPC"
      PROVE  reg'[RDI] = saved.registers[RDI] /\ reg'[RSI] = saved.registers[RSI]
  <2>1. ResumedRegister(resume, RDI) = saved.registers[RDI]
    BY <1>3, <1>8, RegisterSets DEF ResumedRegister
  <2>2. ResumedRegister(resume, RSI) = saved.registers[RSI]
    BY <1>3, <1>8, RegisterSets DEF ResumedRegister
  <2>3. QED
    BY <1>2, <2>1, <2>2, RegisterSets
<1>9. ASSUME NEW r \in OtherRegisters PROVE reg'[r] = reg[r]
  <2>1. r \in Registers /\ r # RAX /\ r # RSP /\ r \notin PreservedRegisters /\ r # RDI /\ r # RSI
    BY RegisterSets DEF OtherRegisters
  <2>2. ResumedRegister(resume, r) = reg[r]
    BY <2>1 DEF ResumedRegister
  <2>3. QED
    BY <1>2, <2>1, <2>2
<1>10. QED
  BY <1>1, <1>4, <1>5, <1>6, <1>7, <1>8, <1>9

(* A resume in a flow whose state is kept brings every register but rax and, *)
(* for a callback, its arguments and its stack back.                         *)
LEMMA ResumedIsTyped ==
  ASSUME GuestTyped, NEW flow, FlowTyped(flow), Keeps(saved, flow), StillHolds(Guest, flow),
         NEW resume, Resumes(resume), MemoryTyped',
         resume.instruction_pointer \in Int, resume.stack_pointer \in Int, resume.status_code \in Int,
         resume.kind = "RPC" => resume.argument0 \in Int /\ resume.argument1 \in Int
  PROVE  /\ GuestTyped' /\ xmm' = flow.xmm
         /\ \A r \in Registers \ {RAX, RSP, RSI, RDI} : reg'[r] = flow.reg[r]
         /\ resume.kind # "RPC" => \A r \in {RSI, RDI} : reg'[r] = flow.reg[r]
<1>1. \A r \in Registers \ {RAX, RSP, RSI, RDI} : reg'[r] = flow.reg[r]
  <2>1. ASSUME NEW r \in PreservedRegisters \ {RSI, RDI} PROVE reg'[r] = flow.reg[r]
    BY ResumedRegisters DEF Keeps
  <2>2. ASSUME NEW r \in OtherRegisters PROVE reg'[r] = flow.reg[r]
    BY ResumedRegisters DEF StillHolds, Guest
  <2>3. QED
    BY <2>1, <2>2 DEF OtherRegisters
<1>2. resume.kind # "RPC" => \A r \in {RSI, RDI} : reg'[r] = flow.reg[r]
  BY ResumedRegisters, RegisterSets DEF Keeps
<1>3. xmm' = flow.xmm
  <2>1. xmm' = [r \in Registers |-> IF r \in PreservedXmm THEN saved.xmm[r] ELSE xmm[r]]
    BY DEF Resumes
  <2>2. xmm' = [r \in Registers |-> flow.xmm[r]]
    BY <2>1 DEF Keeps, StillHolds, Guest
  <2>3. QED
    BY <2>2 DEF FlowTyped
<1>4. RegistersTyped'
  <2>1. Truncated(resume.status_code, Qword) \in Int
    <3>1. Qword \in {Byte, Dword, Qword}
      OBVIOUS
    <3>2. QED
      BY <3>1, TruncatedIs
  <2>2. ASSUME NEW r \in Registers PROVE reg'[r] \in Int
    <3>1. CASE r = RAX
      BY <2>1, <3>1, ResumedRegisters
    <3>2. CASE r = RSP
      BY <3>2, ResumedRegisters
    <3>3. CASE r \in {RSI, RDI} /\ resume.kind = "RPC"
      BY <3>3, ResumedRegisters
    <3>4. CASE r \in {RSI, RDI} /\ resume.kind # "RPC"
      BY <1>2, <3>4 DEF FlowTyped
    <3>5. CASE r \notin {RAX, RSP, RSI, RDI}
      BY <1>1, <3>5 DEF FlowTyped
    <3>6. QED
      BY <3>1, <3>2, <3>3, <3>4, <3>5
  <2>3. reg' = [r \in Registers |-> reg'[r]]
    BY ResumedRegisters
  <2>4. reg' \in [Registers -> Int]
    BY <2>2, <2>3
  <2>5. QED
    BY <2>4 DEF RegistersTyped, Registers
<1>5. ip' = resume.instruction_pointer
  BY DEF Resumes
<1>6. xmm' \in [Registers -> [0 .. XmmBytes - 1 -> Nat]]
  BY <1>3 DEF FlowTyped
<1>7. QED
  BY <1>1, <1>2, <1>3, <1>4, <1>5, <1>6 DEF GuestTyped, Registers, XmmBytes

(* What a waiting thread rests on.                                           *)
LEMMA WaitingFlow ==
  ASSUME GuestInv, host = "waiting"
  PROVE  /\ FlowTyped(left[Flow]) /\ Keeps(saved, left[Flow]) /\ StillHolds(Guest, left[Flow])
         /\ left[Flow].reg[RSP] \in Int /\ Yielded
<1>1. Yielded
  BY DEF GuestInv
<1>2. FlowTyped(left[Flow])
  BY DEF GuestInv, FlowsTyped, Flow
<1>3. QED
  BY <1>1, <1>2, RegisterSets DEF GuestInv, FlowTyped

(* A waiting thread goes on behind its syscall.                              *)
LEMMA GoesOnBehind ==
  ASSUME GuestInv, HostResumes
  PROVE  /\ GuestTyped' /\ xmm' = left[Flow].xmm /\ flags' = left[Flow].flags /\ ip' = left[Flow].ip
         /\ \A r \in Registers \ {RAX} : reg'[r] = left[Flow].reg[r]
         /\ phase' = "called" /\ host' = "running" /\ UNCHANGED <<mem, call, left>>
<1>1. PICK answer \in Statuses : Resumes(SyscallResume(answer))
  BY DEF HostResumes
<1> DEFINE resume == SyscallResume(answer)
<1>2. /\ resume.kind = "SYSCALL" /\ resume.instruction_pointer = saved.instruction_pointer
      /\ resume.stack_pointer = saved.stack_pointer /\ resume.flags = saved.flags
      /\ resume.status_code = answer
  BY DEF SyscallResume
<1>3. Resumes(resume) /\ host = "waiting" /\ UNCHANGED <<mem, call>>
  BY <1>1 DEF HostResumes
<1> HIDE DEF resume
<1>4. /\ FlowTyped(left[Flow]) /\ Keeps(saved, left[Flow]) /\ StillHolds(Guest, left[Flow])
      /\ left[Flow].reg[RSP] \in Int /\ GuestTyped
  BY <1>3, WaitingFlow DEF GuestInv
<1>5. /\ resume.instruction_pointer \in Int /\ resume.stack_pointer \in Int /\ resume.status_code \in Int
      /\ resume.kind # "RPC"
  BY <1>2, <1>4, StatusesAssumption DEF Keeps, FlowTyped
<1>6. MemoryTyped'
  BY <1>3, <1>4 DEF GuestTyped, MemoryTyped, Region
<1>7. /\ GuestTyped' /\ xmm' = left[Flow].xmm
      /\ \A r \in Registers \ {RAX, RSP, RSI, RDI} : reg'[r] = left[Flow].reg[r]
      /\ \A r \in {RSI, RDI} : reg'[r] = left[Flow].reg[r]
  BY <1>3, <1>4, <1>5, <1>6, ResumedIsTyped
<1>8. reg'[RSP] = left[Flow].reg[RSP]
  BY <1>2, <1>3, <1>4, ResumedRegisters DEF Keeps
<1>9. /\ ip' = resume.instruction_pointer /\ flags' = resume.flags
      /\ phase' = "called" /\ host' = "running" /\ left' = left
  BY <1>3 DEF Resumes
<1>10. QED
  BY <1>2, <1>3, <1>4, <1>7, <1>8, <1>9 DEF Keeps

(* Where a request goes: below the stack of the flow, at an aligned address. *)
LEMMA RequestIsBelow ==
  ASSUME saved.stack_pointer \in Int, NEW size \in Nat
  PROVE  /\ RequestAddress(size) \in Int /\ RequestAddress(size) + size <= saved.stack_pointer
         /\ RequestAddress(size) % 16 = 0
<1> DEFINE top == saved.stack_pointer - size
<1>1. top \in Int /\ top % 16 \in 0 .. 15
  OBVIOUS
<1>2. RequestAddress(size) = top - (top % 16)
  BY DEF RequestAddress
<1>3. (top - (top % 16)) % 16 = 0
  BY <1>1
<1>4. QED
  BY <1>1, <1>2, <1>3

(* prepare_server_thread: the callback of a waiting thread begins.           *)
LEMMA CallbackBegins ==
  ASSUME GuestInv, HostServes
  PROVE  /\ GuestTyped' /\ Flow = "main" /\ call' = PendingCall
         /\ phase' = "called" /\ host' = "running" /\ left' = left
         /\ \A a \in Region : a >= left[Flow].reg[RSP] => mem'[a] = mem[a]
         /\ \E request \in Requests :
              /\ reg'[RSI] = Len(request)
              /\ \A k \in 1 .. Len(request) : mem'[reg'[RDI] + k - 1] = request[k]
              /\ reg'[RSP] = reg'[RDI] /\ reg'[RSP] % 16 = 0
              /\ \A r \in PreservedRegisters \ {RSI, RDI} : reg'[r] = left[Flow].reg[r]
<1>1. PICK endpoint \in Endpoints, request \in Requests :
        /\ Callable(endpoint, Len(request))
        /\ Translatable(RequestAddress(Len(request)), Len(request))
        /\ mem' = StoredBytes(RequestAddress(Len(request)) - 1, request)
        /\ Resumes(RpcResume(endpoint.callback, RequestAddress(Len(request)), Len(request)))
  BY DEF HostServes
<1> DEFINE size == Len(request)
           address == RequestAddress(size)
           resume == RpcResume(endpoint.callback, address, size)
<1>2. request \in Seq(0 .. 255) /\ size \in Nat /\ DOMAIN request = 1 .. size
  BY RequestsAssumption
<1>3. host = "waiting" /\ ~call.pending /\ endpoint.callback \in Region
  BY <1>1 DEF Callable
<1>4. /\ FlowTyped(left[Flow]) /\ Keeps(saved, left[Flow]) /\ StillHolds(Guest, left[Flow])
      /\ left[Flow].reg[RSP] \in Int /\ GuestTyped /\ MemoryTyped
  BY <1>3, WaitingFlow DEF GuestInv, GuestTyped
<1>5. saved.stack_pointer = left[Flow].reg[RSP] /\ saved.stack_pointer \in Int
  BY <1>4 DEF Keeps
<1> HIDE DEF size
<1>6. address \in Int /\ address + size <= saved.stack_pointer /\ address % 16 = 0
  BY <1>2, <1>5, RequestIsBelow
<1>7. /\ resume.kind = "RPC" /\ resume.instruction_pointer = endpoint.callback
      /\ resume.stack_pointer = address /\ resume.argument0 = address /\ resume.argument1 = size
      /\ resume.status_code = 0
  BY DEF RpcResume
<1>8. Resumes(resume) /\ mem' = StoredBytes(address - 1, request) /\ Translatable(address, size)
  BY <1>1 DEF size
<1> HIDE DEF address, resume
<1>9. MemoryTyped'
  <2>1. mem' \in [Region -> Nat]
    BY <1>2, <1>4, <1>8, RequestIsTyped, 0 .. 255 \subseteq Nat
  <2>2. QED
    BY <2>1 DEF MemoryTyped, Region
<1>10. endpoint.callback \in Int
  BY <1>3, RegionAssumption DEF Region
<1>11. /\ GuestTyped'
       /\ \A r \in Registers \ {RAX, RSP, RSI, RDI} : reg'[r] = left[Flow].reg[r]
  BY <1>2, <1>4, <1>6, <1>7, <1>8, <1>9, <1>10, ResumedIsTyped
<1>12. \A x \in Region : mem'[x] = IF x - (address - 1) \in 1 .. size THEN request[x - (address - 1)] ELSE mem[x]
  BY <1>2, <1>8 DEF StoredBytes
<1>13. \A a \in Region : a >= left[Flow].reg[RSP] => mem'[a] = mem[a]
  BY <1>2, <1>5, <1>6, <1>12, RegionAssumption DEF Region
<1>14. ASSUME NEW k \in 1 .. size PROVE mem'[address + k - 1] = request[k]
  <2>1. address + k - 1 \in Region
    BY <1>2, <1>6, <1>8, RegionAssumption DEF Translatable, Region
  <2>2. (address + k - 1) - (address - 1) = k
    BY <1>2, <1>6
  <2>3. QED
    BY <1>12, <2>1, <2>2
<1>15. /\ reg'[RSP] = address /\ reg'[RDI] = address /\ reg'[RSI] = size
       /\ \A r \in PreservedRegisters \ {RSI, RDI} : reg'[r] = left[Flow].reg[r]
  BY <1>7, <1>8, <1>11, RegisterSets, ResumedRegisters
<1>16. phase' = "called" /\ host' = "running" /\ left' = left /\ call' = PendingCall /\ Flow = "main"
  BY <1>3, <1>8 DEF Resumes, HostServes, Flow
<1>17. QED
  BY <1>6, <1>11, <1>13, <1>14, <1>15, <1>16 DEF size

(* A request whose copy breaks off is below the stack too.                   *)
LEMMA BrokenRequest ==
  ASSUME GuestInv, HostRequestBreaksOff
  PROVE  /\ GuestTyped' /\ UNCHANGED <<reg, xmm, flags, ip, result, phase, host, saved, call, left>>
         /\ host = "waiting"
         /\ \A a \in Region : a >= left[Flow].reg[RSP] => mem'[a] = mem[a]
<1>1. PICK endpoint \in Endpoints, request \in Requests :
        \E n \in 1 .. Len(request) - 1 :
          /\ Callable(endpoint, Len(request))
          /\ mem' = StoredBytes(RequestAddress(Len(request)) - 1, SubSeq(request, 1, n))
  BY DEF HostRequestBreaksOff
<1>2. PICK n \in 1 .. Len(request) - 1 :
        /\ Callable(endpoint, Len(request))
        /\ mem' = StoredBytes(RequestAddress(Len(request)) - 1, SubSeq(request, 1, n))
  BY <1>1
<1> DEFINE size == Len(request)
           address == RequestAddress(size)
           bytes == SubSeq(request, 1, n)
<1>3. request \in Seq(0 .. 255) /\ size \in Nat
  BY RequestsAssumption
<1>4. bytes \in Seq(0 .. 255) /\ DOMAIN bytes = 1 .. n /\ n <= size
  <2>1. n \in Nat /\ n <= size /\ 1 <= n
    BY <1>3
  <2>2. n \in 0 .. Len(request)
    BY <2>1
  <2>3. Len(bytes) = n /\ bytes \in Seq(0 .. 255)
    BY <1>3, <2>2, SequenceIs
  <2>4. DOMAIN bytes = 1 .. Len(bytes)
    BY <2>3, SequenceIs
  <2>5. QED
    BY <2>1, <2>3, <2>4
<1>5. host = "waiting"
  BY <1>2 DEF Callable
<1>6. left[Flow].reg[RSP] \in Int /\ GuestTyped /\ MemoryTyped /\ saved.stack_pointer = left[Flow].reg[RSP]
  BY <1>5, WaitingFlow DEF GuestInv, GuestTyped, Keeps
<1>7. address \in Int /\ address + size <= saved.stack_pointer
  BY <1>3, <1>6, RequestIsBelow
<1>8. mem' = StoredBytes(address - 1, bytes)
  BY <1>2
<1> HIDE DEF address, bytes, size
<1>9. MemoryTyped'
  <2>1. mem' \in [Region -> Nat]
    BY <1>4, <1>6, <1>8, RequestIsTyped, 0 .. 255 \subseteq Nat
  <2>2. QED
    BY <2>1 DEF MemoryTyped, Region
<1>10. UNCHANGED <<reg, xmm, flags, ip, result, phase, host, saved, call, left>>
  BY DEF HostRequestBreaksOff
<1>11. GuestTyped'
  BY <1>6, <1>9, <1>10 DEF GuestTyped, RegistersTyped, Registers, XmmBytes
<1>12. \A x \in Region : x - (address - 1) \notin 1 .. n => mem'[x] = mem[x]
  BY <1>4, <1>8 DEF StoredBytes
<1>13. \A a \in Region : a >= left[Flow].reg[RSP] => mem'[a] = mem[a]
  BY <1>3, <1>4, <1>6, <1>7, <1>12, RegionAssumption DEF Region
<1>14. QED
  BY <1>5, <1>10, <1>11, <1>13

(* Every step of the host keeps it.                                          *)
LEMMA GuestStep == HostInv /\ GuestInv /\ [HostNext]_allVars => GuestInv'
<1> SUFFICES ASSUME HostInv, GuestInv, [HostNext]_allVars PROVE GuestInv'
  OBVIOUS
<1>1. IsResult(result) /\ RunningResult /\ GuestTyped /\ FaultIsLocated /\ FlowsTyped
  BY DEF HostInv, InterpreterInv, GuestInv
<1>2. CASE HostSyscall
  BY <1>1, <1>2, SyscallSaves
<1>3. CASE HostCompletes
  BY <1>1, <1>3, CompletionRestores
<1>4. CASE HostExecutes
  <2>1. Next /\ ~ExecuteSyscall /\ host' = "running" /\ UNCHANGED <<saved, call, left>>
    BY <1>4 DEF HostExecutes, ExecuteSyscall, hostVars
  <2>2. GuestTyped' /\ FaultIsLocated' /\ ~Yielded'
    BY <1>1, <2>1, GuestSteps
  <2>3. FlowsTyped'
    BY <1>1, <2>1 DEF FlowsTyped, FlowTyped, Flows, Registers, XmmBytes
  <2>4. QED
    BY <2>1, <2>2, <2>3 DEF GuestInv, Keeps, RSP, PreservedRegisters, PreservedXmm
<1>5. CASE HostReturns
  <2>1. /\ UNCHANGED <<mem, reg, xmm, flags, ip, result, phase, saved, left>>
        /\ host' = "waiting" => phase = "returned" /\ result.guest_stop_reason = "YIELDED"
        /\ call' = call \/ (call' = NoCall /\ result.guest_stop_reason \in GuestFaults)
    BY <1>5 DEF HostReturns
  <2>2. QED
    BY <2>1, GuestUnchanged DEF Yielded, GuestFaults
<1>6. CASE HostResumes
  <2>1. GuestTyped' /\ phase' = "called" /\ host' = "running" /\ UNCHANGED <<call, left>>
    BY <1>6, GoesOnBehind
  <2>2. FlowsTyped'
    BY <1>1, <2>1 DEF FlowsTyped, FlowTyped, Flows, Registers, XmmBytes
  <2>3. QED
    BY <2>1, <2>2 DEF GuestInv, FaultIsLocated, FaultAddressAtTheEdge, FaultNamesItsInstruction, Yielded,
                      Keeps, RSP, PreservedRegisters, PreservedXmm
<1>7. CASE HostServes
  <2>1. /\ GuestTyped' /\ phase' = "called" /\ host' = "running" /\ left' = left
        /\ call' = PendingCall /\ Flow = "main"
    BY <1>7, CallbackBegins
  <2>2. host = "waiting"
    BY <1>7 DEF HostServes, Callable
  <2>3. Keeps(saved, left["main"])
    BY <2>1, <2>2, WaitingFlow
  <2>4. call'.pending = TRUE /\ call'.server = saved
    BY <2>1 DEF PendingCall
  <2>5. FlowsTyped'
    BY <1>1, <2>1, <2>4 DEF FlowsTyped, FlowTyped, Flows, Registers, XmmBytes
  <2>6. QED
    BY <2>1, <2>3, <2>4, <2>5 DEF GuestInv, FaultIsLocated, FaultAddressAtTheEdge, FaultNamesItsInstruction, Yielded,
                                  Keeps, RSP, PreservedRegisters, PreservedXmm
<1>8. CASE HostRequestBreaksOff
  <2>1. /\ GuestTyped' /\ UNCHANGED <<reg, xmm, flags, ip, result, phase, host, saved, call, left>>
        /\ host = "waiting"
    BY <1>8, BrokenRequest
  <2>2. Yielded
    BY <2>1, WaitingFlow
  <2>3. result.completion \notin GuestFaults /\ result.completion # "INVALID_MEMORY_ACCESS"
    BY <2>2 DEF HostInv, InterpreterInv, StopIsClassified, Yielded, GuestFaults, GuestStops
  <2>4. FaultIsLocated'
    BY <2>1, <2>3 DEF FaultIsLocated, FaultAddressAtTheEdge, FaultNamesItsInstruction, GuestFaults
  <2>5. FlowsTyped'
    BY <1>1, <2>1 DEF FlowsTyped, FlowTyped, Flows, Registers, XmmBytes
  <2>6. Guest' = Guest /\ Flow' = Flow /\ Yielded' = Yielded
    BY <2>1 DEF Guest, Flow, Yielded
  <2>7. QED
    BY <2>1, <2>4, <2>5, <2>6
       DEF GuestInv, Keeps, StillHolds, OtherRegisters, RSP, RAX, PreservedRegisters, PreservedXmm, Registers
<1>9. CASE UNCHANGED allVars
  <2>1. UNCHANGED <<mem, reg, xmm, flags, ip, result, phase, saved, host, call, left>>
    BY <1>9 DEF allVars
  <2>2. QED
    BY <2>1, GuestUnchanged DEF GuestInv
<1>10. QED
  BY <1>2, <1>3, <1>4, <1>5, <1>6, <1>7, <1>8, <1>9 DEF HostNext

(* The guest's state, and what the kernel keeps of it across syscalls and    *)
(* the callbacks that interrupt them, is an invariant of the host.           *)
THEOREM GuestInvariant == HostSpec => [](HostInv /\ GuestInv)
<1>1. HostInit => HostInv /\ GuestInv
  BY HostInitial, GuestInitial
<1>2. (HostInv /\ GuestInv) /\ [HostNext]_allVars => (HostInv /\ GuestInv)'
  BY HostStep, GuestStep
<1>3. QED
  BY <1>1, <1>2, PTL DEF HostSpec

(* x64_execution_context.cpp: what the kernel logs of a fault leads to its   *)
(* cause. The reported address is one where an access of the emulator can    *)
(* fail, and the reported instruction pointer is where the guest stopped,    *)
(* for every guest memory, every register content and every sequence of      *)
(* instructions.                                                             *)
THEOREM LocationCorrect == HostSpec => []FaultIsLocated
<1>1. HostInv /\ GuestInv => FaultIsLocated
  BY DEF GuestInv
<1>2. QED
  BY <1>1, GuestInvariant, PTL

(* The step that FaultsArePrecise describes.                                 *)
PreciseStep ==
  result'.completion \in GuestFaults /\ phase = "running"
    => /\ UNCHANGED <<mem, xmm, flags, ip>>
       /\ result'.retired = result.retired
       /\ \/ reg' = reg
          \/ /\ reg' = [reg EXCEPT ![RSP] = reg[RSP] - QwordBytes]
             /\ reg[RSP] > RegionEnd

(* The invariant makes every step of the host such a step.                   *)
LEMMA StepsArePrecise ==
  ASSUME HostInv, GuestInv, [HostNext]_allVars
  PROVE  [PreciseStep]_vars
<1>1. IsResult(result) /\ RunningResult /\ GuestTyped /\ FaultIsLocated
  BY DEF HostInv, InterpreterInv, GuestInv
<1>2. CASE HostSyscall \/ HostCompletes
  <2>1. ExecuteSyscall
    BY <1>2 DEF HostSyscall, HostCompletes
  <2>2. QED
    BY <1>1, <2>1, SyscallLeaves DEF PreciseStep, RunningResult, GuestFaults
<1>3. CASE HostExecutes
  <2>1. Next /\ ~ExecuteSyscall
    BY <1>3 DEF HostExecutes, ExecuteSyscall
  <2>2. phase = "running" /\ result'.completion \in GuestFaults => PreciseFault
    BY <1>1, <2>1, GuestSteps
  <2>3. QED
    BY <2>2 DEF PreciseStep, PreciseFault, LocatedFault, GuestKept, LoweredStack, PushTarget
<1>4. CASE HostReturns \/ UNCHANGED allVars
  BY <1>4 DEF HostReturns, allVars, vars
<1>5. CASE HostResumes \/ HostServes \/ HostRequestBreaksOff
  BY <1>5 DEF HostResumes, HostServes, HostRequestBreaksOff, Callable, HostInv, PreciseStep
<1>6. QED
  BY <1>2, <1>3, <1>4, <1>5 DEF HostNext

(* The handlers of src/emulator/x64 read everything they need before they    *)
(* write: a fault leaves memory, flags, instruction pointer and registers as *)
(* they were, and only a push behind the region has already lowered rsp.     *)
THEOREM PrecisionCorrect == HostSpec => FaultsArePrecise
<1>1. (HostInv /\ GuestInv) /\ [HostNext]_allVars => [PreciseStep]_vars
  BY StepsArePrecise
<1>2. QED
  BY <1>1, GuestInvariant, PTL DEF HostSpec, FaultsArePrecise, PreciseStep

(* The step that ResumesBehindTheSyscall describes.                          *)
ResumedBehind ==
  host = "waiting" /\ host' = "running" /\ call'.pending = call.pending =>
    /\ ip' = left[Flow].ip /\ flags' = left[Flow].flags /\ xmm' = left[Flow].xmm
    /\ \A r \in Registers \ {RAX} : reg'[r] = left[Flow].reg[r]

(* The step that RequestsSpareTheStack describes.                            *)
RequestSpares ==
  host = "waiting" =>
    /\ \A a \in Region : a >= left[Flow].reg[RSP] => mem'[a] = mem[a]
    /\ call'.pending # call.pending =>
         \E request \in Requests :
           /\ reg'[RSI] = Len(request)
           /\ \A k \in 1 .. Len(request) : mem'[reg'[RDI] + k - 1] = request[k]
           /\ reg'[RSP] = reg'[RDI] /\ reg'[RSP] % 16 = 0
           /\ \A r \in PreservedRegisters \ {RSI, RDI} : reg'[r] = left[Flow].reg[r]

(* The invariant makes every step of the host both.                          *)
LEMMA WaitingSteps ==
  ASSUME HostInv, GuestInv, [HostNext]_allVars
  PROVE  [ResumedBehind /\ RequestSpares]_allVars
<1>1. CASE HostSyscall \/ HostCompletes \/ HostExecutes \/ HostReturns
  BY <1>1 DEF HostSyscall, HostCompletes, HostExecutes, HostReturns, ResumedBehind, RequestSpares
<1>2. CASE HostResumes
  BY <1>2, GoesOnBehind DEF ResumedBehind, RequestSpares
<1>3. CASE HostServes
  <2>1. call'.pending = TRUE /\ ~call.pending
    BY <1>3 DEF HostServes, Callable, PendingCall
  <2>2. ResumedBehind
    BY <2>1 DEF ResumedBehind
  <2>3. RequestSpares
    BY <1>3, CallbackBegins DEF RequestSpares
  <2>4. QED
    BY <2>2, <2>3
<1>4. CASE HostRequestBreaksOff
  BY <1>4, BrokenRequest DEF ResumedBehind, RequestSpares
<1>5. QED
  BY <1>1, <1>2, <1>3, <1>4 DEF HostNext

(* load_x64_emulator_resume_state after dispatch_x64_syscall and after       *)
(* finish_call: a flow that waited goes on behind its syscall with every     *)
(* register but rax as it left them, with its flags and its stack, and a     *)
(* callback in between changes only the registers without a place in the     *)
(* thread object, however many runs and callbacks there have been.           *)
THEOREM ResumptionCorrect == HostSpec => ResumesBehindTheSyscall
<1>1. (HostInv /\ GuestInv) /\ [HostNext]_allVars => [ResumedBehind]_allVars
  BY WaitingSteps
<1>2. QED
  BY <1>1, GuestInvariant, PTL DEF HostSpec, ResumesBehindTheSyscall, ResumedBehind

(* prepare_server_thread of the arm64 kernel: nothing that a waiting guest   *)
(* has on its stack is written, whatever its stack pointer and the size of   *)
(* the request, also when the copy breaks off; and the callback gets the     *)
(* whole request on an aligned stack.                                        *)
THEOREM RequestsCorrect == HostSpec => RequestsSpareTheStack
<1>1. (HostInv /\ GuestInv) /\ [HostNext]_allVars => [RequestSpares]_allVars
  BY WaitingSteps
<1>2. QED
  BY <1>1, GuestInvariant, PTL DEF HostSpec, RequestsSpareTheStack, RequestSpares
=============================================================================
