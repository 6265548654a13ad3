--------------------------- MODULE UserLibcProofs ---------------------------
(* Proofs about the user libc: the exit handlers for tables of any capacity  *)
(* and programs that nest exits and registrations in any way, the formatted  *)
(* output for every text and every size of the buffer, the byte loops for    *)
(* every size of memory, every pair of ranges and every content.             *)
EXTENDS UserLibc, SequenceTheorems, TLAPS

-----------------------------------------------------------------------------
(* Sequences that grow and shrink at their end.                              *)

Holds(s, x) == \E k \in 1 .. Len(s) : s[k] = x

(* Append puts one element behind the others.                                *)
LEMMA Appended ==
  ASSUME NEW S, NEW s \in Seq(S), NEW x \in S
  PROVE  LET t == Append(s, x) IN
         /\ t \in Seq(S) /\ Len(s) \in Nat /\ Len(t) = Len(s) + 1
         /\ t[Len(s) + 1] = x /\ \A k \in 1 .. Len(s) : t[k] = s[k]
         /\ \A y : Holds(t, y) <=> Holds(s, y) \/ y = x
<1> DEFINE t == Append(s, x)
<1>1. /\ t \in Seq(S) /\ Len(s) \in Nat /\ Len(t) = Len(s) + 1
      /\ t[Len(s) + 1] = x /\ \A k \in 1 .. Len(s) : t[k] = s[k]
  OBVIOUS
<1> HIDE DEF t
<1>2. ASSUME NEW y PROVE Holds(t, y) <=> Holds(s, y) \/ y = x
  <2>1. ASSUME Holds(t, y) PROVE Holds(s, y) \/ y = x
    <3>1. PICK k \in 1 .. Len(t) : t[k] = y
      BY <2>1 DEF Holds
    <3>2. CASE k = Len(s) + 1
      BY <1>1, <3>1, <3>2
    <3>3. CASE k \in 1 .. Len(s)
      BY <1>1, <3>1, <3>3 DEF Holds
    <3>4. QED
      BY <1>1, <3>2, <3>3
  <2>2. ASSUME Holds(s, y) PROVE Holds(t, y)
    <3>1. PICK k \in 1 .. Len(s) : s[k] = y
      BY <2>2 DEF Holds
    <3>2. k \in 1 .. Len(t) /\ t[k] = y
      BY <1>1, <3>1
    <3>3. QED
      BY <3>2 DEF Holds
  <2>3. ASSUME y = x PROVE Holds(t, y)
    <3>1. Len(s) + 1 \in 1 .. Len(t)
      BY <1>1
    <3>2. QED
      BY <1>1, <2>3, <3>1 DEF Holds
  <2>4. QED
    BY <2>1, <2>2, <2>3
<1>3. QED
  BY <1>1, <1>2 DEF t

(* Without its last element.                                                 *)
LEMMA Shortened ==
  ASSUME NEW S, NEW s \in Seq(S), s # <<>>
  PROVE  LET t == SubSeq(s, 1, Len(s) - 1) IN
         /\ t \in Seq(S) /\ Len(s) \in Nat \ {0} /\ Len(t) = Len(s) - 1
         /\ s[Len(s)] \in S /\ \A k \in 1 .. Len(t) : t[k] = s[k]
         /\ \A y : Holds(s, y) <=> Holds(t, y) \/ y = s[Len(s)]
<1> DEFINE t == SubSeq(s, 1, Len(s) - 1)
<1>1. Len(s) \in Nat \ {0} /\ s[Len(s)] \in S
  OBVIOUS
<1>2. /\ t \in Seq(S) /\ Len(t) = Len(s) - 1
      /\ \A k \in 1 .. Len(s) - 1 : t[k] = s[k]
  <2> DEFINE n == Len(s) - 1
  <2>1. n \in Int /\ 1 \in Int /\ \A k \in 1 .. n : s[k] \in S
    BY <1>1
  <2> HIDE DEF n
  <2>2. /\ SubSeq(s, 1, n) \in Seq(S)
        /\ Len(SubSeq(s, 1, n)) = IF 1 <= n THEN n - 1 + 1 ELSE 0
        /\ \A i \in 1 .. n - 1 + 1 : SubSeq(s, 1, n)[i] = s[1 + i - 1]
    BY <2>1, SubSeqProperties
  <2>3. t = SubSeq(s, 1, n)
    BY DEF n
  <2> HIDE DEF t
  <2>4. n >= 0 /\ n - 1 + 1 = n
    BY <1>1, <2>1 DEF n
  <2>5. Len(t) = n /\ t \in Seq(S)
    BY <2>1, <2>2, <2>3, <2>4
  <2>6. \A k \in 1 .. n : t[k] = s[k]
    BY <2>1, <2>2, <2>3, <2>4
  <2>7. QED
    BY <2>5, <2>6 DEF n
<1> HIDE DEF t
<1>3. ASSUME NEW y PROVE Holds(s, y) <=> Holds(t, y) \/ y = s[Len(s)]
  <2>1. ASSUME Holds(s, y) PROVE Holds(t, y) \/ y = s[Len(s)]
    <3>1. PICK k \in 1 .. Len(s) : s[k] = y
      BY <2>1 DEF Holds
    <3>2. CASE k = Len(s)
      BY <3>1, <3>2
    <3>3. CASE k \in 1 .. Len(s) - 1
      BY <1>1, <1>2, <3>1, <3>3 DEF Holds
    <3>4. QED
      BY <1>1, <3>2, <3>3
  <2>2. ASSUME Holds(t, y) PROVE Holds(s, y)
    <3>1. PICK k \in 1 .. Len(t) : t[k] = y
      BY <2>2 DEF Holds
    <3>2. k \in 1 .. Len(s) /\ s[k] = y
      BY <1>1, <1>2, <3>1
    <3>3. QED
      BY <3>2 DEF Holds
  <2>3. ASSUME y = s[Len(s)] PROVE Holds(s, y)
    BY <1>1, <2>3 DEF Holds
  <2>4. QED
    BY <2>1, <2>2, <2>3
<1>4. QED
  BY <1>1, <1>2, <1>3 DEF t

-----------------------------------------------------------------------------
(* exit.cpp.  Handlers are numbered as atexit records them, so those in the  *)
(* table increase; a null function is 0.                                     *)

Waits(h) == Holds(handlers, h)
Started(h) == Holds(ran, h)

TableIncreases ==
  /\ \A k \in 1 .. Len(handlers) : handlers[k] \in 0 .. recorded
  /\ \A j, k \in 1 .. Len(handlers) : j < k /\ handlers[k] # 0 => handlers[j] < handlers[k]

StartedOnce == \A j, k \in 1 .. Len(ran) : j # k => ran[j] # ran[k]

(* The table and the history of started handlers are complementary.          *)
WaitsOrStarted ==
  /\ \A h : Started(h) => h \in 1 .. recorded
  /\ \A h : ~(Started(h) /\ Waits(h))
  /\ \A h \in 1 .. recorded : Started(h) \/ Waits(h)

ExitInv ==
  /\ handlers \in Seq(Nat) /\ ran \in Seq(Nat) /\ recorded \in Nat
  /\ TableIncreases /\ StartedOnce /\ WaitsOrStarted
  /\ exited # <<>> => handlers = <<>>

(* A program starts without handlers.                                        *)
LEMMA ExitInitial == ExitInit => ExitInv
<1> SUFFICES ASSUME ExitInit PROVE ExitInv
  OBVIOUS
<1>1. handlers = <<>> /\ ran = <<>> /\ recorded = 0 /\ exited = <<>>
  BY DEF ExitInit
<1>2. handlers \in Seq(Nat) /\ ran \in Seq(Nat) /\ Len(handlers) = 0 /\ Len(ran) = 0
  BY <1>1
<1>3. QED
  BY <1>1, <1>2 DEF ExitInv, TableIncreases, StartedOnce, WaitsOrStarted, Started, Waits, Holds

(* atexit puts a null function, or the next number, at the end of the table. *)
LEMMA AtexitStep == ASSUME ExitInv, NEW null \in BOOLEAN, Atexit(null) PROVE ExitInv'
<1>1. /\ handlers \in Seq(Nat) /\ ran \in Seq(Nat) /\ recorded \in Nat /\ exited = <<>>
      /\ TableIncreases /\ StartedOnce /\ WaitsOrStarted
  BY DEF ExitInv, Atexit, ProgramRuns
<1>2. UNCHANGED <<ran, exited>>
  BY DEF Atexit
<1>3. CASE UNCHANGED <<handlers, recorded>>
  BY <1>1, <1>2, <1>3 DEF ExitInv, TableIncreases, StartedOnce, WaitsOrStarted, Started, Waits
<1>4. ASSUME NEW h \in Nat, handlers' = Append(handlers, h),
             \/ h = 0 /\ recorded' = recorded
             \/ h = recorded + 1 /\ recorded' = recorded + 1
      PROVE  ExitInv'
  <2>1. /\ handlers' \in Seq(Nat) /\ Len(handlers) \in Nat /\ Len(handlers') = Len(handlers) + 1
        /\ handlers'[Len(handlers) + 1] = h
        /\ \A k \in 1 .. Len(handlers) : handlers'[k] = handlers[k]
        /\ \A y : Holds(handlers', y) <=> Holds(handlers, y) \/ y = h
    BY <1>1, <1>4, Appended
  <2> DEFINE n == Len(handlers)
  <2>2. ASSUME NEW k \in 1 .. Len(handlers')
        PROVE  handlers'[k] \in 0 .. recorded'
    <3>1. CASE k = n + 1
      BY <1>1, <1>4, <2>1, <3>1
    <3>2. CASE k \in 1 .. n
      BY <1>1, <1>4, <2>1, <3>2 DEF TableIncreases
    <3>3. QED
      BY <2>1, <3>1, <3>2
  <2>3. ASSUME NEW j \in 1 .. Len(handlers'), NEW k \in 1 .. Len(handlers'), j < k, handlers'[k] # 0
        PROVE  handlers'[j] < handlers'[k]
    <3>1. j \in 1 .. n
      BY <2>1, <2>3
    <3>2. handlers'[j] = handlers[j] /\ handlers[j] \in 0 .. recorded
      BY <1>1, <2>1, <3>1 DEF TableIncreases
    <3>3. CASE k = n + 1
      BY <1>1, <1>4, <2>1, <2>3, <3>2, <3>3
    <3>4. CASE k \in 1 .. n
      BY <1>1, <2>1, <2>3, <3>1, <3>2, <3>4 DEF TableIncreases
    <3>5. QED
      BY <2>1, <3>3, <3>4
  <2>4. TableIncreases' /\ StartedOnce'
    BY <1>1, <1>2, <2>2, <2>3 DEF TableIncreases, StartedOnce
  <2>5. \A y : Waits(y)' <=> Waits(y) \/ y = h
    BY <2>1 DEF Waits
  <2>6. \A y : Started(y)' <=> Started(y)
    BY <1>2 DEF Started
  <2>7. \A y \in 1 .. recorded' : y \in 1 .. recorded \/ y = h
    BY <1>1, <1>4
  <2>8. /\ \A y : y \in 1 .. recorded => y \in 1 .. recorded' /\ y # h
    BY <1>1, <1>4
  <2>9. WaitsOrStarted'
    <3>1. \A y : Started(y)' => y \in 1 .. recorded'
      BY <1>1, <2>6, <2>8 DEF WaitsOrStarted
    <3>2. \A y : ~(Started(y)' /\ Waits(y)')
      BY <1>1, <2>5, <2>6, <2>8 DEF WaitsOrStarted
    <3>3. \A y \in 1 .. recorded' : Started(y)' \/ Waits(y)'
      BY <1>1, <2>5, <2>6, <2>7 DEF WaitsOrStarted
    <3>4. QED
      BY <3>1, <3>2, <3>3 DEF WaitsOrStarted
  <2>10. QED
    BY <1>1, <1>2, <1>4, <2>1, <2>4, <2>9 DEF ExitInv
<1>5. QED
  BY <1>1, <1>3, <1>4 DEF Atexit, Recorded

(* The exit loop takes the newest handler out of the table and starts it.    *)
LEMMA RunHandlerStep == ASSUME ExitInv, RunAtexitHandler PROVE ExitInv'
<1> DEFINE n == Len(handlers)
<1>0. PICK h : h = handlers[n]
  OBVIOUS
<1>1. /\ handlers \in Seq(Nat) /\ ran \in Seq(Nat) /\ recorded \in Nat /\ exited = <<>>
      /\ TableIncreases /\ StartedOnce /\ WaitsOrStarted
  BY DEF ExitInv, RunAtexitHandler
<1>2. /\ handlers # <<>> /\ handlers' = SubSeq(handlers, 1, n - 1) /\ UNCHANGED <<recorded, exited>>
      /\ (h = 0 /\ UNCHANGED ran) \/ (h # 0 /\ ran' = Append(ran, h))
  BY <1>0 DEF RunAtexitHandler, Left, Newest
<1>3. /\ handlers' \in Seq(Nat) /\ n \in Nat \ {0} /\ Len(handlers') = n - 1
      /\ h \in Nat /\ \A k \in 1 .. Len(handlers') : handlers'[k] = handlers[k]
      /\ \A y : Holds(handlers, y) <=> Holds(handlers', y) \/ y = h
  BY <1>0, <1>1, <1>2, Shortened
<1>4. h \in 0 .. recorded
  BY <1>0, <1>1, <1>3 DEF TableIncreases
<1>5. \A k \in 1 .. Len(handlers') : k \in 1 .. n /\ k < n /\ n \in 1 .. n
  BY <1>3
<1> HIDE DEF n
<1>6. TableIncreases'
  <2>1. \A k \in 1 .. Len(handlers') : handlers'[k] \in 0 .. recorded'
    BY <1>1, <1>2, <1>3, <1>5 DEF TableIncreases, n
  <2>2. ASSUME NEW j \in 1 .. Len(handlers'), NEW k \in 1 .. Len(handlers'), j < k, handlers'[k] # 0
        PROVE  handlers'[j] < handlers'[k]
    BY <1>1, <1>3, <1>5, <2>2 DEF TableIncreases, n
  <2>3. QED
    BY <2>1, <2>2 DEF TableIncreases
<1>7. \A y : Waits(y) <=> Waits(y)' \/ y = h
  BY <1>3 DEF Waits
<1>8. h # 0 => ~Waits(h)'
  <2> SUFFICES ASSUME h # 0, Waits(h)' PROVE FALSE
    OBVIOUS
  <2>1. PICK k \in 1 .. Len(handlers') : handlers'[k] = h
    BY DEF Waits, Holds
  <2>2. handlers[k] = h /\ k \in 1 .. n /\ k < n /\ n \in 1 .. n /\ handlers[n] = h
    BY <1>0, <1>3, <1>5, <2>1 DEF n
  <2>3. handlers[k] < handlers[n]
    BY <1>1, <2>2 DEF TableIncreases, n
  <2>4. QED
    BY <1>3, <2>2, <2>3
<1>9. CASE h = 0 /\ UNCHANGED ran
  <2>1. \A y : Started(y)' <=> Started(y)
    BY <1>9 DEF Started
  <2>2. \A y \in 1 .. recorded : y # h
    BY <1>1, <1>9
  <2>3. WaitsOrStarted'
    BY <1>1, <1>2, <1>7, <2>1, <2>2 DEF WaitsOrStarted
  <2>4. StartedOnce'
    BY <1>1, <1>9 DEF StartedOnce
  <2>5. QED
    BY <1>1, <1>2, <1>3, <1>6, <1>9, <2>3, <2>4 DEF ExitInv
<1>10. CASE h # 0 /\ ran' = Append(ran, h)
  <2>1. /\ ran' \in Seq(Nat) /\ Len(ran) \in Nat /\ Len(ran') = Len(ran) + 1
        /\ ran'[Len(ran) + 1] = h
        /\ \A k \in 1 .. Len(ran) : ran'[k] = ran[k]
        /\ \A y : Holds(ran', y) <=> Holds(ran, y) \/ y = h
    BY <1>1, <1>3, <1>10, Appended
  <2>2. \A y : Started(y)' <=> Started(y) \/ y = h
    BY <2>1 DEF Started
  <2>3. ~Started(h)
    BY <1>1, <1>7 DEF WaitsOrStarted
  <2>4. h \in 1 .. recorded
    BY <1>1, <1>4, <1>10
  <2>5. WaitsOrStarted'
    <3>1. \A y : Started(y)' => y \in 1 .. recorded'
      BY <1>1, <1>2, <2>2, <2>4 DEF WaitsOrStarted
    <3>2. \A y : ~(Started(y)' /\ Waits(y)')
      BY <1>1, <1>7, <1>8, <1>10, <2>2 DEF WaitsOrStarted
    <3>3. \A y \in 1 .. recorded' : Started(y)' \/ Waits(y)'
      BY <1>1, <1>2, <1>7, <2>2 DEF WaitsOrStarted
    <3>4. QED
      BY <3>1, <3>2, <3>3 DEF WaitsOrStarted
  <2>6. ASSUME NEW j \in 1 .. Len(ran'), NEW k \in 1 .. Len(ran'), j # k
        PROVE  ran'[j] # ran'[k]
    <3>1. \A i \in 1 .. Len(ran) : ran[i] # h
      BY <2>3 DEF Started, Holds
    <3>2. CASE j \in 1 .. Len(ran) /\ k \in 1 .. Len(ran)
      BY <1>1, <2>1, <2>6, <3>2 DEF StartedOnce
    <3>3. CASE j = Len(ran) + 1 /\ k \in 1 .. Len(ran)
      BY <2>1, <3>1, <3>3
    <3>4. CASE k = Len(ran) + 1 /\ j \in 1 .. Len(ran)
      BY <2>1, <3>1, <3>4
    <3>5. QED
      BY <2>1, <2>6, <3>2, <3>3, <3>4
  <2>7. StartedOnce'
    BY <2>6 DEF StartedOnce
  <2>8. QED
    BY <1>1, <1>2, <1>3, <1>6, <2>1, <2>5, <2>7 DEF ExitInv
<1>11. QED
  BY <1>2, <1>9, <1>10

(* Every step of a program keeps the invariant.                              *)
LEMMA ExitStep == ExitInv /\ [ExitNext]_exitVars => ExitInv'
<1> SUFFICES ASSUME ExitInv, [ExitNext]_exitVars PROVE ExitInv'
  OBVIOUS
<1>1. CASE \E null \in BOOLEAN : Atexit(null)
  BY <1>1, AtexitStep
<1>2. CASE RunAtexitHandler
  BY <1>2, RunHandlerStep
<1>3. CASE ThreadExit
  <2>1. UNCHANGED <<handlers, recorded, ran>> /\ handlers = <<>>
    BY <1>3 DEF ThreadExit
  <2>2. QED
    BY <2>1 DEF ExitInv, TableIncreases, StartedOnce, WaitsOrStarted, Started, Waits
<1>4. CASE UserStart \/ (\E s \in Statuses : Exit(s) \/ Return(s)) \/ UNCHANGED exitVars
  <2>1. UNCHANGED <<handlers, recorded, ran, exited>>
    BY <1>4 DEF UserStart, Exit, Return, exitVars
  <2>2. QED
    BY <2>1 DEF ExitInv, TableIncreases, StartedOnce, WaitsOrStarted, Started, Waits
<1>5. QED
  BY <1>1, <1>2, <1>3, <1>4 DEF ExitNext

(* The table and the history of started handlers stay complementary.         *)
THEOREM ExitInvariant == ExitSpec => []ExitInv
BY ExitInitial, ExitStep, PTL DEF ExitSpec

(* What the invariant says of the handlers (exit, run_atexit_handlers).      *)
LEMMA ExitInvSays == ExitInv => HandlersRunExactlyOnce
<1> SUFFICES ASSUME ExitInv PROVE HandlersRunExactlyOnce
  OBVIOUS
<1>1. /\ handlers \in Seq(Nat) /\ ran \in Seq(Nat) /\ StartedOnce /\ WaitsOrStarted
      /\ exited # <<>> => handlers = <<>>
  BY DEF ExitInv
<1>2. DOMAIN ran = 1 .. Len(ran) /\ DOMAIN handlers = 1 .. Len(handlers)
  BY <1>1
<1>3. \A j \in DOMAIN ran : Started(ran[j])
  BY <1>2 DEF Started, Holds
<1>4. \A k \in DOMAIN handlers : Waits(handlers[k])
  BY <1>2 DEF Waits, Holds
<1>5. HandlersRunOnce
  BY <1>1, <1>2, <1>3, <1>4 DEF HandlersRunOnce, StartedOnce, WaitsOrStarted
<1>6. ExitLeavesNoHandler
  <2> SUFFICES ASSUME exited # <<>>, NEW h \in 1 .. recorded PROVE \E k \in DOMAIN ran : ran[k] = h
    BY DEF ExitLeavesNoHandler
  <2>1. ~Waits(h)
    BY <1>1 DEF Waits, Holds
  <2>2. QED
    BY <1>1, <1>2, <2>1 DEF WaitsOrStarted, Started, Holds
<1>7. QED
  BY <1>5, <1>6 DEF HandlersRunExactlyOnce

(* The handler that exit starts is the newest one that waits.                *)
LEMMA NewestFirst ==
  ASSUME ExitInv, [ExitNext]_exitVars, NEW h \in 1 .. recorded, ran' = Append(ran, h)
  PROVE  \A k \in DOMAIN handlers' : handlers'[k] < h
<1> DEFINE n == Len(handlers)
<1>1. handlers \in Seq(Nat) /\ ran \in Seq(Nat) /\ recorded \in Nat /\ TableIncreases /\ h \in Nat
  BY DEF ExitInv
<1>2. Len(ran') = Len(ran) + 1 /\ Len(ran) \in Nat /\ ran'[Len(ran) + 1] = h
  BY <1>1, Appended
<1>3. ran' # ran
  BY <1>2
<1>4. RunAtexitHandler
  BY <1>3 DEF ExitNext, UserStart, Exit, Return, Atexit, ThreadExit, exitVars
<1>5. /\ handlers # <<>> /\ handlers' = SubSeq(handlers, 1, n - 1)
      /\ handlers[n] # 0 /\ ran' = Append(ran, handlers[n])
  BY <1>3, <1>4 DEF RunAtexitHandler, Left, Newest
<1>6. /\ handlers' \in Seq(Nat) /\ n \in Nat \ {0} /\ Len(handlers') = n - 1
      /\ handlers[n] \in Nat /\ \A k \in 1 .. Len(handlers') : handlers'[k] = handlers[k]
  BY <1>1, <1>5, Shortened
<1>7. h = handlers[n]
  BY <1>1, <1>2, <1>5, <1>6, Appended
<1>8. ASSUME NEW k \in DOMAIN handlers' PROVE handlers'[k] < h
  <2>1. k \in 1 .. Len(handlers')
    BY <1>6
  <2>2. k \in 1 .. n /\ n \in 1 .. n /\ k < n /\ handlers'[k] = handlers[k]
    BY <1>6, <2>1
  <2>3. QED
    BY <1>1, <1>5, <1>7, <2>2 DEF TableIncreases
<1>9. QED
  BY <1>8

-----------------------------------------------------------------------------
(* stdio.cpp.  What the output holds depends on the text and the size alone: *)
(* which characters a conversion yields is left open.                        *)



StdioTypes ==
  /\ call \in Calls
  /\ \E S : text \in Seq(S)
  /\ \E R : memory \in [Cells -> R]
  /\ phase \in {"called", "formatting", "returned"}
  /\ phase = "formatting" => call.function # "puts" /\ ~InvalidArguments
  /\ phase # "returned" => console = <<>>

(* The cursor stands behind the part of the text that fits, and remaining    *)
(* says how much of the buffer the text leaves.                              *)
OutputFollowsText ==
  /\ total_written = Len(text)
  /\ remaining = IF Len(text) < call.size THEN call.size - Len(text) ELSE 0
  /\ cursor = Fitting

StdioInv ==
  /\ StdioTypes
  /\ OutputFollowsText
  /\ BufferHoldsThePrefix
  /\ ReturnsTheWholeLength
  /\ PrintsAllOrNothing

(* The sizes are numbers.                                                    *)
LEMMA SizesAreNumbers ==
  ASSUME StdioTypes
  PROVE  /\ Reach \in Nat /\ call.size \in Nat /\ call.size <= Reach /\ Len(text) \in Nat
         /\ Fitting \in Nat /\ call.size # 0 => Fitting < call.size /\ Fitting \in Cells
         /\ call.size = 0 => Fitting = 0
         /\ Len(call.format) \in Nat
         /\ call.function = "printf" => call.size = LogBuffer /\ ~call.null
<1>1. /\ Reach \in Nat /\ call.size \in Nat /\ call.size <= Reach /\ Len(call.format) \in Nat
      /\ call.function = "printf" => call.size = LogBuffer /\ ~call.null
  BY SizesAssumption DEF StdioTypes
<1>2. Len(text) \in Nat
  BY DEF StdioTypes
<1>3. QED
  BY <1>1, <1>2 DEF Fitting, Cells

(* A call begins with an empty text and memory nobody has written.           *)
LEMMA StdioInitial == StdioInit => StdioInv
<1> SUFFICES ASSUME StdioInit PROVE StdioInv
  OBVIOUS
<1>1. /\ text = <<>> /\ Len(text) = 0 /\ phase = "called" /\ call \in Calls
      /\ memory = [a \in Cells |-> Garbage] /\ memory \in [Cells -> {Garbage}]
      /\ text \in Seq({}) /\ console = <<>>
      /\ total_written = 0 /\ remaining = call.size /\ cursor = 0
  BY DEF StdioInit
<1>2. StdioTypes
  BY <1>1 DEF StdioTypes
<1>3. Fitting = 0 /\ call.size \in Nat
  BY <1>1, <1>2, SizesAreNumbers DEF Fitting
<1>4. OutputFollowsText
  BY <1>1, <1>3 DEF OutputFollowsText
<1>5. BufferHoldsThePrefix
  <2> SUFFICES ASSUME NEW a \in Cells PROVE memory[a] = IF a < Fitting THEN text[a + 1] ELSE Garbage
    BY <1>1 DEF BufferHoldsThePrefix, Formatted
  <2>1. ~(a < 0)
    BY <1>2, SizesAreNumbers DEF Cells
  <2>2. QED
    BY <1>1, <1>3, <2>1
<1>6. ReturnsTheWholeLength /\ PrintsAllOrNothing
  BY <1>1 DEF ReturnsTheWholeLength, PrintsAllOrNothing, Formatted
<1>7. QED
  BY <1>2, <1>4, <1>5, <1>6 DEF StdioInv

(* A step that writes nothing: vsnprintf's checks and a turn of its loop.    *)
LEMMA NothingWritten ==
  ASSUME StdioInv, UNCHANGED <<call, memory, cursor, remaining, total_written, text>>,
         phase' \in {"formatting", "returned"}, phase # "returned",
         ~Formatted', ReturnsTheWholeLength', PrintsAllOrNothing',
         phase' = "formatting" => call.function # "puts" /\ ~InvalidArguments /\ console' = <<>>
  PROVE  StdioInv'
<1>1. StdioTypes' /\ ~Formatted
  BY DEF StdioInv, StdioTypes, InvalidArguments, Formatted
<1>2. OutputFollowsText' /\ Fitting' = Fitting
  BY DEF StdioInv, OutputFollowsText, Fitting
<1>3. BufferHoldsThePrefix'
  BY <1>1, <1>2 DEF StdioInv, BufferHoldsThePrefix
<1>4. QED
  BY <1>1, <1>2, <1>3 DEF StdioInv

(* puts writes no buffer; the end of line is short enough for the log.       *)
LEMMA PutsStep == StdioInv /\ Puts => StdioInv'
<1> SUFFICES ASSUME StdioInv, Puts PROVE StdioInv'
  OBVIOUS
<1> DEFINE first == call.format # NullString /\ Accepts(call.format)
<1>1. /\ phase = "called" /\ call.function = "puts" /\ phase' = "returned"
      /\ UNCHANGED <<call, memory, cursor, remaining, total_written, text>>
  BY DEF Puts, Returns
<1>2. console = <<>> /\ Len(call.format) \in Nat
  BY <1>1, SizesAreNumbers DEF StdioInv, StdioTypes
<1>3. Accepts(<<"\\n">>)
  BY SizesAssumption DEF Accepts
<1>4. /\ console' = IF ~first THEN console ELSE console \o <<call.format, <<"\\n">> >>
      /\ result' = IF first THEN Len(call.format) + 1 ELSE EOF
  BY <1>3 DEF Puts, Returns
<1> HIDE DEF first
<1>5. result' = EOF <=> console' = <<>>
  <2>1. <<>> \o <<call.format, <<"\\n">> >> # <<>>
    OBVIOUS
  <2>2. QED
    BY <1>2, <1>4, <2>1 DEF EOF
<1>6. ~Formatted' /\ ReturnsTheWholeLength' /\ PrintsAllOrNothing'
  BY <1>1, <1>5 DEF Formatted, ReturnsTheWholeLength, PrintsAllOrNothing
<1>7. QED
  BY <1>1, <1>6, NothingWritten

(* vsnprintf refuses a null format and a null buffer of some size.           *)
LEMMA VsnprintfStep == StdioInv /\ Vsnprintf => StdioInv'
<1> SUFFICES ASSUME StdioInv, Vsnprintf PROVE StdioInv'
  OBVIOUS
<1>1. /\ phase = "called" /\ call.function # "puts"
      /\ UNCHANGED <<call, memory, cursor, remaining, total_written, text, console>>
      /\ \/ InvalidArguments /\ phase' = "returned" /\ result' = -1
         \/ ~InvalidArguments /\ phase' = "formatting"
  BY DEF Vsnprintf, Returns
<1>2. console = <<>>
  BY <1>1 DEF StdioInv, StdioTypes
<1>3. ~Formatted' /\ ReturnsTheWholeLength'
  BY <1>1 DEF Formatted, InvalidArguments, ReturnsTheWholeLength
<1>4. PrintsAllOrNothing'
  BY <1>1 DEF PrintsAllOrNothing
<1>5. QED
  BY <1>1, <1>2, <1>3, <1>4, NothingWritten

(* A turn of the loop over the format.                                       *)
LEMMA FormatCharacterStep == StdioInv /\ FormatCharacter => StdioInv'
<1> SUFFICES ASSUME StdioInv, FormatCharacter PROVE StdioInv'
  OBVIOUS
<1>1. /\ phase = "formatting" /\ UNCHANGED <<call, memory, cursor, remaining, total_written, text, phase, console>>
  BY DEF FormatCharacter
<1>2. console = <<>> /\ call.function # "puts" /\ ~InvalidArguments
  BY <1>1 DEF StdioInv, StdioTypes
<1>3. ~Formatted' /\ ReturnsTheWholeLength' /\ PrintsAllOrNothing'
  BY <1>1 DEF Formatted, ReturnsTheWholeLength, PrintsAllOrNothing
<1>4. QED
  BY <1>1, <1>2, <1>3, NothingWritten

(* append_character: the character goes into the buffer as long as a place   *)
(* for the terminator is left, and is counted in any case.                   *)
LEMMA AppendCharacterStep == StdioInv /\ AppendCharacter => StdioInv'
<1> SUFFICES ASSUME StdioInv, AppendCharacter PROVE StdioInv'
  OBVIOUS
<1> DEFINE n == Len(text)
           size == call.size
<1>0. PICK x : x = Head(pending)
  OBVIOUS
<1>1. /\ phase = "formatting" /\ phase' = phase /\ call' = call /\ console' = console
      /\ text' = Append(text, x) /\ total_written' = total_written + 1
      /\ remaining' = IF remaining > 0 THEN remaining - 1 ELSE 0
      /\ \/ remaining > 1 /\ memory' = [memory EXCEPT ![cursor] = x] /\ cursor' = cursor + 1
         \/ ~(remaining > 1) /\ memory' = memory /\ cursor' = cursor
  BY <1>0 DEF AppendCharacter, HasRoom, Counted
<1>2. /\ StdioTypes /\ OutputFollowsText /\ BufferHoldsThePrefix
      /\ Reach \in Nat /\ size \in Nat /\ size <= Reach /\ n \in Nat
  BY SizesAreNumbers DEF StdioInv
<1>3. PICK S : text \in Seq(S)
  BY <1>2 DEF StdioTypes
<1>4. PICK R : memory \in [Cells -> R]
  BY <1>2 DEF StdioTypes
<1>5. /\ text' \in Seq(S \cup {x}) /\ Len(text') = n + 1 /\ text'[n + 1] = x
      /\ \A k \in 1 .. n : text'[k] = text[k]
  <2>1. text \in Seq(S \cup {x}) /\ x \in S \cup {x}
    BY <1>3
  <2>2. QED
    BY <1>1, <2>1, Appended
<1>6. memory' \in [Cells -> R \cup {x}]
  BY <1>1, <1>4
<1>7. StdioTypes'
  BY <1>1, <1>2, <1>5, <1>6 DEF StdioTypes, InvalidArguments
<1>8. /\ remaining = IF n < size THEN size - n ELSE 0
      /\ cursor = IF size = 0 THEN 0 ELSE IF n < size THEN n ELSE size - 1
      /\ total_written = n
  BY <1>2 DEF OutputFollowsText, Fitting
<1>9. Fitting' = IF size = 0 THEN 0 ELSE IF n + 1 < size THEN n + 1 ELSE size - 1
  BY <1>1, <1>5 DEF Fitting
<1>10. remaining > 1 <=> n + 1 < size
  BY <1>2, <1>8
<1>11. OutputFollowsText'
  <2>1. cursor' = Fitting'
    BY <1>1, <1>2, <1>8, <1>9, <1>10
  <2>2. remaining' = IF n + 1 < size THEN size - (n + 1) ELSE 0
    BY <1>1, <1>2, <1>8
  <2>3. QED
    BY <1>1, <1>5, <1>8, <2>1, <2>2 DEF OutputFollowsText
<1>12. ~Formatted /\ ~Formatted'
  BY <1>1 DEF Formatted
<1>13. \A a \in Cells : memory[a] = IF a < Fitting THEN text[a + 1] ELSE Garbage
  BY <1>2, <1>12 DEF BufferHoldsThePrefix
<1>14. ASSUME NEW a \in Cells
       PROVE  memory'[a] = IF a < Fitting' THEN text'[a + 1] ELSE Garbage
  <2>1. a \in Nat /\ Fitting = cursor
    BY <1>2 DEF Cells, OutputFollowsText
  <2>2. CASE n + 1 < size
    <3>1. /\ cursor = n /\ Fitting' = n + 1 /\ memory' = [memory EXCEPT ![n] = x] /\ n \in Cells
      BY <1>1, <1>2, <1>8, <1>9, <1>10, <2>2 DEF Cells
    <3>2. CASE a = n
      BY <1>2, <1>4, <1>5, <3>1, <3>2
    <3>3. CASE a < n
      <4>1. memory'[a] = memory[a] /\ a + 1 \in 1 .. n
        BY <1>2, <1>4, <2>1, <3>1, <3>3
      <4>2. memory[a] = text[a + 1] /\ a < n + 1
        BY <1>2, <1>13, <2>1, <3>1, <3>3
      <4>3. QED
        BY <1>5, <3>1, <4>1, <4>2
    <3>4. CASE a > n
      <4>1. memory'[a] = memory[a] /\ ~(a < n) /\ ~(a < n + 1)
        BY <1>2, <1>4, <2>1, <3>1, <3>4
      <4>2. QED
        BY <1>13, <2>1, <3>1, <4>1
    <3>5. QED
      BY <1>2, <2>1, <3>2, <3>3, <3>4
  <2>3. CASE ~(n + 1 < size)
    <3>1. memory' = memory /\ Fitting' = Fitting /\ Fitting <= n
      BY <1>1, <1>2, <1>8, <1>9, <1>10, <2>1, <2>3
    <3>2. a < Fitting => text'[a + 1] = text[a + 1]
      <4>1. a < Fitting => a + 1 \in 1 .. n
        BY <1>2, <1>8, <2>1, <3>1
      <4>2. QED
        BY <1>5, <4>1
    <3>3. QED
      BY <1>13, <3>1, <3>2
  <2>4. QED
    BY <2>2, <2>3
<1>15. BufferHoldsThePrefix'
  BY <1>12, <1>14 DEF BufferHoldsThePrefix
<1>16. ReturnsTheWholeLength' /\ PrintsAllOrNothing'
  BY <1>1, <1>12 DEF ReturnsTheWholeLength, PrintsAllOrNothing
<1>17. QED
  BY <1>7, <1>11, <1>15, <1>16 DEF StdioInv

(* The string in memory m ends at the first terminator.                      *)
LEMMA StringInIs ==
  ASSUME NEW m, NEW n \in Cells, Reach \in Nat, m[n] = EndOfString,
         \A j \in Cells : j < n => m[j] # EndOfString
  PROVE  StringIn(m) = [k \in 1 .. n |-> m[k - 1]]
<1> DEFINE P(k) == m[k] = EndOfString /\ \A j \in 0 .. k - 1 : m[j] # EndOfString
<1>1. P(n)
  BY DEF Cells
<1>2. ASSUME NEW k \in Cells, P(k) PROVE k = n
  <2>1. ~(k < n)
    BY <1>2 DEF Cells
  <2>2. ~(n < k)
    BY <1>2 DEF Cells
  <2>3. QED
    BY <2>1, <2>2 DEF Cells
<1>3. n = CHOOSE k \in Cells : P(k)
  BY <1>1, <1>2
<1>4. QED
  BY <1>3 DEF StringIn

(* The end of vsnprintf: the terminator follows what fits, and printf logs   *)
(* the string that the buffer holds.                                         *)
LEMMA FinishFormatStep == StdioInv /\ FinishFormat => StdioInv'
<1> SUFFICES ASSUME StdioInv, FinishFormat PROVE StdioInv'
  OBVIOUS
<1> DEFINE n == Len(text)
           size == call.size
<1>1. /\ phase = "formatting" /\ phase' = "returned" /\ result' = total_written
      /\ UNCHANGED <<call, cursor, remaining, total_written, text>>
      /\ memory' = IF size # 0 THEN [memory EXCEPT ![Terminator] = EndOfString] ELSE memory
      /\ console' = IF call.function = "printf" THEN Logged(StringIn(memory')) ELSE console
  BY DEF FinishFormat, Returns, Message
<1>2. /\ StdioTypes /\ OutputFollowsText /\ BufferHoldsThePrefix
      /\ Reach \in Nat /\ size \in Nat /\ size <= Reach /\ n \in Nat
      /\ Fitting \in Nat /\ size # 0 => Fitting < size /\ Fitting \in Cells
      /\ size = 0 => Fitting = 0
      /\ call.function = "printf" => size = LogBuffer
  BY SizesAreNumbers DEF StdioInv
<1>3. call.function # "puts" /\ ~InvalidArguments /\ console = <<>>
  BY <1>1, <1>2 DEF StdioTypes
<1>4. PICK S : text \in Seq(S)
  BY <1>2 DEF StdioTypes
<1>5. PICK R : memory \in [Cells -> R]
  BY <1>2 DEF StdioTypes
<1>6. memory' \in [Cells -> R \cup {EndOfString}]
  BY <1>1, <1>5
<1>7. StdioTypes' /\ Formatted' /\ ~Formatted
  BY <1>1, <1>2, <1>3, <1>6 DEF StdioTypes, Formatted, InvalidArguments
<1>8. Fitting' = Fitting /\ OutputFollowsText'
  BY <1>1, <1>2 DEF Fitting, OutputFollowsText
<1>9. size # 0 => Terminator = Fitting
  BY <1>2 DEF Terminator, OutputFollowsText, Fitting
<1>10. ASSUME NEW a \in Cells
       PROVE  memory'[a] = IF a < Fitting THEN text[a + 1]
                           ELSE IF size # 0 /\ a = Fitting THEN EndOfString ELSE Garbage
  <2>1. memory[a] = IF a < Fitting THEN text[a + 1] ELSE Garbage
    BY <1>2, <1>7 DEF BufferHoldsThePrefix
  <2>2. CASE size = 0
    BY <1>1, <2>1, <2>2
  <2>3. CASE size # 0
    <3>1. memory' = [memory EXCEPT ![Fitting] = EndOfString]
      BY <1>1, <1>9, <2>3
    <3>2. CASE a = Fitting
      BY <1>2, <1>5, <2>3, <3>1, <3>2
    <3>3. CASE a # Fitting
      BY <1>5, <2>1, <3>1, <3>3
    <3>4. QED
      BY <3>2, <3>3
  <2>4. QED
    BY <2>2, <2>3
<1>11. BufferHoldsThePrefix'
  BY <1>1, <1>7, <1>8, <1>10 DEF BufferHoldsThePrefix
<1>12. ReturnsTheWholeLength'
  BY <1>1, <1>2 DEF ReturnsTheWholeLength, OutputFollowsText
<1>13. ASSUME call.function = "printf", \A k \in DOMAIN text : text[k] # EndOfString
       PROVE  console' = IF n < LogCapacity THEN <<text>> ELSE <<>>
  <2>1. /\ size = LogBuffer /\ size \in Nat \ {0} /\ LogBuffer \in Nat /\ LogCapacity \in Nat
        /\ LogCapacity <= LogBuffer - 1
    BY <1>2, <1>13, SizesAssumption
  <2>2. /\ Fitting \in Cells /\ Fitting < size /\ Fitting = IF n < size THEN n ELSE size - 1
    BY <1>2, <2>1 DEF Fitting
  <2>3. DOMAIN text = 1 .. n
    BY <1>4
  <2>4. memory'[Fitting] = EndOfString
    BY <1>2, <1>10, <2>1, <2>2
  <2>5. ASSUME NEW j \in Cells, j < Fitting
        PROVE  memory'[j] = text[j + 1] /\ memory'[j] # EndOfString
    <3>1. memory'[j] = text[j + 1]
      BY <1>10, <2>5
    <3>2. j + 1 \in 1 .. n
      BY <1>2, <2>1, <2>2, <2>5 DEF Cells
    <3>3. QED
      BY <1>13, <2>3, <3>1, <3>2
  <2> DEFINE line == StringIn(memory')
  <2>6. line = [k \in 1 .. Fitting |-> memory'[k - 1]]
    BY <1>2, <2>2, <2>4, <2>5, StringInIs
  <2>7. line = [k \in 1 .. Fitting |-> text[k]]
    <3>1. \A k \in 1 .. Fitting : k - 1 \in Cells /\ k - 1 < Fitting /\ (k - 1) + 1 = k
      BY <1>2, <2>2 DEF Cells
    <3>2. \A k \in 1 .. Fitting : memory'[k - 1] = text[k]
      BY <2>5, <3>1
    <3>3. QED
      BY <2>6, <3>2
  <2> HIDE DEF line
  <2>8. Len(line) = Fitting
    <3>1. PICK f : f = Fitting
      OBVIOUS
    <3>2. f \in Nat /\ \A k \in 1 .. f : text[k] \in S
      BY <1>2, <1>4, <2>1, <2>2, <3>1
    <3>3. line \in [1 .. f -> S]
      BY <2>7, <3>1, <3>2
    <3>4. QED
      BY <3>1, <3>2, <3>3
  <2>9. console' = IF Fitting < LogCapacity THEN Append(<<>>, line) ELSE <<>>
    BY <1>1, <1>3, <1>13, <2>8 DEF Logged, Accepts, line
  <2>10. CASE n < size
    <3>1. line = text
      <4>1. Fitting = n /\ text = [k \in 1 .. n |-> text[k]]
        BY <1>4, <2>2, <2>10
      <4>2. QED
        BY <2>7, <4>1
    <3>2. Fitting = n
      BY <2>2, <2>10
    <3>3. QED
      BY <2>9, <3>1, <3>2
  <2>11. CASE ~(n < size)
    BY <1>2, <2>1, <2>2, <2>9, <2>11
  <2>12. QED
    BY <2>10, <2>11
<1>14. PrintsAllOrNothing'
  BY <1>1, <1>3, <1>13 DEF PrintsAllOrNothing
<1>15. QED
  BY <1>7, <1>8, <1>11, <1>12, <1>14 DEF StdioInv

(* Every step keeps the invariant.                                           *)
LEMMA StdioStep == StdioInv /\ [StdioNext]_stdioVars => StdioInv'
<1> SUFFICES ASSUME StdioInv, [StdioNext]_stdioVars PROVE StdioInv'
  OBVIOUS
<1>1. CASE UNCHANGED stdioVars
  BY <1>1 DEF stdioVars, StdioInv, StdioTypes, OutputFollowsText, BufferHoldsThePrefix, Fitting,
              Formatted, InvalidArguments, ReturnsTheWholeLength, PrintsAllOrNothing
<1>2. QED
  BY <1>1, PutsStep, VsnprintfStep, FormatCharacterStep, AppendCharacterStep, FinishFormatStep
     DEF StdioNext

(* The output follows the text through every call.                           *)
THEOREM StdioInvariant == StdioSpec => []StdioInv
BY StdioInitial, StdioStep, PTL DEF StdioSpec

-----------------------------------------------------------------------------
(* string.cpp.                                                               *)

(* The addresses a loop has written after index turns.                       *)
Written(a) ==
  /\ operation \in {"memmove", "memcpy", "memset"}
  /\ IF operation = "memmove" /\ ~Forward
     THEN a >= destination + length - index /\ a < destination + length
     ELSE a >= destination /\ a < destination + index

CallOK ==
  /\ bytes \in [Addresses -> Bytes] /\ original \in [Addresses -> Bytes]
  /\ operation \in {"memmove", "memcpy", "memset", "memcmp", "strlen"}
  /\ length \in Nat /\ destination \in Nat /\ source \in Nat /\ value \in Bytes
  /\ destination + length <= Size /\ source + length <= Size
  /\ operation = "memcpy" => Disjoint
  /\ operation = "strlen" => \E a \in source .. Size - 1 : original[a] = 0
  /\ index \in Nat
  /\ operation # "strlen" => index <= length
  /\ operation = "memmove" /\ destination = source => index = 0

(* What was written is as wanted and the rest is as it was: in particular    *)
(* the part of the source that a memmove has still to read.                  *)
WrittenAsWanted ==
  \A a \in Addresses : bytes[a] = IF Written(a) THEN Wanted(a) ELSE original[a]

(* A comparing or counting loop goes on as long as nothing was found.        *)
NothingFoundYet ==
  /\ operation = "memcmp" => \A k \in 0 .. index - 1 : original[destination + k] = original[source + k]
  /\ operation = "strlen" => \A k \in 0 .. index - 1 : original[source + k] # 0

(* Why a loop has ended.                                                     *)
Finished ==
  returned # <<>> =>
    /\ operation \in {"memmove", "memcpy", "memset"} =>
         index = length \/ (operation = "memmove" /\ destination = source)
    /\ operation = "memcmp" =>
         \/ index = length /\ returned[1] = 0
         \/ /\ index < length /\ original[destination + index] # original[source + index]
            /\ returned[1] = original[destination + index] - original[source + index]
    /\ operation = "strlen" =>
         source + index <= Size - 1 /\ original[source + index] = 0 /\ returned[1] = index

StringInv == CallOK /\ WrittenAsWanted /\ NothingFoundYet /\ Finished

(* At the start nothing is written.                                          *)
LEMMA StringInitial == StringInit => StringInv
<1> SUFFICES ASSUME StringInit PROVE StringInv
  OBVIOUS
<1> USE MemoryAssumption
<1>1. CallOK
  BY DEF StringInit, CallOK, Disjoint
<1>2. WrittenAsWanted
  BY DEF StringInit, WrittenAsWanted, Written, Forward, Addresses
<1>3. NothingFoundYet /\ Finished
  BY DEF StringInit, NothingFoundYet, Finished
<1>4. QED
  BY <1>1, <1>2, <1>3 DEF StringInv

(* A turn of a loop that writes the byte it should, at the next place.       *)
LEMMA TurnWrites ==
  ASSUME StringInv, UNCHANGED callVars, returned = <<>>, index < length,
         operation \in {"memmove", "memcpy", "memset"},
         operation = "memmove" => destination # source,
         NEW k \in Nat, k < length,
         k = IF operation = "memmove" /\ ~Forward THEN length - 1 - index ELSE index,
         NEW v \in Bytes, v = Wanted(destination + k),
         Assigns(destination + k, v)
  PROVE  StringInv'
<1> USE MemoryAssumption
<1>0. destination + k \in Addresses
  BY DEF StringInv, CallOK, Addresses
<1>1. CallOK'
  BY <1>0 DEF StringInv, CallOK, Assigns, callVars, Disjoint
<1>2. WrittenAsWanted'
  <2> SUFFICES ASSUME NEW a \in Addresses
               PROVE  bytes'[a] = IF Written(a)' THEN Wanted(a)' ELSE original'[a]
    BY DEF WrittenAsWanted
  <2>1. Wanted(a)' = Wanted(a) /\ original' = original
    BY DEF callVars, Wanted
  <2>2. bytes'[a] = IF a = destination + k THEN v ELSE bytes[a]
    BY <1>0 DEF StringInv, CallOK, Assigns
  <2>3. Written(a)' <=> Written(a) \/ a = destination + k
    BY DEF StringInv, CallOK, Written, Forward, Assigns, callVars, Addresses
  <2>4. bytes[a] = IF Written(a) THEN Wanted(a) ELSE original[a]
    BY DEF StringInv, WrittenAsWanted
  <2>5. QED
    BY <2>1, <2>2, <2>3, <2>4
<1>3. NothingFoundYet' /\ Finished'
  BY DEF StringInv, NothingFoundYet, Finished, Assigns, callVars
<1>4. QED
  BY <1>1, <1>2, <1>3 DEF StringInv

(* A return leaves everything but the result alone.                          *)
LEMMA ReturnKeeps ==
  ASSUME StringInv, UNCHANGED callVars, UNCHANGED <<bytes, index>>, Finished'
  PROVE  StringInv'
<1>1. CallOK' /\ NothingFoundYet'
  BY DEF StringInv, CallOK, NothingFoundYet, callVars, Disjoint
<1>2. WrittenAsWanted'
  BY DEF StringInv, WrittenAsWanted, Written, Wanted, Forward, callVars
<1>3. QED
  BY <1>1, <1>2 DEF StringInv

(* Every turn of every loop keeps the invariant.                             *)
LEMMA StringStep == StringInv /\ [StringNext]_stringVars => StringInv'
<1> USE MemoryAssumption
<1> SUFFICES ASSUME StringInv, [StringNext]_stringVars PROVE StringInv'
  OBVIOUS
<1>1. CASE Memcpy
  <2> operation = "memcpy" /\ returned = <<>> /\ UNCHANGED callVars
    BY <1>1 DEF Memcpy, Runs
  <2>1. CASE index < length /\ Assigns(destination + index, bytes[source + index])
    <3>1. source + index \in Addresses /\ ~Written(source + index)
      BY <2>1 DEF StringInv, CallOK, Written, Addresses, Disjoint
    <3>2. bytes[source + index] = Wanted(destination + index)
      BY <3>1 DEF StringInv, WrittenAsWanted, Wanted, CallOK
    <3>3. bytes[source + index] \in Bytes /\ index \in Nat
      BY <3>1 DEF StringInv, CallOK
    <3>4. QED
      BY <2>1, <3>2, <3>3, TurnWrites
  <2>2. CASE index >= length /\ ReturnsWith(destination)
    <3>1. Finished'
      BY <2>2 DEF StringInv, CallOK, Finished, ReturnsWith, callVars
    <3>2. QED
      BY <2>2, <3>1, ReturnKeeps DEF ReturnsWith
  <2>3. QED
    BY <1>1, <2>1, <2>2 DEF Memcpy
<1>2. CASE Memmove
  <2> operation = "memmove" /\ returned = <<>> /\ UNCHANGED callVars
    BY <1>2 DEF Memmove, Runs
  <2>1. CASE destination # source /\ index < length /\ Assigns(destination + Moved, bytes[source + Moved])
    <3>1. Moved \in Nat /\ Moved < length /\ Moved = IF ~Forward THEN length - 1 - index ELSE index
      BY <2>1 DEF StringInv, CallOK, Moved
    <3>2. source + Moved \in Addresses /\ ~Written(source + Moved)
      BY <2>1, <3>1 DEF StringInv, CallOK, Written, Addresses, Forward
    <3>3. bytes[source + Moved] = Wanted(destination + Moved)
      BY <3>1, <3>2 DEF StringInv, WrittenAsWanted, Wanted, CallOK
    <3>4. bytes[source + Moved] \in Bytes
      BY <3>2 DEF StringInv, CallOK
    <3>5. QED
      BY <2>1, <3>1, <3>3, <3>4, TurnWrites
  <2>2. CASE (destination = source \/ index >= length) /\ ReturnsWith(destination)
    <3>1. Finished'
      BY <2>2 DEF StringInv, CallOK, Finished, ReturnsWith, callVars
    <3>2. QED
      BY <2>2, <3>1, ReturnKeeps DEF ReturnsWith
  <2>3. QED
    BY <1>2, <2>1, <2>2 DEF Memmove
<1>3. CASE Memset
  <2> operation = "memset" /\ returned = <<>> /\ UNCHANGED callVars
    BY <1>3 DEF Memset, Runs
  <2>1. CASE index < length /\ Assigns(destination + index, value)
    <3>1. value = Wanted(destination + index) /\ value \in Bytes /\ index \in Nat
      BY DEF Wanted, StringInv, CallOK
    <3>2. QED
      BY <2>1, <3>1, TurnWrites
  <2>2. CASE index >= length /\ ReturnsWith(destination)
    <3>1. Finished'
      BY <2>2 DEF StringInv, CallOK, Finished, ReturnsWith, callVars
    <3>2. QED
      BY <2>2, <3>1, ReturnKeeps DEF ReturnsWith
  <2>3. QED
    BY <1>3, <2>1, <2>2 DEF Memset
<1>4. CASE Memcmp
  <2> operation = "memcmp" /\ returned = <<>> /\ UNCHANGED callVars
    BY <1>4 DEF Memcmp, Runs
  <2>0. bytes = original
    BY DEF StringInv, WrittenAsWanted, Written, CallOK
  <2>1. CASE /\ index < length /\ bytes[destination + index] = bytes[source + index]
             /\ index' = index + 1 /\ UNCHANGED <<bytes, returned>>
    <3>1. CallOK'
      BY <2>1 DEF StringInv, CallOK, callVars, Disjoint
    <3>2. WrittenAsWanted'
      BY <2>0, <2>1 DEF WrittenAsWanted, Written, callVars
    <3>3. NothingFoundYet'
      BY <2>0, <2>1 DEF StringInv, CallOK, NothingFoundYet, callVars
    <3>4. Finished'
      BY <2>1 DEF Finished, callVars
    <3>5. QED
      BY <3>1, <3>2, <3>3, <3>4 DEF StringInv
  <2>2. CASE /\ index < length /\ bytes[destination + index] # bytes[source + index]
             /\ ReturnsWith(Difference(bytes[destination + index], bytes[source + index]))
    <3>1. Finished'
      BY <2>0, <2>2 DEF Finished, ReturnsWith, Difference, callVars
    <3>2. QED
      BY <2>2, <3>1, ReturnKeeps DEF ReturnsWith
  <2>3. CASE index >= length /\ ReturnsWith(0)
    <3>1. Finished'
      BY <2>3 DEF StringInv, CallOK, Finished, ReturnsWith, callVars
    <3>2. QED
      BY <2>3, <3>1, ReturnKeeps DEF ReturnsWith
  <2>4. QED
    BY <1>4, <2>1, <2>2, <2>3 DEF Memcmp
<1>5. CASE Strlen
  <2> operation = "strlen" /\ returned = <<>> /\ UNCHANGED callVars
    BY <1>5 DEF Strlen, Runs
  <2>0. bytes = original
    BY DEF StringInv, WrittenAsWanted, Written, CallOK
  <2>1. CASE bytes[source + index] # 0 /\ index' = index + 1 /\ UNCHANGED <<bytes, returned>>
    <3>1. CallOK'
      BY <2>1 DEF StringInv, CallOK, callVars, Disjoint
    <3>2. WrittenAsWanted'
      BY <2>0, <2>1 DEF WrittenAsWanted, Written, callVars
    <3>3. NothingFoundYet'
      BY <2>0, <2>1 DEF StringInv, CallOK, NothingFoundYet, callVars
    <3>4. Finished'
      BY <2>1 DEF Finished, callVars
    <3>5. QED
      BY <3>1, <3>2, <3>3, <3>4 DEF StringInv
  <2>2. CASE bytes[source + index] = 0 /\ ReturnsWith(index)
    <3>1. PICK z \in source .. Size - 1 : original[z] = 0
      BY DEF StringInv, CallOK
    <3>2. source + index <= Size - 1
      <4>1. CASE source + index > z
        <5>1. z - source \in 0 .. index - 1
          BY <3>1, <4>1 DEF StringInv, CallOK
        <5>2. original[source + (z - source)] # 0
          BY <5>1 DEF StringInv, NothingFoundYet
        <5>3. QED
          BY <5>2, <3>1 DEF StringInv, CallOK
      <4>2. QED
        BY <3>1, <4>1 DEF StringInv, CallOK
    <3>3. Finished'
      BY <2>0, <2>2, <3>2 DEF Finished, ReturnsWith, callVars
    <3>4. QED
      BY <2>2, <3>3, ReturnKeeps DEF ReturnsWith
  <2>3. QED
    BY <1>5, <2>1, <2>2 DEF Strlen
<1>6. CASE UNCHANGED stringVars
  <2>1. Finished'
    BY <1>6 DEF StringInv, Finished, stringVars
  <2>2. QED
    BY <1>6, <2>1, ReturnKeeps DEF stringVars, callVars
<1>7. QED
  BY <1>1, <1>2, <1>3, <1>4, <1>5, <1>6 DEF StringNext

(* string.cpp: the invariant holds in every state of every call.             *)
THEOREM StringInvariant == StringSpec => []StringInv
BY StringInitial, StringStep, PTL DEF StringSpec

(* memmove for every overlap, memcpy and memset give the destination what    *)
(* it should hold and write nothing else (string.cpp:20-72).                 *)
THEOREM DestinationCorrect == StringSpec => []DestinationAsWanted
<1>1. StringInv => DestinationAsWanted
  <2> SUFFICES ASSUME StringInv, returned # <<>>, NEW a \in Addresses
               PROVE  bytes[a] = IF operation \in {"memmove", "memcpy", "memset"} /\ InDestination(a)
                                 THEN Wanted(a) ELSE original[a]
    BY DEF DestinationAsWanted
  <2> USE MemoryAssumption
  <2>1. bytes[a] = IF Written(a) THEN Wanted(a) ELSE original[a]
    BY DEF StringInv, WrittenAsWanted
  <2>2. CASE operation = "memmove" /\ destination = source
    <3>1. ~Written(a)
      BY <2>2 DEF StringInv, CallOK, Written, Forward, Addresses
    <3>2. Wanted(a) = original[a]
      BY <2>2 DEF Wanted, StringInv, CallOK, Addresses
    <3>3. QED
      BY <2>1, <3>1, <3>2
  <2>3. CASE ~(operation = "memmove" /\ destination = source)
    <3>1. Written(a) <=> operation \in {"memmove", "memcpy", "memset"} /\ InDestination(a)
      BY <2>3 DEF StringInv, CallOK, Finished, Written, InDestination, Addresses
    <3>2. QED
      BY <2>1, <3>1
  <2>4. QED
    BY <2>2, <2>3
<1>2. QED
  BY <1>1, StringInvariant, PTL

(* memcmp's result has the sign of the first difference, with bytes taken    *)
(* as unsigned (string.cpp:4-18).                                            *)
THEOREM ComparisonCorrect == StringSpec => []ComparesUnsigned
<1>1. StringInv => ComparesUnsigned
  <2> SUFFICES ASSUME StringInv, returned # <<>>, operation = "memcmp" PROVE ComparesUnsigned
    BY DEF ComparesUnsigned
  <2> USE MemoryAssumption
  <2> DEFINE Differs(k) == original[destination + k] # original[source + k]
  <2>1. \A k \in 0 .. index - 1 : ~Differs(k)
    BY DEF StringInv, NothingFoundYet
  <2>0. length \in Nat /\ index \in Nat
    BY DEF StringInv, CallOK
  <2>2. ASSUME NEW k \in 0 .. length - 1
        PROVE  original[destination + k] \in 0 .. 255 /\ original[source + k] \in 0 .. 255
    <3>1. destination + k \in Addresses /\ source + k \in Addresses
      BY DEF StringInv, CallOK, Addresses
    <3>2. original[destination + k] \in Bytes /\ original[source + k] \in Bytes
      BY <3>1 DEF StringInv, CallOK
    <3>3. QED
      BY <3>2
  <2>3. CASE index = length /\ returned[1] = 0
    BY <2>1, <2>3 DEF ComparesUnsigned
  <2>4. CASE /\ index < length /\ Differs(index)
             /\ returned[1] = original[destination + index] - original[source + index]
    <3>0. index \in 0 .. length - 1
      BY <2>0, <2>4
    <3> DEFINE l == original[destination + index]
               r == original[source + index]
    <3>5. l \in 0 .. 255 /\ r \in 0 .. 255 /\ l # r /\ returned[1] = l - r
      BY <2>2, <2>4, <3>0
    <3> HIDE DEF l, r
    <3>1. index \in 0 .. length - 1 /\ returned[1] # 0
      BY <3>0, <3>5
    <3>6. returned[1] < 0 <=> l < r
      BY <3>5
    <3>2. \A k \in 0 .. length - 1 : Differs(k) /\ (\A j \in 0 .. k - 1 : ~Differs(j)) => k = index
      <4> SUFFICES ASSUME NEW k \in 0 .. length - 1, Differs(k), \A j \in 0 .. k - 1 : ~Differs(j)
                   PROVE  k = index
        OBVIOUS
      <4>1. ~(k < index)
        BY <2>1, <3>1
      <4>2. ~(index < k)
        <5>1. index < k => index \in 0 .. k - 1
          BY <3>1
        <5>2. QED
          BY <5>1, <2>4
      <4>3. QED
        BY <4>1, <4>2, <3>1
    <3>3. returned[1] < 0 <=> original[destination + index] < original[source + index]
      BY <3>6 DEF l, r
    <3>4. QED
      BY <2>4, <3>1, <3>2, <3>3 DEF ComparesUnsigned
  <2>5. QED
    BY <2>3, <2>4 DEF StringInv, Finished
<1>2. QED
  BY <1>1, StringInvariant, PTL

(* strlen stops at the first terminator and reads nothing behind it          *)
(* (string.cpp:74-84).                                                       *)
THEOREM LengthCorrect == StringSpec => []CountsToTheTerminator
<1>1. StringInv => CountsToTheTerminator
  <2> SUFFICES ASSUME StringInv, operation = "strlen" PROVE CountsToTheTerminator
    BY DEF CountsToTheTerminator
  <2> USE MemoryAssumption
  <2>1. \A k \in 0 .. index - 1 : original[source + k] # 0
    BY DEF StringInv, NothingFoundYet
  <2>2. PICK z \in source .. Size - 1 : original[z] = 0
    BY DEF StringInv, CallOK
  <2>3. source + index <= z
    <3>1. CASE source + index > z
      <4>1. z - source \in 0 .. index - 1
        BY <2>2, <3>1 DEF StringInv, CallOK
      <4>2. original[source + (z - source)] # 0
        BY <4>1, <2>1
      <4>3. QED
        BY <4>2, <2>2 DEF StringInv, CallOK
    <3>2. QED
      BY <2>2, <3>1 DEF StringInv, CallOK
  <2>4. QED
    BY <2>1, <2>2, <2>3 DEF CountsToTheTerminator, StringInv, CallOK, Finished
<1>2. QED
  BY <1>1, StringInvariant, PTL

(* Both scans stop at the right byte, in memory of every size                *)
(* (string.cpp: memcmp, strlen).                                             *)
THEOREM ScansCorrect == StringSpec => []ScansExactly
BY ComparisonCorrect, LengthCorrect, PTL DEF ScansExactly

-----------------------------------------------------------------------------
(* The library: its parts share no data, so each runs as it would alone.     *)

\* A behaviour of the library is one of each of its parts.
LEMMA PartsRun == LibcSpec => ExitSpec /\ StdioSpec /\ StringSpec
<1>1. LibcInit => ExitInit /\ StdioInit /\ StringInit
  BY DEF LibcInit, ExitRests, StdioRests, StringRests
<1>2. [LibcNext]_libcVars => /\ [ExitNext]_exitVars
                            /\ [StdioNext]_stdioVars
                            /\ [StringNext]_stringVars
  BY DEF LibcNext, ExitSteps, StdioSteps, StringSteps, libcVars
<1>3. QED
  BY <1>1, <1>2, PTL DEF LibcSpec, ExitSpec, StdioSpec, StringSpec

(* exit: when a thread exits every handler that atexit recorded has run, and *)
(* none has run twice, however deep exits nest (run_atexit_handlers lowers   *)
(* the count before it calls).                                               *)
THEOREM HandlersCorrect == LibcSpec => []HandlersRunExactlyOnce
BY PartsRun, ExitInvariant, ExitInvSays, PTL

(* exit: handlers run last in, first out, also those recorded by handlers.   *)
THEOREM HandlerOrderCorrect == LibcSpec => LastInFirstOut
<1> DEFINE InOrder == \A h \in 1 .. recorded : ran' = Append(ran, h) =>
                        \A k \in DOMAIN handlers' : handlers'[k] < h
<1>1. ExitInv /\ [ExitNext]_exitVars => InOrder
  BY NewestFirst
<1>2. QED
  BY <1>1, PartsRun, ExitInvariant, PTL DEF ExitSpec, LastInFirstOut

(* vsnprintf: the buffer holds what fits of the text with its terminator and *)
(* nothing else is written; the result is the length of the whole text.      *)
THEOREM FormattingCorrect == LibcSpec => []FormatsTheText
<1>1. StdioInv => FormatsTheText
  BY DEF StdioInv, FormatsTheText
<1>2. QED
  BY <1>1, PartsRun, StdioInvariant, PTL

(* printf prints its text whole or not at all, because the kernel's message  *)
(* buffer is smaller than printf's; puts reports what it did.                *)
THEOREM PrintingCorrect == LibcSpec => []PrintsAllOrNothing
<1>1. StdioInv => PrintsAllOrNothing
  BY DEF StdioInv
<1>2. QED
  BY <1>1, PartsRun, StdioInvariant, PTL
=============================================================================
