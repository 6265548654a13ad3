----------------------------- MODULE LibcStdio -----------------------------
(* snprintf, printf and puts of the user libc (src/user/libc/src/stdio.cpp,  *)
(* puts.cpp) over the kernel's debug log.  vsnprintf is followed from one    *)
(* character of the format, or of a conversion, to the next.  A character is *)
(* a string of length one; the end of a string is the end of its sequence.   *)
EXTENDS X64Arithmetic, Sequences

CONSTANTS
  Calls,        \* [function, format, arguments, size, null, target]: the calls that may be made;
                \*   null: the buffer is a null pointer; a format of puts is the string it is given;
                \*   target: "x64" or "arm64", what the program is built for
  LogBuffer,    \* RINGOS_STDIO_LOG_BUFFER_CAPACITY
  LogCapacity,  \* size of the message buffer of SYSCALL_DEBUG_LOG
  IntHalf,      \* weight of the sign bit of int
  WideHalf,     \* the same of long long, size_t and pointers
  Reach         \* cells of memory from the buffer on

VARIABLES
  call,       \* the call that is made
  memory,     \* what buffer points at, and what follows it
  cursor, remaining, total_written,  \* the output
  position,   \* format_cursor
  arguments,  \* the argument list of vsnprintf: what it has still to read
  pending,    \* characters of the current conversion not appended yet
  text,       \* history: the characters appended so far
  phase,      \* "called", "formatting" or "returned"
  result,     \* the return value
  console     \* what the debug log printed: a sequence of messages

stdioVars == <<call, memory, cursor, remaining, total_written, position, arguments, pending,
               text, phase, result, console>>

Cells == 0 .. Reach - 1
Garbage == "?"
EndOfString == "\\0"
EOF == -1
NullString == <<"null">>

\* the log takes less than printf's buffer holds: 96 of 512 bytes in the code
ASSUME SizesAssumption ==
  /\ Reach \in Nat /\ LogBuffer \in 1 .. Reach /\ LogCapacity \in 2 .. LogBuffer - 1
  /\ \A c \in Calls : /\ c.size \in 0 .. Reach /\ Len(c.format) \in Nat
                      /\ c.function = "printf" => c.size = LogBuffer /\ ~c.null

-----------------------------------------------------------------------------
(* Conversions.  A word is an argument slot of the widest type; each length  *)
(* modifier reads the low part of it.                                        *)
Digits == <<"0", "1", "2", "3", "4", "5", "6", "7", "8", "9", "a", "b", "c", "d", "e", "f">>
Capitals == <<"0", "1", "2", "3", "4", "5", "6", "7", "8", "9", "A", "B", "C", "D", "E", "F">>

(* append_unsigned_value: as many digits as the value needs.                 *)
Length(v, base) == CHOOSE n \in 1 .. 64 : base^n > v /\ (n = 1 \/ base^(n - 1) <= v)
UnsignedText(v, base, alphabet) ==
  LET n == Length(v, base) IN [k \in 1 .. n |-> alphabet[((v \div base^(n - k)) % base) + 1]]

(* append_signed_value: the magnitude of the least value exists only as an   *)
(* unsigned number.                                                          *)
SignedText(v) == IF v < 0 THEN <<"-">> \o UnsignedText(-(v + 1) + 1, 10, Digits) ELSE UnsignedText(v, 10, Digits)

(* parse_format_length, read_unsigned_argument and read_signed_argument.     *)
(* long is as wide as long long on x64 and as int on arm64, whose compiler   *)
(* follows the Microsoft data model.                                         *)
HalfOf(length) ==
  IF length \in {"ll", "z"} \/ (length = "l" /\ call.target = "x64") THEN WideHalf ELSE IntHalf
ReadUnsigned(word, length) == word % (2 * HalfOf(length))
ReadSigned(word, length) == Signed(ReadUnsigned(word, length), HalfOf(length))

SizeOf(length) == IF length = "" THEN 0 ELSE IF length = "ll" THEN 2 ELSE 1

At(k) == IF k <= Len(call.format) THEN call.format[k] ELSE EndOfString
LengthAt(k) == IF At(k) = "l" /\ At(k + 1) = "l" THEN "ll" ELSE IF At(k) \in {"l", "z"} THEN At(k) ELSE ""

Converted(specifier, length, argument) ==
  CASE specifier = "c" -> <<argument>>
    [] specifier = "s" -> IF argument = NullString THEN <<"(", "n", "u", "l", "l", ")">> ELSE argument
    [] specifier = "p" -> <<"0", "x">> \o UnsignedText(argument, 16, Digits)
    [] specifier \in {"d", "i"} -> SignedText(ReadSigned(argument, length))
    [] specifier = "u" -> UnsignedText(ReadUnsigned(argument, length), 10, Digits)
    [] specifier = "x" -> UnsignedText(ReadUnsigned(argument, length), 16, Digits)
    [] specifier = "X" -> UnsignedText(ReadUnsigned(argument, length), 16, Capitals)

Specifiers == {"c", "s", "p", "d", "i", "u", "x", "X"}

(* What the list of vsnprintf is after a conversion.  The integers are read  *)
(* by read_signed_argument and read_unsigned_argument, which take the list   *)
(* as a parameter: on x64 a va_list is an array, so that they advance the    *)
(* list of vsnprintf; on arm64 it is a pointer, and they advance a copy.     *)
ArgumentsAfter(specifier) ==
  IF specifier \in {"d", "i", "u", "x", "X"} /\ call.target = "arm64" THEN arguments ELSE Tail(arguments)

-----------------------------------------------------------------------------
StdioInit ==
  /\ call \in Calls
  /\ memory = [a \in Cells |-> Garbage]
  /\ cursor = 0 /\ remaining = call.size /\ total_written = 0
  /\ position = 1 /\ arguments = call.arguments /\ pending = <<>> /\ text = <<>>
  /\ phase = "called" /\ result = 0 /\ console = <<>>

Returns(v) == phase' = "returned" /\ result' = v

(* SYSCALL_DEBUG_LOG takes a message with its terminator, or refuses it.     *)
Accepts(message) == Len(message) < LogCapacity
Logged(message) == IF Accepts(message) THEN Append(console, message) ELSE console

(* puts logs the string and an end of line.                                  *)
Puts ==
  /\ phase = "called" /\ call.function = "puts"
  /\ LET first == call.format # NullString /\ Accepts(call.format)
         second == Accepts(<<"\\n">>) IN
     /\ console' = IF ~first THEN console
                   ELSE IF second THEN console \o <<call.format, <<"\\n">> >> ELSE Append(console, call.format)
     /\ Returns(IF first /\ second THEN Len(call.format) + 1 ELSE EOF)
  /\ UNCHANGED <<call, memory, cursor, remaining, total_written, position, arguments, pending, text>>

InvalidArguments == call.format = NullString \/ (call.null /\ call.size # 0)

Vsnprintf ==
  /\ phase = "called" /\ call.function # "puts"
  /\ \/ InvalidArguments /\ Returns(-1)
     \/ ~InvalidArguments /\ phase' = "formatting" /\ UNCHANGED result
  /\ UNCHANGED <<call, memory, cursor, remaining, total_written, position, arguments, pending, text, console>>

\* Mutant: the cursor is not set back before it is advanced over the end of the format.
NextPositionBeyond(k) == k + 1

(* One past the specifier at k; a format that ends in place of a specifier   *)
(* is stepped back over first.                                               *)
NextPosition(k) == IF At(k) = EndOfString THEN k ELSE k + 1

(* One turn of the loop over the format.                                     *)
FormatCharacter ==
  /\ phase = "formatting" /\ pending = <<>> /\ position <= Len(call.format)
  /\ LET length == LengthAt(position + 1)
         at == position + 1 + SizeOf(length)
         specifier == At(at) IN
     \/ /\ At(position) # "%"
        /\ pending' = <<At(position)>> /\ position' = position + 1 /\ UNCHANGED arguments
     \/ /\ At(position) = "%" /\ At(position + 1) = "%"
        /\ pending' = <<"%">> /\ position' = position + 2 /\ UNCHANGED arguments
     \/ /\ At(position) = "%" /\ At(position + 1) # "%" /\ specifier \in Specifiers
        /\ pending' = Converted(specifier, length, Head(arguments))
        /\ arguments' = ArgumentsAfter(specifier) /\ position' = NextPosition(at)
     \/ /\ At(position) = "%" /\ At(position + 1) # "%" /\ specifier \notin Specifiers
        /\ pending' = IF specifier = EndOfString THEN <<"%">> ELSE <<"%", specifier>>
        /\ position' = NextPosition(at) /\ UNCHANGED arguments
  /\ UNCHANGED <<call, memory, cursor, remaining, total_written, text, phase, result, console>>

\* Mutant: the place of the terminator is written as well.
HasRoomForAll == remaining > 0

HasRoom == remaining > 1

Counted == total_written + 1

AppendCharacter ==
  /\ phase = "formatting" /\ pending # <<>>
  /\ \/ HasRoom /\ memory' = [memory EXCEPT ![cursor] = Head(pending)] /\ cursor' = cursor + 1
     \/ ~HasRoom /\ UNCHANGED <<memory, cursor>>
  /\ remaining' = IF remaining > 0 THEN remaining - 1 ELSE 0
  /\ total_written' = Counted
  /\ pending' = Tail(pending) /\ text' = Append(text, Head(pending))
  /\ UNCHANGED <<call, position, arguments, phase, result, console>>

(* The terminator, at the cursor or at the end of the buffer.                *)
Terminator == IF remaining > 0 THEN cursor ELSE call.size - 1

StringIn(m) ==
  LET n == CHOOSE k \in Cells : m[k] = EndOfString /\ \A j \in 0 .. k - 1 : m[j] # EndOfString
  IN  [k \in 1 .. n |-> m[k - 1]]

\* Mutant: printf hands the log what fits into its message buffer.
MessageCut(m) == IF Accepts(m) THEN m ELSE SubSeq(m, 1, LogCapacity - 1)

Message(m) == m

(* printf logs the string that the buffer then holds, up to its first        *)
(* terminator, and does not look at the status.                              *)
FinishFormat ==
  /\ phase = "formatting" /\ pending = <<>> /\ position = Len(call.format) + 1
  /\ memory' = IF call.size # 0 THEN [memory EXCEPT ![Terminator] = EndOfString] ELSE memory
  /\ Returns(total_written)
  /\ console' = IF call.function = "printf"
                THEN Logged(Message(StringIn(memory'))) ELSE console
  /\ UNCHANGED <<call, cursor, remaining, total_written, position, arguments, pending, text>>

StdioNext == Puts \/ Vsnprintf \/ FormatCharacter \/ AppendCharacter \/ FinishFormat

StdioSpec == StdioInit /\ [][StdioNext]_stdioVars

-----------------------------------------------------------------------------
(* Properties.                                                               *)

Fitting == IF call.size = 0 THEN 0 ELSE IF Len(text) < call.size THEN Len(text) ELSE call.size - 1
Formatted == phase = "returned" /\ call.function # "puts" /\ ~InvalidArguments

(* At every step the buffer holds as much of the text as leaves room for a   *)
(* terminator, and nothing else was written; at the end the terminator       *)
(* follows the text, also when the text fits exactly, is one character too   *)
(* long, or the buffer has one place or none.                                *)
BufferHoldsThePrefix ==
  \A a \in Cells :
    memory[a] = IF a < Fitting THEN text[a + 1]
                ELSE IF Formatted /\ call.size # 0 /\ a = Fitting THEN EndOfString
                ELSE Garbage

(* The return value is the length of the whole text, not of what fitted.     *)
ReturnsTheWholeLength == Formatted => result = Len(text)

(* printf prints its whole text or, when that is longer than the debug log   *)
(* accepts, nothing: no cut line ever appears.  puts reports what it did.    *)
PrintsAllOrNothing ==
  phase = "returned" =>
    /\ call.function = "printf" /\ result >= 0 /\ (\A k \in DOMAIN text : text[k] # EndOfString) =>
         console = IF Len(text) < LogCapacity THEN <<text>> ELSE <<>>
    /\ call.function = "puts" => (result = EOF <=> console = <<>>)

(* snprintf and printf: the buffer has what fits, the result says what would *)
(* have fitted (vsnprintf).                                                  *)
FormatsTheText == BufferHoldsThePrefix /\ ReturnsTheWholeLength
=============================================================================
