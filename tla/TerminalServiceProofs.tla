----------------------- MODULE TerminalServiceProofs -----------------------
(* What clients write to srv_terminal comes out, line by line: proofs of the *)
(* properties of TerminalService, for lines of any length and any requests.  *)
EXTENDS TerminalService, FiniteSetTheorems, SequenceTheorems, WellFoundedInduction, TLAPS

-----------------------------------------------------------------------------
(* The text of a sequence of characters *)

\* A set of natural numbers that is not empty has a least element.
LEMMA LeastNatural ==
    ASSUME NEW T, T \subseteq Nat, T # {}
    PROVE  \E x \in T : \A y \in T : x <= y
  <1>1. PICK R : R = OpToRel(<, Nat)
    OBVIOUS
  <1>2. IsWellFoundedOn(R, Nat)
    BY <1>1, NatLessThanWellFounded
  <1>3. PICK x \in T : \A y \in T : ~ (<<y, x>> \in R)
    BY <1>2, WFMin
  <1>4. \A y \in Nat : y < x => <<y, x>> \in R
    BY <1>1 DEF OpToRel
  <1>5. ASSUME NEW y \in T PROVE x <= y
    <2>1. x \in Nat /\ y \in Nat
      OBVIOUS
    <2>2. ~ (y < x)
      BY <1>3, <1>4, <2>1
    <2>3. QED
      BY <2>1, <2>2
  <1>6. QED
    BY <1>5

\* One turn of the recursion that defines Text.
Turn(s, kept, n) ==
    IF n = 0 THEN <<>>
    ELSE IF Printable(s[n]) THEN Append(kept[n - 1], s[n]) ELSE kept[n - 1]

\* kept holds the text of every prefix of s up to m.
Solves(kept, s, m) == kept = [n \in 0 .. m |-> Turn(s, kept, n)]

\* Two tables of texts agree where the sequences do.
LEMMA TurnsAgree ==
    ASSUME NEW m \in Nat, NEW l \in Nat, NEW s, NEW t, NEW f, NEW g,
           Solves(f, s, m), Solves(g, t, l), m <= l, \A n \in 1 .. m : s[n] = t[n]
    PROVE  \A n \in 0 .. m : f[n] = g[n]
  <1> DEFINE T == {n \in 0 .. m : f[n] # g[n]}
  <1>1. SUFFICES ASSUME T # {} PROVE FALSE
    OBVIOUS
  <1>0. T \subseteq Nat
    OBVIOUS
  <1>2. PICK n \in T : \A y \in T : n <= y
    BY <1>0, <1>1, LeastNatural
  <1>3. n \in 0 .. m /\ n \in 0 .. l /\ f[n] # g[n]
    BY <1>2
  <1>4. f[n] = Turn(s, f, n) /\ g[n] = Turn(t, g, n)
    BY <1>3 DEF Solves
  <1>5. n # 0
    BY <1>3, <1>4 DEF Turn
  <1>6. n - 1 \in 0 .. m /\ ~(n <= n - 1) /\ n \in 1 .. m
    BY <1>3, <1>5
  <1>7. f[n - 1] = g[n - 1]
    BY <1>2, <1>6
  <1>8. QED
    BY <1>3, <1>4, <1>6, <1>7 DEF Turn

\* There is a table for every sequence, and it holds sequences.
LEMMA TurnsExist ==
    ASSUME NEW S, NEW s, NEW m \in Nat, \A n \in 1 .. m : s[n] \in S
    PROVE  \E kept : Solves(kept, s, m) /\ \A n \in 0 .. m : kept[n] \in Seq(S)
  <1> DEFINE Good(n) == \E kept : Solves(kept, s, n) /\ \A j \in 0 .. n : kept[j] \in Seq(S)
  <1> DEFINE T == {n \in 0 .. m : ~Good(n)}
  <1>1. SUFFICES ASSUME T # {} PROVE FALSE
    OBVIOUS
  <1>2. T \subseteq Nat
    OBVIOUS
  <1>3. PICK n \in T : \A y \in T : n <= y
    BY <1>1, <1>2, LeastNatural
  <1>4. n \in 0 .. m /\ ~Good(n)
    BY <1>3
  <1>5. CASE n = 0
    <2>1. PICK kept : kept = [j \in 0 .. 0 |-> <<>>]
      OBVIOUS
    <2>2. \A j \in 0 .. 0 : Turn(s, kept, j) = <<>>
      BY DEF Turn
    <2>3. Solves(kept, s, 0)
      BY <2>1, <2>2 DEF Solves
    <2>4. QED
      BY <1>4, <1>5, <2>1, <2>3
  <1>6. CASE n # 0
    <2>1. n - 1 \in 0 .. m /\ n \in 1 .. m /\ ~(n <= n - 1)
      BY <1>4, <1>6
    <2>2. Good(n - 1)
      BY <1>3, <2>1
    <2>3. PICK old : Solves(old, s, n - 1) /\ \A j \in 0 .. n - 1 : old[j] \in Seq(S)
      BY <2>2
    <2> HIDE DEF Good
    <2>4. PICK kept : kept = [j \in 0 .. n |-> IF j = n THEN Turn(s, old, n) ELSE old[j]]
      OBVIOUS
    <2>5. \A j \in 0 .. n - 1 : kept[j] = old[j]
      BY <2>1, <2>4
    <2>6. ASSUME NEW j \in 0 .. n PROVE kept[j] = Turn(s, kept, j)
      <3>1. CASE j = n
        BY <2>1, <2>4, <2>5, <3>1 DEF Turn
      <3>2. CASE j \in 0 .. n - 1
        <4>1. old[j] = Turn(s, old, j)
          BY <2>3, <3>2 DEF Solves
        <4>2. j # 0 => j - 1 \in 0 .. n - 1
          BY <2>1, <3>2
        <4>3. QED
          BY <2>5, <3>2, <4>1, <4>2 DEF Turn
      <3>3. QED
        BY <2>1, <3>1, <3>2
    <2>7. Solves(kept, s, n)
      <3>1. kept = [j \in 0 .. n |-> kept[j]]
        BY <2>4
      <3>2. QED
        BY <2>6, <3>1 DEF Solves
    <2>8. ASSUME NEW j \in 0 .. n PROVE kept[j] \in Seq(S)
      <3>1. CASE j = n
        <4>1. n - 1 \in 0 .. n - 1
          BY <2>1
        <4>2. old[n - 1] \in Seq(S) /\ s[n] \in S
          BY <2>1, <2>3, <4>1
        <4>3. Append(old[n - 1], s[n]) \in Seq(S)
          BY <4>2, AppendProperties
        <4>4. kept[j] = Turn(s, old, n)
          BY <2>4, <3>1
        <4>5. QED
          BY <1>6, <4>2, <4>3, <4>4 DEF Turn
      <3>2. CASE j \in 0 .. n - 1
        BY <2>3, <2>5, <3>2
      <3>3. QED
        BY <2>1, <3>1, <3>2
    <2>9. QED
      BY <1>4, <2>7, <2>8 DEF Good
  <1>7. QED
    BY <1>5, <1>6

\* Text is what such a table ends with.
LEMMA TextSolved ==
    ASSUME NEW S, NEW s \in Seq(S)
    PROVE  \E kept : /\ Solves(kept, s, Len(s)) /\ Text(s) = kept[Len(s)]
                     /\ \A n \in 0 .. Len(s) : kept[n] \in Seq(S)
  <1> DEFINE K == CHOOSE kept : kept = [n \in 0 .. Len(s) |-> Turn(s, kept, n)]
  <1>1. Len(s) \in Nat /\ \A n \in 1 .. Len(s) : s[n] \in S
    OBVIOUS
  <1>2. PICK f : Solves(f, s, Len(s)) /\ \A n \in 0 .. Len(s) : f[n] \in Seq(S)
    BY <1>1, TurnsExist
  <1>3. K = [n \in 0 .. Len(s) |-> Turn(s, K, n)]
    BY <1>2 DEF Solves
  <1>4. Text(s) = K[Len(s)]
    BY DEF Text, Turn
  <1> HIDE DEF K
  <1>5. Solves(K, s, Len(s))
    BY <1>3 DEF Solves
  <1>6. \A n \in 0 .. Len(s) : f[n] = K[n]
    BY <1>1, <1>2, <1>5, TurnsAgree
  <1>7. QED
    BY <1>2, <1>4, <1>5, <1>6

\* An empty console holds no text.
LEMMA TextOfNothing == Text(<<>>) = <<>>
  <1>1. <<>> \in Seq({}) /\ Len(<<>>) = 0
    OBVIOUS
  <1>2. PICK kept : Solves(kept, <<>>, 0) /\ Text(<<>>) = kept[0]
    BY <1>1, TextSolved
  <1>3. kept[0] = Turn(<<>>, kept, 0)
    BY <1>2 DEF Solves
  <1>4. QED
    BY <1>2, <1>3 DEF Turn

\* A further character joins the text if it is printable.
LEMMA TextGrows ==
    ASSUME NEW S, NEW s \in Seq(S), NEW c \in S
    PROVE  /\ Text(s) \in Seq(S)
           /\ Text(Append(s, c)) = IF Printable(c) THEN Append(Text(s), c) ELSE Text(s)
  <1>1. PICK t : t = Append(s, c)
    OBVIOUS
  <1>2. PICK m : m = Len(s)
    OBVIOUS
  <1>3. /\ t \in Seq(S) /\ Len(t) = m + 1 /\ m \in Nat
        /\ \A n \in 1 .. m : s[n] = t[n]
        /\ t[m + 1] = c
    BY <1>1, <1>2, AppendProperties, LenProperties
  <1>4. PICK f : /\ Solves(f, s, m) /\ Text(s) = f[m]
                 /\ \A n \in 0 .. m : f[n] \in Seq(S)
    BY <1>2, TextSolved
  <1>5. PICK g : Solves(g, t, m + 1) /\ Text(t) = g[m + 1]
    BY <1>3, TextSolved
  <1>6. f[m] = g[m]
    BY <1>3, <1>4, <1>5, TurnsAgree
  <1>7. m + 1 \in 0 .. m + 1 /\ m \in 0 .. m /\ m + 1 # 0 /\ m + 1 - 1 = m
    BY <1>3
  <1>8. g[m + 1] = Turn(t, g, m + 1)
    BY <1>5, <1>7 DEF Solves
  <1>9. QED
    BY <1>1, <1>3, <1>4, <1>5, <1>6, <1>7, <1>8 DEF Turn

\* Appending to the second of two sequences appends to both.
LEMMA AppendBehind ==
    ASSUME NEW S, NEW s \in Seq(S), NEW t \in Seq(S), NEW c \in S
    PROVE  s \o Append(t, c) = Append(s \o t, c) /\ s \o t \in Seq(S)
  <1>1. s \o t \in Seq(S) /\ <<c>> \in Seq(S)
    BY ConcatProperties
  <1>2. s \o Append(t, c) = s \o (t \o <<c>>) /\ Append(s \o t, c) = (s \o t) \o <<c>>
    BY <1>1, AppendIsConcat
  <1>3. QED
    BY <1>1, <1>2, ConcatAssociative

\* A whole line joins the text.
LEMMA TextOfLine ==
    ASSUME NEW S, NEW s \in Seq(S), NEW t \in Seq(S), \A n \in 1 .. Len(t) : Printable(t[n])
    PROVE  Text(s \o t) = Text(s) \o t
  <1>1. PICK l : l = Len(t) /\ l \in Nat
    BY LenProperties
  <1>2. PICK prefix : prefix = [n \in 0 .. l |-> SubSeq(t, 1, n)]
    OBVIOUS
  <1>3. prefix[0] = <<>> /\ prefix[l] = t
    BY <1>1, <1>2, SubSeqEmpty, SubSeqFull
  <1>4. ASSUME NEW n \in 1 .. l
        PROVE  /\ prefix[n - 1] \in Seq(S) /\ t[n] \in S
               /\ prefix[n] = Append(prefix[n - 1], t[n])
    <2>1. n \in 0 .. l /\ n - 1 \in 0 .. l /\ 1 \in 1 .. Len(t) /\ n \in 1 .. Len(t) /\ n - 1 \in Int
      BY <1>1
    <2>2. \A i \in 1 .. n - 1 : t[i] \in S
      BY <1>1, ElementOfSeq
    <2>3. SubSeq(t, 1, n - 1) \in Seq(S)
      BY <2>1, <2>2, SubSeqProperties
    <2>4. t[n] \in S
      BY <2>1, ElementOfSeq
    <2>5. SubSeq(t, 1, n) = SubSeq(t, 1, n - 1) \o <<t[n]>>
      BY <2>1, SubSeqRecursiveSecond
    <2>6. QED
      BY <1>2, <2>1, <2>3, <2>4, <2>5, AppendIsConcat
  <1> DEFINE T == {n \in 0 .. l : Text(s \o prefix[n]) # Text(s) \o prefix[n]}
  <1>5. Text(s) \in Seq(S)
    BY TextSolved, LenProperties
  <1>6. SUFFICES ASSUME T # {} PROVE FALSE
    BY <1>1, <1>3
  <1>7. T \subseteq Nat
    BY <1>1
  <1>8. PICK n \in T : \A y \in T : n <= y
    BY <1>6, <1>7, LeastNatural
  <1>9. n \in 0 .. l /\ Text(s \o prefix[n]) # Text(s) \o prefix[n]
    BY <1>8
  <1>10. n # 0
    <2>1. s \o <<>> = s /\ Text(s) \o <<>> = Text(s)
      BY <1>5, ConcatEmptySeq
    <2>2. QED
      BY <1>3, <1>9, <2>1
  <1>11. n - 1 \in 0 .. l /\ ~(n <= n - 1) /\ n \in 1 .. l
    BY <1>1, <1>9, <1>10
  <1>12. Text(s \o prefix[n - 1]) = Text(s) \o prefix[n - 1]
    BY <1>8, <1>11
  <1>13. PICK p, c : p = prefix[n - 1] /\ c = t[n]
    OBVIOUS
  <1>14. prefix[n] = Append(p, c) /\ p \in Seq(S) /\ c \in S /\ Printable(c)
    BY <1>1, <1>4, <1>11, <1>13
  <1>15. s \o Append(p, c) = Append(s \o p, c) /\ s \o p \in Seq(S)
    <2>1. p \in Seq(S) /\ c \in S
      BY <1>14
    <2>2. QED
      BY <2>1, AppendBehind
  <1>16. Text(s) \o Append(p, c) = Append(Text(s) \o p, c)
    <2>1. p \in Seq(S) /\ c \in S
      BY <1>14
    <2>2. ASSUME NEW u \in Seq(S) PROVE u \o Append(p, c) = Append(u \o p, c)
      BY <2>1, AppendBehind
    <2>3. QED
      BY <1>5, <2>2
  <1>17. Text(Append(s \o p, c)) = Append(Text(s \o p), c)
    BY <1>14, <1>15, TextGrows
  <1>18. QED
    BY <1>9, <1>12, <1>13, <1>14, <1>15, <1>16, <1>17

-----------------------------------------------------------------------------
(* The ends of lines *)

\* There are finitely many line feeds, all of them in the sequence.
LEMMA FeedsOfSequence ==
    ASSUME NEW S, NEW s \in Seq(S)
    PROVE  /\ Feeds(s) \subseteq 1 .. Len(s) /\ IsFiniteSet(Feeds(s))
           /\ Cardinality(Feeds(s)) \in Nat
  <1>1. Len(s) \in Nat /\ DOMAIN s = 1 .. Len(s)
    BY LenProperties
  <1>2. Feeds(s) \subseteq 1 .. Len(s)
    BY <1>1 DEF Feeds
  <1>3. IsFiniteSet(1 .. Len(s))
    BY <1>1, FS_Interval
  <1>4. IsFiniteSet(Feeds(s))
    BY <1>2, <1>3, FS_Subset
  <1>5. QED
    BY <1>2, <1>4, FS_CardinalityType

\* A character adds a line feed exactly if it is one.
LEMMA FeedsGrow ==
    ASSUME NEW S, NEW s \in Seq(S), NEW c \in S
    PROVE  Feeds(Append(s, c)) = IF c = LF THEN Feeds(s) \cup {Len(s) + 1} ELSE Feeds(s)
  <1>1. PICK t, m : t = Append(s, c) /\ m = Len(s)
    OBVIOUS
  <1>2. /\ m \in Nat /\ DOMAIN s = 1 .. m /\ t \in Seq(S) /\ Len(t) = m + 1
        /\ t[m + 1] = c /\ \A n \in 1 .. m : t[n] = s[n]
    BY <1>1, AppendProperties, LenProperties
  <1>3. DOMAIN t = 1 .. m + 1
    BY <1>2, LenProperties
  <1>4. 1 .. m + 1 = (1 .. m) \cup {m + 1}
    BY <1>2
  <1>5. Feeds(t) = {k \in (1 .. m) \cup {m + 1} : t[k] = LF} /\ Feeds(s) = {k \in 1 .. m : s[k] = LF}
    BY <1>2, <1>3, <1>4 DEF Feeds
  <1>6. QED
    BY <1>1, <1>2, <1>5

\* A line without line feeds adds none.
LEMMA FeedsOfLine ==
    ASSUME NEW S, NEW s \in Seq(S), NEW t \in Seq(S), \A n \in 1 .. Len(t) : t[n] # LF
    PROVE  Feeds(s \o t) = Feeds(s)
  <1>1. PICK u, m, l : u = s \o t /\ m = Len(s) /\ l = Len(t)
    OBVIOUS
  <1>2. /\ m \in Nat /\ l \in Nat /\ DOMAIN s = 1 .. m /\ u \in Seq(S) /\ Len(u) = m + l
        /\ \A i \in 1 .. m + l : u[i] = IF i <= m THEN s[i] ELSE t[i - m]
    BY <1>1, ConcatProperties, LenProperties
  <1>3. DOMAIN u = 1 .. m + l
    BY <1>2, LenProperties
  <1>4. \A i \in 1 .. m + l : u[i] = LF <=> i \in 1 .. m /\ s[i] = LF
    <2>1. ASSUME NEW i \in 1 .. m + l PROVE u[i] = LF <=> i \in 1 .. m /\ s[i] = LF
      <3>1. CASE i <= m
        BY <1>2, <3>1
      <3>2. CASE ~(i <= m)
        <4>1. i - m \in 1 .. l /\ i \notin 1 .. m
          BY <1>2, <3>2
        <4>2. QED
          BY <1>1, <1>2, <3>2, <4>1
      <3>3. QED
        BY <3>1, <3>2
    <2>2. QED
      BY <2>1
  <1>5. 1 .. m \subseteq 1 .. m + l
    BY <1>2
  <1>6. QED
    BY <1>1, <1>2, <1>3, <1>4, <1>5 DEF Feeds

-----------------------------------------------------------------------------
(* The inductive invariant *)

(* The console is a sequence of ended lines; what is not ended yet is in the *)
(* line buffer and printable; a request is handled only if it is well-formed. *)
TerminalTypes ==
    /\ line \in Seq(Characters) /\ console \in Seq(Characters) /\ arrived \in Seq(Characters)
    /\ request \in Requests /\ written \in Nat
    /\ status = "handling" => Refusal(request) = "OK" /\ written <= request.length

OpenLine == \A k \in 1 .. Len(line) : Printable(line[k])
ConsoleEnds == console = <<>> \/ Len(console) \in Ends

TerminalInv ==
    /\ TerminalTypes /\ OpenLine /\ ConsoleEnds
    /\ WritesArrive /\ LinesEndWhereTheyWereWritten

(* A line is printed: an end is added behind those that are there, as far    *)
(* from the last of them as the line is long.                                *)
Prints == line # <<>> /\ console' = console \o line \o <<LF>>

\* The number of characters between position k and the last of the ends before it.
Behind(before, k) ==
    k - 1 - (IF before = {} THEN 0 ELSE CHOOSE j \in before : \A m \in before : m <= j)

\* What a printed line does to the console, its text and its ends.
LEMMA LinePrinted ==
    ASSUME TerminalInv, Prints
    PROVE  /\ console' \in Seq(Characters) /\ ConsoleEnds'
           /\ Text(console)' = Text(console) \o line
           /\ Len(line) \in 1 .. LineCapacity
           /\ \E end \in Nat :
                /\ Ends' = Ends \cup {end} /\ end \notin Ends
                /\ LineOf(end)' = Len(line)
                /\ \A k \in Ends : LineOf(k)' = LineOf(k)
  <1>1. PICK l, c, S, m, w : l = line /\ c = console /\ S = Characters /\ m = Len(console) /\ w = Len(line)
    OBVIOUS
  <1>2. LF \in S /\ l \in Seq(S) /\ c \in Seq(S) /\ l # <<>>
    <2>1. LF \in Characters
      BY CapacitiesAssumption
    <2>2. QED
      BY <1>1, <2>1 DEF TerminalInv, TerminalTypes, Prints
  <1>3. m \in Nat /\ w \in Nat /\ w # 0 /\ m = Len(c) /\ w = Len(l)
    BY <1>1, <1>2, LenProperties, EmptySeq
  <1>4. \A k \in 1 .. w : Printable(l[k]) /\ l[k] # LF
    BY <1>1 DEF TerminalInv, OpenLine, Printable
  <1>5. PICK u : u = c \o l
    OBVIOUS
  <1>6. u \in Seq(S) /\ Len(u) = m + w
    BY <1>2, <1>3, <1>5, ConcatProperties
  <1>7. console' = Append(u, LF)
    <2>1. console' = u \o <<LF>>
      BY <1>1, <1>5 DEF Prints
    <2>2. QED
      BY <1>2, <1>6, <2>1, AppendIsConcat
  <1>8. console' \in Seq(S) /\ Len(console') = m + w + 1
    BY <1>2, <1>6, <1>7, AppendProperties
  <1>9. PICK end : end = m + w + 1
    OBVIOUS
  <1>10. Ends = Feeds(c) /\ Ends \subseteq 1 .. m
    BY <1>1, <1>2, <1>3, FeedsOfSequence DEF Ends
  <1>11. Ends' = Ends \cup {end}
    <2>1. Feeds(u) = Feeds(c)
      BY <1>2, <1>3, <1>4, <1>5, FeedsOfLine
    <2>2. Feeds(console') = Feeds(u) \cup {Len(u) + 1}
      BY <1>2, <1>6, <1>7, FeedsGrow
    <2>3. QED
      BY <1>6, <1>9, <1>10, <2>1, <2>2 DEF Ends
  <1>12. Text(console)' = Text(console) \o line
    <2>1. Text(u) = Text(c) \o l
      BY <1>2, <1>3, <1>4, <1>5, TextOfLine
    <2>2. ~Printable(LF)
      BY DEF Printable
    <2>3. Text(console') = Text(u)
      BY <1>2, <1>6, <1>7, <2>2, TextGrows
    <2>4. QED
      BY <1>1, <2>1, <2>3
  <1>13. Len(line) \in 1 .. LineCapacity
    BY <1>1, <1>3, CapacitiesAssumption DEF TerminalInv, WritesArrive, NothingIsLost
  <1>14. end \in Nat /\ end \notin Ends /\ \A k \in Ends : k \in Nat /\ k <= m /\ k < end
    BY <1>3, <1>9, <1>10
  <1>15. ASSUME NEW k \in Ends PROVE LineOf(k)' = LineOf(k)
    <2>1. {j \in Ends' : j < k} = {j \in Ends : j < k}
      BY <1>11, <1>14
    <2>2. LineOf(k)' = Behind({j \in Ends' : j < k}, k) /\ LineOf(k) = Behind({j \in Ends : j < k}, k)
      BY DEF LineOf, Behind
    <2>3. QED
      BY <2>1, <2>2
  <1>16. LineOf(end)' = Len(line)
    <2>1. {j \in Ends' : j < end} = Ends
      BY <1>11, <1>14
    <2>2. CASE console = <<>>
      <3>1. m = 0
        BY <1>1, <2>2
      <3>2. Ends = {}
        BY <1>10, <3>1
      <3>3. LineOf(end)' = end - 1 - 0
        BY <2>1, <3>2 DEF LineOf
      <3>4. QED
        BY <1>1, <1>3, <1>9, <3>1, <3>3
    <2>3. CASE m \in Ends
      <3>1. PICK last : last = CHOOSE j \in Ends : \A n \in Ends : n <= j
        OBVIOUS
      <3>2. last \in Ends /\ m <= last
        BY <1>14, <2>3, <3>1
      <3>3. last = m
        BY <1>3, <1>14, <3>2
      <3>4. LineOf(end)' = end - 1 - last
        BY <2>1, <2>3, <3>1 DEF LineOf
      <3>5. QED
        BY <1>1, <1>3, <1>9, <3>3, <3>4
    <2>4. QED
      BY <1>1, <2>2, <2>3 DEF TerminalInv, ConsoleEnds
  <1>17. ConsoleEnds'
    <2>1. Len(console') \in Ends'
      BY <1>8, <1>9, <1>11
    <2>2. QED
      BY <2>1 DEF ConsoleEnds
  <1>18. QED
    BY <1>1, <1>8, <1>11, <1>12, <1>13, <1>14, <1>15, <1>16, <1>17

-----------------------------------------------------------------------------
(* The steps of the service *)

\* The service begins with the invariant.
LEMMA TerminalInitial == TerminalInit => TerminalInv
  <1> SUFFICES ASSUME TerminalInit PROVE TerminalInv
    OBVIOUS
  <1>1. /\ line = <<>> /\ console = <<>> /\ arrived = <<>> /\ request \in Requests
        /\ written = 0 /\ status = "OK"
    BY DEF TerminalInit
  <1>2. TerminalTypes /\ OpenLine /\ ConsoleEnds
    BY <1>1, EmptySeq DEF TerminalTypes, OpenLine, ConsoleEnds
  <1>3. WritesArrive
    <2>1. <<>> \o <<>> = <<>> /\ Len(<<>>) = 0
      BY EmptySeq, ConcatEmptySeq
    <2>2. QED
      BY <1>1, <2>1, TextOfNothing, CapacitiesAssumption DEF WritesArrive, NothingIsLost, WritesSucceed
  <1>4. LinesEndWhereTheyWereWritten
    <2>1. Ends = {} /\ Feeds(arrived) = {}
      BY <1>1 DEF Ends, Feeds
    <2>2. {k \in Ends : LineOf(k) < LineCapacity} = {}
      BY <2>1
    <2>3. QED
      BY <2>1, <2>2, FS_EmptySet DEF LinesEndWhereTheyWereWritten
  <1>5. QED
    BY <1>2, <1>3, <1>4 DEF TerminalInv

\* What has arrived has no fewer line ends with a further character, one more with LF.
LEMMA ArrivedGrows ==
    ASSUME NEW s \in Seq(Characters), NEW c \in Characters
    PROVE  /\ Append(s, c) \in Seq(Characters)
           /\ Cardinality(Feeds(s)) \in Nat /\ Cardinality(Feeds(Append(s, c))) \in Nat
           /\ Cardinality(Feeds(Append(s, c))) = Cardinality(Feeds(s)) + (IF c = LF THEN 1 ELSE 0)
  <1>1. PICK S, t : S = Characters /\ t = Append(s, c)
    OBVIOUS
  <1>2. t \in Seq(S) /\ Len(s) \in Nat
    BY <1>1, AppendProperties, LenProperties
  <1>3. /\ Feeds(s) \subseteq 1 .. Len(s) /\ IsFiniteSet(Feeds(s)) /\ Cardinality(Feeds(s)) \in Nat
        /\ Cardinality(Feeds(t)) \in Nat
    BY <1>1, <1>2, FeedsOfSequence
  <1>4. Feeds(t) = IF c = LF THEN Feeds(s) \cup {Len(s) + 1} ELSE Feeds(s)
    BY <1>1, FeedsGrow
  <1>5. Len(s) + 1 \notin Feeds(s)
    BY <1>2, <1>3
  <1>6. Cardinality(Feeds(s) \cup {Len(s) + 1}) = Cardinality(Feeds(s)) + 1
    BY <1>3, <1>5, FS_AddElement
  <1>7. QED
    BY <1>1, <1>2, <1>3, <1>4, <1>6

ShortLines == {k \in Ends : LineOf(k) < LineCapacity}

\* The ends of the lines while nothing is printed.
LEMMA LinesKept ==
    ASSUME TerminalInv, console' = console,
           arrived' = arrived \/ \E c \in Characters : arrived' = Append(arrived, c)
    PROVE  LinesEndWhereTheyWereWritten' /\ ConsoleEnds'
  <1>1. Ends' = Ends
    BY DEF Ends, Feeds
  <1>2. \A k : LineOf(k)' = LineOf(k)
    <2>1. ASSUME NEW k PROVE LineOf(k)' = LineOf(k)
      <3>1. LineOf(k)' = Behind({j \in Ends' : j < k}, k) /\ LineOf(k) = Behind({j \in Ends : j < k}, k)
        BY DEF LineOf, Behind
      <3>2. QED
        BY <1>1, <3>1
    <2>2. QED
      BY <2>1
  <1>3. ShortLines' = ShortLines
    BY <1>1, <1>2 DEF ShortLines
  <1>4. \A k \in Ends' : LineOf(k)' \in 1 .. LineCapacity
    BY <1>1, <1>2 DEF TerminalInv, LinesEndWhereTheyWereWritten
  <1>5. Cardinality(ShortLines) <= Cardinality(Feeds(arrived))
    BY DEF TerminalInv, LinesEndWhereTheyWereWritten, ShortLines
  <1>6. Cardinality(ShortLines) \in Nat
    <2>1. IsFiniteSet(Ends)
      BY FeedsOfSequence DEF TerminalInv, TerminalTypes, Ends
    <2>2. ShortLines \subseteq Ends
      BY DEF ShortLines
    <2>3. QED
      BY <2>1, <2>2, FS_Subset, FS_CardinalityType
  <1>7. Cardinality(ShortLines') <= Cardinality(Feeds(arrived'))
    <2>1. CASE arrived' = arrived
      BY <1>3, <1>5, <2>1
    <2>2. CASE \E c \in Characters : arrived' = Append(arrived, c)
      <3>1. PICK c \in Characters : arrived' = Append(arrived, c)
        BY <2>2
      <3>2. arrived \in Seq(Characters)
        BY DEF TerminalInv, TerminalTypes
      <3>3. PICK a, b, e : /\ a = Cardinality(Feeds(arrived)) /\ b = Cardinality(Feeds(arrived'))
                           /\ e = Cardinality(ShortLines)
        OBVIOUS
      <3>4. a \in Nat /\ b \in Nat /\ b = a + (IF c = LF THEN 1 ELSE 0)
        BY <3>1, <3>2, <3>3, ArrivedGrows
      <3>5. a <= b
        BY <3>4
      <3>6. e <= b
        BY <1>5, <1>6, <3>3, <3>4, <3>5
      <3>7. QED
        BY <1>3, <3>3, <3>6
    <2>3. QED
      BY <2>1, <2>2
  <1>8. LinesEndWhereTheyWereWritten'
    BY <1>4, <1>7 DEF LinesEndWhereTheyWereWritten, ShortLines
  <1>9. QED
    BY <1>1, <1>8 DEF TerminalInv, ConsoleEnds

\* A line is printed because it is full or because its end arrived.
LEMMA LinesAdded ==
    ASSUME TerminalInv, Prints, NEW c \in Characters, arrived' = Append(arrived, c),
           c = LF \/ Len(line) = LineCapacity
    PROVE  LinesEndWhereTheyWereWritten'
  <1>1. PICK end \in Nat : /\ Ends' = Ends \cup {end} /\ end \notin Ends
                           /\ LineOf(end)' = Len(line)
                           /\ \A k \in Ends : LineOf(k)' = LineOf(k)
    BY LinePrinted
  <1>2. Len(line) \in 1 .. LineCapacity
    BY LinePrinted
  <1>3. \A k \in Ends' : LineOf(k)' \in 1 .. LineCapacity
    BY <1>1, <1>2 DEF TerminalInv, LinesEndWhereTheyWereWritten
  <1>4. ShortLines' = IF Len(line) < LineCapacity THEN ShortLines \cup {end} ELSE ShortLines
    BY <1>1 DEF ShortLines
  <1>5. IsFiniteSet(ShortLines) /\ Cardinality(ShortLines) \in Nat /\ end \notin ShortLines
    <2>1. IsFiniteSet(Ends)
      BY FeedsOfSequence DEF TerminalInv, TerminalTypes, Ends
    <2>2. ShortLines \subseteq Ends
      BY DEF ShortLines
    <2>3. QED
      BY <1>1, <2>1, <2>2, FS_Subset, FS_CardinalityType
  <1>6. Cardinality(ShortLines \cup {end}) = Cardinality(ShortLines) + 1
    BY <1>5, FS_AddElement
  <1>7. PICK a, b, e, f :
           /\ a = Cardinality(Feeds(arrived)) /\ b = Cardinality(Feeds(arrived'))
           /\ e = Cardinality(ShortLines) /\ f = Cardinality(ShortLines')
    OBVIOUS
  <1>8. a \in Nat /\ b \in Nat /\ b = a + (IF c = LF THEN 1 ELSE 0)
    <2>1. arrived \in Seq(Characters)
      BY DEF TerminalInv, TerminalTypes
    <2>2. QED
      BY <1>7, <2>1, ArrivedGrows
  <1>9. e \in Nat /\ e <= a
    BY <1>5, <1>7 DEF TerminalInv, LinesEndWhereTheyWereWritten, ShortLines
  <1>10. f <= b
    <2>1. CASE Len(line) < LineCapacity
      <3>1. f = e + 1
        BY <1>4, <1>6, <1>7, <2>1
      <3>2. c = LF
        BY <1>2, <2>1, CapacitiesAssumption
      <3>3. QED
        BY <1>8, <1>9, <3>1, <3>2
    <2>2. CASE ~(Len(line) < LineCapacity)
      <3>1. f = e
        BY <1>4, <1>7, <2>2
      <3>2. QED
        BY <1>8, <1>9, <3>1
    <2>3. QED
      BY <2>1, <2>2
  <1>11. QED
    BY <1>3, <1>7, <1>10 DEF LinesEndWhereTheyWereWritten, ShortLines

\* One character of a request, of every kind and at every fill of the line.
LEMMA CharacterKeeps ==
    ASSUME TerminalInv, TerminalWriteCharacter
    PROVE  TerminalInv'
  <1>1. PICK c : c = Character
    OBVIOUS
  <1>2. /\ status = "handling" /\ written < request.length /\ request' = request
        /\ written' = written + 1 /\ arrived' = Append(arrived, c)
    BY <1>1 DEF TerminalWriteCharacter
  <1>3. /\ request \in Requests /\ written \in Nat /\ Refusal(request) = "OK"
        /\ line \in Seq(Characters) /\ console \in Seq(Characters) /\ arrived \in Seq(Characters)
        /\ Len(line) \in Nat /\ Len(line) <= LineCapacity
    BY <1>2, LenProperties DEF TerminalInv, TerminalTypes, WritesArrive, NothingIsLost
  <1>4. c \in Characters
    <2>1. request.length \in Nat /\ request.bytes \in Seq(Characters)
      BY <1>3, CapacitiesAssumption
    <2>2. request.length <= Len(request.bytes)
      <3>1. ~(request.length > MaxBytes)
        BY <1>3 DEF Refusal
      <3>2. QED
        BY <1>3, <2>1, <3>1, CapacitiesAssumption
    <2>3. Len(request.bytes) \in Nat
      BY <2>1, LenProperties
    <2>4. written + 1 \in 1 .. Len(request.bytes)
      BY <1>2, <1>3, <2>1, <2>2, <2>3
    <2>5. QED
      BY <1>1, <2>1, <2>4, ElementOfSeq DEF Character
  <1>5. /\ FlushStatus = "OK"
        /\ Flushed = IF line = <<>> THEN console ELSE console \o line \o <<LF>>
    <2>1. Len(line) < LogCapacity
      BY <1>3, CapacitiesAssumption
    <2>2. QED
      BY <2>1 DEF FlushStatus, LogStatus, Flushed, Logged
  <1>6. /\ \/ c \in {NUL, CR} /\ UNCHANGED <<line, console>>
           \/ c = LF /\ console' = Flushed /\ line' = <<>>
           \/ /\ Printable(c) /\ console' = (IF LineFull THEN Flushed ELSE console)
              /\ line' = Kept(c)
        /\ status' = "handling"
    BY <1>1, <1>5 DEF TerminalWriteCharacter
  <1>7. /\ arrived' \in Seq(Characters)
        /\ Text(arrived) \in Seq(Characters) /\ Text(console) \in Seq(Characters)
        /\ Text(arrived') = IF Printable(c) THEN Append(Text(arrived), c) ELSE Text(arrived)
    BY <1>2, <1>3, <1>4, TextGrows, AppendProperties
  <1>8. Text(console) \o line = Text(arrived)
    BY DEF TerminalInv, WritesArrive, NothingIsLost
  <1>9. request' \in Requests /\ written' \in Nat /\ Refusal(request') = "OK" /\ written' <= request'.length
    <2>1. request.length \in Nat
      BY <1>3, CapacitiesAssumption
    <2>2. QED
      BY <1>2, <1>3, <2>1
  <1>10. ASSUME line' \in Seq(Characters), console' \in Seq(Characters), OpenLine',
                Len(line') <= LineCapacity, Text(console') \o line' = Text(arrived'),
                ConsoleEnds', LinesEndWhereTheyWereWritten'
         PROVE  TerminalInv'
    <2>1. TerminalTypes'
      BY <1>6, <1>7, <1>9, <1>10 DEF TerminalTypes, Refusal
    <2>2. WritesArrive'
      BY <1>6, <1>10 DEF WritesArrive, NothingIsLost, WritesSucceed
    <2>3. QED
      BY <1>10, <2>1, <2>2 DEF TerminalInv
  <1>11. CASE c \in {NUL, CR} /\ UNCHANGED <<line, console>>
    <2>1. ~Printable(c)
      BY <1>11 DEF Printable
    <2>2. LinesEndWhereTheyWereWritten' /\ ConsoleEnds'
      BY <1>2, <1>4, <1>11, LinesKept
    <2>3. OpenLine'
      BY <1>11 DEF TerminalInv, OpenLine
    <2>4. QED
      BY <1>3, <1>7, <1>8, <1>10, <1>11, <2>1, <2>2, <2>3
  <1>12. CASE c = LF /\ console' = Flushed /\ line' = <<>>
    <2>1. ~Printable(c)
      BY <1>12 DEF Printable
    <2>2. line' \in Seq(Characters) /\ Len(line') <= LineCapacity /\ OpenLine'
      BY <1>12, EmptySeq, CapacitiesAssumption DEF OpenLine
    <2>3. CASE line = <<>>
      <3>1. LinesEndWhereTheyWereWritten' /\ ConsoleEnds'
        BY <1>2, <1>4, <1>5, <1>12, <2>3, LinesKept
      <3>2. QED
        BY <1>3, <1>5, <1>7, <1>8, <1>10, <1>12, <2>1, <2>2, <2>3, <3>1
    <2>4. CASE line # <<>>
      <3>1. Prints
        BY <1>5, <1>12, <2>4 DEF Prints
      <3>2. console' \in Seq(Characters) /\ ConsoleEnds' /\ Text(console') = Text(console) \o line
        BY <3>1, LinePrinted
      <3>3. LinesEndWhereTheyWereWritten'
        BY <1>2, <1>4, <1>12, <3>1, LinesAdded
      <3>4. Text(arrived) \o <<>> = Text(arrived)
        BY <1>7, ConcatEmptySeq
      <3>5. QED
        BY <1>7, <1>8, <1>10, <1>12, <2>1, <2>2, <3>2, <3>3, <3>4
    <2>5. QED
      BY <2>3, <2>4
  <1>13. CASE Printable(c) /\ LineFull /\ console' = Flushed /\ line' = <<c>>
    <2>1. Len(line) = LineCapacity /\ line # <<>>
      BY <1>13, EmptySeq, CapacitiesAssumption DEF LineFull
    <2>2. Prints
      BY <1>5, <1>13, <2>1 DEF Prints
    <2>3. console' \in Seq(Characters) /\ ConsoleEnds' /\ Text(console') = Text(console) \o line
      BY <2>2, LinePrinted
    <2>4. LinesEndWhereTheyWereWritten'
      BY <1>2, <1>4, <2>1, <2>2, LinesAdded
    <2>5. line' \in Seq(Characters) /\ Len(line') = 1 /\ line'[1] = c
      BY <1>4, <1>13
    <2>6. OpenLine' /\ Len(line') <= LineCapacity
      BY <1>13, <2>5, CapacitiesAssumption DEF OpenLine
    <2>7. Append(Text(arrived), c) = Text(arrived) \o <<c>>
      BY <1>4, <1>7, AppendIsConcat
    <2>8. QED
      BY <1>7, <1>8, <1>10, <1>13, <2>3, <2>4, <2>5, <2>6, <2>7
  <1>14. CASE Printable(c) /\ ~LineFull /\ console' = console /\ line' = Append(line, c)
    <2>1. LinesEndWhereTheyWereWritten' /\ ConsoleEnds'
      BY <1>2, <1>4, <1>14, LinesKept
    <2>2. /\ line' \in Seq(Characters) /\ Len(line') = Len(line) + 1
          /\ line'[Len(line) + 1] = c /\ \A k \in 1 .. Len(line) : line'[k] = line[k]
      BY <1>3, <1>4, <1>14, AppendProperties
    <2>3. OpenLine'
      <3>1. 1 .. Len(line) + 1 = (1 .. Len(line)) \cup {Len(line) + 1}
        BY <1>3
      <3>2. QED
        BY <1>14, <2>2, <3>1 DEF TerminalInv, OpenLine
    <2>4. Len(line') <= LineCapacity
      BY <1>3, <1>14, <2>2, CapacitiesAssumption DEF LineFull
    <2>5. Text(console) \o Append(line, c) = Append(Text(console) \o line, c)
      BY <1>3, <1>4, <1>7, AppendBehind
    <2>6. QED
      BY <1>3, <1>7, <1>8, <1>10, <1>14, <2>1, <2>2, <2>3, <2>4, <2>5
  <1>15. QED
    BY <1>6, <1>11, <1>12, <1>13, <1>14 DEF Kept

\* No step of the service ends the invariant.
LEMMA TerminalStep == TerminalInv /\ [TerminalNext]_terminalVars => TerminalInv'
  <1> SUFFICES ASSUME TerminalInv, [TerminalNext]_terminalVars PROVE TerminalInv'
    OBVIOUS
  <1>1. ASSUME UNCHANGED <<line, console, arrived>>, TerminalTypes', WritesSucceed'
        PROVE  TerminalInv'
    <2>1. LinesEndWhereTheyWereWritten' /\ ConsoleEnds'
      BY <1>1, LinesKept
    <2>2. OpenLine' /\ NothingIsLost'
      BY <1>1 DEF TerminalInv, OpenLine, WritesArrive, NothingIsLost
    <2>3. QED
      BY <1>1, <2>1, <2>2 DEF TerminalInv, WritesArrive
  <1>2. CASE \E r \in Requests : TerminalHandleRequest(r)
    <2>1. PICK r \in Requests : TerminalHandleRequest(r)
      BY <1>2
    <2>2. /\ request' = r /\ written' = 0 /\ UNCHANGED <<line, console, arrived>>
          /\ status' = IF Refusal(r) = "OK" THEN "handling" ELSE Refusal(r)
      BY <2>1 DEF TerminalHandleRequest
    <2>3. Refusal(request') = Refusal(r) /\ Refusal(r) # "handling"
      BY <2>2 DEF Refusal
    <2>4. r.length \in Nat
      BY CapacitiesAssumption
    <2>5. TerminalTypes'
      BY <2>2, <2>3, <2>4 DEF TerminalInv, TerminalTypes, Refusal
    <2>6. WritesSucceed'
      BY <2>2, <2>3 DEF WritesSucceed, Refusal
    <2>7. QED
      BY <1>1, <2>2, <2>5, <2>6
  <1>3. CASE TerminalWriteCharacter
    BY <1>3, CharacterKeeps
  <1>4. CASE TerminalReplies
    <2>1. TerminalTypes' /\ WritesSucceed'
      BY <1>4 DEF TerminalReplies, TerminalInv, TerminalTypes, WritesSucceed
    <2>2. QED
      BY <1>1, <1>4, <2>1 DEF TerminalReplies
  <1>5. CASE UNCHANGED terminalVars
    <2>1. TerminalTypes' /\ WritesSucceed'
      BY <1>5 DEF terminalVars, TerminalInv, TerminalTypes, WritesArrive, WritesSucceed, Refusal
    <2>2. QED
      BY <1>1, <1>5, <2>1 DEF terminalVars
  <1>6. QED
    BY <1>2, <1>3, <1>4, <1>5 DEF TerminalNext

(* The service keeps its invariant: the console is made of ended lines, the  *)
(* line buffer of printable characters.                                      *)
THEOREM TerminalInvariant == TerminalSpec => []TerminalInv
  <1>1. QED
    BY TerminalInitial, TerminalStep, PTL DEF TerminalSpec

(* However clients cut their text into requests, and whatever the sizes of   *)
(* line and log are, srv_terminal prints or keeps every printable character  *)
(* in order and accepts every well-formed write.                             *)
THEOREM WritingCorrect == TerminalSpec => []WritesArrive
  <1>1. TerminalInv => WritesArrive
    BY DEF TerminalInv
  <1>2. QED
    BY <1>1, TerminalInvariant, PTL

(* srv_terminal prints no empty line and no line longer than its buffer, and *)
(* a shorter one only for an LF that a client wrote.                         *)
THEOREM LinesCorrect == TerminalSpec => []LinesEndWhereTheyWereWritten
  <1>1. TerminalInv => LinesEndWhereTheyWereWritten
    BY DEF TerminalInv
  <1>2. QED
    BY <1>1, TerminalInvariant, PTL
=============================================================================
