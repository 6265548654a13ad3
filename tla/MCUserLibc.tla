----------------------------- MODULE MCUserLibc -----------------------------
(* The libc for TLC.  Exit: a program with one initializer between empty     *)
(* entries.  Output: every conversion, length modifier and malformed         *)
(* conversion, on both targets, into buffers of every size.  Byte loops:     *)
(* four bytes of memory, every overlap of two ranges of up to four bytes.    *)
EXTENDS UserLibc

MCStatuses == {-1, 0}
MCInitializers == <<"null", "function", "null">>

MCBytes == {0, 1, 200}

\* format and arguments; the largest and least values of both widths
MCFormats ==
  { <<<<>>, <<>>>>, <<<<"a">>, <<>>>>, <<<<"a", "b", "a">>, <<>>>>, <<<<"a", "b", "a", "b">>, <<>>>>,
    <<<<"%">>, <<>>>>, <<<<"a", "%">>, <<>>>>, <<<<"%", "l">>, <<>>>>, <<<<"%", "l", "l">>, <<>>>>, <<<<"%", "z">>, <<>>>>,
    <<<<"%", "%", "a">>, <<>>>>, <<<<"%", "q", "a">>, <<>>>>, <<<<"%", "l", "q">>, <<>>>>, <<<<"%", "l", "%", "a">>, <<>>>>,
    <<<<"%", "c", "a">>, <<"b">>>>, <<<<"a", "%", "c", "b">>, <<EndOfString>>>>,
    <<<<"%", "s", "a">>, << <<"b", "b">> >>>>, <<<<"%", "s">>, << NullString >>>>, <<<<"%", "s">>, << <<>> >>>>,
    <<<<"%", "p">>, <<255>>>>, <<<<"%", "x", "%", "X">>, <<14, 250>>>>, <<<<"%", "l", "l", "X">>, <<250>>>>,
    <<<<"%", "u">>, <<31>>>>, <<<<"%", "z", "u">>, <<255>>>>, <<<<"%", "l", "u">>, <<0>>>>,
    <<<<"%", "d">>, <<7>>>>, <<<<"%", "i">>, <<8>>>>, <<<<"%", "l", "d">>, <<255>>>>, <<<<"%", "l", "l", "d">>, <<128>>>>,
    <<<<"%", "z", "d", "%", "d">>, <<127, 9>>>>, <<<<"%", "u", "%", "p">>, <<9, 255>>>>,
    <<<<"a", "%", "s", "%", "d", "b">>, << <<"c", "c">>, 1>> >>, <<<<"%", "s">>, << <<"a", "b", "c", "d", "e", "f", "g", "h", "i">> >>>>,
    <<NullString, <<>>>> }

\* an arm64 program whose integer conversions precede others reads integers there too
Call(function, f, size, null, target) ==
  [function |-> function, format |-> f[1], arguments |-> f[2], size |-> size, null |-> null, target |-> target]

MCStrings ==
  { <<<<>>, <<>>>>, <<<<"a", "b", "a">>, <<>>>>, <<<<"a", "b", "a", "b">>, <<>>>>,
    <<<<"a", "b", "a", "b", "a">>, <<>>>>, <<NullString, <<>>>> }

MCTargets == {"x64", "arm64"}

MCCalls ==
  {Call("snprintf", f, n, FALSE, t) : f \in MCFormats, n \in 0 .. 5, t \in MCTargets}
    \cup {Call("snprintf", f, n, TRUE, t) : f \in MCFormats, n \in {0, 2}, t \in MCTargets}
    \cup {Call("printf", f, 8, FALSE, t) : f \in MCFormats, t \in MCTargets}
    \cup {Call("puts", f, 0, TRUE, t) : f \in MCStrings, t \in MCTargets}
=============================================================================
