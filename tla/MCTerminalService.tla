------------------------- MODULE MCTerminalService -------------------------
(* Requests for TLC: texts that end lines, fill them and cross from one      *)
(* request into the next, and requests that are refused.                     *)
EXTENDS TerminalService

Write(bytes) == [size |-> "write", operation |-> "WRITE_BUFFER", length |-> Len(bytes), bytes |-> bytes]

Texts == { <<"a">>, <<LF>>, <<"a", "b">>, <<"b", LF, "a">>, <<CR, LF>>, <<"a", NUL, "b", "a">>, <<LF, LF>>,
           <<"a", "b", "a", "b">>, <<"a", "b", "a", LF>> }

MCRequests ==
  {Write(t) : t \in Texts}
    \cup { [Write(<<"a">>) EXCEPT !.size = "short"], [Write(<<"a">>) EXCEPT !.size = "other"],
           [Write(<<"a">>) EXCEPT !.operation = "OTHER"], [Write(<<"a">>) EXCEPT !.length = 0],
           [Write(<<"a">>) EXCEPT !.length = 5] }
=============================================================================
