----------------------------- MODULE MCUserCopy -----------------------------
(* Two processes on an eight-address machine.  The application has room for  *)
(* two adjacent mappings, like image and stack of the x64 kernel; a mapping  *)
(* that would reach past the last address is refused.                        *)
EXTENDS UserCopy
MCStorage == [p \in Processes |-> IF p = "app" THEN 1 .. 4 ELSE 5 .. 6]
=============================================================================
