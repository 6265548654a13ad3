--------------------------- MODULE MCUserRuntime ---------------------------
(* Two threads of the arm64 kernel, one native and one in the x64 emulator,  *)
(* whose programs register, open, call and complete whatever they like.      *)
EXTENDS UserRuntime
MCBackend == [t \in Threads |-> IF t = 0 THEN "arm64_native" ELSE "x64_emulator"]
MCAllNames == [t \in Threads |-> Names]
=============================================================================
