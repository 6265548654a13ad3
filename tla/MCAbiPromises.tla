---------------------------- MODULE MCAbiPromises ----------------------------
(* Two threads, as run_initial_user_runtime creates them.  In mutual_call     *)
(* both programs register and open any name; in return_register thread 0 is   *)
(* a service that registers and thread 1 an application that opens.           *)
EXTENDS AbiPromises
MCBackendX64 == [t \in Threads |-> "x64_native"]
MCBackendArm64 == [t \in Threads |-> "arm64_native"]
MCAllNames == [t \in Threads |-> Names]
MCServiceNames == [t \in Threads |-> IF t = 0 THEN Names ELSE {}]
MCApplicationNames == [t \in Threads |-> IF t = 1 THEN Names ELSE {}]
=============================================================================
