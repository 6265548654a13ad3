------------------------ MODULE MCServiceDeployment ------------------------
(* One service with two names and two applications on the x64 kernel.        *)
EXTENDS ServiceDeployment

MCBackend == [t \in Threads |-> "x64_native"]
MCMayRegister == [t \in Threads |-> IF t = 0 THEN Names ELSE {}]
MCMayOpen == [t \in Threads |-> IF t = 0 THEN {} ELSE Names]
=============================================================================
