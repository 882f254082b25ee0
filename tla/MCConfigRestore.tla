-------------------------- MODULE MCConfigRestore ---------------------------
(* Instances of ConfigRestore for TLC.                                     *)
EXTENDS ConfigRestore

MCBudget == [edit |-> 1, ioError |-> 2, death |-> 1, powerLoss |-> 2]
OneFault == [edit |-> 0, ioError |-> 1, death |-> 0, powerLoss |-> 0]

=============================================================================
