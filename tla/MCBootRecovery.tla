--------------------------- MODULE MCBootRecovery ---------------------------
(* Instances of BootRecovery for TLC.                                      *)
EXTENDS BootRecovery

MCKernelFileOf == [v \in Version |-> IF v = "v1" THEN "kernel_2712.img" ELSE "kernel8.img"]
MCBudget == [request |-> 2, ioError |-> 1, powerLoss |-> 1]
NoFaults == [request |-> 2, ioError |-> 0, powerLoss |-> 0]

(* A bound of this instance: the loader or cmdline.txt alone is replaced   *)
(* by the first request only, and an update or a new config.txt follows.   *)
SmallRequestFirst ==
  req'.kind \in {"bootfile", "cmdline"} =>
    left'.request = 1 /\ req'.ver # Factory /\ todo' \subseteq {"loader", "cmdline"}

=============================================================================
