----------------------------- MODULE MCLiveness -----------------------------
(***************************************************************************)
(* The components whose promises rest on fairness: the plugin's host and   *)
(* the link to a Bluetooth device (whose variables and constants are this  *)
(* module's own), and the rollback of updates.  They share no state, so    *)
(* each is run with the others at rest: `focus` is the one that runs.      *)
(***************************************************************************)
EXTENDS PluginHost, AvdtpLink

VARIABLES
    focus,
    br_boot, br_bootDur, br_st, br_stDur, br_pc, br_todo, br_failed, br_req, br_running,
    br_env, br_ram, br_left, br_cut

\* An image whose runtime never stays healthy, no faults, and every kind of request but
\* that for cmdline.txt, which is written as config.txt is.
MCVersion == {"v0", "v1"}
BR == INSTANCE BootRecovery WITH
    Version <- MCVersion, Factory <- "v0", Broken <- {"v1"},
    KernelFileOf <- [v \in MCVersion |-> IF v = "v1" THEN "kernel_2712.img" ELSE "kernel8.img"],
    DefaultKernel <- "kernel8.img", Absent <- "absent", Torn <- "torn", MaxAttempts <- 2,
    Kinds <- {"update", "initram", "bootfile", "config"},
    Budget <- [request |-> 2, ioError |-> 0, powerLoss |-> 0],
    boot <- br_boot, bootDur <- br_bootDur, st <- br_st, stDur <- br_stDur, pc <- br_pc,
    todo <- br_todo, failed <- br_failed, req <- br_req, running <- br_running, env <- br_env,
    ram <- br_ram, left <- br_left, cut <- br_cut
brVars == <<br_boot, br_bootDur, br_st, br_stDur, br_pc, br_todo, br_failed, br_req, br_running,
            br_env, br_ram, br_left, br_cut>>

LInit == focus \in {"plugin", "link", "boot"} /\ Init /\ LinkInit /\ BR!Init

LNext ==
    /\ UNCHANGED focus
    /\ \/ focus = "plugin" /\ Next /\ UNCHANGED <<avdtpVars, brVars>>
       \/ focus = "link" /\ LinkNext /\ UNCHANGED <<vars, brVars>>
       \/ focus = "boot" /\ BR!Next /\ UNCHANGED <<vars, avdtpVars>>

\* A plugin host and a link at rest owe nothing to anybody, a machine that has
\* been switched on does.
LSpec ==
    /\ LInit /\ [][LNext]_<<focus, vars, avdtpVars, brVars>>
    /\ Fairness /\ LinkFairness /\ (focus = "boot" => BR!Fairness)

TrialResolves == BR!TrialResolves
=============================================================================
