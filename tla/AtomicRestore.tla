--------------------------- MODULE AtomicRestore ----------------------------
(***************************************************************************)
(* What restoring a configuration backup promises (docs/guide/config.md,   *)
(* "Restore a backup": replacement, not merge; an archive is staged before *)
(* the reboot and replaces the setup as a whole).  The setup is one value: *)
(* nothing ever sees a part of one.  ConfigRestore shows that the renames  *)
(* of src/config/backup.cpp implement this.                                *)
(***************************************************************************)
CONSTANTS Root,      \* the managed files and directories
          Value,     \* their contents
          Absent,    \* one that does not exist
          NoSetup    \* no restore is staged

VARIABLES setup,     \* the configuration in force
          staged,    \* the one a restore will put in its place
          durable,   \* the <<setup, staged>> a power loss may fall back to
          up         \* the runtime has started on this configuration

vars == <<setup, staged, durable, up>>

Setup == [Root -> Value \cup {Absent}]

Remember == durable' = durable \cup {<<setup', staged'>>}

Init == /\ setup \in Setup
        /\ staged = NoSetup
        /\ durable = {<<setup, staged>>}
        /\ up = FALSE

(* The running system changes its own configuration.                       *)
Edit == /\ up
        /\ \E s \in Setup : setup' = s
        /\ Remember
        /\ UNCHANGED <<staged, up>>

(* An archive is accepted; one at a time.                                  *)
Stage == /\ up
         /\ staged = NoSetup
         /\ \E s \in Setup : staged' = s
         /\ Remember
         /\ UNCHANGED <<setup, up>>

(* The staged setup replaces the whole of the old one while nothing runs.  *)
Restore == /\ ~up
           /\ staged # NoSetup
           /\ setup' = staged
           /\ staged' = NoSetup
           /\ Remember
           /\ UNCHANGED up

(* The runtime never starts while a restore is waiting.  Starting, it may  *)
(* create what is missing.                                                 *)
Start == /\ ~up
         /\ staged = NoSetup
         /\ up' = TRUE
         /\ \E s \in Setup :
              /\ \A r \in Root : setup[r] # Absent => s[r] = setup[r]
              /\ setup' = s
         /\ Remember
         /\ UNCHANGED staged

Sync == /\ durable' = {<<setup, staged>>}
        /\ UNCHANGED <<setup, staged, up>>

Stop == /\ up' = FALSE
        /\ UNCHANGED <<setup, staged, durable>>

(* Shutting down cleanly writes everything out.                            *)
Reboot == /\ up' = FALSE
          /\ durable' = {<<setup, staged>>}
          /\ UNCHANGED <<setup, staged>>

PowerLoss == /\ up' = FALSE
             /\ \E d \in durable :
                  /\ setup' = d[1]
                  /\ staged' = d[2]
                  /\ durable' = {d}

Next == Edit \/ Stage \/ Restore \/ Start \/ Sync \/ Stop \/ Reboot \/ PowerLoss

Spec == Init /\ [][Next]_vars

=============================================================================
