----------------------------- MODULE LatestGraph ------------------------------
(***************************************************************************)
(* What the graph mailbox promises (include/audio/context.hpp: "Serialized *)
(* publishers and one audio-thread consumer exchange slot ownership"): a   *)
(* register.  A graph is published as a whole, and the audio thread is     *)
(* given the one published last when it asked.  GraphMailbox shows that    *)
(* three slots and an atomic word implement this.                          *)
(***************************************************************************)
CONSTANTS Graphs,        \* routing graphs
          InitialGraph   \* the one that stands for "nothing published yet"

VARIABLES latest,   \* the graph published last
          news,     \* the consumer has not asked since
          held,     \* the graph the consumer was given
          out       \* the consumer's own copy of a graph

vars == <<latest, news, held, out>>

Init == /\ latest = InitialGraph
        /\ news = FALSE
        /\ held = InitialGraph
        /\ out = InitialGraph

Publish(g) == /\ latest' = g
              /\ news' = TRUE
              /\ UNCHANGED <<held, out>>

Ask == /\ news
       /\ held' = latest
       /\ news' = FALSE
       /\ UNCHANGED <<latest, out>>

Copy == /\ out' = held
        /\ UNCHANGED <<latest, news, held>>

Next == \/ \E g \in Graphs : Publish(g)
        \/ Ask
        \/ Copy

Spec == Init /\ [][Next]_vars
=============================================================================
