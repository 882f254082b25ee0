---------------------------- MODULE GraphMailbox ------------------------------
(***************************************************************************)
(* The triple buffer that hands routing graphs to the audio thread:        *)
(* AudioGraphMailbox in include/audio/context.hpp.                         *)
(*                                                                         *)
(* Publishers take turns (routingGraphMutex); the audio thread takes no    *)
(* lock.  A graph is some thirty kilobytes, so writing and reading a slot  *)
(* take time: a slot that is being overwritten holds NoGraph.  Only the    *)
(* exchange of the word `middle` is atomic.                                *)
(***************************************************************************)
EXTENDS Naturals

CONSTANTS Graphs,        \* routing graphs
          InitialGraph,  \* the zeroed graph the slots start with
          NoGraph        \* a slot in the middle of a copy; no graph

ASSUME GraphsAssumption == InitialGraph \in Graphs /\ NoGraph \notin Graphs

VARIABLES slots,    \* slots
          middle,   \* middle: a slot number and the flag 4U
          back,     \* back, the publishers' slot
          front,    \* front, the consumer's slot
          writing,  \* the graph a publisher is copying in, or NoGraph
          reading,  \* the consumer is copying its slot out
          out       \* the consumer's copy: *out

mailboxVars == <<slots, middle, back, front, writing, reading, out>>

Slot == 0..2

(* slots{}, middle{1}, back = 2, front = 0.                                *)
MailboxInit ==
  /\ slots = [i \in Slot |-> InitialGraph]
  /\ middle = [slot |-> 1, fresh |-> FALSE]
  /\ back = 2
  /\ front = 0
  /\ writing = NoGraph
  /\ reading = FALSE
  /\ out = InitialGraph

(* publish(): slots[back] = graph begins.                                  *)
BeginPublish(g) ==
  /\ writing = NoGraph
  /\ writing' = g
  /\ slots' = [slots EXCEPT ![back] = NoGraph]
  /\ UNCHANGED <<middle, back, front, reading, out>>

(* Mutant of EndPublish: the flag is toggled instead of set.               *)
EndPublishToggles ==
  /\ writing # NoGraph
  /\ slots' = [slots EXCEPT ![back] = writing]
  /\ writing' = NoGraph
  /\ middle' = [slot |-> back, fresh |-> ~middle.fresh]
  /\ back' = middle.slot
  /\ UNCHANGED <<front, reading, out>>

(* The copy ends, and the slot is exchanged for the middle one.            *)
EndPublish ==
  /\ writing # NoGraph
  /\ slots' = [slots EXCEPT ![back] = writing]
  /\ writing' = NoGraph
  /\ middle' = [slot |-> back, fresh |-> TRUE]
  /\ back' = middle.slot
  /\ UNCHANGED <<front, reading, out>>

(* Mutants of Consume: the flag stays set; the flag is not looked at.      *)
ConsumeKeepingFlag ==
  /\ ~reading
  /\ middle.fresh
  /\ front' = middle.slot
  /\ middle' = [slot |-> front, fresh |-> TRUE]
  /\ reading' = TRUE
  /\ UNCHANGED <<slots, back, writing, out>>

(* consume(): the flag is set, and the middle slot is exchanged for the    *)
(* consumer's.  Publishers only set the flag, so that it is still set at   *)
(* the exchange.                                                           *)
Consume ==
  /\ ~reading
  /\ middle.fresh
  /\ front' = middle.slot
  /\ middle' = [slot |-> front, fresh |-> FALSE]
  /\ reading' = TRUE
  /\ UNCHANGED <<slots, back, writing, out>>

(* consume(): nothing new, and the caller wants the current graph.         *)
ConsumeCurrent ==
  /\ ~reading
  /\ ~middle.fresh
  /\ reading' = TRUE
  /\ UNCHANGED <<slots, middle, back, front, writing, out>>

(* consume(): *out = slots[front] is done.                                 *)
EndConsume ==
  /\ reading
  /\ out' = slots[front]
  /\ reading' = FALSE
  /\ UNCHANGED <<slots, middle, back, front, writing>>

MailboxNext == \/ \E g \in Graphs : BeginPublish(g)
               \/ EndPublish
               \/ Consume
               \/ ConsumeCurrent
               \/ EndConsume

MailboxSpec == MailboxInit /\ [][MailboxNext]_mailboxVars

-----------------------------------------------------------------------------
MailboxTypeOK ==
  /\ slots \in [Slot -> Graphs \cup {NoGraph}]
  /\ middle \in [slot : Slot, fresh : BOOLEAN]
  /\ back \in Slot
  /\ front \in Slot
  /\ writing \in Graphs \cup {NoGraph}
  /\ reading \in BOOLEAN
  /\ out \in Graphs \cup {NoGraph}

(* Each slot has one owner: the publishers, the consumer or the word.      *)
OneOwnerEach == {back, middle.slot, front} = Slot

(* "neither side ever copies a slot owned by the other, even if several    *)
(* updates arrive per block" (context.hpp): only the publishers' slot is   *)
(* ever half written, so what the audio thread copies out is a graph.      *)
NoTornGraph == {slots[front], slots[middle.slot], out} \subseteq Graphs

(* Three slots implement a register (see LatestGraph).                     *)
Latest == INSTANCE LatestGraph
            WITH latest <- IF middle.fresh THEN slots[middle.slot] ELSE slots[front],
                 news <- middle.fresh,
                 held <- slots[front]

ImplementsRegister == Latest!Spec
=============================================================================
