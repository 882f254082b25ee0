-------------------------- MODULE EffectHosts_proofs ---------------------------
(***************************************************************************)
(* EffectHosts, for any number of effects, every set of stored setups and  *)
(* any number of changes: a plugin host has one owner, and is never        *)
(* destroyed while the audio thread works with it; and a plugin that is    *)
(* bypassed in a block has forgotten what it heard by the end of it,       *)
(* unless its effect moved to another node in that very block.             *)
(***************************************************************************)
EXTENDS EffectHosts, TLAPS

(* Effects and pluginHosts agree.                                          *)
Agree ==
  /\ \A e \in DOMAIN states :
       states[e].host = IF e \in DOMAIN hosts THEN hosts[e] ELSE NoHost
  /\ DOMAIN hosts \subseteq DOMAIN states
  /\ reloading \subseteq DOMAIN states

(* A host carries the number of the change that brought it into service,   *)
(* so that a new one differs from all there have been.                     *)
Stamped ==
  /\ \A e \in DOMAIN hosts : hosts[e].effect = e /\ hosts[e].since < seq
  /\ \A r \in retired : r.host.since < seq /\ r.sequence <= seq
  /\ \A r \in retired : \A e \in DOMAIN hosts : r.host # hosts[e]
  /\ \A r, s \in retired : r.host = s.host => r = s

(* The copy of node n, made when the number was s, is safe to use: its     *)
(* host is in service, or was retired by a later change.                   *)
Safe(n, s) ==
  \/ cache[n].host = NoHost
  \/ \E e \in DOMAIN hosts : hosts[e] = cache[n].host
  \/ \E r \in retired : r.host = cache[n].host /\ r.sequence > s

Copied(n, s) == cacheSeq[n] = s /\ Safe(n, s)

(* What updateIdleControls() has copied, and what it may leave as it is.    *)
CopyInv ==
  /\ observed <= loaded /\ loaded <= seq
  /\ pc # "copy" /\ known => \A n \in DOMAIN nodes : Copied(n, observed)
  /\ pc = "copy" /\ known => \A n \in todo : Copied(n, observed)
  /\ pc = "copy" => \A n \in DOMAIN nodes \ todo : Copied(n, loaded)
  /\ pc \in {"decide", "process"} => known
  /\ pc \notin {"copy", "process"} => todo = {}

HInv == TypeOK /\ Agree /\ Stamped /\ CopyInv

-----------------------------------------------------------------------------
(* What a stored setup comes to, when it is made at change s.              *)
SetupIsTyped(c, started, s) ==
  /\ DOMAIN StatesOf(c, started, s) = DOMAIN c
  /\ DOMAIN c \subseteq Effects
  /\ \A e \in DOMAIN c : StatesOf(c, started, s)[e] \in Params
  /\ \A e \in DOMAIN c : StatesOf(c, started, s)[e].host =
                           IF e \in started THEN HostMadeAt(e, s) ELSE NoHost
  /\ DOMAIN HostsOf(started, s) = started
  /\ started \subseteq DOMAIN c
  /\ \A e \in started : /\ HostsOf(started, s)[e] = HostMadeAt(e, s)
                        /\ HostMadeAt(e, s) \in Host
                        /\ HostMadeAt(e, s).effect = e
                        /\ HostMadeAt(e, s).since = s

(* What a start or a restore sets up has the types of its variables.       *)
LEMMA SetupTypes ==
  ASSUME NEW c \in Setups, NEW started \in SUBSET Plugins(c), NEW s \in Nat
  PROVE  SetupIsTyped(c, started, s)
  <1>1. PICK S \in SUBSET Effects :
               c \in [S -> [type : Types, enabled : BOOLEAN, value : Values]]
    BY HostsAssumption
  <1>2. DOMAIN c = S /\ started \subseteq S
    BY <1>1 DEF Plugins
  <1>3. \A e \in S : c[e].type \in Types /\ c[e].enabled \in BOOLEAN /\ c[e].value \in Values
    BY <1>1
  <1>4. \A e \in started : HostMadeAt(e, s) \in Host
    BY <1>2 DEF HostMadeAt, Host
  <1>5. \A e \in S : StatesOf(c, started, s)[e] \in Params
    BY <1>2, <1>3, <1>4 DEF StatesOf, Params
  <1> QED BY <1>2, <1>4, <1>5 DEF SetupIsTyped, StatesOf, HostsOf, HostMadeAt

(* Before anything has happened, no host is retired and none is copied.    *)
LEMMA HostsInit == Init => HInv
  <1> SUFFICES ASSUME Init PROVE HInv
    OBVIOUS
  <1> USE HostsAssumption
  <1>1. PICK c \in Setups : \E started \in SUBSET Plugins(c) :
          states = StatesOf(c, started, 1) /\ hosts = HostsOf(started, 1)
    BY DEF Init
  <1>2. PICK started \in SUBSET Plugins(c) :
          states = StatesOf(c, started, 1) /\ hosts = HostsOf(started, 1)
    BY <1>1
  <1>3. /\ DOMAIN states \subseteq Effects /\ \A e \in DOMAIN states : states[e] \in Params
        /\ DOMAIN hosts \subseteq DOMAIN states
        /\ \A e \in DOMAIN states : states[e].host = IF e \in DOMAIN hosts THEN hosts[e] ELSE NoHost
        /\ \A e \in DOMAIN hosts : hosts[e] \in Host /\ hosts[e].effect = e /\ hosts[e].since = 1
    <2>1. SetupIsTyped(c, started, 1)
      BY SetupTypes, 1 \in Nat
    <2> QED BY <1>2, <2>1 DEF SetupIsTyped
  <1>4. Fresh("gain", FALSE) \in Params
    BY DEF Fresh, Params, Types
  <1>5. TypeOK
    <2>1. /\ seq \in 2..MaxSeq /\ nextId \in 1..(MaxEffects + 1)
          /\ observed \in 0..MaxSeq /\ loaded \in 0..MaxSeq
      BY DEF Init
    <2>2. /\ cache \in [Node -> Params] /\ cacheSeq \in [Node -> 0..MaxSeq]
          /\ done \in [Node -> [type : Types, enabled : BOOLEAN]]
      <3>1. /\ cache = [n \in Node |-> Fresh("gain", FALSE)] /\ cacheSeq = [n \in Node |-> 0]
            /\ done = [n \in Node |-> [type |-> "gain", enabled |-> FALSE]]
        BY DEF Init
      <3>2. cache \in [Node -> Params]
        BY <1>4, <3>1
      <3>3. cacheSeq \in [Node -> 0..MaxSeq]
        BY <3>1
      <3>4. [type |-> "gain", enabled |-> FALSE] \in [type : Types, enabled : BOOLEAN]
        BY DEF Types
      <3>5. done \in [Node -> [type : Types, enabled : BOOLEAN]]
        BY <3>1, <3>4, Zenon
      <3> QED BY <3>2, <3>3, <3>5
    <2>3. /\ retired \subseteq [sequence : 3..MaxSeq, host : Host]
          /\ graph \in Listings /\ fresh \in BOOLEAN /\ reloading \subseteq Effects
          /\ pc \in {"top", "load", "copy", "decide", "process"}
          /\ DOMAIN nodes \subseteq Node /\ todo \subseteq DOMAIN nodes
          /\ \A n \in DOMAIN nodes : nodes[n] \in Effects
          /\ known \in BOOLEAN /\ sleeping \in BOOLEAN
          /\ tails \subseteq Host /\ moved \subseteq Node /\ misjudged \subseteq Host \cup {NoHost}
      BY DEF Init
    <2> QED BY <1>3, <2>1, <2>2, <2>3 DEF TypeOK
  <1>6. Agree /\ Stamped
    BY <1>3 DEF Init, Agree, Stamped
  <1>7. CopyInv
    BY DEF Init, CopyInv
  <1> QED BY <1>5, <1>6, <1>7 DEF HInv

-----------------------------------------------------------------------------
(* The main thread.  A change that retires the hosts of S, keeps the       *)
(* others and adds new ones keeps hosts apart and copies safe: what it      *)
(* retires carries a number the audio thread has not seen.                 *)
LEMMA ChangeKeeps ==
  ASSUME HInv, NEW S, Retire(S), Count, UNCHANGED otherVars,
         \A e \in DOMAIN hosts' : \/ e \in DOMAIN hosts \ S /\ hosts'[e] = hosts[e]
                                  \/ hosts'[e] = NewHost(e),
         \A e \in DOMAIN hosts \ S : e \in DOMAIN hosts' /\ hosts'[e] = hosts[e]
  PROVE  Stamped' /\ CopyInv' /\ retired' \subseteq [sequence : 3..MaxSeq, host : Host]
         /\ seq' \in 2..MaxSeq
  <1> USE DEF HInv
  <1>1. seq \in Nat /\ seq' = seq + 1 /\ seq' \in 2..MaxSeq /\ seq >= 2
    BY HostsAssumption DEF Count, TypeOK
  <1>2. \A r \in retired' : \/ r \in retired
                            \/ /\ r.sequence = seq + 1
                               /\ \E e \in S \cap DOMAIN hosts : r = [sequence |-> seq + 1, host |-> hosts[e]]
    BY DEF Retire, RetireSeq
  <1>3. /\ retired \subseteq retired'
        /\ \A e \in S \cap DOMAIN hosts : [sequence |-> seq + 1, host |-> hosts[e]] \in retired'
    BY DEF Retire, RetireSeq
  <1>4. \A e \in DOMAIN hosts : hosts[e] \in Host /\ hosts[e].effect = e /\ hosts[e].since < seq
    BY DEF TypeOK, Stamped
  <1>5. \A r \in retired : r.sequence \in Nat /\ r.host.since \in Nat
    BY DEF TypeOK, Host
  <1>6. \A e : NewHost(e).effect = e /\ NewHost(e).since = seq
    BY DEF NewHost, HostMadeAt
  <1>7. Stamped'
    <2>1. \A e \in DOMAIN hosts' : hosts'[e].effect = e /\ hosts'[e].since < seq'
      BY <1>1, <1>4, <1>6 DEF Host
    <2>2. \A r \in retired' : r.host.since < seq' /\ r.sequence <= seq'
      BY <1>1, <1>2, <1>4, <1>5 DEF Stamped, Host
    <2>3. \A r \in retired' : \A e \in DOMAIN hosts' : r.host # hosts'[e]
      <3> SUFFICES ASSUME NEW r \in retired', NEW e \in DOMAIN hosts' PROVE r.host # hosts'[e]
        OBVIOUS
      <3>1. r.host.since < seq
        BY <1>2, <1>4 DEF Stamped
      <3>2. CASE hosts'[e] = NewHost(e)
        BY <1>1, <1>6, <3>1, <3>2
      <3>3. CASE e \in DOMAIN hosts \ S /\ hosts'[e] = hosts[e]
        <4>1. CASE r \in retired
          BY <4>1, <3>3 DEF Stamped
        <4>2. CASE \E d \in S \cap DOMAIN hosts : r = [sequence |-> seq + 1, host |-> hosts[d]]
          BY <4>2, <3>3, <1>4
        <4> QED BY <1>2, <4>1, <4>2
      <3> QED BY <3>2, <3>3
    <2>4. \A r, s \in retired' : r.host = s.host => r = s
      <3> TAKE r, s \in retired'
      <3>1. CASE r \in retired /\ s \in retired
        BY <3>1 DEF Stamped
      <3>2. CASE r \in retired /\ s \notin retired
        BY <3>2, <1>2 DEF Stamped
      <3>3. CASE r \notin retired /\ s \in retired
        BY <3>3, <1>2 DEF Stamped
      <3>4. CASE r \notin retired /\ s \notin retired
        BY <3>4, <1>2
      <3> QED BY <3>1, <3>2, <3>3, <3>4
    <2> QED BY <2>1, <2>2, <2>3, <2>4 DEF Stamped
  <1>8. CopyInv'
    <2>1. UNCHANGED <<observed, pc, nodes, known, loaded, cache, cacheSeq, todo>>
      BY DEF otherVars, audioVars, copyVars
    <2>2. \A n, s : s \in Nat /\ s <= seq /\ Copied(n, s) => Copied(n, s)'
      <3> SUFFICES ASSUME NEW n, NEW s \in Nat, s <= seq, Copied(n, s) PROVE Copied(n, s)'
        BY Zenon DEF Copied
      <3>1. cacheSeq'[n] = s /\ cache'[n].host = cache[n].host
        BY <2>1 DEF Copied
      <3>2. CASE cache[n].host = NoHost
        BY <3>1, <3>2 DEF Copied, Safe
      <3>3. ASSUME NEW e \in DOMAIN hosts, hosts[e] = cache[n].host PROVE Copied(n, s)'
        <4>1. CASE e \in S
          <5> DEFINE r == [sequence |-> seq + 1, host |-> hosts[e]]
          <5>1. r \in retired' /\ r.host = cache'[n].host /\ r.sequence > s
            BY <4>1, <3>1, <3>3, <1>1, <1>3
          <5> QED BY <5>1, <3>1 DEF Copied, Safe
        <4>2. CASE e \notin S
          BY <4>2, <3>1, <3>3 DEF Copied, Safe
        <4> QED BY <4>1, <4>2
      <3>4. CASE \E r \in retired : r.host = cache[n].host /\ r.sequence > s
        BY <3>1, <3>4, <1>3 DEF Copied, Safe
      <3> QED BY <3>2, <3>3, <3>4 DEF Copied, Safe
    <2>3. observed \in Nat /\ loaded \in Nat /\ observed <= seq /\ loaded <= seq
      BY <1>1 DEF TypeOK, CopyInv
    <2>4. loaded' <= seq'
      BY <2>1, <2>3, <1>1
    <2> QED BY <2>1, <2>2, <2>3, <2>4 DEF CopyInv
  <1>9. retired' \subseteq [sequence : 3..MaxSeq, host : Host]
    BY <1>1, <1>2, <1>4 DEF TypeOK
  <1> QED BY <1>1, <1>7, <1>8, <1>9

(* attachPlugin() puts the host of effect e and its parameters in place.   *)
LEMMA AttachKeeps ==
  ASSUME HInv, NEW e \in Effects, NEW p \in Params, NEW h \in {NoHost, NewHost(e)},
         Attach(e, p, h), UNCHANGED otherVars, reloading' \subseteq reloading,
         nextId' \in 1..(MaxEffects + 1)
  PROVE  HInv'
  <1> USE DEF HInv
  <1>1. seq \in Nat /\ NewHost(e) \in Host /\ NewHost(e) # NoHost
    BY HostsAssumption DEF TypeOK, NewHost, HostMadeAt, Host
  <1>2. /\ DOMAIN states' = DOMAIN states \cup {e}
        /\ states'[e] = [p EXCEPT !.host = h]
        /\ \A d \in DOMAIN states \ {e} : states'[d] = states[d]
    BY DEF Attach, Put
  <1>3. [p EXCEPT !.host = h] \in Params /\ [p EXCEPT !.host = h].host = h
    BY <1>1 DEF Params
  <1>4. /\ DOMAIN hosts' = IF h = NoHost THEN DOMAIN hosts \ {e} ELSE DOMAIN hosts \cup {e}
        /\ h # NoHost => hosts'[e] = h
        /\ \A d \in DOMAIN hosts \ {e} : hosts'[d] = hosts[d]
    BY DEF Attach, Put, Drop
  <1>5. /\ Stamped' /\ CopyInv' /\ retired' \subseteq [sequence : 3..MaxSeq, host : Host]
        /\ seq' \in 2..MaxSeq
    <2>1. Retire({e}) /\ Count
      BY DEF Attach
    <2>2. \A d \in DOMAIN hosts' : \/ d \in DOMAIN hosts \ {e} /\ hosts'[d] = hosts[d]
                                   \/ hosts'[d] = NewHost(d)
      BY <1>4
    <2> QED BY <2>1, <2>2, <1>4, ChangeKeeps
  <1>6. Agree'
    BY <1>1, <1>2, <1>3, <1>4 DEF Agree
  <1>7. TypeOK'
    <2>1. DOMAIN states' \subseteq Effects /\ \A d \in DOMAIN states' : states'[d] \in Params
      BY <1>2, <1>3 DEF TypeOK
    <2>2. DOMAIN hosts' \subseteq Effects /\ \A d \in DOMAIN hosts' : hosts'[d] \in Host
      BY <1>1, <1>4 DEF TypeOK
    <2> QED
      BY <2>1, <2>2, <1>5 DEF TypeOK, otherVars, graphVars, audioVars, copyVars, history
  <1> QED BY <1>5, <1>6, <1>7

(* A new effect has parameters.                                            *)
LEMMA FreshTypes == \A t \in Types, b \in BOOLEAN : Fresh(t, b) \in Params
  BY HostsAssumption DEF Fresh, Params

(* A new effect gets the next free number.                                 *)
LEMMA CreateEffectKeeps ==
  ASSUME HInv, NEW e \in Effects, NEW t \in Types, CreateEffect(e, t)
  PROVE  HInv'
  <1>1. Fresh(t, TRUE) \in Params
    BY FreshTypes
  <1>2. HostFor(e, t) \in {NoHost, NewHost(e)}
    BY DEF HostFor
  <1>3. nextId' \in 1..(MaxEffects + 1)
    BY HostsAssumption DEF CreateEffect, Effects
  <1>4. Attach(e, Fresh(t, TRUE), HostFor(e, t)) /\ UNCHANGED otherVars /\ reloading' = reloading
    BY DEF CreateEffect
  <1> QED BY <1>1, <1>2, <1>3, <1>4, AttachKeeps

(* Another type means another host.                                        *)
LEMMA SetEffectTypeKeeps ==
  ASSUME HInv, NEW e \in Effects, NEW t \in Types, SetEffectType(e, t)
  PROVE  HInv'
  <1>1. Fresh(t, states[e].enabled) \in Params
    BY FreshTypes DEF SetEffectType, HInv, TypeOK, Params
  <1>2. HostFor(e, t) \in {NoHost, NewHost(e)}
    BY DEF HostFor
  <1>3. nextId' \in 1..(MaxEffects + 1)
    BY DEF SetEffectType, HInv, TypeOK
  <1>4. Attach(e, Fresh(t, states[e].enabled), HostFor(e, t)) /\ UNCHANGED otherVars
        /\ reloading' = reloading
    BY DEF SetEffectType
  <1> QED BY <1>1, <1>2, <1>3, <1>4, AttachKeeps

(* A reloaded plugin gets a new host in its effect's place.                *)
LEMMA ReloadInstanceKeeps ==
  ASSUME HInv, NEW e \in Effects, NEW v \in Values, ReloadInstance(e, v)
  PROVE  HInv'
  <1>1. [states[e] EXCEPT !.value = v] \in Params
    BY DEF ReloadInstance, HInv, TypeOK, Agree, Params
  <1>2. nextId' \in 1..(MaxEffects + 1)
    BY DEF ReloadInstance, HInv, TypeOK
  <1>3. Attach(e, [states[e] EXCEPT !.value = v], NewHost(e)) /\ UNCHANGED otherVars
        /\ reloading' \subseteq reloading
    BY DEF ReloadInstance
  <1> QED BY <1>1, <1>2, <1>3, AttachKeeps

(* Settings do not touch the hosts.                                        *)
LEMMA SettingKeeps ==
  ASSUME HInv, NEW e \in DOMAIN states, NEW p \in Params, p.host = states[e].host,
         states' = [states EXCEPT ![e] = p], Count,
         UNCHANGED <<hosts, retired, nextId, reloading, otherVars>>
  PROVE  HInv'
  <1> USE DEF HInv
  <1>1. /\ DOMAIN states' = DOMAIN states
        /\ \A d \in DOMAIN states : states'[d] \in Params /\ states'[d].host = states[d].host
    BY DEF TypeOK
  <1>2. /\ Stamped' /\ CopyInv' /\ seq' \in 2..MaxSeq
    <2>1. Retire({})
      BY DEF Retire
    <2> QED BY <2>1, ChangeKeeps
  <1>3. Agree'
    BY <1>1 DEF Agree
  <1>4. TypeOK'
    BY <1>1, <1>2 DEF TypeOK, otherVars, graphVars, audioVars, copyVars, history
  <1> QED BY <1>2, <1>3, <1>4

(* SetEffectEnabled preserves the invariant.                               *)
LEMMA SetEffectEnabledKeeps ==
  ASSUME HInv, NEW e \in Effects, NEW b \in BOOLEAN, SetEffectEnabled(e, b)
  PROVE  HInv'
  <1>1. e \in DOMAIN states /\ states[e] \in Params
    BY DEF HInv, TypeOK, SetEffectEnabled
  <1> DEFINE p == [states[e] EXCEPT !.enabled = b]
  <1>2. p \in Params /\ p.host = states[e].host
    BY <1>1 DEF Params
  <1>3. states' = [states EXCEPT ![e] = p] /\ Count
        /\ UNCHANGED <<hosts, retired, nextId, reloading, otherVars>>
    BY DEF SetEffectEnabled
  <1> HIDE DEF p
  <1> QED BY <1>1, <1>2, <1>3, SettingKeeps

(* SetEffectParam preserves the invariant.                                 *)
LEMMA SetEffectParamKeeps ==
  ASSUME HInv, NEW e \in Effects, NEW v \in Values, SetEffectParam(e, v)
  PROVE  HInv'
  <1>1. e \in DOMAIN states /\ states[e] \in Params
    BY DEF HInv, TypeOK, SetEffectParam
  <1> DEFINE p == [states[e] EXCEPT !.value = v]
  <1>2. p \in Params /\ p.host = states[e].host
    BY <1>1 DEF Params
  <1>3. states' = [states EXCEPT ![e] = p] /\ Count
        /\ UNCHANGED <<hosts, retired, nextId, reloading, otherVars>>
    BY DEF SetEffectParam
  <1> HIDE DEF p
  <1> QED BY <1>1, <1>2, <1>3, SettingKeeps

(* A deleted effect takes its host out of service.                         *)
LEMMA DeleteEffectKeeps ==
  ASSUME HInv, NEW e \in Effects, DeleteEffect(e)
  PROVE  HInv'
  <1> USE DEF HInv
  <1>1. /\ DOMAIN states' = DOMAIN states \ {e} /\ DOMAIN hosts' = DOMAIN hosts \ {e}
        /\ \A d \in DOMAIN states' : states'[d] = states[d]
        /\ \A d \in DOMAIN hosts' : hosts'[d] = hosts[d]
    BY DEF DeleteEffect, Drop
  <1>2. /\ Stamped' /\ CopyInv' /\ retired' \subseteq [sequence : 3..MaxSeq, host : Host]
        /\ seq' \in 2..MaxSeq
    <2>1. Retire({e}) /\ Count /\ UNCHANGED otherVars
      BY DEF DeleteEffect
    <2> QED BY <1>1, <2>1, ChangeKeeps
  <1>3. Agree'
    BY <1>1 DEF Agree, DeleteEffect, Idle
  <1>4. TypeOK'
    BY <1>1, <1>2 DEF TypeOK, DeleteEffect, otherVars, graphVars, audioVars, copyVars, history
  <1> QED BY <1>2, <1>3, <1>4

(* A scene comes with hosts of its own.                                    *)
LEMMA SwapSetupKeeps ==
  ASSUME HInv, NEW c \in Setups, SwapSetup(c)
  PROVE  HInv'
  <1> USE DEF HInv
  <1>0. seq \in Nat
    BY DEF TypeOK
  <1>1. /\ DOMAIN states' = DOMAIN c /\ DOMAIN c \subseteq Effects
        /\ \A e \in DOMAIN states' : states'[e] \in Params
        /\ \A e \in DOMAIN states' :
             states'[e].host = IF e \in DOMAIN hosts' THEN hosts'[e] ELSE NoHost
        /\ DOMAIN hosts' \subseteq DOMAIN states'
        /\ \A e \in DOMAIN hosts' : hosts'[e] = NewHost(e) /\ hosts'[e] \in Host
    <2>1. SetupIsTyped(c, Plugins(c), seq)
      BY <1>0, SetupTypes
    <2>2. states' = StatesOf(c, Plugins(c), seq) /\ hosts' = HostsOf(Plugins(c), seq)
      BY DEF SwapSetup
    <2> QED BY <2>1, <2>2 DEF NewHost, SetupIsTyped
  <1>2. /\ Stamped' /\ CopyInv' /\ retired' \subseteq [sequence : 3..MaxSeq, host : Host]
        /\ seq' \in 2..MaxSeq
    <2>1. Retire(DOMAIN hosts) /\ Count /\ UNCHANGED otherVars
      BY DEF SwapSetup
    <2> QED BY <1>1, <2>1, ChangeKeeps
  <1>3. Agree'
    BY <1>1 DEF Agree, SwapSetup, Idle
  <1>4. TypeOK'
    BY <1>1, <1>2 DEF TypeOK, SwapSetup, otherVars, graphVars, audioVars, copyVars, history
  <1> QED BY <1>2, <1>3, <1>4

(* The destroyed hosts carry numbers the audio thread has seen.            *)
LEMMA PollPluginsKeeps ==
  ASSUME HInv, PollPlugins
  PROVE  HInv'
  <1> USE DEF HInv
  <1>0. UNCHANGED <<seq, states, hosts, nextId, reloading, observed, pc, nodes, known, loaded,
                    cache, cacheSeq, todo, graph, fresh, done, sleeping, tails, moved, misjudged>>
    BY DEF PollPlugins, otherVars, graphVars, audioVars, copyVars, history
  <1>1. retired' \subseteq retired /\ \A r \in retired : observed < r.sequence => r \in retired'
    BY DEF PollPlugins
  <1>2. TypeOK' /\ Agree'
    BY <1>0, <1>1 DEF TypeOK, Agree
  <1>3. Stamped'
    BY <1>0, <1>1 DEF Stamped
  <1>4. \A n, s : s \in Nat /\ observed <= s /\ Copied(n, s) => Copied(n, s)'
    <2> SUFFICES ASSUME NEW n, NEW s \in Nat, observed <= s, Copied(n, s) PROVE Copied(n, s)'
      BY Zenon DEF Copied
    <2>1. \A r \in retired : r.sequence > s => r \in retired'
      BY <1>1 DEF TypeOK
    <2> QED BY <1>0, <2>1 DEF Copied, Safe
  <1>5. CopyInv'
    <2>1. observed \in Nat /\ loaded \in Nat /\ observed <= observed /\ observed <= loaded
      BY DEF TypeOK, CopyInv
    <2> QED BY <1>0, <1>4, <2>1 DEF CopyInv
  <1> QED BY <1>2, <1>3, <1>5

(* The rest of the main thread leaves effects and hosts alone.             *)
LEMMA MainRestKeeps ==
  ASSUME HInv,
         \/ \E e \in Effects : CreateFails(e) \/ ReloadInstanceFails(e)
         \/ ReloadPlugins
         \/ \E g \in Listings : PublishGraph(g)
  PROVE  HInv'
  <1> USE DEF HInv
  <1>0. UNCHANGED <<seq, states, hosts, retired, observed, pc, nodes, known, loaded,
                    cache, cacheSeq, todo, done, sleeping, tails, moved, misjudged>>
    BY DEF CreateFails, ReloadInstanceFails, ReloadPlugins, PublishGraph, effectVars,
           otherVars, graphVars, audioVars, copyVars, history
  <1>1. reloading' \subseteq DOMAIN states /\ graph' \in Listings /\ fresh' \in BOOLEAN
    BY DEF CreateFails, ReloadInstanceFails, ReloadPlugins, PublishGraph, Plugins, Agree,
           otherVars, graphVars, TypeOK
  <1>2. nextId' \in 1..(MaxEffects + 1)
    BY HostsAssumption
       DEF CreateFails, ReloadInstanceFails, ReloadPlugins, PublishGraph, effectVars, TypeOK,
           IsNextId, Effects
  <1>3. TypeOK'
    BY <1>0, <1>1, <1>2 DEF TypeOK
  <1>4. Agree' /\ Stamped'
    BY <1>0, <1>1 DEF Agree, Stamped
  <1>5. CopyInv'
    BY <1>0 DEF CopyInv, Copied, Safe
  <1> QED BY <1>3, <1>4, <1>5

-----------------------------------------------------------------------------
(* The audio thread.  A rebuild forgets what was copied.                   *)
LEMMA TakeGraphKeeps ==
  ASSUME HInv, TakeGraph
  PROVE  HInv'
  <1> USE DEF HInv, TakeGraph, audioRest, effectVars
  <1>1. DOMAIN graph \subseteq Node /\ \A n \in DOMAIN graph : graph[n] \in Effects
    <2>1. PICK k \in 0..MaxEffects : graph \in [1..k -> Effects]
      BY DEF TypeOK, Listings
    <2>2. 1..k \subseteq Node
      BY HostsAssumption DEF Node
    <2> QED BY <2>1, <2>2
  <1>2. DOMAIN nodes' \subseteq Node /\ \A n \in DOMAIN nodes' : nodes'[n] \in Effects
    BY <1>1
  <1>3. todo = {}
    BY DEF CopyInv, TypeOK
  <1>4. TypeOK'
    <2>1. moved' \subseteq Node /\ cacheSeq' \in [Node -> 0..MaxSeq] /\ todo' = {}
      BY <1>2, <1>3, HostsAssumption
    <2> QED BY <1>2, <2>1 DEF TypeOK
  <1>5. Agree' /\ Stamped'
    BY DEF Agree, Stamped
  <1>6. CopyInv'
    BY DEF CopyInv
  <1> QED BY <1>4, <1>5, <1>6

(* The number is read before anything is copied.                           *)
LEMMA LoadSeqKeeps ==
  ASSUME HInv, LoadSeq
  PROVE  HInv'
  <1> USE DEF HInv, LoadSeq, audioRest, effectVars, graphVars, history
  <1>1. TypeOK'
    BY HostsAssumption DEF TypeOK
  <1>2. Agree' /\ Stamped'
    BY DEF Agree, Stamped
  <1>3. CopyInv'
    <2>1. observed \in Nat /\ loaded \in Nat /\ seq \in Nat
      BY DEF TypeOK
    <2>2. observed <= loaded' /\ loaded' <= seq
      BY <2>1 DEF CopyInv
    <2> QED BY <2>2 DEF CopyInv, Copied, Safe
  <1> QED BY <1>1, <1>2, <1>3

(* A copy is made while its host is in service; one that is kept was made  *)
(* at the number that has just been read.                                  *)
LEMMA CopyParamsKeeps ==
  ASSUME HInv, NEW n \in Node, CopyParams(n)
  PROVE  HInv'
  <1> USE DEF HInv
  <1>0. /\ UNCHANGED <<seq, states, hosts, retired, nextId, reloading, graph, fresh, observed,
                       pc, nodes, known, loaded, done, sleeping, tails, moved, misjudged>>
        /\ pc = "copy" /\ n \in todo /\ todo' = todo \ {n}
    BY DEF CopyParams, audioRest, effectVars, graphVars, history
  <1>1. ParamsOf(nodes[n]) \in Params
    BY FreshTypes DEF ParamsOf, TypeOK, Types
  <1>2. cache' \in [Node -> Params] /\ cacheSeq' \in [Node -> 0..MaxSeq]
    BY <1>1 DEF CopyParams, TypeOK
  <1>3. TypeOK'
    BY <1>0, <1>2 DEF TypeOK
  <1>4. Agree' /\ Stamped'
    BY <1>0 DEF Agree, Stamped
  <1>5. n \in DOMAIN nodes /\ DOMAIN nodes \subseteq Node
    BY <1>0 DEF TypeOK
  <1>6. \A m \in DOMAIN nodes \ {n} : cache'[m] = cache[m] /\ cacheSeq'[m] = cacheSeq[m]
    BY <1>5 DEF CopyParams, TypeOK
  <1>7. \A m \in DOMAIN nodes \ {n} : \A s : Copied(m, s) => Copied(m, s)'
    BY <1>0, <1>6 DEF Copied, Safe
  <1>8. Copied(n, loaded)'
    <2>1. CASE ~known \/ cacheSeq[n] # loaded
      <3>1. cache'[n] = ParamsOf(nodes[n]) /\ cacheSeq'[n] = loaded
        BY <2>1, <1>5 DEF CopyParams, TypeOK
      <3>2. \/ ParamsOf(nodes[n]).host = NoHost
            \/ \E e \in DOMAIN hosts : hosts[e] = ParamsOf(nodes[n]).host
        BY DEF ParamsOf, Fresh, Agree
      <3> QED BY <3>1, <3>2, <1>0 DEF Copied, Safe
    <2>2. CASE known /\ cacheSeq[n] = loaded
      <3>1. Copied(n, loaded)
        BY <1>0, <2>2 DEF CopyInv, Copied
      <3>2. cache' = cache /\ cacheSeq' = cacheSeq
        BY <2>2 DEF CopyParams
      <3> QED BY <3>1, <3>2, <1>0 DEF Copied, Safe
    <2> QED BY <2>1, <2>2 DEF TypeOK
  <1>9. CopyInv'
    <2>1. todo \subseteq DOMAIN nodes
      BY DEF TypeOK
    <2>2. known => \A m \in todo' : Copied(m, observed)'
      BY <1>0, <1>7, <2>1 DEF CopyInv
    <2>3. \A m \in DOMAIN nodes \ todo' : Copied(m, loaded)'
      BY <1>0, <1>7, <1>8 DEF CopyInv
    <2>4. observed' = observed /\ loaded' = loaded
      BY <1>0
    <2> QED BY <1>0, <2>2, <2>3, <2>4 DEF CopyInv
  <1> QED BY <1>3, <1>4, <1>9

(* All nodes have been copied when the number is made known.               *)
LEMMA ObserveKeeps ==
  ASSUME HInv, Observe
  PROVE  HInv'
  <1> USE DEF HInv, Observe, audioRest, effectVars, graphVars, history
  <1>1. TypeOK'
    BY DEF TypeOK, ControlsChanged
  <1>2. Agree' /\ Stamped'
    BY DEF Agree, Stamped
  <1>3. CopyInv'
    <2>1. \A n \in DOMAIN nodes : Copied(n, loaded)
      BY DEF CopyInv
    <2>2. \A n \in DOMAIN nodes' : Copied(n, observed)'
      BY <2>1 DEF Copied, Safe
    <2>3. loaded \in Nat /\ observed' <= loaded'
      BY DEF TypeOK
    <2> QED BY <2>2, <2>3 DEF CopyInv
  <1> QED BY <1>1, <1>2, <1>3

(* The rest of a block works with the copies.                              *)
LEMMA BlockKeeps ==
  ASSUME HInv,
         \/ NoNewGraph \/ StayAwake \/ BeginSleep \/ SleepOn \/ EndBlock
         \/ \E n \in Node : ProcessNode(n)
  PROVE  HInv'
  <1> USE DEF HInv
  <1>0. UNCHANGED <<seq, states, hosts, retired, nextId, reloading, graph, fresh, observed,
                    nodes, known, loaded, cache, cacheSeq>>
    BY DEF NoNewGraph, StayAwake, BeginSleep, SleepOn, EndBlock, ProcessNode, audioRest,
           effectVars, graphVars, copyVars
  <1>1. /\ pc # "copy" /\ pc' \in {"top", "load", "decide", "process"}
        /\ pc' \in {"decide", "process"} => pc \in {"decide", "process"}
        /\ todo' \subseteq DOMAIN nodes
        /\ pc' # "process" => todo' = {}
        /\ moved' \subseteq Node /\ sleeping' \in BOOLEAN
    BY DEF NoNewGraph, StayAwake, BeginSleep, SleepOn, EndBlock, ProcessNode, history,
           TypeOK, CopyInv, audioRest
  <1>2. done' \in [Node -> [type : Types, enabled : BOOLEAN]] /\ tails' \subseteq Host
        /\ misjudged' \subseteq Host \cup {NoHost}
    <2>1. CASE NoNewGraph \/ StayAwake \/ BeginSleep \/ SleepOn \/ EndBlock
      BY <2>1 DEF NoNewGraph, StayAwake, BeginSleep, SleepOn, EndBlock, history, TypeOK
    <2>2. ASSUME NEW n \in Node, ProcessNode(n)
          PROVE  done' \in [Node -> [type : Types, enabled : BOOLEAN]]
                 /\ tails' \subseteq Host /\ misjudged' \subseteq Host \cup {NoHost}
      <3>1. cache[n] \in Params
        BY DEF TypeOK
      <3> QED BY <2>2, <3>1 DEF ProcessNode, TypeOK, Params
    <2> QED BY <2>1, <2>2
  <1>3. TypeOK'
    BY <1>0, <1>1, <1>2 DEF TypeOK
  <1>4. Agree' /\ Stamped'
    BY <1>0 DEF Agree, Stamped
  <1>5. CopyInv'
    BY <1>0, <1>1 DEF CopyInv, Copied, Safe
  <1> QED BY <1>3, <1>4, <1>5

-----------------------------------------------------------------------------
(* Every step of either thread preserves the invariant.                    *)
LEMMA HostsStep == HInv /\ [Next]_vars => HInv'
  <1> SUFFICES ASSUME HInv, [Next]_vars PROVE HInv'
    OBVIOUS
  <1>1. CASE MainNext
    <2> USE CreateEffectKeeps, SetEffectTypeKeeps, SetEffectEnabledKeeps, SetEffectParamKeeps,
            DeleteEffectKeeps, SwapSetupKeeps, ReloadInstanceKeeps, PollPluginsKeeps,
            MainRestKeeps
    <2> QED BY <1>1 DEF MainNext, ReloadNext
  <1>2. CASE AudioNext
    BY <1>2, TakeGraphKeeps, LoadSeqKeeps, CopyParamsKeeps, ObserveKeeps, BlockKeeps
       DEF AudioNext
  <1>3. CASE UNCHANGED vars
    <2> USE <1>3 DEF HInv, vars, effectVars, graphVars, audioVars, copyVars, history
    <2>1. TypeOK'
      BY DEF TypeOK
    <2>2. Agree' /\ Stamped'
      BY DEF Agree, Stamped
    <2>3. CopyInv'
      BY DEF CopyInv, Copied, Safe
    <2> QED BY <2>1, <2>2, <2>3
  <1> QED BY <1>1, <1>2, <1>3 DEF Next

(* The invariant holds in every state the program reaches.                 *)
THEOREM HostsInvariance == Spec => []HInv
  BY HostsInit, HostsStep, PTL DEF Spec

(* The variables keep their types, for any bound on the changes.           *)
THEOREM HostsTyped == Spec => []TypeOK
  BY HostsInvariance, PTL DEF HInv

(* pollPlugins() never destroys a host the audio thread may call: the      *)
(* number it compares was read before the copies were made, and a host in  *)
(* a copy is retired with a later one.                                     *)
THEOREM HostsOutliveTheirUse == Spec => []NoFreedHostInUse
  <1>1. HInv => NoFreedHostInUse
    <2> SUFFICES ASSUME HInv, pc \in {"decide", "process"}, NEW n \in DOMAIN nodes,
                        cache[n].host # NoHost
                 PROVE  cache[n].host \in Live \cup RetiredHosts
      BY DEF NoFreedHostInUse, CachedHosts
    <2>1. Safe(n, observed)
      BY DEF HInv, CopyInv, Copied
    <2> QED BY <2>1 DEF Safe, Live, RetiredHosts
  <1> QED BY <1>1, HostsInvariance, PTL

(* Through creation, deletion, changes of type, reloads and scenes, a host *)
(* belongs to one effect, or waits once to be destroyed.                   *)
THEOREM HostsHaveOneOwner == Spec => []HostsAgree
  <1>1. HInv => HostsAgree
    BY DEF HInv, Agree, Stamped, HostsAgree, Live, RetiredHosts
  <1> QED BY <1>1, HostsInvariance, PTL

-----------------------------------------------------------------------------
(* What the hosts remember of their input, and bypass.                     *)

(* The copy of node n is one of the effect it now stands for.              *)
HasCopy(n) == known \/ (pc = "copy" /\ n \notin todo)

(* Node n stands for the effect it stood for in the block before, or this  *)
(* block has processed it already.                                         *)
Judged(n) == n \notin moved \/ (pc = "process" /\ n \notin todo)

(* A host that remembers something came before the change under way, and   *)
(* is known to its effect alone.                                           *)
Owned ==
  /\ \A h \in tails : h.since < seq
  /\ \A n \in Node : cache[n].host # NoHost => cache[n].host.since < seq
  /\ \A n \in DOMAIN nodes :
       HasCopy(n) /\ cache[n].host # NoHost => cache[n].host.effect = nodes[n]
  /\ \A m, n \in DOMAIN nodes : nodes[m] = nodes[n] => m = n

(* The host an effect has now remembers something only if it is the one    *)
(* the audio thread's copy has.                                            *)
Current ==
  \A n \in DOMAIN nodes :
    HasCopy(n) /\ nodes[n] \in DOMAIN states /\ states[nodes[n]].host \in tails
      => states[nodes[n]].host = cache[n].host

(* Where it does, processedEffectEnabled of its node tells.                *)
Heard ==
  \A n \in DOMAIN nodes : \A h \in tails \ misjudged :
    /\ Judged(n)
    /\ \/ HasCopy(n) /\ h = cache[n].host
       \/ nodes[n] \in DOMAIN states /\ h = states[nodes[n]].host
    => done[n].enabled

(* Nodes move when a graph is taken, and all nodes of the block are then   *)
(* copied and processed.                                                   *)
MovedInv ==
  /\ moved # {} => (pc \in {"load", "copy"} /\ ~known) \/ pc = "process"
  /\ pc = "top" => known \/ DOMAIN nodes = {}

(* A block that finds nothing changed has been processed as it is copied.  *)
Played ==
  /\ \/ pc \in {"top", "decide"}
     \/ pc = "load" /\ known
     \/ pc = "copy" /\ known /\ loaded = observed
     => \A n \in DOMAIN nodes : done[n].enabled = cache[n].enabled
  /\ pc = "process" => \A n \in DOMAIN nodes \ todo : done[n].enabled = cache[n].enabled

MemInv == Owned /\ Current /\ Heard /\ MovedInv /\ Played

(* No host has heard anything when the audio thread starts.                *)
LEMMA MemoryInit == Init => MemInv
  <1> SUFFICES ASSUME Init PROVE MemInv
    OBVIOUS
  <1>1. tails = {} /\ DOMAIN nodes = {} /\ moved = {} /\ pc = "top"
    BY DEF Init
  <1>2. \A n \in Node : cache[n].host = NoHost
    BY DEF Init, Fresh
  <1>3. Owned
    BY <1>1, <1>2 DEF Owned
  <1> QED BY <1>1, <1>3 DEF MemInv, Current, Heard, MovedInv, Played

(* A change on the main thread gives an effect the host it had, none, or   *)
(* one that has heard nothing yet.                                         *)
LEMMA ChangeKeepsMemory ==
  ASSUME HInv, MemInv, UNCHANGED <<audioVars, history>>,
         seq' \in Nat, seq <= seq',
         \A e \in DOMAIN states' : \/ states'[e].host = NoHost
                                   \/ states'[e].host.since = seq
                                   \/ e \in DOMAIN states /\ states'[e].host = states[e].host
  PROVE  MemInv'
  <1> USE DEF MemInv
  <1>1. UNCHANGED <<pc, nodes, known, loaded, todo, cache, cacheSeq, done,
                    observed, tails, moved, misjudged>>
    BY DEF audioVars, copyVars, history
  <1>2. /\ seq \in Nat /\ \A h \in tails : h \in Host /\ h # NoHost /\ h.since \in Nat
        /\ \A n \in Node : cache[n].host # NoHost => cache[n].host.since \in Nat
    BY HostsAssumption DEF HInv, TypeOK, Host, Params
  <1>3. \A e \in DOMAIN states' : states'[e].host \in tails =>
          e \in DOMAIN states /\ states'[e].host = states[e].host
    BY <1>2 DEF Owned
  <1>4. Owned'
    BY <1>1, <1>2 DEF Owned, HasCopy
  <1>5. Current'
    BY <1>1, <1>3 DEF Current, HasCopy
  <1>6. Heard'
    BY <1>1, <1>3 DEF Heard, HasCopy, Judged
  <1>7. MovedInv' /\ Played'
    BY <1>1 DEF MovedInv, Played
  <1> QED BY <1>4, <1>5, <1>6, <1>7

(* Every operation of the main thread is such a change.                    *)
LEMMA MainKeepsMemory ==
  ASSUME HInv, MemInv, MainNext
  PROVE  MemInv'
  <1> USE DEF otherVars
  <1>0. seq \in Nat
    BY DEF HInv, TypeOK
  <1>1. ASSUME NEW e \in Effects, NEW p, NEW h, Attach(e, p, h),
               h = NoHost \/ h.since = seq, p \in Params, UNCHANGED otherVars
        PROVE  MemInv'
    <2>1. /\ seq' = seq + 1 /\ states' = Put(states, e, [p EXCEPT !.host = h])
      BY <1>1 DEF Attach, Count
    <2>2. [p EXCEPT !.host = h].host = h
      BY <1>1 DEF Params
    <2>3. \A d \in DOMAIN states' : \/ states'[d].host = h
                                    \/ d \in DOMAIN states /\ states'[d].host = states[d].host
      BY <2>1, <2>2 DEF Put
    <2> QED BY <1>0, <1>1, <2>1, <2>3, ChangeKeepsMemory
  <1>2. \A e \in Effects : NewHost(e).since = seq
    BY DEF NewHost, HostMadeAt
  <1>3. \A e \in Effects, t \in Types : HostFor(e, t) = NoHost \/ HostFor(e, t).since = seq
    BY <1>2 DEF HostFor
  <1>4. ASSUME NEW e \in Effects, NEW t \in Types, CreateEffect(e, t) \/ SetEffectType(e, t)
        PROVE  MemInv'
    <2>1. CASE CreateEffect(e, t)
      BY <1>1, <1>3, <2>1, FreshTypes DEF CreateEffect
    <2>2. CASE SetEffectType(e, t)
      <3>1. states[e].enabled \in BOOLEAN
        BY <2>2 DEF SetEffectType, HInv, TypeOK, Params
      <3> QED BY <1>1, <1>3, <2>2, <3>1, FreshTypes DEF SetEffectType
    <2> QED BY <1>4, <2>1, <2>2
  <1>5. ASSUME NEW e \in Effects, NEW v \in Values, ReloadInstance(e, v)
        PROVE  MemInv'
    <2>1. states[e] \in Params
      BY <1>5 DEF ReloadInstance, HInv, TypeOK, Agree
    <2>2. [states[e] EXCEPT !.value = v] \in Params
      BY <2>1 DEF Params
    <2> QED BY <1>1, <1>2, <1>5, <2>2 DEF ReloadInstance
  <1>6. ASSUME NEW e \in Effects,
               \/ \E b \in BOOLEAN : SetEffectEnabled(e, b)
               \/ \E v \in Values : SetEffectParam(e, v)
        PROVE  MemInv'
    <2>1. /\ seq' = seq + 1 /\ UNCHANGED otherVars
          /\ \/ \E b \in BOOLEAN : states' = [states EXCEPT ![e].enabled = b]
             \/ \E v \in Values : states' = [states EXCEPT ![e].value = v]
      BY <1>6 DEF SetEffectEnabled, SetEffectParam, Count
    <2>2. \A d \in DOMAIN states : states[d] \in Params
      BY DEF HInv, TypeOK
    <2>3. \A d \in DOMAIN states' : d \in DOMAIN states /\ states'[d].host = states[d].host
      BY <2>1, <2>2 DEF Params
    <2> QED BY <1>0, <2>1, <2>3, ChangeKeepsMemory
  <1>7. ASSUME NEW e \in Effects, DeleteEffect(e)
        PROVE  MemInv'
    BY <1>0, <1>7, ChangeKeepsMemory DEF DeleteEffect, Drop, Count
  <1>8. ASSUME NEW c \in Setups, SwapSetup(c)
        PROVE  MemInv'
    <2>1. seq' = seq + 1 /\ states' = StatesOf(c, Plugins(c), seq) /\ UNCHANGED otherVars
      BY <1>8 DEF SwapSetup, Count
    <2>2. \A e \in DOMAIN states' : states'[e].host = NoHost \/ states'[e].host.since = seq
      BY <2>1 DEF StatesOf, HostMadeAt
    <2> QED BY <1>0, <2>1, <2>2, ChangeKeepsMemory
  <1>9. CASE \/ ReloadPlugins \/ PollPlugins
             \/ \E e \in Effects : CreateFails(e) \/ ReloadInstanceFails(e)
             \/ \E g \in Listings : PublishGraph(g)
    <2>1. UNCHANGED <<seq, states, audioVars, history>>
      BY <1>9 DEF ReloadPlugins, PollPlugins, CreateFails, ReloadInstanceFails, PublishGraph,
         effectVars
    <2> QED BY <1>0, <2>1, ChangeKeepsMemory
  <1> QED BY <1>4, <1>5, <1>6, <1>7, <1>8, <1>9 DEF MainNext, ReloadNext

-----------------------------------------------------------------------------
(* The audio thread.  A new graph has not been copied; the nodes it left   *)
(* where they were remember what they did.                                 *)
LEMMA TakeGraphKeepsMemory ==
  ASSUME HInv, MemInv, TakeGraph
  PROVE  MemInv'
  <1> USE DEF MemInv
  <1>1. /\ pc = "top" /\ pc' = "load" /\ known' = FALSE /\ moved = {}
        /\ UNCHANGED <<seq, states, cache, done, tails, misjudged>>
    BY DEF TakeGraph, audioRest, effectVars, MovedInv
  <1>2. /\ DOMAIN nodes' = {n \in DOMAIN graph : graph[n] \in DOMAIN states}
        /\ \A n \in DOMAIN nodes' : nodes'[n] = graph[n]
        /\ moved' = {n \in DOMAIN nodes' : n \notin DOMAIN nodes \/ nodes'[n] # nodes[n]}
    BY DEF TakeGraph
  <1>3. \A m, n \in DOMAIN nodes' : nodes'[m] = nodes'[n] => m = n
    <2>1. PICK k \in 0..MaxEffects : graph \in [1..k -> Effects]
      BY DEF HInv, TypeOK, Listings
    <2>2. \A i, j \in 1..k : i < j => graph[i] < graph[j]
      BY <2>1 DEF HInv, TypeOK, Listings
    <2>3. \A i \in 1..k : graph[i] \in Nat
      BY <2>1 DEF Effects
    <2>4. \A i, j \in 1..k : graph[i] = graph[j] => i = j
      <3>1. SUFFICES ASSUME NEW i \in 1..k, NEW j \in 1..k, i < j PROVE graph[i] # graph[j]
        BY HostsAssumption
      <3> QED BY <2>2, <2>3, <3>1
    <2> QED BY <1>2, <2>1, <2>4
  <1>4. Owned'
    BY <1>1, <1>3 DEF Owned, HasCopy
  <1>5. Current'
    BY <1>1 DEF Current, HasCopy
  <1>6. Heard'
    <2> SUFFICES ASSUME NEW n \in DOMAIN nodes', NEW h \in tails \ misjudged, n \notin moved',
                        nodes'[n] \in DOMAIN states, h = states[nodes'[n]].host
                 PROVE  done[n].enabled
      BY <1>1 DEF Heard, HasCopy, Judged
    <2>1. n \in DOMAIN nodes /\ nodes'[n] = nodes[n]
      BY <1>2
    <2> QED BY <1>1, <2>1 DEF Heard, Judged
  <1>7. MovedInv' /\ Played'
    BY <1>1 DEF MovedInv, Played
  <1> QED BY <1>4, <1>5, <1>6, <1>7

(* Parameters copied with the number the audio thread has seen last are    *)
(* those it has; others come with their effect's host of the moment.       *)
LEMMA CopyKeepsMemory ==
  ASSUME HInv, MemInv, NEW n \in Node, CopyParams(n)
  PROVE  MemInv'
  <1> USE DEF MemInv
  <1>1. /\ pc = "copy" /\ n \in todo /\ todo' = todo \ {n} /\ n \in DOMAIN nodes
        /\ UNCHANGED <<pc, seq, states, nodes, known, loaded, observed, done,
                       tails, moved, misjudged>>
    BY DEF CopyParams, audioRest, effectVars, history, HInv, TypeOK
  <1>2. CASE UNCHANGED cache /\ known
    <2>1. Owned' /\ Current' /\ Heard'
      BY <1>1, <1>2 DEF Owned, Current, Heard, HasCopy, Judged
    <2>2. MovedInv' /\ Played'
      BY <1>1, <1>2 DEF MovedInv, Played
    <2> QED BY <2>1, <2>2
  <1>3. CASE /\ cache' = [cache EXCEPT ![n] = ParamsOf(nodes[n])]
             /\ ~known \/ cacheSeq[n] # loaded
    <2>1. /\ cache'[n] = ParamsOf(nodes[n])
          /\ \A m \in Node \ {n} : cache'[m] = cache[m]
      BY <1>3 DEF HInv, TypeOK
    <2>2. /\ cache'[n].host # NoHost => /\ nodes[n] \in DOMAIN states
                                        /\ cache'[n].host = states[nodes[n]].host
          /\ nodes[n] \in DOMAIN states => cache'[n].host = states[nodes[n]].host
      BY <2>1 DEF ParamsOf, Fresh
    <2>3. cache'[n].host # NoHost => cache'[n].host.effect = nodes[n] /\ cache'[n].host.since < seq
      BY <2>2 DEF HInv, Agree, Stamped
    <2>4. Owned'
      BY <1>1, <2>1, <2>3 DEF Owned, HasCopy, HInv, TypeOK
    <2>5. Current'
      BY <1>1, <2>1, <2>2 DEF Current, HasCopy, HInv, TypeOK
    <2>6. NoHost \notin tails
      BY HostsAssumption DEF HInv, TypeOK
    <2>7. Heard'
      BY <1>1, <2>1, <2>2, <2>6 DEF Heard, HasCopy, Judged, HInv, TypeOK
    <2>8. ~(known /\ loaded = observed)
      BY <1>1, <1>3 DEF HInv, CopyInv, Copied
    <2>9. MovedInv' /\ Played'
      BY <1>1, <2>8 DEF MovedInv, Played
    <2> QED BY <2>4, <2>5, <2>7, <2>9
  <1> QED BY <1>2, <1>3 DEF CopyParams

(* An effect that is bypassed forgets, unless its node did not know it.    *)
LEMMA ProcessKeepsMemory ==
  ASSUME HInv, MemInv, NEW n \in Node, ProcessNode(n)
  PROVE  MemInv'
  <1> USE DEF MemInv
  <1>1. /\ pc = "process" /\ known /\ n \in todo /\ todo' = todo \ {n} /\ n \in DOMAIN nodes
        /\ UNCHANGED <<pc, seq, states, nodes, known, loaded, observed, cache, moved>>
    BY DEF ProcessNode, audioRest, effectVars, copyVars, HInv, TypeOK, CopyInv
  <1>2. /\ done'[n].enabled = cache[n].enabled
        /\ \A m \in Node \ {n} : done'[m] = done[m]
    BY DEF ProcessNode, HInv, TypeOK
  <1>3. /\ \A h \in tails' : h \in tails \/ (h = cache[n].host /\ cache[n].enabled)
        /\ misjudged \subseteq misjudged'
        /\ n \in moved /\ ~cache[n].enabled => cache[n].host \in misjudged'
    BY DEF ProcessNode
  <1>4. /\ NoHost \notin tails' /\ NoHost \notin tails
        /\ \A m \in DOMAIN nodes : m \in Node /\ HasCopy(m)
    BY <1>1, HostsAssumption DEF ProcessNode, HInv, TypeOK, HasCopy
  <1>5. \A m \in DOMAIN nodes \ {n} :
          cache[n].host \in tails' =>
            /\ cache[m].host # cache[n].host
            /\ nodes[m] \in DOMAIN states => states[nodes[m]].host # cache[n].host
    <2> SUFFICES ASSUME NEW m \in DOMAIN nodes \ {n}, cache[n].host \in tails'
                 PROVE  /\ cache[m].host # cache[n].host
                        /\ nodes[m] \in DOMAIN states => states[nodes[m]].host # cache[n].host
      OBVIOUS
    <2>1. cache[n].host # NoHost /\ cache[n].host.effect = nodes[n] /\ nodes[m] # nodes[n]
      BY <1>1, <1>4 DEF Owned
    <2>2. cache[m].host # NoHost => cache[m].host.effect = nodes[m]
      BY <1>4 DEF Owned
    <2>3. nodes[m] \in DOMAIN states /\ states[nodes[m]].host # NoHost
            => states[nodes[m]].host.effect = nodes[m]
      BY DEF HInv, Agree, Stamped
    <2> QED BY <2>1, <2>2, <2>3
  <1>6. Owned'
    BY <1>1, <1>3, <1>4 DEF Owned, HasCopy
  <1>7. Current'
    BY <1>1, <1>3, <1>4, <1>5 DEF Current, HasCopy
  <1>8. ~cache[n].enabled => cache[n].host \notin tails' \ misjudged'
    <2> SUFFICES ASSUME ~cache[n].enabled, cache[n].host \in tails', cache[n].host \notin misjudged'
                 PROVE  FALSE
      OBVIOUS
    <2>1. cache[n].host \in tails \ misjudged /\ n \notin moved
      BY <1>3
    <2>2. done[n].enabled
      BY <1>1, <1>4, <2>1 DEF Heard, Judged
    <2>3. Resets(n)
      BY <1>4, <2>2 DEF Resets
    <2>4. tails' = tails \ {cache[n].host}
      BY <2>3 DEF ProcessNode
    <2> QED BY <2>4
  <1>9. Heard'
    <2> SUFFICES ASSUME NEW m \in DOMAIN nodes, NEW h \in tails' \ misjudged',
                        Judged(m)',
                        h = cache[m].host \/ (nodes[m] \in DOMAIN states /\ h = states[nodes[m]].host)
                 PROVE  done'[m].enabled
      BY <1>1 DEF Heard, HasCopy
    <2>1. CASE m = n
      <3>1. SUFFICES ASSUME ~cache[n].enabled PROVE FALSE
        BY <1>2, <2>1
      <3>2. h \in tails /\ h = cache[n].host
        BY <1>3, <1>4, <2>1, <3>1 DEF Current
      <3> QED BY <1>8, <3>1, <3>2
    <2>2. CASE m # n
      <3>1. h \in tails \ misjudged /\ Judged(m)
        BY <1>1, <1>3, <1>5, <2>2 DEF Judged
      <3>2. done[m].enabled
        BY <1>4, <3>1 DEF Heard
      <3> QED BY <1>2, <1>4, <2>2, <3>2
    <2> QED BY <2>1, <2>2
  <1>10. MovedInv' /\ Played'
    BY <1>1, <1>2, <1>4 DEF MovedInv, Played
  <1> QED BY <1>6, <1>7, <1>9, <1>10

(* The other steps of a block copy and process nothing.                    *)
LEMMA BlockKeepsMemory ==
  ASSUME HInv, MemInv,
         NoNewGraph \/ LoadSeq \/ Observe \/ StayAwake \/ BeginSleep \/ SleepOn \/ EndBlock
  PROVE  MemInv'
  <1> USE DEF MemInv
  <1>1. /\ UNCHANGED <<seq, states, nodes, cache, done, misjudged>> /\ tails' \subseteq tails
        /\ pc = "copy" => todo = {}
        /\ known' = known \/ (pc = "copy" /\ known' = TRUE)
    BY DEF NoNewGraph, LoadSeq, Observe, StayAwake, BeginSleep, SleepOn, EndBlock,
           audioRest, effectVars, copyVars, history
  <1>2. \A n \in DOMAIN nodes : HasCopy(n)' => HasCopy(n)
    BY <1>1 DEF HasCopy, NoNewGraph, LoadSeq, Observe, StayAwake, BeginSleep, SleepOn, EndBlock,
           copyVars, history
  <1>3. \A n \in DOMAIN nodes : Judged(n)' => Judged(n)
    BY DEF Judged, MovedInv, NoNewGraph, LoadSeq, Observe, StayAwake, BeginSleep, SleepOn,
       EndBlock,
           copyVars, history, HInv, CopyInv
  <1>4. Owned' /\ Current'
    BY <1>1, <1>2 DEF Owned, Current
  <1>5. Heard'
    BY <1>1, <1>2, <1>3 DEF Heard
  <1>6. MovedInv'
    BY <1>1 DEF MovedInv, NoNewGraph, LoadSeq, Observe, StayAwake, BeginSleep, SleepOn, EndBlock,
           copyVars, history, HInv, CopyInv, ControlsChanged
  <1>7. Played'
    BY <1>1 DEF Played, NoNewGraph, LoadSeq, Observe, StayAwake, BeginSleep, SleepOn, EndBlock,
           copyVars, HInv, CopyInv, TypeOK, ControlsChanged
  <1> QED BY <1>4, <1>5, <1>6, <1>7

(* Every step keeps what the hosts remember in order.                      *)
LEMMA MemoryStep == HInv /\ MemInv /\ [Next]_vars => MemInv'
  <1> SUFFICES ASSUME HInv, MemInv, [Next]_vars PROVE MemInv'
    OBVIOUS
  <1>1. CASE MainNext
    BY <1>1, MainKeepsMemory
  <1>2. CASE AudioNext
    BY <1>2, TakeGraphKeepsMemory, CopyKeepsMemory, ProcessKeepsMemory, BlockKeepsMemory
       DEF AudioNext
  <1>3. CASE UNCHANGED vars
    <2>1. seq \in Nat /\ UNCHANGED <<seq, states, audioVars, history>>
      BY <1>3 DEF vars, effectVars, HInv, TypeOK
    <2> QED BY <2>1, ChangeKeepsMemory
  <1> QED BY <1>1, <1>2, <1>3 DEF Next

(* What the hosts remember is in order in every state.                     *)
THEOREM MemoryInvariance == Spec => []MemInv
  BY MemoryInit, MemoryStep, HostsInvariance, PTL DEF Spec

(* "Bypass is immediate and clears effect history": when a block of        *)
(* processNode() calls is over, a bypassed plugin has forgotten its input, *)
(* unless it was bypassed in the block that moved it to another node.      *)
THEOREM BypassClears == Spec => []BypassClearsUnmoved
  <1>1. HInv /\ MemInv => BypassClearsUnmoved
    <2> SUFFICES ASSUME HInv, MemInv, pc = "top", NEW n \in DOMAIN nodes, ~cache[n].enabled,
                        cache[n].host \in tails \ misjudged
                 PROVE  FALSE
      BY DEF BypassClearsUnmoved
    <2>1. known /\ moved = {} /\ ~done[n].enabled
      BY DEF MemInv, MovedInv, Played
    <2> QED BY <2>1 DEF MemInv, Heard, HasCopy, Judged
  <1> QED BY <1>1, MemoryInvariance, HostsInvariance, PTL
=============================================================================
