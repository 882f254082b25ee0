--------------------------- MODULE Devices_proofs ---------------------------
(***************************************************************************)
(* What MCDevices runs, for all values of the constants: the routes that   *)
(* the user saved, the sound cards and their buffers, the MIDI controller  *)
(* and what its scripts store.                                             *)
(***************************************************************************)
EXTENDS Routing, BufferLevel, MidiInput, ScriptStore, AudioStreams, FiniteSetTheorems, SequenceTheorems, WellFoundedInduction, TLAPS

-----------------------------------------------------------------------------
(***************************************************************************)
(* Routing, for all cards, devices, saved files and limits: whatever is    *)
(* plugged in or paired while routing.txt is read route by route and       *)
(* written back, it says what the user saved.                              *)
(***************************************************************************)

(* The things a reload may know.                                           *)
Thing == {Sound, Fx, Helper} \cup {Named(c) : c \in Card} \cup {Index(k) : k \in Slot}
         \cup {Bt(d) : d \in Speaker}

Reading == {"migrate", "build", "names"}
Gathering == {"migrate", "names", "open1", "open2"}
Writing == {"write1", "write2", "put", "helper"}
Places == {"off", "idle", "load", "things", "old", "count", "publish", "check"}
          \cup Reading \cup Gathering \cup Writing

(* The locals of a reload, whatever the other thread does to the file.     *)
Local(r) ==
  /\ DOMAIN r = DOMAIN Idle /\ r.pc \in Places
  /\ r.things \subseteq Thing /\ r.i \in Nat /\ r.n \in Nat
  /\ r.pc \in Reading => 1 <= r.i /\ r.i <= r.n + 1 /\ r.n <= MaxEdges
  /\ r.pc \in Gathering => r.acc \in Seq(Route)
  /\ r.pc = "names" => Len(r.acc) <= r.i - 1
  /\ r.pc \in {"open1", "open2"} => Len(r.acc) <= MaxEdges
  /\ r.pc \in Writing => r.acc \in File /\ Len(r.acc.routes) <= MaxEdges

(* The routes `new` are those of `old`, renamed; of `old`, the first k.    *)
Same(new, old) ==
  /\ \A r \in Range(old) : \E e \in Range(new) : Continues(e, r)
  /\ \A e \in Range(new) : \E r \in Range(old) : Continues(e, r)
Covers(new, old, k) ==
  /\ \A j \in 1..k : \E e \in Range(new) : Continues(e, old[j])
  /\ \A e \in Range(new) : \E j \in 1..k : Continues(e, old[j])

(* What a reload has gathered is what the file says, as far as it was read.*)
Faithful(r) ==
  /\ r.pc \in Reading => r.n = Len(file.routes)
  /\ r.pc \in {"migrate", "names"} => Covers(r.acc, file.routes, r.i - 1)
  /\ r.pc \in {"open1", "open2"} => Covers(r.acc, file.routes, Len(file.routes))

(* While the file is being written the routes are in the writer's hand.    *)
InHand(r) ==
  /\ r.pc \in {"write1", "write2", "helper"} => Same(r.acc.routes, user.routes)
  /\ r.pc \in {"write1", "write2"} => r.acc.helper = user.helper

Kept == file.helper = user.helper /\ Same(file.routes, user.routes)

(* The types, which do not depend on who is at work on the file.           *)
Types ==
  /\ seen \in [Slot -> Card \cup {NoCard}] /\ plugged \in [Slot -> Card \cup {NoCard}]
  /\ paired \subseteq Speaker
  /\ file \in File /\ Len(file.routes) <= MaxEdges /\ user \in File
  /\ DOMAIN th = Thread /\ \A t \in Thread : Local(th[t])
  /\ mixed \in BOOLEAN

KeptInv ==
  ~mixed => /\ \A t \in Thread : Faithful(th[t]) /\ InHand(th[t])
            /\ (\A t \in Thread : th[t].pc \notin Writing) => Kept

RInv == Types /\ KeptInv

-----------------------------------------------------------------------------
(* Routes and their names.                                                 *)

(* There are two threads that reload, and no other.                        *)
LEMMA TwoThreads ==
  \A t \in Thread : Other(t) \in Thread /\ Other(t) # t /\ Thread = {t, Other(t)}
  BY DEF Other, Thread

(* What may be put in the place of a name is of its kind or of a card.     *)
LEMMA Renaming ==
  ASSUME NEW a, NEW b, NEW c, MayMean(b, a), MayMean(c, b)
  PROVE  MayMean(c, a)
  BY DEF MayMean, AnyBt

(* What is renamed twice is renamed.                                       *)
LEMMA ContinuesOnceMore ==
  ASSUME NEW r \in Route, NEW e \in Route, NEW f \in Route, Continues(e, r), Continues(f, e)
  PROVE  Continues(f, r)
  <1>1. MayMean(f.src, r.src) /\ MayMean(f.dst, r.dst)
    BY Renaming DEF Continues
  <1>2. /\ f.from = e.from /\ e.from = r.from
        /\ f.to = e.to /\ e.to = r.to
    BY DEF Continues, Route
  <1>3. [f EXCEPT !.src = r.src, !.dst = r.dst] = r
    BY <1>2 DEF Route
  <1> QED
    BY <1>1, <1>3 DEF Continues

(* A route that is left as it is goes on as itself.                        *)
LEMMA ContinuesItself ==
  ASSUME NEW r \in Route
  PROVE  Continues(r, r)
  BY DEF Continues, MayMean, Route

(* normalizeRouteThingId() gives the name of the same thing.               *)
LEMMA NormalIsMeant ==
  ASSUME NEW id \in Thing \cup {AnyBt} \cup {Alias(c) : c \in Card}, NEW things,
         NEW dev \in [Slot -> Card \cup {NoCard}]
  PROVE  /\ MayMean(Normal(id, things, dev), id)
         /\ id \in {Sound, Fx, Helper} => Normal(id, things, dev) = id
         /\ Normal(id, things, dev) = id \/ Normal(id, things, dev) \in {Named(c) : c \in Card}
  <1> DEFINE is(k) == \/ id[1] \in {"card", "alias"} /\ dev[k] = id[2] /\ dev[k] \notin Nameless
                      \/ id = Index(k)
             found == {k \in Occupied(dev) : is(k)}
             k == CHOOSE j \in found : TRUE
  <1>1. CASE id \in things \/ found = {}
    BY <1>1 DEF Normal, MayMean
  <1>2. CASE ~(id \in things \/ found = {})
    <2>1. Normal(id, things, dev) = StableId(dev, k)
      BY <1>2 DEF Normal
    <2>2. k \in found
      BY <1>2
    <2> HIDE DEF k
    <2>3. k \in Slot /\ dev[k] \in Card /\ is(k)
      BY <2>2 DEF Occupied
    <2>4. CASE id = Index(k)
      BY <2>1, <2>3, <2>4 DEF StableId, Index, Named, MayMean, Sound, Fx, Helper
    <2>5. CASE id[1] \in {"card", "alias"} /\ dev[k] = id[2] /\ dev[k] \notin Nameless
      <3>1. Normal(id, things, dev) = <<"card", dev[k]>> /\ id[2] = dev[k]
        BY <2>1, <2>5 DEF StableId, Named
      <3>2. id \notin {Sound, Fx, Helper}
        BY <2>5 DEF Sound, Fx, Helper
      <3>3. id = <<"card", dev[k]>> \/ id = <<"alias", dev[k]>>
        BY <2>5 DEF Thing, AnyBt, Alias, Named, Index, Bt, Sound, Fx, Helper
      <3> QED
        BY <2>3, <3>1, <3>2, <3>3 DEF MayMean, Named
    <2> QED
      BY <2>3, <2>4, <2>5
  <1> QED
    BY <1>1, <1>2

(* A route that is renamed is still a route, and means the same.           *)
LEMMA NormalRouteContinues ==
  ASSUME NEW r \in Route, NEW things, NEW dev \in [Slot -> Card \cup {NoCard}]
  PROVE  NormalRoute(r, things, dev) \in Route /\ Continues(NormalRoute(r, things, dev), r)
  <1> DEFINE e == NormalRoute(r, things, dev)
             Ids == Thing \cup {AnyBt} \cup {Alias(c) : c \in Card}
  <1>1. r.src \in {Sound, Fx, Helper} /\ r.src \in Ids /\ r.dst \in Ids
    BY DEF Route, Thing
  <1>2. e = [r EXCEPT !.src = Normal(r.src, things, dev), !.dst = Normal(r.dst, things, dev)]
    BY DEF NormalRoute
  <1>3. /\ Normal(r.src, things, dev) = r.src /\ MayMean(Normal(r.dst, things, dev), r.dst)
        /\ \/ Normal(r.dst, things, dev) = r.dst
           \/ Normal(r.dst, things, dev) \in {Named(c) : c \in Card}
    BY <1>1, NormalIsMeant
  <1>4. e.src = r.src /\ e.dst = Normal(r.dst, things, dev) /\ e.from = r.from /\ e.to = r.to
    BY <1>2, <1>3 DEF Route
  <1>5. e \in Route
    BY <1>2, <1>3 DEF Route
  <1> HIDE DEF e
  <1>6. [e EXCEPT !.src = r.src, !.dst = r.dst] = r
    BY <1>4, <1>5 DEF Route
  <1>7. MayMean(r.src, r.src)
    BY DEF MayMean
  <1> QED
    BY <1>3, <1>4, <1>5, <1>6, <1>7 DEF Continues, e

(* Of a finite set SetToSeq is a sequence of members.                      *)
LEMMA ListOfSet ==
  ASSUME NEW S, IsFiniteSet(S)
  PROVE  SetToSeq(S) \in Seq(S)
  <1>1. Cardinality(S) \in Nat /\ Bijection(1..Cardinality(S), S) # {}
    BY FS_CardinalityType DEF ExistsBijection
  <1>2. \E f \in [1..Cardinality(S) -> S] : IsInjective(f)
    BY <1>1 DEF Bijection, Injection
  <1>3. SetToSeq(S) \in [1..Cardinality(S) -> S]
    BY <1>2 DEF SetToSeq
  <1> QED
    BY <1>1, <1>3

(* migrateLegacyBluetoothRoutes() leaves a route, or makes routes of its   *)
(* kind, to devices, of it.                                                *)
LEMMA MigratedContinues ==
  ASSUME NEW r \in Route, NEW things \in SUBSET Thing
  PROVE  /\ Migrated(r, things) \in Seq(Route) /\ Range(Migrated(r, things)) # {}
         /\ \A e \in Range(Migrated(r, things)) : Continues(e, r)
  <1> DEFINE S == {id \in things : id[1] = "bluetooth"}
             B == {Bt(d) : d \in Speaker}
             outs == SetToSeq(S)
             m == Migrated(r, things)
  <1>1. IsFiniteSet(B)
    <2> DEFINE f == [d \in Speaker |-> Bt(d)]
    <2>1. f \in Surjection(Speaker, B)
      BY DEF Surjection
    <2> QED
      BY <2>1, FS_Surjection, RoutingAssumption
  <1>2. S \subseteq B
    BY DEF Thing, Sound, Fx, Helper, Named, Index
  <1>3. IsFiniteSet(S)
    BY <1>1, <1>2, FS_Subset
  <1>4. outs \in Seq(S)
    BY <1>3, ListOfSet
  <1>5. CASE r.dst # AnyBt \/ outs = <<>>
    <2>1. m = <<r>>
      BY <1>5 DEF Migrated
    <2>2. Range(m) = {r}
      BY <2>1 DEF Range
    <2> QED
      BY <2>1, <2>2, ContinuesItself
  <1>6. CASE r.dst = AnyBt /\ outs # <<>>
    <2>1. m = [j \in DOMAIN outs |-> [r EXCEPT !.dst = outs[j]]]
      BY <1>6 DEF Migrated
    <2> HIDE DEF m, outs, S, B
    <2>2. DOMAIN outs = 1..Len(outs) /\ Len(outs) \in Nat /\ Len(outs) > 0
      BY <1>4, <1>6, EmptySeq
    <2>3. ASSUME NEW j \in DOMAIN outs
          PROVE  m[j] \in Route /\ Continues(m[j], r)
      <3>1. outs[j] \in B
        BY <1>2, <1>4, <2>2, ElementOfSeq
      <3>2. m[j] = [r EXCEPT !.dst = outs[j]]
        BY <2>1
      <3>3. m[j] \in Route
        BY <3>1, <3>2 DEF Route, B
      <3>4. /\ m[j].src = r.src /\ m[j].dst = outs[j]
            /\ [m[j] EXCEPT !.src = r.src, !.dst = r.dst] = r
        BY <3>2 DEF Route
      <3>5. MayMean(r.src, r.src) /\ MayMean(outs[j], r.dst)
        BY <1>6, <3>1 DEF MayMean, B, Bt
      <3> QED
        BY <3>3, <3>4, <3>5 DEF Continues
    <2>4. m \in Seq(Route)
      <3>1. DOMAIN m = 1..Len(outs)
        BY <2>1, <2>2
      <3>2. m \in [1..Len(outs) -> Route]
        BY <2>1, <2>2, <2>3
      <3> QED
        BY <2>2, <3>2
    <2>5. DOMAIN m = DOMAIN outs /\ 1 \in DOMAIN m
      BY <2>1, <2>2
    <2> QED
      BY <2>3, <2>4, <2>5 DEF Range, m
  <1> QED
    BY <1>5, <1>6

(* What was gathered of the first k routes, and of the next one.           *)
LEMMA CoversOneMore ==
  ASSUME NEW new \in Seq(Route), NEW old \in Seq(Route), NEW k \in Nat, Covers(new, old, k),
         NEW more \in Seq(Route), Range(more) # {},
         \A e \in Range(more) : Continues(e, old[k + 1])
  PROVE  new \o more \in Seq(Route) /\ Covers(new \o more, old, k + 1)
  <1>1. Range(new \o more) = Range(new) \cup Range(more) /\ new \o more \in Seq(Route)
    BY RangeConcatenation, ConcatProperties
  <1>2. 1..(k + 1) = (1..k) \cup {k + 1}
    OBVIOUS
  <1> QED
    BY <1>1, <1>2 DEF Covers

(* Before the first route is read nothing is gathered.                     *)
LEMMA CoversNone ==
  ASSUME NEW old
  PROVE  Covers(<<>>, old, 0)
  BY DEF Covers, Range

(* Once all routes are read what was gathered says what the file says.     *)
LEMMA CoversAll ==
  ASSUME NEW new, NEW old \in Seq(Route), Covers(new, old, Len(old))
  PROVE  Same(new, old)
  BY RangeEquality DEF Covers, Same

(* A file that is written back again and again says what it first said.    *)
LEMMA SameOnceMore ==
  ASSUME NEW a \in Seq(Route), NEW b \in Seq(Route), NEW c \in Seq(Route), Same(b, a), Same(c, b)
  PROVE  Same(c, a)
  <1>1. Range(a) \subseteq Route /\ Range(b) \subseteq Route /\ Range(c) \subseteq Route
    BY RangeOfSeq
  <1> QED
    BY <1>1, ContinuesOnceMore DEF Same

(* A file says what it says.                                               *)
LEMMA SameItself ==
  ASSUME NEW a \in Seq(Route)
  PROVE  Same(a, a)
  <1>1. Range(a) \subseteq Route
    BY RangeOfSeq
  <1> QED
    BY <1>1, ContinuesItself DEF Same

-----------------------------------------------------------------------------
(* The steps of a thread.                                                  *)

(* What a thread does leaves the other where it is, but for `late`.        *)
LEMMA OtherStays ==
  ASSUME Types, NEW t \in Thread, NEW rec, Goes(t, rec) \/ Outdates(t, rec)
  PROVE  LET q == th'[Other(t)]
             r == th[Other(t)]
         IN  /\ DOMAIN th' = Thread /\ th'[t] = rec
             /\ DOMAIN q = DOMAIN r /\ q.pc = r.pc /\ q.things = r.things
             /\ q.i = r.i /\ q.n = r.n /\ q.acc = r.acc
  <1> DEFINE r == th[Other(t)]
  <1>1. th'[Other(t)] = r \/ th'[Other(t)] = [r EXCEPT !.late = TRUE]
    BY TwoThreads DEF Types, Goes, Outdates
  <1>2. DOMAIN r = DOMAIN Idle
    BY TwoThreads DEF Types, Local
  <1>3. DOMAIN th' = Thread /\ th'[t] = rec
    BY TwoThreads DEF Types, Goes, Outdates
  <1> HIDE DEF r
  <1> QED
    BY <1>1, <1>2, <1>3 DEF r, Idle

(* What holds of the locals of a reload does not depend on `late`.         *)
LEMMA LocalsAlike ==
  ASSUME NEW r, NEW q, Local(r), DOMAIN q = DOMAIN r, q.pc = r.pc, q.things = r.things,
         q.i = r.i, q.n = r.n, q.acc = r.acc
  PROVE  Local(q) /\ (Faithful(r) => Faithful(q)) /\ (InHand(r) => InHand(q))
  BY DEF Local, Faithful, InHand

(* A step that leaves the file keeps the invariant if what it leaves the   *)
(* thread with is faithful, and in hand while it writes.                   *)
LEMMA StepKeeps ==
  ASSUME RInv, NEW t \in Thread, NEW rec, Goes(t, rec) \/ Outdates(t, rec),
         UNCHANGED <<file, user>>, mixed' \in BOOLEAN, ~mixed' => ~mixed, Local(rec),
         ~mixed' => Faithful(rec) /\ rec.pc \notin Writing /\ th[t].pc \notin Writing,
         seen' \in [Slot -> Card \cup {NoCard}], plugged' \in [Slot -> Card \cup {NoCard}],
         paired' \subseteq Speaker
  PROVE  RInv'
  <1> DEFINE q == th'[Other(t)]
             r == th[Other(t)]
  <1>1. /\ DOMAIN th' = Thread /\ th'[t] = rec
        /\ DOMAIN q = DOMAIN r /\ q.pc = r.pc /\ q.things = r.things
        /\ q.i = r.i /\ q.n = r.n /\ q.acc = r.acc
    BY OtherStays DEF RInv
  <1>2. Other(t) \in Thread /\ Thread = {t, Other(t)}
    BY TwoThreads
  <1>3. Local(r)
    BY <1>2 DEF RInv, Types
  <1> HIDE DEF q, r
  <1>4. Local(q) /\ (Faithful(r) => Faithful(q)) /\ (InHand(r) => InHand(q))
    BY <1>1, <1>3, LocalsAlike
  <1>5. Types'
    <2>1. \A u \in Thread : Local(th'[u])
      BY <1>1, <1>2, <1>4 DEF q
    <2>2. \A u \in Thread : Local(th[u])'
      BY <2>1 DEF Local
    <2> QED
      BY <1>1, <2>2 DEF RInv, Types
  <1>6. KeptInv'
    <2> SUFFICES ASSUME ~mixed' PROVE KeptInv!2'
      BY DEF KeptInv
    <2>1. Faithful(r) /\ InHand(r) /\ ((\A u \in Thread : th[u].pc \notin Writing) => Kept)
      BY <1>2 DEF RInv, KeptInv, r
    <2>2. Faithful(rec) /\ InHand(rec) /\ Faithful(q) /\ InHand(q)
      BY <1>4, <2>1 DEF InHand, Writing
    <2>3. \A u \in Thread : Faithful(th[u])' /\ InHand(th[u])'
      BY <1>1, <1>2, <2>2 DEF Faithful, InHand, q
    <2>4. (\A u \in Thread : th'[u].pc \notin Writing) =>
             \A u \in Thread : th[u].pc \notin Writing
      BY <1>1, <1>2 DEF q, r
    <2>5. Kept' <=> Kept
      BY DEF Kept
    <2> QED
      BY <2>1, <2>3, <2>4, <2>5
  <1> QED
    BY <1>5, <1>6 DEF RInv

(* A step on the file leaves its thread with the routes in hand, or with   *)
(* the file written; unless the other thread is at work as well.           *)
LEMMA FileStepKeeps ==
  ASSUME RInv, NEW t \in Thread, NEW rec, Outdates(t, rec), Local(rec),
         rec.pc \notin Reading \cup {"open1", "open2"},
         file' \in File, Len(file'.routes) <= MaxEdges, user' \in File,
         mixed' \in BOOLEAN, mixed' \/ Rests(Other(t)), UNCHANGED <<seen, plugged, paired>>,
         ~mixed' => \/ rec.pc \in Writing /\ user' = user /\ InHand(rec)
                    \/ /\ rec.pc \notin Writing /\ file'.helper = user'.helper
                       /\ Same(file'.routes, user'.routes)
  PROVE  RInv'
  <1> DEFINE q == th'[Other(t)]
             r == th[Other(t)]
  <1>1. /\ DOMAIN th' = Thread /\ th'[t] = rec
        /\ DOMAIN q = DOMAIN r /\ q.pc = r.pc /\ q.things = r.things
        /\ q.i = r.i /\ q.n = r.n /\ q.acc = r.acc
    BY OtherStays DEF RInv
  <1>2. Other(t) \in Thread /\ Thread = {t, Other(t)}
    BY TwoThreads
  <1>3. Local(r)
    BY <1>2 DEF RInv, Types
  <1>4. mixed' \/ r.pc \in {"off", "idle"}
    BY DEF Rests
  <1> HIDE DEF q, r
  <1>5. Local(q)
    BY <1>1, <1>3, LocalsAlike
  <1>6. Types'
    <2>1. \A u \in Thread : Local(th'[u])
      BY <1>1, <1>2, <1>5 DEF q
    <2>2. \A u \in Thread : Local(th[u])'
      BY <2>1 DEF Local
    <2> QED
      BY <1>1, <2>2 DEF RInv, Types
  <1>7. ASSUME ~mixed'
        PROVE  /\ \A u \in Thread : Faithful(th[u])' /\ InHand(th[u])'
               /\ (\A u \in Thread : th'[u].pc \notin Writing) => Kept'
    <2>1. q.pc \in {"off", "idle"}
      BY <1>1, <1>4, <1>7
    <2>2. Faithful(th[t])' /\ InHand(th[t])'
      BY <1>1, <1>7 DEF Faithful, InHand, Reading, Writing
    <2>3. Faithful(th[Other(t)])' /\ InHand(th[Other(t)])'
      <3>1. th'[Other(t)].pc \in {"off", "idle"}
        BY <2>1 DEF q
      <3>2. Other(t)' = Other(t)
        BY DEF Other, Thread
      <3> QED
        BY <3>1, <3>2 DEF Faithful, InHand, Reading, Writing
    <2>4. (\A u \in Thread : th'[u].pc \notin Writing) => Kept'
      BY <1>1, <1>7 DEF Kept
    <2>5. \A u \in Thread : u = t \/ u = Other(t)
      BY <1>2
    <2> QED
      BY <2>2, <2>3, <2>4, <2>5
  <1> QED
    BY <1>6, <1>7 DEF RInv, KeptInv

-----------------------------------------------------------------------------
(* The steps of a reload that leave the file.                              *)

(* What is known of a thread at a step of its own.                         *)
LEMMA AtStep ==
  ASSUME RInv, NEW t \in Thread
  PROVE  /\ Local(th[t]) /\ DOMAIN th[t] = DOMAIN Idle
         /\ ~mixed => Faithful(th[t]) /\ InHand(th[t])
         /\ file \in File /\ file.routes \in Seq(Route) /\ Len(file.routes) \in Nat
         /\ Len(file.routes) <= MaxEdges /\ MaxEdges \in Nat
  <1>1. file \in File /\ file.routes \in Seq(Route) /\ Len(file.routes) \in Nat
    BY DEF RInv, Types, File
  <1> QED
    BY <1>1, RoutingAssumption DEF RInv, Types, KeptInv, Local

(* A step that only moves the thread on.                                   *)
LEMMA QuietStep ==
  ASSUME RInv, NEW t \in Thread, NEW rec, Goes(t, rec),
         UNCHANGED <<file, user, mixed, paired, devVars>>,
         Local(rec), Faithful(rec) \/ mixed, rec.pc \notin Writing, th[t].pc \notin Writing
  PROVE  RInv'
  BY StepKeeps DEF RInv, Types, devVars

(* Nothing is asked of the locals of a thread that has not read a route.   *)
LEMMA Fresh ==
  ASSUME NEW r, DOMAIN r = DOMAIN Idle, r.pc \in Places \ (Reading \cup Gathering \cup Writing),
         r.things \subseteq Thing, r.i \in Nat, r.n \in Nat
  PROVE  Local(r) /\ Faithful(r)
  BY DEF Local, Faithful, Reading, Gathering, Writing

(* A reload starts over, with no routes read.                              *)
LEMMA LoadKeeps ==
  ASSUME RInv, NEW t \in Thread, Load(t)
  PROVE  RInv'
  <1> DEFINE rec == [Idle EXCEPT !.pc = "things", !.gen = generation]
  <1>1. Local(rec) /\ Faithful(rec)
    BY Fresh DEF Idle, Places, Reading, Gathering, Writing
  <1> QED
    BY <1>1, QuietStep DEF Load, Keep, At, Idle, Writing

(* copyRoutingThings() copies things that a reload may know.               *)
LEMMA CopyKeeps ==
  ASSUME RInv, NEW t \in Thread, CopyThings(t)
  PROVE  RInv'
  <1> DEFINE things == Things(seen, wide, paired, file.helper)
             rec == [th[t] EXCEPT !.pc = "old", !.wide = wide, !.things = things]
  <1>1. things \subseteq Thing
    BY DEF Things, Thing, StableId, Occupied, RInv, Types
  <1> HIDE DEF things
  <1>2. Local(rec) /\ Faithful(rec)
    <2>1. /\ DOMAIN rec = DOMAIN Idle /\ rec.pc = "old" /\ rec.things = things
          /\ rec.i = th[t].i /\ rec.n = th[t].n
      BY AtStep DEF Idle
    <2>2. th[t].i \in Nat /\ th[t].n \in Nat
      BY AtStep DEF Local
    <2> QED
      BY <1>1, <2>1, <2>2, Fresh DEF Places, Reading, Gathering, Writing
  <1>3. rec.pc = "old"
    BY AtStep DEF Idle
  <1>4. Goes(t, rec) /\ UNCHANGED <<file, user, mixed, paired, devVars>> /\ th[t].pc = "things"
    BY DEF CopyThings, Keep, At, things
  <1> HIDE DEF rec
  <1> QED
    BY <1>2, <1>3, <1>4, QuietStep DEF Writing

(* The routes are counted, and none of them is read yet.                   *)
LEMMA CountKeeps ==
  ASSUME RInv, NEW t \in Thread, CountRoutes(t)
  PROVE  RInv'
  <1> DEFINE rec == [th[t] EXCEPT !.n = Len(file.routes), !.i = 1, !.acc = <<>>, !.dirty = FALSE,
                       !.pc = IF @ = "count" THEN "build"
                              ELSE IF file.routes = <<>> THEN "count" ELSE "migrate"]
  <1>1. /\ Goes(t, rec) /\ UNCHANGED <<file, user, mixed, paired, devVars>>
        /\ th[t].pc \in {"old", "count"}
    BY DEF CountRoutes, Keep
  <1>2. /\ DOMAIN rec = DOMAIN Idle /\ rec.pc \in {"build", "count", "migrate"}
        /\ rec.things = th[t].things /\ rec.i = 1 /\ rec.n = Len(file.routes) /\ rec.acc = <<>>
    BY AtStep DEF Idle
  <1>3. th[t].things \subseteq Thing
    BY AtStep DEF Local
  <1> HIDE DEF rec
  <1>4. rec.acc \in Seq(Route) /\ Len(rec.acc) = 0
    BY <1>2
  <1>5. Local(rec)
    BY <1>2, <1>3, <1>4, AtStep DEF Local, Places, Reading, Gathering, Writing
  <1>6. Faithful(rec)
    BY <1>2, CoversNone DEF Faithful, Reading
  <1> QED
    BY <1>1, <1>2, <1>5, <1>6, QuietStep DEF Writing

(* A file that cannot be read is left as it is.                            *)
LEMMA CannotReadKeeps ==
  ASSUME RInv, NEW t \in Thread, CannotRead(t)
  PROVE  RInv'
  <1>1. UNCHANGED <<file, user, mixed, paired, devVars>> /\ th[t].pc \in {"old", "count"}
    BY DEF CannotRead
  <1>2. CASE At(t, "old")
    <2> DEFINE rec == [th[t] EXCEPT !.pc = "count"]
    <2>1. /\ DOMAIN rec = DOMAIN Idle /\ rec.pc = "count"
          /\ rec.things = th[t].things /\ rec.i = th[t].i /\ rec.n = th[t].n
      BY AtStep DEF Idle
    <2>2. Goes(t, rec)
      BY <1>2 DEF CannotRead
    <2> HIDE DEF rec
    <2>3. th[t].things \subseteq Thing /\ th[t].i \in Nat /\ th[t].n \in Nat
      BY AtStep DEF Local
    <2>4. Local(rec) /\ Faithful(rec)
      BY <2>1, <2>3, Fresh DEF Places, Reading, Gathering, Writing
    <2> QED
      BY <1>1, <2>1, <2>2, <2>4, QuietStep DEF Writing
  <1>3. CASE ~At(t, "old")
    <2>1. Goes(t, Idle)
      BY <1>3 DEF CannotRead
    <2>2. Local(Idle) /\ Faithful(Idle)
      BY Fresh DEF Idle, Places, Reading, Gathering, Writing
    <2> QED
      BY <1>1, <2>1, <2>2, QuietStep DEF Writing, Idle
  <1> QED
    BY <1>2, <1>3

(* getRoute(): the route that is read, or none if the file has become      *)
(* shorter.                                                                *)
LEMMA ReadKeeps ==
  ASSUME RInv, NEW t \in Thread, NEW pc \in Reading, NEW used, ReadRoute(t, pc, used),
         th[t].pc = pc /\ th[t].i <= Len(file.routes) =>
            /\ DOMAIN used = DOMAIN Idle /\ used.pc = pc /\ used.things = th[t].things
            /\ used.i = th[t].i /\ used.n = th[t].n
            /\ pc # "build" => used.acc \in Seq(Route)
            /\ pc = "names" => Len(used.acc) = Len(th[t].acc) + 1
            /\ pc # "build" /\ Covers(th[t].acc, file.routes, th[t].i - 1)
                  => Covers(used.acc, file.routes, th[t].i)
  PROVE  RInv'
  <1> DEFINE r == IF th[t].i <= Len(file.routes) THEN used ELSE th[t]
             rec == [r EXCEPT !.i = @ + 1]
  <1>1. /\ Goes(t, rec) /\ UNCHANGED <<file, user, mixed, paired, devVars>>
        /\ th[t].pc = pc /\ th[t].i <= th[t].n
    BY DEF ReadRoute, Keep, At
  <1>2. /\ DOMAIN r = DOMAIN Idle /\ r.pc = pc /\ r.things = th[t].things
        /\ r.i = th[t].i /\ r.n = th[t].n
    BY <1>1, AtStep
  <1>3. /\ th[t].things \subseteq Thing /\ th[t].i \in Nat /\ th[t].n \in Nat
        /\ 1 <= th[t].i /\ th[t].n <= MaxEdges
        /\ pc # "build" => th[t].acc \in Seq(Route)
        /\ pc = "names" => Len(th[t].acc) <= th[t].i - 1
    BY <1>1, AtStep DEF Local, Reading, Gathering
  <1>4. /\ pc # "build" => r.acc \in Seq(Route)
        /\ pc = "names" => Len(r.acc) <= th[t].i
    <2>1. CASE th[t].i <= Len(file.routes)
      <3>1. r = used
        BY <2>1
      <3>2. pc = "names" => Len(th[t].acc) \in Nat
        BY <1>3
      <3> QED
        BY <1>1, <1>3, <2>1, <3>1, <3>2
    <2>2. CASE ~(th[t].i <= Len(file.routes))
      BY <1>3, <2>2
    <2> QED
      BY <2>1, <2>2
  <1>5. ~mixed /\ pc # "build" => Covers(r.acc, file.routes, th[t].i)
    <2> SUFFICES ASSUME ~mixed, pc # "build"
                 PROVE  Covers(r.acc, file.routes, th[t].i)
      OBVIOUS
    <2>1. th[t].n = Len(file.routes) /\ Covers(th[t].acc, file.routes, th[t].i - 1)
      BY <1>1, AtStep DEF Faithful, Reading
    <2> QED
      BY <1>1, <2>1
  <1>6. ~mixed => th[t].n = Len(file.routes)
    BY <1>1, AtStep DEF Faithful
  <1> HIDE DEF r
  <1>7. /\ DOMAIN rec = DOMAIN Idle /\ rec.pc = pc /\ rec.things = th[t].things
        /\ rec.i = th[t].i + 1 /\ rec.n = th[t].n /\ rec.acc = r.acc
    BY <1>2 DEF Idle
  <1> HIDE DEF rec
  <1>8. Local(rec)
    BY <1>1, <1>3, <1>4, <1>7 DEF Local, Places, Reading, Gathering, Writing
  <1>9. Faithful(rec) \/ mixed
    BY <1>3, <1>5, <1>6, <1>7 DEF Faithful, Reading
  <1> QED
    BY <1>1, <1>7, <1>8, <1>9, QuietStep DEF Reading, Writing

(* The route that is read is one of the file.                              *)
LEMMA ReadsARoute ==
  ASSUME RInv, NEW t \in Thread, th[t].pc \in Reading, th[t].i <= Len(file.routes)
  PROVE  SavedRoute(t) \in Route
  <1>1. 1 <= th[t].i /\ th[t].i \in Nat
    BY AtStep DEF Local
  <1> QED
    BY <1>1, AtStep, ElementOfSeq DEF SavedRoute

(* A route to every Bluetooth output becomes one to each of them.          *)
LEMMA MigrateKeeps ==
  ASSUME RInv, NEW t \in Thread, Migrate(t)
  PROVE  RInv'
  <1> DEFINE r == SavedRoute(t)
             parts == Migrated(r, th[t].things)
             used == [th[t] EXCEPT !.acc = @ \o parts, !.dirty = @ \/ parts # <<r>>]
  <1>1. ReadRoute(t, "migrate", used)
    BY DEF Migrate
  <1>2. ASSUME th[t].pc = "migrate", th[t].i <= Len(file.routes)
        PROVE  /\ DOMAIN used = DOMAIN Idle /\ used.pc = "migrate" /\ used.things = th[t].things
               /\ used.i = th[t].i /\ used.n = th[t].n
               /\ used.acc \in Seq(Route)
               /\ Covers(th[t].acc, file.routes, th[t].i - 1) =>
                     Covers(used.acc, file.routes, th[t].i)
    <2>1. /\ th[t].things \in SUBSET Thing /\ th[t].acc \in Seq(Route)
          /\ th[t].i \in Nat /\ 1 <= th[t].i
      BY <1>2, AtStep DEF Local, Reading, Gathering
    <2>2. r \in Route
      BY <1>2, ReadsARoute DEF Reading
    <2>3. parts \in Seq(Route) /\ Range(parts) # {} /\ \A e \in Range(parts) : Continues(e, r)
      BY <2>1, <2>2, MigratedContinues
    <2>4. r = file.routes[th[t].i - 1 + 1] /\ th[t].i - 1 \in Nat
      BY <2>1 DEF SavedRoute
    <2>5. /\ DOMAIN used = DOMAIN Idle /\ used.pc = "migrate" /\ used.things = th[t].things
          /\ used.i = th[t].i /\ used.n = th[t].n /\ used.acc = th[t].acc \o parts
      BY <1>2, AtStep DEF Idle
    <2> HIDE DEF r, parts, used
    <2>6. th[t].acc \o parts \in Seq(Route)
      BY <2>1, <2>3, ConcatProperties
    <2>7. ASSUME Covers(th[t].acc, file.routes, th[t].i - 1)
          PROVE  Covers(th[t].acc \o parts, file.routes, th[t].i)
      <3>1. Covers(th[t].acc \o parts, file.routes, th[t].i - 1 + 1)
        BY <2>1, <2>3, <2>4, <2>7, AtStep, CoversOneMore
      <3> QED
        BY <2>1, <3>1
    <2> QED
      BY <2>5, <2>6, <2>7
  <1> HIDE DEF used
  <1> QED
    BY <1>1, <1>2, ReadKeeps DEF Reading

(* What is kept of the gathered routes is written if there is room.        *)
LEMMA MigrationKeeps ==
  ASSUME RInv, NEW t \in Thread, Migration(t)
  PROVE  RInv'
  <1> DEFINE save == th[t].dirty /\ Len(th[t].acc) <= MaxEdges
             rec == [th[t] EXCEPT !.pc = IF save THEN "open1" ELSE "count", !.dirty = FALSE,
                                  !.i = 1, !.n = 0, !.acc = IF save THEN @ ELSE <<>>]
  <1>1. /\ Goes(t, rec) /\ UNCHANGED <<file, user, mixed, paired, devVars>>
        /\ th[t].pc = "migrate" /\ th[t].i > th[t].n
    BY DEF Migration, HasRead, At, Keep
  <1>2. /\ DOMAIN rec = DOMAIN Idle /\ rec.things = th[t].things /\ rec.i = 1 /\ rec.n = 0
        /\ rec.pc = IF save THEN "open1" ELSE "count"
        /\ rec.acc = IF save THEN th[t].acc ELSE <<>>
    BY AtStep DEF Idle
  <1>3. /\ th[t].things \subseteq Thing /\ th[t].acc \in Seq(Route) /\ th[t].i \in Nat
        /\ th[t].n \in Nat /\ th[t].i <= th[t].n + 1
    BY <1>1, AtStep DEF Local, Reading, Gathering
  <1>4. ~mixed => Covers(th[t].acc, file.routes, Len(file.routes))
    <2> SUFFICES ASSUME ~mixed PROVE Covers(th[t].acc, file.routes, Len(file.routes))
      OBVIOUS
    <2>1. th[t].n = Len(file.routes) /\ Covers(th[t].acc, file.routes, th[t].i - 1)
      BY <1>1, AtStep DEF Faithful, Reading
    <2>2. th[t].i - 1 = th[t].n
      BY <1>1, <1>3
    <2> QED
      BY <2>1, <2>2
  <1> HIDE DEF rec
  <1>5. Local(rec)
    BY <1>2, <1>3 DEF Local, Places, Reading, Gathering, Writing
  <1>6. Faithful(rec) \/ mixed
    BY <1>2, <1>4 DEF Faithful, Reading
  <1> QED
    BY <1>1, <1>2, <1>5, <1>6, QuietStep DEF Writing

(* What goes into the graph is not written back.                           *)
LEMMA BuildKeeps ==
  ASSUME RInv, NEW t \in Thread, Build(t)
  PROVE  RInv'
  <1> DEFINE e == NormalRoute(SavedRoute(t), th[t].things, seen)
  <1>1. PICK used \in {th[t], [th[t] EXCEPT !.acc = Append(@, e)],
                       [th[t] EXCEPT !.skipped = @ + 1]} : ReadRoute(t, "build", used)
    BY DEF Build
  <1>2. /\ DOMAIN used = DOMAIN Idle /\ used.pc = th[t].pc /\ used.things = th[t].things
        /\ used.i = th[t].i /\ used.n = th[t].n
    BY <1>1, AtStep DEF Idle
  <1> QED
    BY <1>1, <1>2, ReadKeeps DEF Reading

(* A refused reload ends; another goes on to the names.                    *)
LEMMA BuiltKeeps ==
  ASSUME RInv, NEW t \in Thread, Built(t)
  PROVE  RInv'
  <1> DEFINE r == th[t]
             refused == r.n > 0 /\ r.acc = <<>> /\ r.skipped > 0 /\ r.gen = graph.gen
             rec == [r EXCEPT !.pc = "names", !.i = 1, !.acc = <<>>, !.skipped = 0,
                              !.edges = Expanded(r.acc)]
  <1>1. UNCHANGED <<file, user, mixed, paired, devVars>> /\ th[t].pc = "build"
    BY DEF Built, HasRead, At
  <1>2. Goes(t, Idle) \/ Goes(t, rec)
    BY DEF Built
  <1>3. CASE Goes(t, Idle)
    <2>1. Local(Idle) /\ Faithful(Idle)
      BY Fresh DEF Idle, Places, Reading, Gathering, Writing
    <2> QED
      BY <1>1, <1>3, <2>1, QuietStep DEF Writing, Idle
  <1>4. CASE Goes(t, rec)
    <2>1. /\ DOMAIN rec = DOMAIN Idle /\ rec.pc = "names" /\ rec.things = th[t].things
          /\ rec.i = 1 /\ rec.n = th[t].n /\ rec.acc = <<>>
      BY AtStep DEF Idle
    <2> HIDE DEF rec
    <2>2. /\ th[t].things \subseteq Thing /\ th[t].n \in Nat /\ th[t].n <= MaxEdges
          /\ rec.acc \in Seq(Route) /\ Len(rec.acc) = 0
      BY <1>1, <2>1, AtStep DEF Local, Reading
    <2>3. Local(rec)
      BY <2>1, <2>2 DEF Local, Places, Reading, Gathering, Writing
    <2>4. Faithful(rec) \/ mixed
      BY <1>1, <2>1, AtStep, CoversNone DEF Faithful, Reading
    <2> QED
      BY <1>1, <1>4, <2>1, <2>3, <2>4, QuietStep DEF Writing
  <1> QED
    BY <1>2, <1>3, <1>4

(* The routes written back are those read, one for one.                    *)
LEMMA RenameKeeps ==
  ASSUME RInv, NEW t \in Thread, Rename(t)
  PROVE  RInv'
  <1> DEFINE r == SavedRoute(t)
             e == NormalRoute(r, th[t].things, seen)
             used == [th[t] EXCEPT !.acc = Append(@, e),
                                   !.dirty = @ \/ Renames(r, th[t].things, seen)]
  <1>1. ReadRoute(t, "names", used)
    BY DEF Rename
  <1>2. ASSUME th[t].pc = "names", th[t].i <= Len(file.routes)
        PROVE  /\ DOMAIN used = DOMAIN Idle /\ used.pc = "names" /\ used.things = th[t].things
               /\ used.i = th[t].i /\ used.n = th[t].n
               /\ used.acc \in Seq(Route) /\ Len(used.acc) = Len(th[t].acc) + 1
               /\ Covers(th[t].acc, file.routes, th[t].i - 1) =>
                     Covers(used.acc, file.routes, th[t].i)
    <2>1. th[t].acc \in Seq(Route) /\ th[t].i \in Nat /\ 1 <= th[t].i
      BY <1>2, AtStep DEF Local, Reading, Gathering
    <2>2. r \in Route
      BY <1>2, ReadsARoute DEF Reading
    <2>3. e \in Route /\ Continues(e, r)
      BY <2>2, NormalRouteContinues DEF RInv, Types
    <2>4. r = file.routes[th[t].i - 1 + 1] /\ th[t].i - 1 \in Nat
      BY <2>1 DEF SavedRoute
    <2>5. /\ DOMAIN used = DOMAIN Idle /\ used.pc = "names" /\ used.things = th[t].things
          /\ used.i = th[t].i /\ used.n = th[t].n /\ used.acc = Append(th[t].acc, e)
      BY <1>2, AtStep DEF Idle
    <2> HIDE DEF r, e, used
    <2>6. /\ Append(th[t].acc, e) \in Seq(Route) /\ Len(Append(th[t].acc, e)) = Len(th[t].acc) + 1
          /\ Append(th[t].acc, e) = th[t].acc \o <<e>>
          /\ <<e>> \in Seq(Route) /\ Range(<<e>>) = {e}
      <3>1. <<e>> \in Seq(Route) /\ Range(<<e>>) = {e}
        BY <2>3 DEF Range
      <3> QED
        BY <2>1, <2>3, <3>1, AppendProperties, AppendIsConcat
    <2>7. ASSUME Covers(th[t].acc, file.routes, th[t].i - 1)
          PROVE  Covers(th[t].acc \o <<e>>, file.routes, th[t].i)
      <3>1. Covers(th[t].acc \o <<e>>, file.routes, th[t].i - 1 + 1)
        BY <2>1, <2>3, <2>4, <2>6, <2>7, AtStep, CoversOneMore
      <3> QED
        BY <2>1, <3>1
    <2> QED
      BY <2>5, <2>6, <2>7
  <1> HIDE DEF used
  <1> QED
    BY <1>1, <1>2, ReadKeeps DEF Reading

(* The renamed routes are written if any name is new.                      *)
LEMMA RenamedKeeps ==
  ASSUME RInv, NEW t \in Thread, Renamed(t)
  PROVE  RInv'
  <1> DEFINE r == th[t]
             rec == [Idle EXCEPT !.pc = IF r.dirty THEN "open2" ELSE "publish", !.gen = r.gen,
                                 !.acc = IF r.dirty THEN r.acc ELSE <<>>, !.edges = r.edges,
                                 !.late = r.late]
  <1>1. /\ Goes(t, rec) /\ UNCHANGED <<file, user, mixed, paired, devVars>>
        /\ th[t].pc = "names" /\ th[t].i > th[t].n
    BY DEF Renamed, HasRead, At, Keep
  <1>2. /\ DOMAIN rec = DOMAIN Idle /\ rec.things = {} /\ rec.i = 1 /\ rec.n = 0
        /\ rec.pc \in {"open2", "publish"}
        /\ rec.pc = "open2" => rec.acc = th[t].acc
    BY DEF Idle
  <1>3. /\ th[t].acc \in Seq(Route) /\ Len(th[t].acc) <= th[t].i - 1 /\ th[t].n <= MaxEdges
        /\ th[t].i \in Nat /\ th[t].n \in Nat /\ th[t].i <= th[t].n + 1
        /\ Len(th[t].acc) \in Nat
    BY <1>1, AtStep DEF Local, Reading, Gathering
  <1>4. ~mixed => Covers(th[t].acc, file.routes, Len(file.routes))
    <2> SUFFICES ASSUME ~mixed PROVE Covers(th[t].acc, file.routes, Len(file.routes))
      OBVIOUS
    <2>1. th[t].n = Len(file.routes) /\ Covers(th[t].acc, file.routes, th[t].i - 1)
      BY <1>1, AtStep DEF Faithful, Reading
    <2>2. th[t].i - 1 = th[t].n
      BY <1>1, <1>3
    <2> QED
      BY <2>1, <2>2
  <1> HIDE DEF rec
  <1>5. Len(th[t].acc) <= MaxEdges
    BY <1>1, <1>3, AtStep
  <1>6. Local(rec)
    BY <1>2, <1>3, <1>5 DEF Local, Places, Reading, Gathering, Writing
  <1>7. Faithful(rec) \/ mixed
    BY <1>2, <1>4 DEF Faithful, Reading
  <1> QED
    BY <1>1, <1>2, <1>6, <1>7, QuietStep DEF Writing

(* The published graph is not that of the file.                            *)
LEMMA PublishKeeps ==
  ASSUME RInv, NEW t \in Thread, Publish(t)
  PROVE  RInv'
  <1>1. Local(Idle) /\ Faithful(Idle)
    BY Fresh DEF Idle, Places, Reading, Gathering, Writing
  <1> QED
    BY <1>1, QuietStep DEF Publish, At, Idle, Writing

(* Nothing is written: the file stays as it is, or is left mixed up.       *)
LEMMA CannotWriteKeeps ==
  ASSUME RInv, NEW t \in Thread, CannotWrite(t)
  PROVE  RInv'
  <1> DEFINE rec == [th[t] EXCEPT !.pc = AfterWrite(@), !.acc = <<>>, !.late = TRUE]
  <1>1. /\ Outdates(t, rec) /\ UNCHANGED <<file, user, paired, devVars>>
        /\ th[t].pc \in {"open1", "open2", "write1", "write2"}
        /\ Disturbs(t, th[t].pc \in {"write1", "write2"})
    BY DEF CannotWrite
  <1>2. /\ DOMAIN rec = DOMAIN Idle /\ rec.pc \in {"count", "publish"}
        /\ rec.things = th[t].things /\ rec.i = th[t].i /\ rec.n = th[t].n
    BY AtStep DEF Idle, AfterWrite
  <1>3. th[t].things \subseteq Thing /\ th[t].i \in Nat /\ th[t].n \in Nat
    BY AtStep DEF Local
  <1> HIDE DEF rec
  <1>4. Local(rec) /\ Faithful(rec)
    BY <1>2, <1>3, Fresh DEF Places, Reading, Gathering, Writing
  <1>5. mixed' \in BOOLEAN /\ (~mixed' => ~mixed /\ th[t].pc \notin {"write1", "write2"})
    BY <1>1 DEF Disturbs, RInv, Types
  <1>6. ~mixed' => rec.pc \notin Writing /\ th[t].pc \notin Writing
    BY <1>1, <1>2, <1>5 DEF Writing
  <1>7. /\ seen' \in [Slot -> Card \cup {NoCard}] /\ plugged' \in [Slot -> Card \cup {NoCard}]
        /\ paired' \subseteq Speaker
    BY <1>1 DEF RInv, Types, devVars
  <1> QED
    BY <1>1, <1>4, <1>5, <1>6, <1>7, StepKeeps

-----------------------------------------------------------------------------
(* The steps on the file.                                                  *)

(* With both threads out of the file, it says what the user saved.         *)
LEMMA KeptAtStep ==
  ASSUME RInv, NEW t \in Thread, ~mixed, th[t].pc \notin Writing, Rests(Other(t))
  PROVE  Kept
  <1>1. th[Other(t)].pc \notin Writing
    BY DEF Rests, Writing
  <1> QED
    BY <1>1, TwoThreads DEF RInv, KeptInv

(* A file that was emptied says that there are no routes.                  *)
LEMMA EmptyIsAFile == Empty \in File /\ Len(Empty.routes) <= MaxEdges
  BY RoutingAssumption DEF File

(* A thread that writes alone leaves the file unmixed.                     *)
LEMMA DisturbsType ==
  ASSUME RInv, NEW t \in Thread, NEW lost \in BOOLEAN, Disturbs(t, lost)
  PROVE  mixed' \in BOOLEAN /\ (mixed' \/ Rests(Other(t))) /\ (~mixed' => ~mixed)
  BY DEF RInv, Types, Disturbs

(* saveRoutes() empties the file with the routes in hand.                  *)
LEMMA OpenKeeps ==
  ASSUME RInv, NEW t \in Thread, OpenFile(t)
  PROVE  RInv'
  <1> DEFINE rec == [th[t] EXCEPT !.pc = IF @ = "open1" THEN "write1" ELSE "write2",
                                  !.acc = [routes |-> @, helper |-> file.helper]]
  <1>1. /\ Outdates(t, rec) /\ file' = Empty /\ Disturbs(t, FALSE)
        /\ th[t].pc \in {"open1", "open2"} /\ UNCHANGED <<seen, plugged, paired, user>>
    BY DEF OpenFile, devVars
  <1>2. /\ DOMAIN rec = DOMAIN Idle /\ rec.pc \in {"write1", "write2"}
        /\ rec.things = th[t].things /\ rec.i = th[t].i /\ rec.n = th[t].n
        /\ rec.acc = [routes |-> th[t].acc, helper |-> file.helper]
    BY AtStep DEF Idle
  <1>3. /\ th[t].things \subseteq Thing /\ th[t].i \in Nat /\ th[t].n \in Nat
        /\ th[t].acc \in Seq(Route) /\ Len(th[t].acc) <= MaxEdges
    BY <1>1, AtStep DEF Local, Gathering
  <1> HIDE DEF rec
  <1>4. rec.acc \in File /\ rec.acc.routes = th[t].acc /\ rec.acc.helper = file.helper
    BY <1>2, <1>3, AtStep DEF File
  <1>5. Local(rec)
    BY <1>2, <1>3, <1>4 DEF Local, Places, Reading, Gathering, Writing
  <1>6. mixed' \in BOOLEAN /\ (mixed' \/ Rests(Other(t))) /\ (~mixed' => ~mixed)
    BY <1>1, DisturbsType
  <1>7. ASSUME ~mixed'
        PROVE  InHand(rec)
    <2>1. ~mixed /\ Rests(Other(t)) /\ th[t].pc \notin Writing
      BY <1>1, <1>6, <1>7 DEF Writing
    <2>2. file.helper = user.helper /\ Same(file.routes, user.routes)
      BY <2>1, KeptAtStep DEF Kept
    <2>3. Covers(th[t].acc, file.routes, Len(file.routes))
      BY <1>1, <2>1, AtStep DEF Faithful
    <2>4. Same(th[t].acc, file.routes)
      BY <2>3, AtStep, CoversAll
    <2>5. user.routes \in Seq(Route)
      BY DEF RInv, Types, File
    <2>6. Same(th[t].acc, user.routes)
      BY <1>3, <2>2, <2>4, <2>5, AtStep, SameOnceMore
    <2> QED
      BY <1>2, <1>4, <2>2, <2>6 DEF InHand
  <1>8. file' \in File /\ Len(file'.routes) <= MaxEdges /\ user' \in File
    BY <1>1, EmptyIsAFile DEF RInv, Types
  <1>9. rec.pc \notin Reading \cup {"open1", "open2"} /\ rec.pc \in Writing
    BY <1>2 DEF Reading, Writing
  <1> QED
    BY <1>1, <1>5, <1>6, <1>7, <1>8, <1>9, FileStepKeeps

(* saveRoutes() writes what it had in hand.                                *)
LEMMA WriteKeeps ==
  ASSUME RInv, NEW t \in Thread, WriteFile(t)
  PROVE  RInv'
  <1> DEFINE rec == [th[t] EXCEPT !.pc = AfterWrite(@), !.acc = <<>>]
  <1>1. /\ Outdates(t, rec) /\ file' = th[t].acc /\ Disturbs(t, FALSE)
        /\ th[t].pc \in {"write1", "write2"} /\ UNCHANGED <<seen, plugged, paired, user>>
    BY DEF WriteFile, devVars
  <1>2. /\ DOMAIN rec = DOMAIN Idle /\ rec.pc \in {"count", "publish"}
        /\ rec.things = th[t].things /\ rec.i = th[t].i /\ rec.n = th[t].n
    BY AtStep DEF Idle, AfterWrite
  <1>3. /\ th[t].things \subseteq Thing /\ th[t].i \in Nat /\ th[t].n \in Nat
        /\ th[t].acc \in File /\ Len(th[t].acc.routes) <= MaxEdges
    BY <1>1, AtStep DEF Local, Writing
  <1> HIDE DEF rec
  <1>4. Local(rec)
    BY <1>2, <1>3, Fresh DEF Places, Reading, Gathering, Writing
  <1>5. mixed' \in BOOLEAN /\ (mixed' \/ Rests(Other(t))) /\ (~mixed' => ~mixed)
    BY <1>1, DisturbsType
  <1>6. ~mixed' => file'.helper = user'.helper /\ Same(file'.routes, user'.routes)
    BY <1>1, <1>5, AtStep DEF InHand
  <1>7. file' \in File /\ Len(file'.routes) <= MaxEdges /\ user' \in File
    BY <1>1, <1>3 DEF RInv, Types
  <1>8. rec.pc \notin Reading \cup {"open1", "open2"} /\ rec.pc \notin Writing
    BY <1>2 DEF Reading, Writing
  <1> QED
    BY <1>1, <1>4, <1>5, <1>6, <1>7, <1>8, FileStepKeeps

-----------------------------------------------------------------------------
(* The main thread, the Bluetooth thread and the cards.                    *)

(* A thread at rest or at the start of a reload has nothing in hand.       *)
LEMMA IdleAndBegin ==
  /\ Local(Idle) /\ Faithful(Idle) /\ Idle.pc = "idle"
  /\ Local(Begin) /\ Faithful(Begin) /\ Begin.pc = "load"
  /\ \A pc \in {"check", "off"} : LET r == [Idle EXCEPT !.pc = pc]
                                  IN  Local(r) /\ Faithful(r) /\ r.pc = pc
  BY Fresh DEF Idle, Begin, Places, Reading, Gathering, Writing

(* setRoutingHelper() and the upload empty the file with the new one in    *)
(* hand.                                                                   *)
LEMMA EmptiedKeeps ==
  ASSUME RInv, NEW pc \in {"put", "helper"}, NEW f \in File, Len(f.routes) <= MaxEdges,
         At("main", "idle"), file' = Empty, Disturbs("main", FALSE),
         Outdates("main", [Idle EXCEPT !.pc = pc, !.acc = f]),
         UNCHANGED <<seen, plugged, paired, user>>,
         pc = "put" \/ (Kept => Same(f.routes, user.routes))
  PROVE  RInv'
  <1> DEFINE rec == [Idle EXCEPT !.pc = pc, !.acc = f]
  <1>1. /\ DOMAIN rec = DOMAIN Idle /\ rec.pc = pc
        /\ rec.things = {} /\ rec.i = 1 /\ rec.n = 0 /\ rec.acc = f
    BY DEF Idle
  <1>2. Outdates("main", rec) /\ "main" \in Thread
    BY DEF Thread
  <1> HIDE DEF rec
  <1>3. Local(rec)
    BY <1>1 DEF Local, Places, Reading, Gathering, Writing
  <1>4. mixed' \in BOOLEAN /\ (mixed' \/ Rests(Other("main"))) /\ (~mixed' => ~mixed)
    BY <1>2, DisturbsType
  <1>5. ~mixed' => InHand(rec)
    BY <1>1, <1>2, <1>4, KeptAtStep DEF InHand, At, Writing
  <1>6. file' \in File /\ Len(file'.routes) <= MaxEdges /\ user' \in File
    BY EmptyIsAFile DEF RInv, Types
  <1>7. rec.pc \notin Reading \cup {"open1", "open2"} /\ rec.pc \in Writing
    BY <1>1 DEF Reading, Writing
  <1> QED
    BY <1>2, <1>3, <1>4, <1>5, <1>6, <1>7, FileStepKeeps

(* The upload of routing.txt first empties it.                             *)
LEMMA SaveKeeps ==
  ASSUME RInv, NEW f \in Files, Save(f)
  PROVE  RInv'
  <1>1. f \in File /\ Len(f.routes) <= MaxEdges
    BY RoutingAssumption
  <1> QED
    BY <1>1, EmptiedKeeps DEF Save, Ready, devVars

(* setRoutingHelper() takes the routes as they are.                        *)
LEMMA SetHelperKeeps ==
  ASSUME RInv, NEW on \in BOOLEAN, SetHelper(on)
  PROVE  RInv'
  <1> DEFINE f == [routes |-> file.routes, helper |-> on]
  <1>1. f \in File /\ f.routes = file.routes /\ Len(f.routes) <= MaxEdges
    BY DEF RInv, Types, File
  <1>2. Kept => Same(f.routes, user.routes)
    BY <1>1 DEF Kept
  <1>3. /\ Outdates("main", [Idle EXCEPT !.pc = "helper", !.acc = f])
        /\ At("main", "idle") /\ file' = Empty /\ Disturbs("main", FALSE)
        /\ UNCHANGED <<seen, plugged, paired, user>>
    BY DEF SetHelper, Ready, devVars
  <1> HIDE DEF f
  <1> QED
    BY <1>1, <1>2, <1>3, EmptiedKeeps

(* The upload is complete: this is what the user saved.                    *)
LEMMA SavedKeeps ==
  ASSUME RInv, Saved
  PROVE  RInv'
  <1>1. "main" \in Thread /\ Other("main") = "bluetooth"
    BY DEF Thread, Other
  <1>2. /\ th["main"].pc = "put" /\ file' = th["main"].acc /\ user' = file'
        /\ mixed' = ~Rests("bluetooth") /\ Outdates("main", Idle)
        /\ UNCHANGED <<seen, plugged, paired>>
    BY DEF Saved, At, devVars
  <1>3. file' \in File /\ Len(file'.routes) <= MaxEdges
    BY <1>1, <1>2, AtStep DEF Local, Writing
  <1>4. Same(file'.routes, user'.routes)
    <2>1. file'.routes \in Seq(Route)
      BY <1>3 DEF File
    <2> QED
      BY <1>2, <2>1, SameItself
  <1>5. mixed' \in BOOLEAN /\ (mixed' \/ Rests(Other("main")))
    BY <1>1, <1>2 DEF Rests
  <1>6. Idle.pc \notin Reading \cup {"open1", "open2"} /\ Idle.pc \notin Writing
    BY DEF Idle, Reading, Writing
  <1> QED
    BY <1>1, <1>2, <1>3, <1>4, <1>5, <1>6, IdleAndBegin, FileStepKeeps

(* setRoutingHelper() writes the same routes, with the mixer or without.   *)
LEMMA HelperSetKeeps ==
  ASSUME RInv, HelperSet
  PROVE  RInv'
  <1>1. "main" \in Thread
    BY DEF Thread
  <1>2. /\ th["main"].pc = "helper" /\ file' = th["main"].acc
        /\ user' = [user EXCEPT !.helper = file'.helper] /\ Disturbs("main", FALSE)
        /\ Outdates("main", Begin) /\ UNCHANGED <<seen, plugged, paired>>
    BY DEF HelperSet, At, devVars
  <1>3. file' \in File /\ Len(file'.routes) <= MaxEdges
    BY <1>1, <1>2, AtStep DEF Local, Writing
  <1>4. user' \in File /\ user'.routes = user.routes /\ user'.helper = file'.helper
    <2>1. user \in File /\ file'.helper \in BOOLEAN
      BY <1>3 DEF RInv, Types, File
    <2> QED
      BY <1>2, <2>1 DEF File
  <1>5. mixed' \in BOOLEAN /\ (mixed' \/ Rests(Other("main"))) /\ (~mixed' => ~mixed)
    BY <1>1, <1>2, DisturbsType
  <1>6. ~mixed' => Same(file'.routes, user'.routes)
    BY <1>1, <1>2, <1>4, <1>5, AtStep DEF InHand
  <1>7. Begin.pc \notin Reading \cup {"open1", "open2"} /\ Begin.pc \notin Writing
    BY IdleAndBegin DEF Reading, Writing
  <1> QED
    BY <1>1, <1>2, <1>3, <1>4, <1>5, <1>6, <1>7, IdleAndBegin, FileStepKeeps

(* The steps that only set a thread going, or to rest.                     *)
LEMMA GoingKeeps ==
  ASSUME RInv, NEW t \in Thread, NEW rec \in {Idle, Begin, [Idle EXCEPT !.pc = "check"]},
         Goes(t, rec) \/ Outdates(t, rec), UNCHANGED <<file, user, mixed>>,
         th[t].pc \notin Writing,
         seen' \in [Slot -> Card \cup {NoCard}], plugged' \in [Slot -> Card \cup {NoCard}],
         paired' \subseteq Speaker
  PROVE  RInv'
  <1>1. Local(rec) /\ Faithful(rec) /\ rec.pc \in {"idle", "load", "check"}
    BY IdleAndBegin
  <1>2. rec.pc \notin Writing /\ mixed \in BOOLEAN
    BY <1>1 DEF Writing, RInv, Types
  <1> QED
    BY <1>1, <1>2, StepKeeps

(* A scan of the devices says nothing of the file.                         *)
LEMMA RescanKeeps ==
  ASSUME RInv, NEW force \in BOOLEAN, Rescan(force)
  PROVE  RInv'
  <1>1. /\ \/ Goes("main", Begin)
           \/ Goes("main", [Idle EXCEPT !.pc = "check"])
        /\ seen' = plugged /\ UNCHANGED <<file, user, mixed, plugged, paired>>
        /\ th["main"].pc \notin Writing /\ "main" \in Thread
    BY DEF Rescan, Ready, At, Begin, Writing, Thread
  <1> QED
    BY <1>1, GoingKeeps DEF RInv, Types

(* A reload is asked for, or found to be due.                              *)
LEMMA MainStepKeeps ==
  ASSUME RInv, Start \/ Check \/ Reload
  PROVE  RInv'
  <1>1. UNCHANGED <<file, user, mixed, seen, plugged, paired>>
    BY DEF Start, Check, Reload, Keep, devVars
  <1>2. \E t \in Thread, rec \in {Idle, Begin} : Goes(t, rec) /\ th[t].pc \notin Writing
    BY DEF Start, Check, Reload, Ready, At, Writing, Thread
  <1> QED
    BY <1>1, <1>2, GoingKeeps DEF RInv, Types

(* The effect and the paired devices change, and a reload follows.         *)
LEMMA SetKeeps ==
  ASSUME RInv, (\E w \in 0..2 : SetEffect(w)) \/ (\E pair \in SUBSET Speaker : SetPaired(pair))
  PROVE  RInv'
  <1>1. UNCHANGED <<file, user, mixed, seen, plugged>> /\ paired' \subseteq Speaker
    BY DEF SetEffect, SetPaired, devVars, RInv, Types
  <1>2. \E t \in Thread : Outdates(t, Begin) /\ th[t].pc \notin Writing
    BY DEF SetEffect, SetPaired, Ready, At, Writing, Thread
  <1> QED
    BY <1>1, <1>2, GoingKeeps DEF RInv, Types

(* A card comes or goes while a reload is under way.                       *)
LEMMA PlugKeeps ==
  ASSUME RInv, NEW k \in Slot, NEW c \in Card \cup {NoCard}, Plug(k, c)
  PROVE  RInv'
  <1>1. /\ UNCHANGED <<seen, paired, file, user, mixed, th>>
        /\ plugged' \in [Slot -> Card \cup {NoCard}]
    BY DEF Plug, RInv, Types
  <1> QED
    BY <1>1 DEF RInv, Types, KeptInv, Kept, Local, Faithful, InHand

-----------------------------------------------------------------------------
(* The invariant holds.                                                    *)

(* At the start the file is the one the user saved.                        *)
LEMMA RInvAtFirst == Init => RInv
  <1> SUFFICES ASSUME Init PROVE RInv
    OBVIOUS
  <1>1. /\ plugged \in [Slot -> Card \cup {NoCard}] /\ seen \in [Slot -> Card \cup {NoCard}]
        /\ paired \subseteq Speaker /\ file \in File /\ Len(file.routes) <= MaxEdges
        /\ user = file /\ mixed = FALSE
    BY RoutingAssumption DEF Init
  <1>2. /\ DOMAIN th = Thread
        /\ \A t \in Thread : th[t] \in {Begin, [Idle EXCEPT !.pc = "off"]}
    BY DEF Init, Thread
  <1>3. \A t \in Thread : Local(th[t]) /\ Faithful(th[t]) /\ th[t].pc \in {"load", "off"}
    BY <1>2, IdleAndBegin
  <1>4. \A t \in Thread : InHand(th[t])
    BY <1>3 DEF InHand
  <1>5. Kept
    <2>1. file.routes \in Seq(Route)
      BY <1>1 DEF File
    <2> QED
      BY <1>1, <2>1, SameItself DEF Kept
  <1> QED
    BY <1>1, <1>2, <1>3, <1>4, <1>5 DEF RInv, Types, KeptInv

(* Every step of either thread keeps the invariant.                        *)
LEMMA RInvIsKept == RInv /\ [Next]_vars => RInv'
  <1> SUFFICES ASSUME RInv, [Next]_vars PROVE RInv'
    OBVIOUS
  <1>1. CASE UNCHANGED vars
    BY <1>1 DEF vars, devVars, RInv, Types, KeptInv, Kept, Local, Faithful, InHand
  <1>2. ASSUME NEW t \in Thread, ReloadStep(t)
        PROVE  RInv'
    BY <1>2, LoadKeeps, CopyKeeps, CountKeeps, CannotReadKeeps, MigrateKeeps, MigrationKeeps,
       BuildKeeps, BuiltKeeps, RenameKeeps, RenamedKeeps, OpenKeeps, WriteKeeps,
       CannotWriteKeeps, PublishKeeps DEF ReloadStep
  <1>3. ASSUME NEW force \in BOOLEAN, Rescan(force) PROVE RInv'
    BY <1>3, RescanKeeps
  <1>4. CASE Start \/ Check \/ Reload
    BY <1>4, MainStepKeeps
  <1>5. CASE Saved
    BY <1>5, SavedKeeps
  <1>6. CASE HelperSet
    BY <1>6, HelperSetKeeps
  <1>7. ASSUME NEW f \in Files, Save(f) PROVE RInv'
    BY <1>7, SaveKeeps
  <1>8. ASSUME NEW on \in BOOLEAN, SetHelper(on) PROVE RInv'
    BY <1>8, SetHelperKeeps
  <1>9. CASE (\E w \in 0..2 : SetEffect(w)) \/ (\E pair \in SUBSET Speaker : SetPaired(pair))
    BY <1>9, SetKeeps
  <1>10. ASSUME NEW k \in Slot, NEW c \in Card \cup {NoCard}, Plug(k, c) PROVE RInv'
    BY <1>10, PlugKeeps
  <1> QED
    BY <1>1, <1>2, <1>3, <1>4, <1>5, <1>6, <1>7, <1>8, <1>9, <1>10 DEF Next

(* A reload renames what routing.txt routes and loses none of it, however  *)
(* its reads of the file, one for every route, fall between unplugged      *)
(* cards, forgotten devices, changes of the effect and reloads of the      *)
(* other thread, and whether or not the file can be read; nor does it add   *)
(* a route.  Left out is a file that both threads were at work on, and one *)
(* whose text could not be written (saveRoutes).                           *)
THEOREM RoutesStay == Spec => []RoutesAreKept
  <1>1. RInv => RoutesAreKept
    <2> SUFFICES ASSUME RInv, Quiet, ~mixed PROVE RoutesAreKept
      BY DEF RoutesAreKept
    <2>1. \A t \in Thread : th[t].pc \notin Writing
      BY DEF Quiet, Rests, Writing
    <2> QED
      BY <2>1 DEF RInv, KeptInv, Kept, Same, RoutesAreKept
  <1> QED
    BY <1>1, RInvAtFirst, RInvIsKept, PTL DEF Spec

(* What a reload writes back stays within AUDIO_GRAPH_MAX_EDGES, the most  *)
(* that the next one reads, also when one old route has become one to      *)
(* every paired device and when both threads write the file.               *)
THEOREM FileStaysReadable == Spec => [](file \in File /\ Len(file.routes) <= MaxEdges)
  <1>1. RInv => file \in File /\ Len(file.routes) <= MaxEdges
    BY DEF RInv, Types
  <1> QED
    BY <1>1, RInvAtFirst, RInvIsKept, PTL DEF Spec

-----------------------------------------------------------------------------
-----------------------------------------------------------------------------
(* The graph that the file makes of the things there are.                  *)

(* An element of a set, whatever the set is called.                        *)
Some(S) == CHOOSE r \in S : TRUE

(* The routes that are in use, of one route more.                          *)
LEMMA InUseNext ==
  ASSUME NEW s \in Seq(Route), NEW e \in Route, NEW things, NEW w
  PROVE  InUse(Append(s, e), things, w) =
            IF Verdict(e, things, w) = "active" THEN Append(InUse(s, things, w), e)
            ELSE InUse(s, things, w)
  <1> DEFINE q == Append(s, e)
             n == Len(s)
             on == {j \in DOMAIN s : Verdict(s[j], things, w) = "active"}
             onq == {j \in DOMAIN q : Verdict(q[j], things, w) = "active"}
             upto(S, j) == {k \in S : k <= j}
             nth(S, m) == {j \in S : Cardinality(upto(S, j)) = m}
             c == Cardinality(on)
             f == [m \in 1..c |-> Some({s[j] : j \in nth(on, m)})]
  <1>1. /\ n \in Nat /\ DOMAIN s = 1..n /\ q \in Seq(Route) /\ DOMAIN q = 1..(n + 1)
        /\ q[n + 1] = e /\ \A j \in 1..n : q[j] = s[j]
    OBVIOUS
  <1>2. InUse(s, things, w) = f
    BY DEF InUse, Some
  <1>3. InUse(q, things, w) = [m \in 1..Cardinality(onq) |-> Some({q[j] : j \in nth(onq, m)})]
    BY DEF InUse, Some
  <1>4. on \in SUBSET (1..n) /\ IsFiniteSet(on) /\ c \in Nat
    <2>1. on \in SUBSET (1..n) /\ IsFiniteSet(1..n)
      BY <1>1, FS_Interval
    <2> QED BY <2>1, FS_Subset, FS_CardinalityType
  <1> DEFINE T == {f[m] : m \in 1..c} \cup {e}
  <1>5. f \in Seq(T) /\ Len(f) = c /\ DOMAIN f = 1..c /\ e \in T
    <2>1. DOMAIN f = 1..c
      OBVIOUS
    <2>2. f \in [1..c -> T] /\ e \in T
      BY Zenon
    <2> HIDE DEF f, T, c
    <2>3. f \in Seq(T)
      BY <1>4, <2>2, SeqDef
    <2> QED BY <1>4, <2>1, <2>2, <2>3, LenProperties
  <1> HIDE DEF q, n, on, onq, c
  <1>6. CASE Verdict(e, things, w) = "active"
    <2>1. onq = on \cup {n + 1} /\ n + 1 \notin on
      <3>1. \A j \in 1..n : j \in onq <=> j \in on
        BY <1>1 DEF on, onq
      <3>2. n + 1 \in onq /\ onq \subseteq 1..(n + 1) /\ on \subseteq 1..n
        BY <1>1, <1>6 DEF on, onq
      <3>3. 1..(n + 1) = (1..n) \cup {n + 1} /\ n + 1 \notin 1..n
        BY <1>1
      <3> QED BY <3>1, <3>2, <3>3
    <2>2. Cardinality(onq) = c + 1
      BY <1>4, <2>1, FS_AddElement DEF c
    <2>3. \A j \in on : upto(onq, j) = upto(on, j)
      <3>1. \A j \in on : ~(n + 1 <= j)
        BY <1>1, <1>4
      <3> QED BY <2>1, <3>1
    <2>4. upto(onq, n + 1) = onq
      <3>1. \A j \in on : j <= n + 1
        BY <1>1, <1>4
      <3> QED BY <1>1, <2>1, <3>1
    <2>5. ASSUME NEW j \in on PROVE Cardinality(upto(on, j)) \in Nat /\ Cardinality(upto(on, j)) <= c
      <3>1. upto(on, j) \in SUBSET on
        OBVIOUS
      <3> QED BY <1>4, <3>1, FS_Subset, FS_CardinalityType DEF c
    <2>6. ASSUME NEW m \in 1..c PROVE {q[j] : j \in nth(onq, m)} = {s[j] : j \in nth(on, m)}
      <3>1. c + 1 # m
        BY <1>4
      <3>2. nth(onq, m) = nth(on, m)
        <4>1. n + 1 \notin nth(onq, m) /\ n + 1 \notin nth(on, m)
          BY <2>1, <2>2, <2>4, <3>1
        <4>2. \A j \in on : j \in nth(onq, m) <=> j \in nth(on, m)
          BY <2>1, <2>3
        <4> QED BY <2>1, <4>1, <4>2
      <3>3. \A j \in nth(on, m) : q[j] = s[j]
        BY <1>1, <1>4
      <3> QED BY <3>2, <3>3
    <2>7. {q[j] : j \in nth(onq, c + 1)} = {e}
      <3>1. \A j \in on : Cardinality(upto(on, j)) # c + 1
        BY <1>4, <2>5
      <3>2. nth(onq, c + 1) = {n + 1}
        <4>1. n + 1 \in nth(onq, c + 1)
          BY <2>1, <2>2, <2>4
        <4>2. \A j \in on : j \notin nth(onq, c + 1)
          BY <2>1, <2>3, <3>1
        <4> QED BY <2>1, <4>1, <4>2
      <3> QED BY <1>1, <3>2
    <2>8. Some({e}) = e
      BY DEF Some
    <2> DEFINE g == [m \in 1..(c + 1) |-> Some({q[j] : j \in nth(onq, m)})]
    <2>9. InUse(q, things, w) = g
      BY <1>3, <2>2
    <2>10. g[c + 1] = e /\ \A m \in 1..c : g[m] = f[m]
      <3>1. c + 1 \in 1..(c + 1) /\ 1..c \subseteq 1..(c + 1)
        BY <1>4
      <3>2. g[c + 1] = e
        BY <2>7, <2>8, <3>1
      <3>3. ASSUME NEW m \in 1..c PROVE g[m] = f[m]
        BY <2>6, <3>1
      <3> QED BY <3>2, <3>3
    <2>11. DOMAIN g = 1..(c + 1)
      OBVIOUS
    <2> HIDE DEF g, f, T
    <2> DEFINE h == Append(f, e)
    <2>12. h \in Seq(T) /\ Len(h) = c + 1 /\ (\A m \in 1..c : h[m] = f[m]) /\ h[c + 1] = e
      BY <1>4, <1>5, AppendProperties
    <2> HIDE DEF h
    <2>13. DOMAIN h = 1..(c + 1) /\ h = [m \in 1..(c + 1) |-> h[m]]
      BY <2>12, LenProperties
    <2>14. \A m \in 1..(c + 1) : g[m] = h[m]
      <3>1. \A m \in 1..(c + 1) : m \in 1..c \/ m = c + 1
        BY <1>4
      <3> QED BY <2>10, <2>12, <3>1
    <2>15. g = h
      <3>1. g = [m \in 1..(c + 1) |-> g[m]]
        BY <2>11 DEF g
      <3> QED BY <2>13, <2>14, <3>1
    <2> QED BY <1>2, <1>6, <2>9, <2>15 DEF q, h
  <1>7. CASE Verdict(e, things, w) # "active"
    <2>1. onq = on
      <3>1. \A j \in 1..n : j \in onq <=> j \in on
        BY <1>1 DEF on, onq
      <3>2. n + 1 \notin onq /\ onq \subseteq 1..(n + 1) /\ on \subseteq 1..n
        BY <1>1, <1>7 DEF on, onq
      <3>3. 1..(n + 1) = (1..n) \cup {n + 1}
        BY <1>1
      <3> QED BY <3>1, <3>2, <3>3
    <2>2. ASSUME NEW m \in 1..c PROVE {q[j] : j \in nth(on, m)} = {s[j] : j \in nth(on, m)}
      BY <1>1, <1>4
    <2>3. InUse(q, things, w) = [m \in 1..c |-> Some({q[j] : j \in nth(on, m)})]
      BY <1>3, <2>1 DEF c
    <2> QED BY <1>2, <1>7, <2>2, <2>3 DEF q
  <1> QED BY <1>6, <1>7

(* No more routes are in use than there are.                               *)
LEMMA InUseIsShort ==
  ASSUME NEW s \in Seq(Route), NEW things, NEW w
  PROVE  Len(InUse(s, things, w)) \in Nat /\ Len(InUse(s, things, w)) <= Len(s)
  <1> DEFINE on == {j \in DOMAIN s : Verdict(s[j], things, w) = "active"}
             nth(m) == {j \in on : Cardinality({k \in on : k <= j}) = m}
             n == Len(s)
             c == Cardinality(on)
             f == [m \in 1..c |-> Some({s[j] : j \in nth(m)})]
             T == {f[m] : m \in 1..c}
  <1>1. InUse(s, things, w) = f
    BY DEF InUse, Some
  <1>2. c \in Nat /\ c <= n /\ n \in Nat
    <2>1. n \in Nat /\ on \in SUBSET (1..n) /\ IsFiniteSet(1..n) /\ Cardinality(1..n) = n
      BY FS_Interval
    <2> QED BY <2>1, FS_Subset, FS_CardinalityType
  <1>3. f \in [1..c -> T] /\ DOMAIN f = 1..c
    BY Zenon
  <1> HIDE DEF f, T, c, n
  <1>4. Len(f) = c
    <2>1. f \in Seq(T)
      BY <1>2, <1>3, SeqDef
    <2> QED BY <1>2, <1>3, <2>1, LenProperties
  <1> QED BY <1>1, <1>2, <1>4 DEF n

(* The first routes with the names they should have.                       *)
LEMMA NormalFirst ==
  ASSUME NEW s \in Seq(Route), NEW things, NEW dev \in [Slot -> Card \cup {NoCard}]
  PROVE  /\ AllNormal(s, things, dev) \in Seq(Route) /\ Len(AllNormal(s, things, dev)) = Len(s)
         /\ AllNormal(SubSeq(s, 1, 0), things, dev) = <<>>
         /\ \A k \in 1..Len(s) :
               AllNormal(SubSeq(s, 1, k), things, dev) =
                  Append(AllNormal(SubSeq(s, 1, k - 1), things, dev), NormalRoute(s[k], things, dev))
         /\ SubSeq(s, 1, Len(s)) = s
  <1> DEFINE F(q) == AllNormal(q, things, dev)
             e(j) == NormalRoute(s[j], things, dev)
  <1>1. Len(s) \in Nat /\ DOMAIN s = 1..Len(s) /\ \A j \in 1..Len(s) : s[j] \in Route
    OBVIOUS
  <1>2. ASSUME NEW q \in Seq(Route) PROVE F(q) \in Seq(Route) /\ Len(F(q)) = Len(q) /\ DOMAIN F(q) = DOMAIN q
    <2>1. Len(q) \in Nat /\ DOMAIN q = 1..Len(q) /\ \A j \in 1..Len(q) : q[j] \in Route
      OBVIOUS
    <2>2. \A j \in 1..Len(q) : NormalRoute(q[j], things, dev) \in Route
      BY <2>1, NormalRouteContinues
    <2>3. F(q) = [j \in 1..Len(q) |-> NormalRoute(q[j], things, dev)]
      BY <2>1 DEF AllNormal
    <2>4. F(q) \in [1..Len(q) -> Route]
      BY <2>2, <2>3
    <2>5. F(q) \in Seq(Route)
      BY <2>1, <2>4, SeqDef
    <2>6. DOMAIN F(q) = 1..Len(q)
      BY <2>3
    <2> HIDE DEF F
    <2> QED BY <2>1, <2>5, <2>6, LenProperties
  <1>3. ASSUME NEW k \in 0..Len(s)
        PROVE  /\ SubSeq(s, 1, k) \in Seq(Route) /\ Len(SubSeq(s, 1, k)) = k
               /\ \A j \in 1..k : SubSeq(s, 1, k)[j] = s[j]
    BY <1>1
  <1>4. SubSeq(s, 1, Len(s)) = s
    BY <1>1
  <1>5. F(<<>>) = <<>>
    BY DEF AllNormal
  <1>6. SubSeq(s, 1, 0) = <<>>
    OBVIOUS
  <1>7. ASSUME NEW k \in 1..Len(s)
        PROVE  F(SubSeq(s, 1, k)) = Append(F(SubSeq(s, 1, k - 1)), e(k))
    <2> DEFINE a == F(SubSeq(s, 1, k))
               b == F(SubSeq(s, 1, k - 1))
    <2>1. k \in Nat /\ k - 1 \in 0..Len(s) /\ k \in 0..Len(s)
      BY <1>1
    <2>2. a \in Seq(Route) /\ Len(a) = k /\ \A j \in 1..k : a[j] = e(j)
      <3>1. a \in Seq(Route) /\ Len(a) = k
        BY <1>2, <1>3, <2>1
      <3>2. ASSUME NEW j \in 1..k PROVE a[j] = e(j)
        BY <1>3, <2>1 DEF AllNormal
      <3> QED BY <3>1, <3>2
    <2>3. b \in Seq(Route) /\ Len(b) = k - 1 /\ \A j \in 1..(k - 1) : b[j] = e(j)
      <3>1. b \in Seq(Route) /\ Len(b) = k - 1
        BY <1>2, <1>3, <2>1
      <3>2. ASSUME NEW j \in 1..(k - 1) PROVE b[j] = e(j)
        BY <1>3, <2>1 DEF AllNormal
      <3> QED BY <3>1, <3>2
    <2>4. e(k) \in Route
      BY <1>1, NormalRouteContinues
    <2> HIDE DEF a, b, e
    <2>5. Append(b, e(k)) \in Seq(Route) /\ Len(Append(b, e(k))) = k
          /\ \A j \in 1..k : Append(b, e(k))[j] = e(j)
      BY <2>1, <2>3, <2>4
    <2>6. a = Append(b, e(k))
      BY <2>2, <2>5, SeqEqual
    <2> QED BY <2>6 DEF a, b
  <1> QED BY <1>2, <1>4, <1>5, <1>6, <1>7

(* A name that a reload has put in place is left as it is.                 *)
LEMMA NormalTwice ==
  ASSUME NEW things, NEW dev, \A k \in Occupied(dev) : StableId(dev, k) \in things, NEW id
  PROVE  Normal(Normal(id, things, dev), things, dev) = Normal(id, things, dev)
  <1> DEFINE is(k) == \/ id[1] \in {"card", "alias"} /\ dev[k] = id[2] /\ dev[k] \notin Nameless
                      \/ id = Index(k)
             found == {k \in Occupied(dev) : is(k)}
  <1>1. CASE id \in things \/ found = {}
    <2>1. Normal(id, things, dev) = id
      BY <1>1 DEF Normal
    <2> QED BY <2>1
  <1>2. CASE ~(id \in things \/ found = {})
    <2>1. Normal(id, things, dev) = StableId(dev, CHOOSE k \in found : TRUE)
      BY <1>2 DEF Normal
    <2>2. (CHOOSE k \in found : TRUE) \in found
      BY <1>2
    <2>3. Normal(id, things, dev) \in things
      BY <2>1, <2>2
    <2> QED BY <2>3 DEF Normal
  <1> QED BY <1>1, <1>2

(* The names of a route that it should have.                               *)
LEMMA NormalRouteIs ==
  ASSUME NEW s, NEW f, NEW d, NEW c, NEW things, NEW dev
  PROVE  NormalRoute([src |-> s, from |-> f, dst |-> d, to |-> c], things, dev) =
            [src |-> Normal(s, things, dev), from |-> f, dst |-> Normal(d, things, dev), to |-> c]
  <1> DEFINE r == [src |-> s, from |-> f, dst |-> d, to |-> c]
             a == Normal(s, things, dev)
             b == Normal(d, things, dev)
             g == [r EXCEPT !.src = a, !.dst = b]
             h == [src |-> a, from |-> f, dst |-> b, to |-> c]
             F == {"src", "from", "dst", "to"}
  <1>1. r.src = s /\ r.dst = d
    OBVIOUS
  <1>2. NormalRoute(r, things, dev) = g
    BY <1>1 DEF NormalRoute
  <1> HIDE DEF a, b
  <1>3. DOMAIN g = F /\ DOMAIN h = F
    OBVIOUS
  <1>4. g.src = a /\ g.from = f /\ g.dst = b /\ g.to = c
    OBVIOUS
  <1>5. h.src = a /\ h.from = f /\ h.dst = b /\ h.to = c
    OBVIOUS
  <1>6. g = [x \in F |-> g[x]] /\ h = [x \in F |-> h[x]]
    BY <1>3
  <1> HIDE DEF g, h
  <1>7. \A x \in F : g[x] = h[x]
    BY <1>4, <1>5
  <1>8. g = h
    BY <1>6, <1>7
  <1> QED BY <1>2, <1>8 DEF a, b, h

(* Nor is a route.                                                         *)
LEMMA NormalRouteTwice ==
  ASSUME NEW things, NEW dev, \A k \in Occupied(dev) : StableId(dev, k) \in things, NEW r \in Route
  PROVE  NormalRoute(NormalRoute(r, things, dev), things, dev) = NormalRoute(r, things, dev)
  <1> DEFINE N(id) == Normal(id, things, dev)
  <1>1. \A id : N(N(id)) = N(id)
    BY NormalTwice
  <1>2. PICK s, f, d, c : r = [src |-> s, from |-> f, dst |-> d, to |-> c]
    BY DEF Route
  <1>3. NormalRoute(r, things, dev) = [src |-> N(s), from |-> f, dst |-> N(d), to |-> c]
    BY <1>2, NormalRouteIs
  <1>4. NormalRoute(NormalRoute(r, things, dev), things, dev)
           = [src |-> N(N(s)), from |-> f, dst |-> N(N(d)), to |-> c]
    BY <1>3, NormalRouteIs
  <1> QED BY <1>1, <1>3, <1>4

(* Nor are the names of a whole file changed once more.                    *)
LEMMA AllNormalTwice ==
  ASSUME NEW things, NEW dev \in [Slot -> Card \cup {NoCard}],
         \A k \in Occupied(dev) : StableId(dev, k) \in things, NEW s \in Seq(Route)
  PROVE  AllNormal(AllNormal(s, things, dev), things, dev) = AllNormal(s, things, dev)
  <1> DEFINE q == AllNormal(s, things, dev)
             p == AllNormal(q, things, dev)
  <1>1. q \in Seq(Route) /\ Len(q) = Len(s)
    BY NormalFirst
  <1>2. p \in Seq(Route) /\ Len(p) = Len(q)
    BY <1>1, NormalFirst
  <1>3. ASSUME NEW j \in 1..Len(q) PROVE p[j] = q[j]
    <2>1. p[j] = NormalRoute(q[j], things, dev)
      BY <1>1 DEF AllNormal
    <2>2. q[j] = NormalRoute(s[j], things, dev) /\ s[j] \in Route
      BY <1>1 DEF AllNormal
    <2> QED BY <2>1, <2>2, NormalRouteTwice
  <1> QED BY <1>1, <1>2, <1>3, SeqEqual


-----------------------------------------------------------------------------
(* The graph and the reloads under way follow the file and the things.     *)

(* What a reload has made of what it read is what there is, as long as     *)
(* nothing has changed since it looked up the generation.                  *)
Exact(r) ==
  ~r.late /\ r.gen = generation =>
    LET things == Things(seen, wide, paired, IF r.pc = "write1" THEN r.acc.helper ELSE file.helper)
    IN  /\ r.pc \in {"old", "migrate", "open1", "write1", "count", "build", "names"} =>
              r.things = things /\ r.wide = wide
        /\ r.pc = "build" =>
              r.n = Len(file.routes)
              /\ r.acc = InUse(AllNormal(SubSeq(file.routes, 1, r.i - 1), things, seen), things, wide)
        /\ r.pc = "names" =>
              r.n = Len(file.routes) /\ r.edges = Current
              /\ r.acc = AllNormal(SubSeq(file.routes, 1, r.i - 1), things, seen)
        /\ r.pc = "open2" => r.edges = Current /\ r.acc = AllNormal(file.routes, things, seen)
        /\ r.pc = "write2" =>
              r.edges = Compiled(r.acc.routes, Things(seen, wide, paired, r.acc.helper), seen, wide)
        /\ r.pc = "publish" => r.edges = Current

(* Between two reloads the graph is that of the file.                      *)
Followed ==
  (\A t \in Thread : th[t].pc \in {"off", "idle", "check"}) /\ owed = "no" /\ graph.gen = generation
    => graph.edges = Current

Generations ==
  /\ generation \in Nat /\ graph.gen \in Nat /\ graph.gen <= generation
  /\ \A t \in Thread : th[t].gen \in Nat /\ th[t].gen <= generation

ExactInv == Generations /\ Followed /\ \A t \in Thread : Exact(th[t])

(* Nothing is in use of a file without routes.                             *)
LEMMA InUseNone ==
  ASSUME NEW things, NEW w
  PROVE  InUse(<<>>, things, w) = <<>>
  <1> DEFINE on == {j \in DOMAIN <<>> : Verdict(<<>>[j], things, w) = "active"}
             nth(n) == {j \in on : Cardinality({k \in on : k <= j}) = n}
  <1>1. on = {} /\ Cardinality(on) = 0
    <2>1. DOMAIN <<>> = {}
      OBVIOUS
    <2>2. on = {}
      BY <2>1
    <2> QED BY <2>2, FS_EmptySet
  <1>2. InUse(<<>>, things, w) = [n \in 1..Cardinality(on) |-> Some({<<>>[j] : j \in nth(n)})]
    BY DEF InUse, Some
  <1> HIDE DEF on
  <1> QED BY <1>1, <1>2

(* What is there has its own name among the things.                        *)
LEMMA OwnNames ==
  ASSUME NEW dev, NEW w, NEW pair, NEW helper
  PROVE  \A k \in Occupied(dev) : StableId(dev, k) \in Things(dev, w, pair, helper)
  BY DEF Things

(* A step outdates the other thread, or leaves the file and what there is. *)
LEMMA StepIsExact ==
  ASSUME RInv, ExactInv, NEW t \in Thread, NEW rec,
         \/ Goes(t, rec) /\ UNCHANGED <<seen, wide, paired, file>>
         \/ Outdates(t, rec),
         UNCHANGED generation, graph'.gen \in Nat, graph'.gen <= generation,
         rec.gen \in Nat, rec.gen <= generation,
         Exact(th[t])', Followed'
  PROVE  ExactInv'
  <1> DEFINE o == Other(t)
  <1>1. DOMAIN th' = Thread /\ th'[t] = rec /\ o \in Thread /\ Thread = {t, o}
    BY OtherStays, TwoThreads DEF RInv
  <1>2. DOMAIN th[o] = DOMAIN Idle /\ th[o].gen \in Nat /\ th[o].gen <= generation /\ Exact(th[o])
    BY <1>1, AtStep DEF ExactInv, Generations
  <1> DEFINE p == th[o]
             q == th'[o]
  <1>0. DOMAIN th = Thread /\ o # t
    BY TwoThreads DEF RInv, Types
  <1>3. \/ q = p /\ UNCHANGED <<seen, wide, paired, file>>
        \/ q = p /\ Rests(o)
        \/ q = [p EXCEPT !.late = TRUE]
    BY <1>0, <1>1 DEF Goes, Outdates
  <1>4. q.gen = p.gen
    <2> HIDE DEF p, q
    <2>1. CASE q = p
      BY <2>1
    <2>2. CASE q = [p EXCEPT !.late = TRUE]
      BY <2>2
    <2> QED BY <1>3, <2>1, <2>2
  <1>5. Exact(th[o])'
    <2>1. CASE q = p /\ UNCHANGED <<seen, wide, paired, file>>
      BY <1>2, <2>1 DEF Exact, Current
    <2>2. CASE q = p /\ Rests(o)
      BY <2>2 DEF Exact, Rests
    <2>3. CASE q = [p EXCEPT !.late = TRUE]
      <3>1. q.late = TRUE
        <4>1. "late" \in DOMAIN p
          BY <1>2 DEF Idle
        <4> HIDE DEF p, q
        <4> QED BY <2>3, <4>1
      <3> QED BY <3>1 DEF Exact
    <2> QED BY <1>3, <2>1, <2>2, <2>3
  <1>6. Generations'
    BY <1>1, <1>2, <1>4 DEF Generations, ExactInv
  <1> QED BY <1>1, <1>5, <1>6 DEF ExactInv

(* A step of a reload on its way leaves the graph and what there is.       *)
LEMMA MovesExactly ==
  ASSUME RInv, ExactInv, NEW t \in Thread, NEW rec, Goes(t, rec),
         UNCHANGED <<seen, generation, wide, paired, file, graph>>,
         rec.gen \in Nat, rec.gen <= generation, Exact(th[t])',
         rec.pc \notin {"off", "idle", "check"} \/ owed' # "no"
  PROVE  ExactInv'
  <1>1. th'[t] = rec
    BY OtherStays DEF RInv
  <1>2. Followed'
    BY <1>1 DEF Followed
  <1>3. graph'.gen \in Nat /\ graph'.gen <= generation
    BY DEF ExactInv, Generations
  <1> QED BY <1>2, <1>3, StepIsExact

(* What is known of the reload at its own step.                            *)
LEMMA ExactAtStep ==
  ASSUME RInv, ExactInv, NEW t \in Thread
  PROVE  /\ Exact(th[t]) /\ DOMAIN th[t] = DOMAIN Idle /\ generation \in Nat
         /\ th[t].gen \in Nat /\ th[t].gen <= generation
         /\ seen \in [Slot -> Card \cup {NoCard}]
  BY AtStep DEF ExactInv, Generations, RInv, Types

(* The generation is looked up first.                                      *)
LEMMA LoadIsExact ==
  ASSUME RInv, ExactInv, NEW t \in Thread, Load(t)
  PROVE  ExactInv'
  <1> DEFINE rec == [Idle EXCEPT !.pc = "things", !.gen = generation]
  <1>1. Goes(t, rec) /\ UNCHANGED <<seen, generation, wide, paired, file, graph>>
    BY DEF Load, Keep, devVars
  <1>2. rec.pc = "things" /\ rec.gen = generation
    BY DEF Idle
  <1> HIDE DEF rec
  <1>3. Exact(th[t])'
    BY <1>1, <1>2, OtherStays DEF RInv, Exact
  <1> QED BY <1>1, <1>2, <1>3, ExactAtStep, MovesExactly

(* What is copied is what is there.                                        *)
LEMMA CopyIsExact ==
  ASSUME RInv, ExactInv, NEW t \in Thread, CopyThings(t)
  PROVE  ExactInv'
  <1> DEFINE things == Things(seen, wide, paired, file.helper)
             rec == [th[t] EXCEPT !.pc = "old", !.wide = wide, !.things = things]
  <1>1. Goes(t, rec) /\ UNCHANGED <<seen, generation, wide, paired, file, graph>>
    BY DEF CopyThings, Keep, devVars
  <1> HIDE DEF things
  <1>2. rec.pc = "old" /\ rec.gen = th[t].gen /\ rec.wide = wide /\ rec.things = things
    BY ExactAtStep DEF Idle
  <1> HIDE DEF rec
  <1>3. Exact(th[t])'
    <2>1. th'[t] = rec
      BY <1>1, OtherStays DEF RInv
    <2> QED BY <1>1, <1>2, <2>1 DEF Exact, things
  <1> QED BY <1>1, <1>2, <1>3, ExactAtStep, MovesExactly

(* Before the first route is read nothing is made of the file.             *)
LEMMA CountIsExact ==
  ASSUME RInv, ExactInv, NEW t \in Thread, CountRoutes(t)
  PROVE  ExactInv'
  <1> DEFINE rec == [th[t] EXCEPT !.n = Len(file.routes), !.i = 1, !.acc = <<>>, !.dirty = FALSE,
                       !.pc = IF @ = "count" THEN "build"
                              ELSE IF file.routes = <<>> THEN "count" ELSE "migrate"]
  <1>1. /\ Goes(t, rec) /\ UNCHANGED <<seen, generation, wide, paired, file, graph>>
        /\ th[t].pc \in {"old", "count"}
    BY DEF CountRoutes, Keep, devVars
  <1>2. /\ rec.pc \in {"build", "count", "migrate"} /\ rec.gen = th[t].gen /\ rec.wide = th[t].wide
        /\ rec.things = th[t].things /\ rec.i = 1 /\ rec.n = Len(file.routes) /\ rec.acc = <<>>
        /\ rec.late = th[t].late
    BY ExactAtStep DEF Idle
  <1> HIDE DEF rec
  <1>3. Exact(th[t])'
    <2>1. th'[t] = rec
      BY <1>1, OtherStays DEF RInv
    <2> DEFINE things == Things(seen, wide, paired, file.helper)
    <2>2. ~rec.late /\ rec.gen = generation => rec.things = things /\ rec.wide = wide
      BY <1>1, <1>2, ExactAtStep DEF Exact
    <2> HIDE DEF things
    <2>3. rec.acc = InUse(AllNormal(SubSeq(file.routes, 1, rec.i - 1), things, seen), things, wide)
      <3>1. AllNormal(SubSeq(file.routes, 1, 0), things, seen) = <<>>
        BY AtStep, ExactAtStep, NormalFirst
      <3>2. rec.i - 1 = 0
        BY <1>2
      <3> QED BY <1>2, <3>1, <3>2, InUseNone
    <2> QED BY <1>1, <1>2, <2>1, <2>2, <2>3 DEF Exact, things
  <1> QED BY <1>1, <1>2, <1>3, ExactAtStep, MovesExactly

(* A reload that cannot read the file is given up, and known to be.        *)
LEMMA CannotReadIsExact ==
  ASSUME RInv, ExactInv, NEW t \in Thread, CannotRead(t)
  PROVE  ExactInv'
  <1>1. UNCHANGED <<seen, generation, wide, paired, file, graph>> /\ th[t].pc \in {"old", "count"}
    BY DEF CannotRead, devVars
  <1>2. CASE At(t, "old")
    <2> DEFINE rec == [th[t] EXCEPT !.pc = "count"]
    <2>1. /\ rec.pc = "count" /\ rec.gen = th[t].gen /\ rec.wide = th[t].wide
          /\ rec.things = th[t].things /\ rec.late = th[t].late
      BY ExactAtStep DEF Idle
    <2>2. Goes(t, rec)
      BY <1>2 DEF CannotRead
    <2> HIDE DEF rec
    <2>3. th'[t] = rec
      BY <2>2, OtherStays DEF RInv
    <2>4. Exact(th[t])'
      BY <1>1, <1>2, <2>1, <2>3, ExactAtStep DEF Exact, At
    <2> QED BY <1>1, <2>1, <2>2, <2>4, ExactAtStep, MovesExactly
  <1>3. CASE ~At(t, "old")
    <2>1. Goes(t, Idle) /\ owed' = "asked"
      BY <1>3 DEF CannotRead
    <2>2. Idle.gen = 0 /\ Idle.pc = "idle"
      BY DEF Idle
    <2>3. th'[t] = Idle
      BY <2>1, OtherStays DEF RInv
    <2>4. Exact(th[t])'
      BY <2>2, <2>3 DEF Exact
    <2>5. Idle.gen \in Nat /\ Idle.gen <= generation
      BY <2>2, ExactAtStep
    <2> QED BY <1>1, <2>1, <2>4, <2>5, MovesExactly
  <1> QED BY <1>2, <1>3

(* A route is read: what the reload holds goes on from what it held.       *)
LEMMA ReadIsExact ==
  ASSUME RInv, ExactInv, NEW t \in Thread, NEW pc \in Reading, NEW used, ReadRoute(t, pc, used),
         th[t].pc = pc /\ th[t].i <= Len(file.routes) =>
            /\ DOMAIN used = DOMAIN Idle /\ used.pc = pc /\ used.things = th[t].things
            /\ used.i = th[t].i /\ used.n = th[t].n /\ used.gen = th[t].gen /\ used.wide = th[t].wide
            /\ used.late = th[t].late /\ used.edges = th[t].edges
            /\ ~th[t].late /\ th[t].gen = generation /\ pc # "migrate" =>
                  LET next == AllNormal(SubSeq(file.routes, 1, th[t].i), th[t].things, seen)
                  IN  used.acc = IF pc = "build" THEN InUse(next, th[t].things, wide) ELSE next
  PROVE  ExactInv'
  <1> DEFINE r == IF th[t].i <= Len(file.routes) THEN used ELSE th[t]
             rec == [r EXCEPT !.i = @ + 1]
  <1>1. /\ Goes(t, rec) /\ UNCHANGED <<seen, generation, wide, paired, file, graph>>
        /\ th[t].pc = pc /\ th[t].i <= th[t].n
    BY DEF ReadRoute, Keep, At, devVars
  <1>2. /\ DOMAIN r = DOMAIN Idle /\ r.pc = pc /\ r.things = th[t].things
        /\ r.i = th[t].i /\ r.n = th[t].n /\ r.gen = th[t].gen /\ r.wide = th[t].wide
        /\ r.late = th[t].late /\ r.edges = th[t].edges
    BY <1>1, AtStep
  <1>3. th[t].i \in Nat /\ th[t].n \in Nat
    BY <1>1, AtStep DEF Local, Reading
  <1> HIDE DEF r
  <1>4. rec.i = r.i + 1
    BY <1>2 DEF Idle
  <1>5. /\ rec.pc = pc /\ rec.things = th[t].things /\ rec.n = th[t].n
        /\ rec.gen = th[t].gen /\ rec.wide = th[t].wide
        /\ rec.late = th[t].late /\ rec.edges = th[t].edges /\ rec.acc = r.acc
    BY <1>2 DEF Idle
  <1> HIDE DEF rec
  <1>6. th'[t] = rec /\ rec.i - 1 = th[t].i
    BY <1>1, <1>2, <1>3, <1>4, OtherStays DEF RInv
  <1>7. Exact(th[t])'
    <2> SUFFICES ASSUME ~th[t].late, th[t].gen = generation PROVE Exact(th[t])'
      BY <1>1, <1>5, <1>6 DEF Exact
    <2> DEFINE things == Things(seen, wide, paired, file.helper)
    <2>1. /\ th[t].things = things /\ th[t].wide = wide
          /\ pc \in {"build", "names"} => th[t].n = Len(file.routes)
          /\ pc = "names" => th[t].edges = Current
      BY <1>1, ExactAtStep DEF Exact, Reading
    <2> HIDE DEF things
    <2>2. ASSUME pc # "migrate"
          PROVE  rec.acc = IF pc = "build"
                           THEN InUse(AllNormal(SubSeq(file.routes, 1, rec.i - 1), things, seen), things, wide)
                           ELSE AllNormal(SubSeq(file.routes, 1, rec.i - 1), things, seen)
      <3>1. th[t].i <= Len(file.routes)
        BY <1>1, <2>1, <2>2 DEF Reading
      <3>2. r = used
        BY <3>1 DEF r
      <3> QED BY <1>1, <1>5, <1>6, <2>1, <2>2, <3>1, <3>2
    <2> QED BY <1>1, <1>5, <1>6, <2>1, <2>2 DEF Exact, Current, things, Reading
  <1>8. rec.gen \in Nat /\ rec.gen <= generation /\ rec.pc \notin {"off", "idle", "check"}
    BY <1>5, ExactAtStep DEF Reading
  <1> QED BY <1>1, <1>7, <1>8, MovesExactly

(* migrateLegacyBluetoothRoutes() makes nothing of the graph.              *)
LEMMA MigrateIsExact ==
  ASSUME RInv, ExactInv, NEW t \in Thread, Migrate(t)
  PROVE  ExactInv'
  <1> DEFINE parts == Migrated(SavedRoute(t), th[t].things)
             used == [th[t] EXCEPT !.acc = @ \o parts, !.dirty = @ \/ parts # <<SavedRoute(t)>>]
  <1>1. ReadRoute(t, "migrate", used)
    BY DEF Migrate
  <1> HIDE DEF parts
  <1>2. /\ DOMAIN used = DOMAIN Idle /\ used.pc = th[t].pc /\ used.things = th[t].things
        /\ used.i = th[t].i /\ used.n = th[t].n /\ used.gen = th[t].gen /\ used.wide = th[t].wide
        /\ used.late = th[t].late /\ used.edges = th[t].edges
    BY ExactAtStep DEF Idle
  <1> HIDE DEF used
  <1> QED BY <1>1, <1>2, ReadIsExact DEF Reading

(* The migrated routes are written, or the routes are counted again.       *)
LEMMA MigrationIsExact ==
  ASSUME RInv, ExactInv, NEW t \in Thread, Migration(t)
  PROVE  ExactInv'
  <1> DEFINE save == th[t].dirty /\ Len(th[t].acc) <= MaxEdges
             rec == [th[t] EXCEPT !.pc = IF save THEN "open1" ELSE "count", !.dirty = FALSE,
                                !.i = 1, !.n = 0, !.acc = IF save THEN @ ELSE <<>>]
  <1>1. /\ Goes(t, rec) /\ UNCHANGED <<seen, generation, wide, paired, file, graph>>
        /\ th[t].pc = "migrate"
    BY DEF Migration, Keep, HasRead, At, devVars
  <1> HIDE DEF save
  <1>2. /\ rec.pc \in {"open1", "count"} /\ rec.gen = th[t].gen /\ rec.wide = th[t].wide
        /\ rec.things = th[t].things /\ rec.late = th[t].late
    BY ExactAtStep DEF Idle
  <1> HIDE DEF rec
  <1>3. th'[t] = rec
    BY <1>1, OtherStays DEF RInv
  <1>4. Exact(th[t])'
    BY <1>1, <1>2, <1>3, ExactAtStep DEF Exact
  <1> QED BY <1>1, <1>2, <1>4, ExactAtStep, MovesExactly

(* No route that is in use is left out: the file has no more than fit.     *)
LEMMA BuildIsExact ==
  ASSUME RInv, ExactInv, NEW t \in Thread, Build(t)
  PROVE  ExactInv'
  <1> DEFINE r == th[t]
             e == NormalRoute(SavedRoute(t), r.things, seen)
             verdict == Verdict(e, r.things, r.wide)
             fits == verdict = "active" /\ Len(r.acc) < MaxEdges
             used == CASE fits -> [r EXCEPT !.acc = Append(@, e)]
                       [] verdict = "dormant" -> r
                       [] OTHER -> [r EXCEPT !.skipped = @ + 1]
  <1>1. ReadRoute(t, "build", used)
    BY DEF Build
  <1>2. (fits /\ used = [r EXCEPT !.acc = Append(@, e)])
        \/ (~fits /\ used \in {r, [r EXCEPT !.skipped = @ + 1]})
    BY Zenon
  <1>3. DOMAIN r = DOMAIN Idle
    BY ExactAtStep
  <1> HIDE DEF e, verdict, used, r, fits
  <1>4. /\ DOMAIN used = DOMAIN Idle /\ used.pc = r.pc /\ used.things = r.things
        /\ used.i = r.i /\ used.n = r.n /\ used.gen = r.gen /\ used.wide = r.wide
        /\ used.late = r.late /\ used.edges = r.edges
        /\ used.acc = IF fits THEN Append(r.acc, e) ELSE r.acc
    BY <1>2, <1>3 DEF Idle
  <1>5. ASSUME r.pc = "build", r.i <= Len(file.routes), ~r.late, r.gen = generation
        PROVE  used.acc = InUse(AllNormal(SubSeq(file.routes, 1, r.i), r.things, seen), r.things, wide)
    <2> DEFINE f(k) == AllNormal(SubSeq(file.routes, 1, k), r.things, seen)
               q == f(r.i - 1)
    <2>1. file.routes \in Seq(Route) /\ Len(file.routes) \in Nat /\ Len(file.routes) <= MaxEdges
          /\ MaxEdges \in Nat /\ seen \in [Slot -> Card \cup {NoCard}]
      BY AtStep, ExactAtStep
    <2>2. r.i \in 1..Len(file.routes)
      BY <1>5, AtStep DEF Local, Reading, r
    <2>3. r.wide = wide /\ r.acc = InUse(q, r.things, wide)
      BY <1>5, ExactAtStep DEF Exact, r
    <2>4. e \in Route /\ e = NormalRoute(file.routes[r.i], r.things, seen)
      <3>1. SavedRoute(t) \in Route /\ SavedRoute(t) = file.routes[r.i]
        BY <1>5, ReadsARoute DEF Reading, SavedRoute, r
      <3> QED BY <2>1, <3>1, NormalRouteContinues DEF e
    <2>5. f(r.i) = Append(q, e)
      BY <2>1, <2>2, <2>4, NormalFirst
    <2>6. SubSeq(file.routes, 1, r.i - 1) \in Seq(Route) /\ Len(SubSeq(file.routes, 1, r.i - 1)) = r.i - 1
      BY <2>1, <2>2
    <2>7. q \in Seq(Route) /\ Len(q) = r.i - 1
      BY <2>1, <2>6, NormalFirst
    <2> HIDE DEF f, q
    <2>8. Len(r.acc) < MaxEdges
      BY <2>1, <2>2, <2>3, <2>7, InUseIsShort
    <2>9. InUse(f(r.i), r.things, wide) =
             IF verdict = "active" THEN Append(InUse(q, r.things, wide), e) ELSE InUse(q, r.things, wide)
      <3>1. verdict = Verdict(e, r.things, wide)
        BY <2>3 DEF verdict
      <3>2. InUse(Append(q, e), r.things, wide) =
               IF Verdict(e, r.things, wide) = "active" THEN Append(InUse(q, r.things, wide), e)
               ELSE InUse(q, r.things, wide)
        <4>1. q \in Seq(Route) /\ e \in Route
          BY <2>4, <2>7
        <4> QED BY <4>1, InUseNext, Zenon
      <3> QED BY <2>5, <3>1, <3>2
    <2> QED BY <1>4, <2>3, <2>8, <2>9 DEF fits, f
  <1> QED BY <1>1, <1>4, <1>5, ReadIsExact DEF Reading, r

(* Once all routes are read the graph is that of the whole file.           *)
LEMMA BuiltIsExact ==
  ASSUME RInv, ExactInv, NEW t \in Thread, Built(t)
  PROVE  ExactInv'
  <1> DEFINE r == th[t]
             refused == r.n > 0 /\ r.acc = <<>> /\ r.skipped > 0 /\ r.gen = graph.gen
             rec == [r EXCEPT !.pc = "names", !.i = 1, !.acc = <<>>, !.skipped = 0,
                              !.edges = Expanded(r.acc)]
  <1>1. /\ UNCHANGED <<seen, generation, wide, paired, file, graph>>
        /\ th[t].pc = "build" /\ th[t].i > th[t].n
    BY DEF Built, HasRead, At, devVars
  <1>2. (Goes(t, Idle) /\ owed' = "asked") \/ Goes(t, rec)
    BY DEF Built
  <1>3. CASE Goes(t, Idle) /\ owed' = "asked"
    <2>1. Idle.gen = 0 /\ Idle.pc = "idle"
      BY DEF Idle
    <2>2. Exact(th[t])'
      BY <1>3, <2>1, OtherStays DEF RInv, Exact
    <2>3. Idle.gen \in Nat /\ Idle.gen <= generation
      BY <2>1, ExactAtStep
    <2> QED BY <1>1, <1>3, <2>2, <2>3, MovesExactly
  <1>4. CASE Goes(t, rec)
    <2>1. /\ rec.pc = "names" /\ rec.things = th[t].things /\ rec.wide = th[t].wide
          /\ rec.i = 1 /\ rec.n = th[t].n /\ rec.acc = <<>> /\ rec.gen = th[t].gen
          /\ rec.late = th[t].late /\ rec.edges = Expanded(th[t].acc)
      BY ExactAtStep DEF Idle
    <2> HIDE DEF rec
    <2>2. th'[t] = rec
      BY <1>4, OtherStays DEF RInv
    <2>3. ASSUME ~th[t].late, th[t].gen = generation PROVE Exact(th[t])'
      <3> DEFINE things == Things(seen, wide, paired, file.helper)
      <3>1. /\ th[t].things = things /\ th[t].wide = wide /\ th[t].n = Len(file.routes)
            /\ th[t].acc = InUse(AllNormal(SubSeq(file.routes, 1, th[t].i - 1), things, seen), things, wide)
        BY <1>1, <2>3, ExactAtStep DEF Exact
      <3>2. th[t].i - 1 = Len(file.routes) /\ rec.i - 1 = 0
        BY <1>1, <2>1, <3>1, AtStep DEF Local, Reading
      <3>3. /\ SubSeq(file.routes, 1, Len(file.routes)) = file.routes
            /\ AllNormal(SubSeq(file.routes, 1, 0), things, seen) = <<>>
        BY AtStep, ExactAtStep, NormalFirst
      <3>4. rec.edges = Current
        BY <2>1, <3>1, <3>2, <3>3 DEF Current, Compiled
      <3>5. rec.acc = AllNormal(SubSeq(file.routes, 1, rec.i - 1), things, seen)
        BY <2>1, <3>2, <3>3
      <3> QED BY <1>1, <2>1, <2>2, <3>1, <3>4, <3>5 DEF Exact, Current
    <2>4. Exact(th[t])'
      BY <1>1, <2>1, <2>2, <2>3 DEF Exact
    <2> QED BY <1>1, <1>4, <2>1, <2>4, ExactAtStep, MovesExactly
  <1> QED BY <1>2, <1>3, <1>4

(* The routes to be written back are those of the file, one for one.       *)
LEMMA RenameIsExact ==
  ASSUME RInv, ExactInv, NEW t \in Thread, Rename(t)
  PROVE  ExactInv'
  <1> DEFINE r == th[t]
             e == NormalRoute(SavedRoute(t), r.things, seen)
             known == Renames(SavedRoute(t), r.things, seen)
             used == [r EXCEPT !.acc = Append(@, e), !.dirty = @ \/ known]
  <1>1. ReadRoute(t, "names", used)
    BY DEF Rename
  <1>2. DOMAIN r = DOMAIN Idle
    BY ExactAtStep
  <1> HIDE DEF e, r, known
  <1>3. /\ DOMAIN used = DOMAIN Idle /\ used.pc = r.pc /\ used.things = r.things
        /\ used.i = r.i /\ used.n = r.n /\ used.gen = r.gen /\ used.wide = r.wide
        /\ used.late = r.late /\ used.edges = r.edges /\ used.acc = Append(r.acc, e)
    BY <1>2 DEF Idle
  <1> HIDE DEF used
  <1>4. ASSUME r.pc = "names", r.i <= Len(file.routes), ~r.late, r.gen = generation
        PROVE  used.acc = AllNormal(SubSeq(file.routes, 1, r.i), r.things, seen)
    <2>1. r.i \in 1..Len(file.routes)
      BY <1>4, AtStep DEF Local, Reading, r
    <2>2. r.acc = AllNormal(SubSeq(file.routes, 1, r.i - 1), r.things, seen)
      BY <1>4, ExactAtStep DEF Exact, r
    <2>3. AllNormal(SubSeq(file.routes, 1, r.i), r.things, seen)
             = Append(r.acc, NormalRoute(file.routes[r.i], r.things, seen))
      <3>1. /\ file.routes \in Seq(Route) /\ seen \in [Slot -> Card \cup {NoCard}]
        BY AtStep, ExactAtStep
      <3>2. \A k \in 1..Len(file.routes) :
               AllNormal(SubSeq(file.routes, 1, k), r.things, seen) =
                  Append(AllNormal(SubSeq(file.routes, 1, k - 1), r.things, seen),
                         NormalRoute(file.routes[k], r.things, seen))
        BY <3>1, NormalFirst
      <3> QED BY <2>1, <2>2, <3>2
    <2> QED BY <1>3, <2>3 DEF e, SavedRoute, r
  <1> QED BY <1>1, <1>3, <1>4, ReadIsExact DEF Reading, r

(* What is written back makes the same graph as the file did.              *)
LEMMA RenamedIsExact ==
  ASSUME RInv, ExactInv, NEW t \in Thread, Renamed(t)
  PROVE  ExactInv'
  <1> DEFINE r == th[t]
             rec == [Idle EXCEPT !.pc = IF r.dirty THEN "open2" ELSE "publish", !.gen = r.gen,
                                 !.acc = IF r.dirty THEN r.acc ELSE <<>>, !.edges = r.edges,
                                 !.late = r.late]
  <1>1. /\ Goes(t, rec) /\ UNCHANGED <<seen, generation, wide, paired, file, graph>>
        /\ th[t].pc = "names" /\ th[t].i > th[t].n
    BY DEF Renamed, HasRead, At, Keep, devVars
  <1>2. /\ rec.pc \in {"open2", "publish"} /\ rec.gen = th[t].gen /\ rec.edges = th[t].edges
        /\ rec.late = th[t].late
        /\ rec.pc = "open2" => rec.acc = th[t].acc
    BY DEF Idle
  <1> HIDE DEF rec
  <1>3. th'[t] = rec
    BY <1>1, OtherStays DEF RInv
  <1>4. ASSUME ~th[t].late, th[t].gen = generation PROVE Exact(th[t])'
    <2> DEFINE things == Things(seen, wide, paired, file.helper)
    <2>1. /\ th[t].n = Len(file.routes) /\ th[t].edges = Current
          /\ th[t].acc = AllNormal(SubSeq(file.routes, 1, th[t].i - 1), things, seen)
      BY <1>1, <1>4, ExactAtStep DEF Exact
    <2>2. th[t].i - 1 = Len(file.routes)
      BY <1>1, <2>1, AtStep DEF Local, Reading
    <2>3. SubSeq(file.routes, 1, Len(file.routes)) = file.routes
      BY AtStep, ExactAtStep, NormalFirst
    <2> QED BY <1>1, <1>2, <1>3, <2>1, <2>2, <2>3 DEF Exact, Current
  <1>5. Exact(th[t])'
    BY <1>2, <1>3, <1>4, <1>1 DEF Exact
  <1> QED BY <1>1, <1>2, <1>5, ExactAtStep, MovesExactly

(* Nor does a step that outdates the other thread change the graph.        *)
LEMMA OutdatesExactly ==
  ASSUME RInv, ExactInv, NEW t \in Thread, NEW rec, Outdates(t, rec),
         UNCHANGED <<generation, graph>>,
         rec.gen \in Nat, rec.gen <= generation, Exact(th[t])',
         rec.pc \notin {"off", "idle", "check"} \/ owed' # "no"
  PROVE  ExactInv'
  <1>1. th'[t] = rec
    BY OtherStays DEF RInv
  <1>2. Followed'
    BY <1>1 DEF Followed
  <1>3. graph'.gen \in Nat /\ graph'.gen <= generation
    BY DEF ExactInv, Generations
  <1> QED BY <1>2, <1>3, StepIsExact

(* The file is emptied, and what it said is in the hand of the writer.     *)
LEMMA OpenIsExact ==
  ASSUME RInv, ExactInv, NEW t \in Thread, OpenFile(t)
  PROVE  ExactInv'
  <1> DEFINE acc == [routes |-> th[t].acc, helper |-> file.helper]
             rec == [th[t] EXCEPT !.pc = IF @ = "open1" THEN "write1" ELSE "write2", !.acc = acc]
  <1>1. /\ Outdates(t, rec) /\ UNCHANGED <<seen, generation, wide, paired, graph>>
        /\ th[t].pc \in {"open1", "open2"}
    BY DEF OpenFile, devVars
  <1>2. acc.routes = th[t].acc /\ acc.helper = file.helper
    OBVIOUS
  <1> HIDE DEF acc
  <1>3. /\ rec.pc = (IF th[t].pc = "open1" THEN "write1" ELSE "write2")
        /\ rec.gen = th[t].gen /\ rec.edges = th[t].edges /\ rec.things = th[t].things
        /\ rec.wide = th[t].wide /\ rec.late = th[t].late /\ rec.acc = acc
    BY ExactAtStep DEF Idle
  <1> HIDE DEF rec
  <1>4. th'[t] = rec
    BY <1>1, OtherStays DEF RInv
  <1>5. ASSUME ~th[t].late, th[t].gen = generation PROVE Exact(th[t])'
    <2> DEFINE things == Things(seen, wide, paired, file.helper)
    <2>1. CASE th[t].pc = "open1"
      <3>1. th[t].things = things /\ th[t].wide = wide
        BY <1>5, <2>1, ExactAtStep DEF Exact
      <3> QED BY <1>1, <1>2, <1>3, <1>4, <2>1, <3>1 DEF Exact
    <2>2. CASE th[t].pc = "open2"
      <3>1. th[t].edges = Current /\ th[t].acc = AllNormal(file.routes, things, seen)
        BY <1>5, <2>2, ExactAtStep DEF Exact
      <3>2. AllNormal(th[t].acc, things, seen) = th[t].acc
        BY <3>1, AtStep, ExactAtStep, OwnNames, AllNormalTwice
      <3>3. th[t].edges = Compiled(th[t].acc, things, seen, wide)
        BY <3>1, <3>2 DEF Current, Compiled
      <3> QED BY <1>1, <1>2, <1>3, <1>4, <2>2, <3>3 DEF Exact
    <2> QED BY <1>1, <2>1, <2>2
  <1>6. Exact(th[t])'
    BY <1>1, <1>3, <1>4, <1>5 DEF Exact
  <1> QED BY <1>1, <1>3, <1>6, ExactAtStep, OutdatesExactly

(* What is written is what the writer had in hand.                         *)
LEMMA WriteIsExact ==
  ASSUME RInv, ExactInv, NEW t \in Thread, WriteFile(t)
  PROVE  ExactInv'
  <1> DEFINE rec == [th[t] EXCEPT !.pc = AfterWrite(@), !.acc = <<>>]
  <1>1. /\ Outdates(t, rec) /\ UNCHANGED <<seen, generation, wide, paired, graph>>
        /\ th[t].pc \in {"write1", "write2"} /\ file' = th[t].acc
    BY DEF WriteFile, devVars
  <1>2. /\ rec.pc = (IF th[t].pc = "write1" THEN "count" ELSE "publish")
        /\ rec.gen = th[t].gen /\ rec.edges = th[t].edges /\ rec.things = th[t].things
        /\ rec.wide = th[t].wide /\ rec.late = th[t].late
    BY <1>1, ExactAtStep DEF Idle, AfterWrite
  <1> HIDE DEF rec
  <1>3. th'[t] = rec
    BY <1>1, OtherStays DEF RInv
  <1>4. ASSUME ~th[t].late, th[t].gen = generation PROVE Exact(th[t])'
    <2>1. CASE th[t].pc = "write1"
      <3>1. th[t].things = Things(seen, wide, paired, th[t].acc.helper) /\ th[t].wide = wide
        BY <1>4, <2>1, ExactAtStep DEF Exact
      <3> QED BY <1>1, <1>2, <1>3, <2>1, <3>1 DEF Exact
    <2>2. CASE th[t].pc = "write2"
      <3>1. th[t].edges = Compiled(th[t].acc.routes, Things(seen, wide, paired, th[t].acc.helper), seen, wide)
        BY <1>4, <2>2, ExactAtStep DEF Exact
      <3> QED BY <1>1, <1>2, <1>3, <2>2, <3>1 DEF Exact, Current
    <2> QED BY <1>1, <2>1, <2>2
  <1>5. Exact(th[t])'
    BY <1>1, <1>2, <1>3, <1>4 DEF Exact
  <1> QED BY <1>1, <1>2, <1>5, ExactAtStep, OutdatesExactly

(* A reload that could not write the file knows that it is late.           *)
LEMMA CannotWriteIsExact ==
  ASSUME RInv, ExactInv, NEW t \in Thread, CannotWrite(t)
  PROVE  ExactInv'
  <1> DEFINE rec == [th[t] EXCEPT !.pc = AfterWrite(@), !.acc = <<>>, !.late = TRUE]
  <1>1. Outdates(t, rec) /\ UNCHANGED <<generation, graph>>
    BY DEF CannotWrite, devVars
  <1>2. rec.pc \in {"count", "publish"} /\ rec.gen = th[t].gen /\ rec.late = TRUE
    BY ExactAtStep DEF Idle, AfterWrite
  <1> HIDE DEF rec
  <1>3. Exact(th[t])'
    BY <1>1, <1>2, OtherStays DEF RInv, Exact
  <1> QED BY <1>1, <1>2, <1>3, ExactAtStep, OutdatesExactly

(* What is published is the graph of the file, or is known to be late.     *)
LEMMA PublishIsExact ==
  ASSUME RInv, ExactInv, NEW t \in Thread, Publish(t)
  PROVE  ExactInv'
  <1>1. /\ Goes(t, Idle) /\ UNCHANGED <<seen, generation, wide, paired, file>> /\ th[t].pc = "publish"
        /\ graph' = [gen |-> th[t].gen, edges |-> th[t].edges]
        /\ owed' = IF th[t].late THEN "late" ELSE "no"
    BY DEF Publish, At, devVars
  <1>2. graph'.gen = th[t].gen /\ graph'.edges = th[t].edges
    BY <1>1
  <1>3. Idle.gen = 0 /\ Idle.pc = "idle"
    BY DEF Idle
  <1>4. Exact(th[t])'
    BY <1>1, <1>3, OtherStays DEF RInv, Exact
  <1>5. Followed'
    <2> SUFFICES ASSUME owed' = "no", graph'.gen = generation' PROVE graph'.edges = Current'
      BY DEF Followed
    <2>1. ~th[t].late /\ th[t].gen = generation
      BY <1>1, <1>2
    <2>2. th[t].edges = Current
      BY <1>1, <2>1, ExactAtStep DEF Exact
    <2> QED BY <1>1, <1>2, <2>2 DEF Current
  <1>6. Idle.gen \in Nat /\ Idle.gen <= generation
    BY <1>3, ExactAtStep
  <1> QED BY <1>1, <1>2, <1>4, <1>5, <1>6, ExactAtStep, StepIsExact

(* A thread that has read nothing is exact, and at rest if it was.         *)
LEMMA RestsExactly ==
  ASSUME RInv, ExactInv, NEW t \in Thread, NEW rec,
         \/ Goes(t, rec) /\ UNCHANGED <<seen, wide, paired, file>>
         \/ Outdates(t, rec),
         UNCHANGED <<generation, graph>>, rec.gen = 0,
         rec.pc \in {"idle", "load", "check", "put", "helper"},
         \/ rec.pc \in {"load", "put", "helper"} \/ owed' # "no"
         \/ /\ th[t].pc \in {"off", "idle", "check"}
            /\ UNCHANGED <<seen, wide, paired, file, owed>>
  PROVE  ExactInv'
  <1>1. th'[t] = rec /\ th'[Other(t)].pc = th[Other(t)].pc
    BY OtherStays DEF RInv
  <1>2. Exact(th[t])'
    BY <1>1 DEF Exact
  <1>3. Followed'
    <2>1. CASE rec.pc \in {"load", "put", "helper"} \/ owed' # "no"
      BY <1>1, <2>1 DEF Followed
    <2>2. CASE th[t].pc \in {"off", "idle", "check"} /\ UNCHANGED <<seen, wide, paired, file, owed>>
      <3>1. (\A s \in Thread : th'[s].pc \in {"off", "idle", "check"}) =>
               \A s \in Thread : th[s].pc \in {"off", "idle", "check"}
        BY <1>1, <2>2, TwoThreads
      <3> QED BY <2>2, <3>1 DEF Followed, Current, ExactInv
    <2> QED BY <2>1, <2>2
  <1>4. rec.gen \in Nat /\ rec.gen <= generation /\ graph'.gen \in Nat /\ graph'.gen <= generation
    BY ExactAtStep DEF ExactInv, Generations
  <1> QED BY <1>2, <1>3, <1>4, StepIsExact

(* The locals of a thread that has read nothing.                           *)
LEMMA NothingRead ==
  /\ Idle.gen = 0 /\ Idle.pc = "idle" /\ Begin.gen = 0 /\ Begin.pc = "load"
  /\ \A pc : [Idle EXCEPT !.pc = pc].gen = 0 /\ [Idle EXCEPT !.pc = pc].pc = pc
  /\ \A pc, acc : LET r == [Idle EXCEPT !.pc = pc, !.acc = acc]
                 IN  r.gen = 0 /\ r.pc = pc
  BY DEF Idle, Begin

(* The steps of the main thread that only set a reload going.              *)
LEMMA MainIsExact ==
  ASSUME RInv, ExactInv, Start \/ Check \/ Reload
  PROVE  ExactInv'
  <1>1. "main" \in Thread /\ "bluetooth" \in Thread
    BY DEF Thread
  <1>2. UNCHANGED <<seen, generation, wide, paired, file, graph, owed>>
    BY DEF Start, Check, Reload, Keep, devVars
  <1>3. CASE Start
    <2>1. Goes("bluetooth", Idle) /\ th["bluetooth"].pc = "off"
      BY <1>3 DEF Start, At
    <2> QED BY <1>1, <1>2, <2>1, NothingRead, RestsExactly
  <1>4. CASE Check \/ Reload
    <2>1. (Goes("main", Idle) \/ Goes("main", Begin)) /\ th["main"].pc \in {"check", "idle"}
      BY <1>4 DEF Check, Reload, At, Ready
    <2>2. CASE Goes("main", Idle)
      BY <1>1, <1>2, <2>1, <2>2, NothingRead, RestsExactly
    <2>3. CASE Goes("main", Begin)
      BY <1>1, <1>2, <2>1, <2>3, NothingRead, RestsExactly
    <2> QED BY <2>1, <2>2, <2>3
  <1> QED BY <1>3, <1>4

(* A scan that finds a change makes every reload under way an old one.     *)
LEMMA RescanIsExact ==
  ASSUME RInv, ExactInv, NEW force \in BOOLEAN, Rescan(force)
  PROVE  ExactInv'
  <1> DEFINE rec == [Idle EXCEPT !.pc = IF force THEN "load" ELSE "check"]
  <1>1. /\ Goes("main", rec) /\ UNCHANGED <<wide, paired, file, graph, owed>>
        /\ th["main"].pc = "idle" /\ seen' = plugged
        /\ generation' = IF seen = plugged THEN generation ELSE generation + 1
    BY DEF Rescan, Ready, At
  <1>2. rec.gen = 0 /\ rec.pc \in {"load", "check"}
    BY NothingRead
  <1> HIDE DEF rec
  <1>3. CASE seen = plugged
    <2>1. UNCHANGED <<seen, generation>>
      BY <1>1, <1>3
    <2> QED BY <1>1, <1>2, <2>1, RestsExactly DEF Thread
  <1>4. CASE seen # plugged
    <2>1. generation' = generation + 1 /\ generation \in Nat
      BY <1>1, <1>4, ExactAtStep DEF Thread
    <2>2. th'["main"] = rec /\ Other("main") = "bluetooth" /\ DOMAIN th = Thread /\ DOMAIN th' = Thread
      <3>1. Other("main") = "bluetooth"
        BY TwoThreads DEF Thread
      <3> QED BY <1>1, <3>1, OtherStays DEF RInv, Thread, Types
    <2>3. th'["bluetooth"] = th["bluetooth"]
      BY <1>1, <2>2 DEF Goes, Thread
    <2>4. \A s \in Thread : th'[s].gen \in Nat /\ th'[s].gen <= generation
      BY <1>2, <2>1, <2>2, <2>3, ExactAtStep DEF Thread
    <2>5. graph'.gen \in Nat /\ graph'.gen <= generation
      BY <1>1 DEF ExactInv, Generations
    <2>6. \A s \in Thread : th'[s].gen # generation' /\ th'[s].gen <= generation'
      BY <2>1, <2>4
    <2>7. graph'.gen # generation' /\ graph'.gen <= generation' /\ generation' \in Nat
      BY <2>1, <2>5
    <2> QED BY <2>4, <2>5, <2>6, <2>7 DEF ExactInv, Generations, Followed, Exact
  <1> QED BY <1>3, <1>4

(* What the user asks for makes a reload under way late.                   *)
LEMMA RequestsAreExact ==
  ASSUME RInv, ExactInv,
         \/ \E f \in Files : Save(f)
         \/ \E on \in BOOLEAN : SetHelper(on)
         \/ \E w \in 0..2 : SetEffect(w)
         \/ \E pair \in SUBSET Speaker : SetPaired(pair)
  PROVE  ExactInv'
  <1>1. "main" \in Thread /\ "bluetooth" \in Thread
    BY DEF Thread
  <1>2. UNCHANGED <<generation, graph>>
    BY DEF Save, SetHelper, SetEffect, SetPaired, devVars
  <1>3. ASSUME NEW f \in Files, Save(f) PROVE ExactInv'
    <2> DEFINE rec == [Idle EXCEPT !.pc = "put", !.acc = f]
    <2>1. Outdates("main", rec)
      BY <1>3 DEF Save
    <2>2. rec.gen = 0 /\ rec.pc = "put"
      BY <1>1, NothingRead
    <2> HIDE DEF rec
    <2> QED BY <1>1, <1>2, <2>1, <2>2, RestsExactly
  <1>4. ASSUME NEW on \in BOOLEAN, SetHelper(on) PROVE ExactInv'
    <2> DEFINE rec == [Idle EXCEPT !.pc = "helper", !.acc = [routes |-> file.routes, helper |-> on]]
    <2>1. Outdates("main", rec)
      BY <1>4 DEF SetHelper
    <2>2. rec.gen = 0 /\ rec.pc = "helper"
      BY <1>1, NothingRead
    <2> HIDE DEF rec
    <2> QED BY <1>1, <1>2, <2>1, <2>2, RestsExactly
  <1>5. CASE (\E w \in 0..2 : SetEffect(w)) \/ (\E pair \in SUBSET Speaker : SetPaired(pair))
    <2>1. Outdates("main", Begin) \/ Outdates("bluetooth", Begin)
      BY <1>5 DEF SetEffect, SetPaired
    <2>2. ASSUME NEW t \in Thread, Outdates(t, Begin) PROVE ExactInv'
      BY <1>2, <2>2, NothingRead, RestsExactly
    <2> QED BY <1>1, <2>1, <2>2
  <1> QED BY <1>3, <1>4, <1>5

(* What the user has saved is not in the graph until someone reloads it.   *)
LEMMA SavedIsExact ==
  ASSUME RInv, ExactInv, Saved \/ HelperSet
  PROVE  ExactInv'
  <1>1. UNCHANGED <<generation, graph>> /\ "main" \in Thread
    BY DEF Saved, HelperSet, devVars, Thread
  <1>2. CASE Saved
    <2>1. Outdates("main", Idle) /\ owed' # "no"
      BY <1>2 DEF Saved
    <2> QED BY <1>1, <2>1, NothingRead, RestsExactly
  <1>3. CASE HelperSet
    <2>1. Outdates("main", Begin)
      BY <1>3 DEF HelperSet
    <2> QED BY <1>1, <2>1, NothingRead, RestsExactly
  <1> QED BY <1>2, <1>3

(* Nothing is plugged in that a reload follows before a scan has seen it.  *)
LEMMA StillExact ==
  ASSUME ExactInv, UNCHANGED <<seen, generation, wide, paired, file, graph, th, owed>>
  PROVE  ExactInv'
  BY DEF ExactInv, Generations, Followed, Exact, Current

(* The first reload has read nothing yet.                                  *)
LEMMA ExactAtFirst == Init => ExactInv
  <1> SUFFICES ASSUME Init PROVE ExactInv
    OBVIOUS
  <1> DEFINE off == [Idle EXCEPT !.pc = "off"]
  <1>1. off.gen = 0 /\ off.pc = "off"
    BY DEF Idle
  <1>2. th["main"] = Begin /\ th["bluetooth"] = off /\ generation = 1 /\ graph.gen = 0 /\ owed = "asked"
    BY DEF Init
  <1> HIDE DEF off
  <1>3. \A t \in Thread : th[t].gen = 0 /\ th[t].pc \in {"load", "off"}
    BY <1>1, <1>2, NothingRead DEF Thread
  <1> QED BY <1>2, <1>3 DEF ExactInv, Generations, Followed, Exact

(* Every step of either thread keeps reloads exact.                        *)
LEMMA ExactIsKept == RInv /\ ExactInv /\ [Next]_vars => ExactInv'
  <1> SUFFICES ASSUME RInv, ExactInv, [Next]_vars PROVE ExactInv'
    OBVIOUS
  <1>1. CASE UNCHANGED vars
    BY <1>1, StillExact DEF vars, devVars
  <1>2. ASSUME NEW t \in Thread, ReloadStep(t) PROVE ExactInv'
    BY <1>2, LoadIsExact, CopyIsExact, CountIsExact, CannotReadIsExact, MigrateIsExact,
       MigrationIsExact, BuildIsExact, BuiltIsExact, RenameIsExact, RenamedIsExact, OpenIsExact,
       WriteIsExact, CannotWriteIsExact, PublishIsExact DEF ReloadStep
  <1>3. ASSUME NEW force \in BOOLEAN, Rescan(force) PROVE ExactInv'
    BY <1>3, RescanIsExact
  <1>4. CASE Start \/ Check \/ Reload
    BY <1>4, MainIsExact
  <1>5. CASE Saved \/ HelperSet
    BY <1>5, SavedIsExact
  <1>6. CASE \/ \E f \in Files : Save(f)
             \/ \E on \in BOOLEAN : SetHelper(on)
             \/ \E w \in 0..2 : SetEffect(w)
             \/ \E pair \in SUBSET Speaker : SetPaired(pair)
    BY <1>6, RequestsAreExact
  <1>7. ASSUME NEW k \in Slot, NEW c \in Card \cup {NoCard}, Plug(k, c) PROVE ExactInv'
    BY <1>7, StillExact DEF Plug
  <1> QED BY <1>1, <1>2, <1>3, <1>4, <1>5, <1>6, <1>7 DEF Next

(* Whenever nobody has anything left to do, the graph is the one that      *)
(* routing.txt makes of the things there are, whatever came between the    *)
(* lookup of deviceGeneration, the copy of the things and the reads of the *)
(* file, one for every route (reloadRoutingGraph): nor does writing the    *)
(* file back with other names change what the graph would be.              *)
THEOREM GraphStays == Spec => []GraphFollows
  <1>1. ExactInv => GraphFollows
    BY DEF ExactInv, Followed, GraphFollows, Quiet, Rests
  <1>2. Init => RInv /\ ExactInv
    BY RInvAtFirst, ExactAtFirst
  <1>3. RInv /\ ExactInv /\ [Next]_vars => (RInv /\ ExactInv)'
    BY RInvIsKept, ExactIsKept
  <1> QED BY <1>1, <1>2, <1>3, PTL DEF Spec

-----------------------------------------------------------------------------
(* Where the ring keeps the X-run of place p, counted from the oldest of   *)
(* those since the buffers last settled; none there if it is 0 or less.    *)
Turn(p) == Len(settled) - xrunIndex + p + (IF p < xrunIndex THEN 1 ELSE 1 - Burst)

LevelTypes ==
  /\ now \in 1..MaxTime /\ level \in 0..MaxLevel /\ failures \in 0..3
  /\ recentBurst \in 0..Burst /\ hasXrun \in BOOLEAN
  /\ graceUntil \in Nat /\ graceUntil <= MaxTime + StartupGrace + ShiftGrace
  /\ lastXrunAt \in 0..now
  /\ lowered \in [from : 0..MaxLevel, at : Nat]
  /\ xrunTimes \in [Place -> 0..now] /\ xrunIndex \in Place
  /\ settled \in Seq(1..MaxTime) /\ raised \in [at : 0..now, busy : BOOLEAN]
  /\ changed \in 0..now

(* The ring holds the last X-runs since the buffers last settled, in their *)
(* order, and all of them came before now.                                 *)
RingHolds ==
  /\ Len(settled) <= Burst /\ (Len(settled) < Burst => xrunIndex = Len(settled))
  /\ \A p \in Place : xrunTimes[p] = IF Turn(p) >= 1 THEN settled[Turn(p)] ELSE 0
  /\ \A i, j \in 1..Len(settled) : i <= j => settled[i] <= settled[j]
  /\ \A i \in 1..Len(settled) : settled[i] <= lastXrunAt
  /\ settled # <<>> => ~IsBurst(settled) \/ level = MaxLevel

(* What was the reason to wait is still one: the grace, the last X-run and *)
(* the burst that raised the level.                                        *)
Waits ==
  /\ graceUntil >= 1 + StartupGrace /\ (changed > 0 => graceUntil >= changed + ShiftGrace)
  /\ changed <= lastXrunAt /\ raised.at <= lastXrunAt
  /\ raised.busy => \/ recentBurst >= Burst
                    \/ now - raised.at >= Larger(BusyQuietPeriod, Backoff[failures + 1])

LevelInv == LevelTypes /\ RingHolds /\ Waits

-----------------------------------------------------------------------------
(* The constants, one by one.                                              *)
LEMMA LevelConstants ==
  /\ Burst \in Nat /\ Burst >= 1 /\ MaxTime \in Nat /\ MaxTime >= 1
  /\ Window \in Nat /\ StartupGrace \in Nat /\ ShiftGrace \in Nat /\ BusyQuietPeriod \in Nat
  /\ RetryWindow \in Nat /\ MaxLevel \in Nat /\ QuietPeriod \in 0..BusyQuietPeriod
  /\ Backoff \in [1..4 -> Nat]
  BY LevelAssumption

(* The index of the next place, without the remainder.                     *)
NextPlace == IF xrunIndex + 1 = Burst THEN 0 ELSE xrunIndex + 1
LEMMA NextPlaceIs ==
  ASSUME LevelTypes
  PROVE  /\ xrunIndex % Burst = xrunIndex /\ (xrunIndex + 1) % Burst = NextPlace
         /\ NextPlace \in Place
  <1>1. Burst \in Nat \ {0} /\ xrunIndex \in 0..(Burst - 1)
    BY LevelConstants DEF LevelTypes, Place
  <1>2. xrunIndex % Burst = xrunIndex
    BY <1>1
  <1>3. CASE xrunIndex + 1 = Burst
    BY <1>1, <1>2, <1>3 DEF NextPlace, Place
  <1>4. CASE xrunIndex + 1 # Burst
    <2>1. xrunIndex + 1 \in Nat /\ xrunIndex + 1 < Burst
      BY <1>1, <1>4
    <2>2. (xrunIndex + 1) % Burst = xrunIndex + 1
      BY <1>1, <2>1
    <2> QED BY <1>1, <1>2, <1>4, <2>1, <2>2 DEF NextPlace, Place
  <1> QED BY <1>3, <1>4

(* How many X-runs fall out of what is remembered when one comes.          *)
Falls == IF Len(settled) = Burst THEN 1 ELSE 0

(* The X-runs that are remembered with one that comes now.                 *)
LEMMA RememberedIs ==
  ASSUME LevelInv
  PROVE  /\ Len(settled) \in 0..Burst /\ Falls \in 0..1 /\ (Falls = 1 <=> Len(settled) = Burst)
         /\ Remembered \in Seq(1..MaxTime) /\ Len(Remembered) = Len(settled) + 1 - Falls
         /\ Len(Remembered) \in 1..Burst /\ Remembered[Len(Remembered)] = now
         /\ \A i \in 1..(Len(Remembered) - 1) :
                i + Falls \in 1..Len(settled) /\ Remembered[i] = settled[i + Falls]
  <1> DEFINE n == Len(settled)
             all == Append(settled, now)
             d == Falls
  <1>1. n \in Nat /\ n <= Burst /\ settled \in Seq(1..MaxTime) /\ now \in 1..MaxTime
        /\ Burst \in Nat /\ Burst >= 1
    BY LevelConstants DEF LevelInv, LevelTypes, RingHolds
  <1>2. all \in Seq(1..MaxTime) /\ Len(all) = n + 1 /\ all[n + 1] = now
        /\ \A i \in 1..n : all[i] = settled[i]
    BY <1>1
  <1>3. d \in 0..1 /\ (d = 1 <=> n = Burst)
    BY <1>1 DEF Falls
  <1>4. Larger(1, Len(all) - Burst + 1) = 1 + d
    BY <1>1, <1>2 DEF Larger, Falls
  <1>5. Remembered = SubSeq(all, 1 + d, n + 1)
    BY <1>2, <1>4 DEF Remembered
  <1> HIDE DEF all, n, d
  <1>6. /\ Len(Remembered) = n + 1 - d /\ Remembered \in Seq(1..MaxTime)
        /\ \A i \in 1..(n + 1 - d) : Remembered[i] = all[i + d]
    <2>1. 1 + d \in Int /\ n + 1 \in Int /\ \A i \in (1 + d)..(n + 1) : all[i] \in 1..MaxTime
      <3>1. ASSUME NEW i \in (1 + d)..(n + 1) PROVE all[i] \in 1..MaxTime
        <4>1. i \in 1..Len(all)
          BY <1>1, <1>2, <1>3
        <4> QED BY <1>2, <4>1, ElementOfSeq
      <3> QED BY <1>1, <1>3, <3>1
    <2>2. /\ SubSeq(all, 1 + d, n + 1) \in Seq(1..MaxTime)
          /\ Len(SubSeq(all, 1 + d, n + 1)) = IF 1 + d <= n + 1 THEN (n + 1) - (1 + d) + 1 ELSE 0
          /\ \A i \in 1..((n + 1) - (1 + d) + 1) : SubSeq(all, 1 + d, n + 1)[i] = all[(1 + d) + i - 1]
      BY <2>1, SubSeqProperties
    <2>3. (n + 1) - (1 + d) + 1 = n + 1 - d /\ 1 + d <= n + 1
      BY <1>1, <1>3
    <2>4. \A i \in 1..(n + 1 - d) : (1 + d) + i - 1 = i + d
      BY <1>1, <1>3
    <2> QED BY <1>5, <2>2, <2>3, <2>4
  <1>7. n + 1 - d \in 1..(n + 1) /\ (n + 1 - d) + d = n + 1 /\ n + 1 - d <= Burst
        /\ \A i \in 1..(n - d) : i + d \in 1..n /\ i \in 1..(n + 1 - d)
    BY <1>1, <1>3
  <1>8. /\ Remembered[n + 1 - d] = now
        /\ \A i \in 1..(n - d) : i + d \in 1..n /\ Remembered[i] = settled[i + d]
    <2>1. n + 1 - d \in 1..(n + 1 - d)
      BY <1>7
    <2>2. Remembered[n + 1 - d] = all[n + 1]
      BY <1>6, <1>7, <2>1
    <2> QED BY <1>2, <1>6, <1>7, <2>2
  <1>9. (n + 1 - d) - 1 = n - d
    BY <1>1, <1>3
  <1>10. n \in 0..Burst /\ d \in 0..1 /\ (d = 1 <=> n = Burst)
    BY <1>1, <1>3
  <1>11. /\ Len(Remembered) \in 1..Burst /\ Remembered[Len(Remembered)] = now
    BY <1>1, <1>3, <1>6, <1>7, <1>8
  <1>12. \A i \in 1..(Len(Remembered) - 1) : i + d \in 1..n /\ Remembered[i] = settled[i + d]
    BY <1>6, <1>8, <1>9
  <1> QED BY <1>6, <1>10, <1>11, <1>12 DEF n, d

(* The ring holds them, too.                                               *)
NewTurn(p) == Len(Remembered) - NextPlace + p + (IF p < NextPlace THEN 1 ELSE 1 - Burst)
LEMMA RingTurns ==
  ASSUME LevelInv, NEW p \in Place
  PROVE  /\ NewTurn(p) \in Int /\ NewTurn(p) <= Len(Remembered)
         /\ Times[p] = IF NewTurn(p) >= 1 THEN Remembered[NewTurn(p)] ELSE 0
  <1> DEFINE n == Len(settled)
             m == Len(Remembered)
             d == Falls
             x == xrunIndex
             y == NextPlace
  <1>1. /\ n \in 0..Burst /\ d \in 0..1 /\ (d = 1 <=> n = Burst) /\ m = n + 1 - d /\ m \in 1..Burst
        /\ Remembered[m] = now /\ \A i \in 1..(m - 1) : Remembered[i] = settled[i + d]
    BY RememberedIs
  <1>2. /\ x \in 0..(Burst - 1) /\ Burst \in Nat /\ Burst >= 1 /\ (n < Burst => x = n)
        /\ p \in 0..(Burst - 1) /\ y = IF x + 1 = Burst THEN 0 ELSE x + 1
    BY LevelConstants DEF LevelInv, LevelTypes, RingHolds, Place, NextPlace
  <1>3. Times = [xrunTimes EXCEPT ![x] = now] /\ xrunTimes \in [Place -> 0..now] /\ x \in Place
    BY NextPlaceIs DEF Times, LevelInv, LevelTypes
  <1>4. /\ NewTurn(p) = m - y + p + (IF p < y THEN 1 ELSE 1 - Burst)
        /\ Turn(p) = n - x + p + (IF p < x THEN 1 ELSE 1 - Burst)
    BY DEF NewTurn, Turn
  <1>5. xrunTimes[p] = IF Turn(p) >= 1 THEN settled[Turn(p)] ELSE 0
    BY DEF LevelInv, RingHolds
  <1> HIDE DEF n, m, d, x, y
  <1>6. CASE p = x
    <2>1. NewTurn(p) = m
      BY <1>1, <1>2, <1>4, <1>6
    <2> QED BY <1>1, <1>3, <1>6, <2>1 DEF m
  <1>7. CASE p # x
    <2>1. Times[p] = xrunTimes[p]
      BY <1>3, <1>7
    <2>2. /\ NewTurn(p) \in Int /\ NewTurn(p) <= m - 1 /\ Turn(p) = NewTurn(p) + d
          /\ (d = 1 => NewTurn(p) >= 1)
      BY <1>1, <1>2, <1>4, <1>7
    <2>3. CASE NewTurn(p) >= 1
      <3>1. Remembered[NewTurn(p)] = settled[Turn(p)] /\ Turn(p) >= 1
        BY <1>1, <2>2, <2>3
      <3> QED BY <1>1, <1>5, <2>1, <2>2, <2>3, <3>1 DEF m
    <2>4. CASE ~(NewTurn(p) >= 1)
      BY <1>1, <1>5, <2>1, <2>2, <2>4 DEF m
    <2> QED BY <2>3, <2>4
  <1> QED BY <1>6, <1>7

(* What is remembered is in order, and of the past.                        *)
LEMMA RememberedInOrder ==
  ASSUME LevelInv, NEW i \in 1..Len(Remembered), NEW j \in 1..Len(Remembered), i <= j
  PROVE  Remembered[i] <= Remembered[j] /\ Remembered[j] <= now /\ Remembered[i] \in 1..MaxTime
  <1> DEFINE n == Len(settled)
             m == Len(Remembered)
             d == Falls
  <1>1. /\ n \in Nat /\ now \in 1..MaxTime /\ MaxTime \in Nat /\ lastXrunAt \in 0..now
        /\ \A a, b \in 1..n : a <= b => settled[a] <= settled[b]
        /\ \A a \in 1..n : settled[a] <= lastXrunAt /\ settled[a] \in 1..MaxTime
    <2>1. settled \in Seq(1..MaxTime)
      BY DEF LevelInv, LevelTypes
    <2>2. \A a \in 1..n : settled[a] \in 1..MaxTime
      BY <2>1, ElementOfSeq
    <2>3. n \in Nat /\ now \in 1..MaxTime /\ MaxTime \in Nat /\ lastXrunAt \in 0..now
      BY <2>1, LevelConstants DEF LevelInv, LevelTypes
    <2>4. /\ \A a, b \in 1..n : a <= b => settled[a] <= settled[b]
          /\ \A a \in 1..n : settled[a] <= lastXrunAt
      BY DEF LevelInv, RingHolds
    <2> QED BY <2>2, <2>3, <2>4
  <1>2. /\ d \in 0..1 /\ m \in Nat /\ Remembered[m] = now
        /\ \A a \in 1..(m - 1) : a + d \in 1..n /\ Remembered[a] = settled[a + d]
    BY RememberedIs
  <1>3. i \in 1..m /\ j \in 1..m
    OBVIOUS
  <1> HIDE DEF n, m, d
  <1>4. \A a \in 1..(m - 1) : Remembered[a] <= now /\ Remembered[a] \in 1..MaxTime
    <2>1. ASSUME NEW a \in 1..(m - 1) PROVE Remembered[a] <= now /\ Remembered[a] \in 1..MaxTime
      <3>1. a + d \in 1..n /\ Remembered[a] = settled[a + d]
        BY <1>2
      <3>2. settled[a + d] <= lastXrunAt /\ settled[a + d] \in 1..MaxTime
        BY <1>1, <3>1
      <3> QED BY <1>1, <3>1, <3>2
    <2> QED BY <2>1
  <1>5. CASE j = m
    <2>1. CASE i = m
      BY <1>1, <1>2, <1>5, <2>1
    <2>2. CASE i # m
      <3>1. i \in 1..(m - 1)
        BY <1>2, <1>3, <2>2
      <3> QED BY <1>1, <1>2, <1>4, <1>5, <3>1
    <2> QED BY <2>1, <2>2
  <1>6. CASE j # m
    <2>1. i \in 1..(m - 1) /\ j \in 1..(m - 1)
      BY <1>2, <1>3, <1>6
    <2>2. i + d \in 1..n /\ j + d \in 1..n /\ i + d <= j + d
      BY <1>2, <1>3, <2>1
    <2>3. settled[i + d] <= settled[j + d]
      BY <1>1, <2>2
    <2> QED BY <1>2, <1>4, <2>1, <2>3
  <1> QED BY <1>5, <1>6

(* As many X-runs in the window as the ring has places: a burst of those   *)
(* that count.                                                             *)
LEMMA RecentIsBurst ==
  ASSUME LevelInv
  PROVE  /\ Recent \in 0..Burst
         /\ Recent >= Burst <=> IsBurst(Remembered)
  <1> DEFINE hot == {p \in Place : Times[p] # 0 /\ now - Times[p] <= Window}
             m == Len(Remembered)
  <1>1. IsFiniteSet(Place) /\ Cardinality(Place) = Burst /\ Burst \in Nat /\ Burst >= 1
    <2>1. /\ IsFiniteSet(0..(Burst - 1))
          /\ Cardinality(0..(Burst - 1)) = IF 0 > Burst - 1 THEN 0 ELSE (Burst - 1) - 0 + 1
      <3>1. 0 \in Int /\ Burst - 1 \in Int
        BY LevelConstants
      <3> QED BY <3>1, FS_Interval
    <2> QED BY <2>1, LevelConstants DEF Place
  <1>2. /\ Recent = Cardinality(hot) /\ Recent \in 0..Burst /\ (Recent = Burst <=> hot = Place)
    <2>1. hot \subseteq Place /\ Recent = Cardinality(hot)
      BY DEF Recent
    <2> HIDE DEF hot
    <2>2. /\ IsFiniteSet(hot) /\ Cardinality(hot) <= Burst
          /\ (Cardinality(hot) = Burst => hot = Place)
      BY <1>1, <2>1, FS_Subset
    <2>3. Cardinality(hot) \in Nat
      BY <2>2, FS_CardinalityType
    <2> QED BY <1>1, <2>1, <2>2, <2>3
  <1>3. m \in 1..Burst
    BY RememberedIs
  <1>4. NextPlace \in 0..(Burst - 1)
    BY NextPlaceIs DEF LevelInv, Place
  <1>5. now \in 1..MaxTime /\ Window \in Nat /\ MaxTime \in Nat
    BY LevelConstants DEF LevelInv, LevelTypes
  <1>6. \A p \in Place : NewTurn(p) = m - NextPlace + p + (IF p < NextPlace THEN 1 ELSE 1 - Burst)
    BY DEF NewTurn
  <1>7. ASSUME hot = Place PROVE IsBurst(Remembered)
    <2>1. NextPlace \in Place /\ NewTurn(NextPlace) = m + 1 - Burst
      <3>1. NextPlace \in Place
        BY <1>4 DEF Place
      <3>2. NewTurn(NextPlace) = m - NextPlace + NextPlace + (IF NextPlace < NextPlace THEN 1 ELSE 1 - Burst)
        BY <1>6, <3>1
      <3> HIDE DEF m
      <3> QED BY <1>1, <1>3, <1>4, <3>1, <3>2
    <2>2. Times[NextPlace] # 0 /\ now - Times[NextPlace] <= Window
      BY <1>7, <2>1
    <2>3. Times[NextPlace] = IF NewTurn(NextPlace) >= 1 THEN Remembered[NewTurn(NextPlace)] ELSE 0
      BY <2>1, RingTurns
    <2>4. m = Burst /\ NewTurn(NextPlace) = 1
      <3> HIDE DEF m
      <3> QED BY <1>1, <1>3, <2>1, <2>2, <2>3
    <2> QED BY <2>2, <2>3, <2>4 DEF IsBurst
  <1>8. ASSUME IsBurst(Remembered) PROVE hot = Place
    <2>1. ASSUME NEW p \in Place PROVE p \in hot
      <3>1. p \in 0..(Burst - 1) /\ m = Burst /\ now - Remembered[1] <= Window
        BY <1>8 DEF Place, IsBurst
      <3>2. NewTurn(p) >= 1
        <4> HIDE DEF m
        <4> QED BY <1>1, <1>4, <1>6, <3>1
      <3>3. NewTurn(p) \in 1..m /\ 1 \in 1..m /\ 1 <= NewTurn(p) /\ Times[p] = Remembered[NewTurn(p)]
        BY <1>3, <3>2, RingTurns
      <3>4. Remembered[1] <= Remembered[NewTurn(p)] /\ Remembered[NewTurn(p)] <= now
            /\ Remembered[1] \in 1..MaxTime
        BY <3>3, RememberedInOrder
      <3>5. Remembered[NewTurn(p)] \in 1..MaxTime
        BY <3>3, RememberedInOrder
      <3> QED BY <1>5, <3>1, <3>3, <3>4, <3>5
    <2> QED BY <2>1
  <1> QED BY <1>1, <1>2, <1>7, <1>8

-----------------------------------------------------------------------------
(* The steps.                                                              *)
LEMMA LevelStarts == LevelInit => LevelInv
  <1> SUFFICES ASSUME LevelInit PROVE LevelInv
    OBVIOUS
  <1>1. <<>> \in Seq(1..MaxTime) /\ Len(<<>>) = 0
    OBVIOUS
  <1>2. LevelTypes
    <2>1. xrunTimes \in [Place -> 0..now] /\ xrunIndex \in Place
      BY LevelConstants DEF LevelInit, Place
    <2>2. /\ lowered \in [from : 0..MaxLevel, at : Nat]
          /\ raised \in [at : 0..now, busy : BOOLEAN]
      BY LevelConstants DEF LevelInit
    <2>3. /\ now \in 1..MaxTime /\ level \in 0..MaxLevel /\ recentBurst \in 0..Burst
          /\ graceUntil \in Nat /\ graceUntil <= MaxTime + StartupGrace + ShiftGrace
      BY LevelConstants DEF LevelInit
    <2> QED BY <1>1, <2>1, <2>2, <2>3 DEF LevelInit, LevelTypes
  <1>3. \A p \in Place : ~(Turn(p) >= 1)
    <2>1. \A p \in Place : Turn(p) = 0 - 0 + p + (IF p < 0 THEN 1 ELSE 1 - Burst)
      BY <1>1 DEF LevelInit, Turn
    <2> QED BY <2>1, LevelConstants DEF Place
  <1>4. RingHolds
    BY <1>1, <1>3, LevelConstants DEF LevelInit, RingHolds, Place
  <1>5. Waits
    BY LevelConstants DEF LevelInit, Waits
  <1> QED BY <1>2, <1>4, <1>5 DEF LevelInv

(* Changed buffers: an empty ring, and time to settle.                     *)
LEMMA RingCleared ==
  ASSUME LevelInv, BufferChanged
  PROVE  /\ RingHolds' /\ xrunTimes' \in [Place -> {0}] /\ xrunIndex' \in Place
         /\ settled' \in Seq(1..MaxTime) /\ changed' = now /\ lastXrunAt' = now
         /\ graceUntil' \in Nat /\ graceUntil' <= MaxTime + StartupGrace + ShiftGrace
         /\ graceUntil' >= graceUntil /\ graceUntil' >= now + ShiftGrace
  <1>1. <<>> \in Seq(1..MaxTime) /\ Len(<<>>) = 0
    OBVIOUS
  <1>2. settled' = <<>> /\ xrunIndex' = 0 /\ xrunTimes' = [p \in Place |-> 0]
    BY DEF BufferChanged
  <1>3. \A p \in Place : ~(Turn(p)' >= 1)
    <2>1. \A p \in Place : Turn(p)' = 0 - 0 + p + (IF p < 0 THEN 1 ELSE 1 - Burst)
      BY <1>1, <1>2 DEF Turn
    <2> QED BY <2>1, LevelConstants DEF Place
  <1>4. RingHolds'
    BY <1>1, <1>2, <1>3, LevelConstants DEF RingHolds
  <1>5. graceUntil \in Nat /\ graceUntil <= MaxTime + StartupGrace + ShiftGrace /\ now \in 1..MaxTime
    BY DEF LevelInv, LevelTypes
  <1>6. graceUntil' = IF graceUntil >= now + ShiftGrace THEN graceUntil ELSE now + ShiftGrace
    BY DEF BufferChanged, Larger
  <1> QED BY <1>1, <1>2, <1>4, <1>5, <1>6, LevelConstants DEF BufferChanged, Place

LEMMA LevelLater == ASSUME LevelInv, Later PROVE LevelInv'
  <1>1. now \in 1..MaxTime /\ now' = now + 1 /\ now' \in 1..MaxTime /\ MaxTime \in Nat
    BY LevelConstants DEF Later, LevelInv, LevelTypes
  <1>2. UNCHANGED <<level, graceUntil, lastXrunAt, hasXrun, xrunTimes, xrunIndex, recentBurst,
                    failures, lowered, settled, raised, changed>>
    BY DEF Later
  <1>3. LevelTypes'
    <2>1. xrunTimes \in [Place -> 0..now']
      BY <1>1 DEF LevelInv, LevelTypes
    <2>2. raised \in [at : 0..now', busy : BOOLEAN] /\ lastXrunAt \in 0..now' /\ changed \in 0..now'
      BY <1>1 DEF LevelInv, LevelTypes
    <2> QED BY <1>1, <1>2, <2>1, <2>2 DEF LevelInv, LevelTypes
  <1>4. RingHolds'
    <2>1. settled # <<>> => ~IsBurst(settled)' \/ level = MaxLevel
      <3>1. ASSUME settled # <<>>, IsBurst(settled)' PROVE IsBurst(settled)
        <4>1. Len(settled) = Burst /\ now' - settled[1] <= Window
          BY <1>2, <3>1 DEF IsBurst
        <4>2. settled \in Seq(1..MaxTime) /\ 1 \in 1..Len(settled)
          BY <4>1, LevelConstants DEF LevelInv, LevelTypes
        <4>3. settled[1] \in 1..MaxTime
          BY <4>2, ElementOfSeq
        <4> QED BY <1>1, <4>1, <4>3, LevelConstants DEF IsBurst
      <3> QED BY <3>1 DEF LevelInv, RingHolds
    <2>2. \A p \in Place : Turn(p)' = Turn(p)
      BY <1>2 DEF Turn
    <2> QED BY <1>2, <2>1, <2>2 DEF LevelInv, RingHolds
  <1>5. Waits'
    <2>1. raised.at \in 0..now /\ failures \in 0..3
      BY DEF LevelInv, LevelTypes
    <2>2. Larger(BusyQuietPeriod, Backoff[failures + 1]) \in Nat
      BY <2>1, LevelConstants DEF Larger
    <2> QED BY <1>1, <1>2, <2>1, <2>2 DEF LevelInv, Waits
  <1> QED BY <1>3, <1>4, <1>5 DEF LevelInv

LEMMA LevelOpens == ASSUME LevelInv, Opens PROVE LevelInv'
  <1>1. UNCHANGED <<now, level, hasXrun, recentBurst, failures, lowered, raised>> /\ BufferChanged
    BY DEF Opens
  <1>2. now \in 1..MaxTime /\ graceUntil \in Nat
    BY DEF LevelInv, LevelTypes
  <1>3. LevelTypes'
    <2>1. xrunTimes' \in [Place -> 0..now]
      BY <1>1, <1>2, RingCleared
    <2> QED BY <1>1, <1>2, <2>1, RingCleared DEF LevelInv, LevelTypes
  <1>4. Waits'
    <2>1. raised.at \in 0..now
      BY DEF LevelInv, LevelTypes
    <2> QED BY <1>1, <1>2, <2>1, RingCleared, LevelConstants DEF LevelInv, Waits
  <1> QED BY <1>1, <1>3, <1>4, RingCleared DEF LevelInv

LEMMA LevelCounts == ASSUME LevelInv, CountXrun PROVE LevelInv'
  <1>1. /\ UNCHANGED <<now, level, graceUntil, failures, lowered, changed>>
        /\ now >= graceUntil /\ lastXrunAt' = now /\ hasXrun' = TRUE /\ xrunTimes' = Times
        /\ xrunIndex' = NextPlace /\ NextPlace \in Place
        /\ recentBurst' = Recent /\ settled' = Remembered
        /\ raised' = [raised EXCEPT !.busy = FALSE]
    BY NextPlaceIs DEF CountXrun, LevelInv
  <1>2. now \in 1..MaxTime /\ lastXrunAt \in 0..now /\ Burst \in Nat /\ MaxTime \in Nat
    BY LevelConstants DEF LevelInv, LevelTypes
  <1>3. xrunTimes' \in [Place -> 0..now]
    BY <1>1, <1>2, NextPlaceIs DEF Times, LevelInv, LevelTypes
  <1>4. raised' \in [at : 0..now, busy : BOOLEAN] /\ raised'.at = raised.at /\ raised'.busy = FALSE
    BY <1>1 DEF LevelInv, LevelTypes
  <1>5. LevelTypes'
    <2>1. /\ level \in 0..MaxLevel /\ failures \in 0..3 /\ graceUntil \in Nat
          /\ graceUntil <= MaxTime + StartupGrace + ShiftGrace /\ changed \in 0..now
          /\ lowered \in [from : 0..MaxLevel, at : Nat]
      BY DEF LevelInv, LevelTypes
    <2>2. recentBurst' \in 0..Burst /\ settled' \in Seq(1..MaxTime)
      BY <1>1, RecentIsBurst, RememberedIs
    <2>3. lastXrunAt' \in 0..now' /\ xrunTimes' \in [Place -> 0..now'] /\ now' \in 1..MaxTime
          /\ raised' \in [at : 0..now', busy : BOOLEAN] /\ changed' \in 0..now'
      BY <1>1, <1>2, <1>3, <1>4, <2>1
    <2> QED BY <1>1, <2>1, <2>2, <2>3 DEF LevelTypes
  <1>6. RingHolds'
    <2>1. Len(settled') \in 1..Burst /\ Len(Remembered) = Len(settled) + 1 - Falls
      BY <1>1, RememberedIs
    <2>2. Len(settled') < Burst => xrunIndex' = Len(settled')
      <3>1. /\ Len(settled) \in 0..Burst /\ Falls \in 0..1 /\ (Falls = 1 <=> Len(settled) = Burst)
            /\ (Len(settled) < Burst => xrunIndex = Len(settled))
        BY RememberedIs DEF LevelInv, RingHolds
      <3> QED BY <1>1, <1>2, <2>1, <3>1 DEF NextPlace
    <2>3. \A p \in Place : xrunTimes'[p] = IF Turn(p)' >= 1 THEN settled'[Turn(p)'] ELSE 0
      <3>1. ASSUME NEW p \in Place PROVE xrunTimes'[p] = IF Turn(p)' >= 1 THEN settled'[Turn(p)'] ELSE 0
        <4>1. Turn(p)' = NewTurn(p)
          BY <1>1 DEF Turn, NewTurn
        <4> QED BY <1>1, <4>1, RingTurns
      <3> QED BY <3>1
    <2>4. /\ \A i, j \in 1..Len(settled') : i <= j => settled'[i] <= settled'[j]
          /\ \A i \in 1..Len(settled') : settled'[i] <= lastXrunAt'
      <3>1. ASSUME NEW i \in 1..Len(Remembered), NEW j \in 1..Len(Remembered), i <= j
            PROVE  Remembered[i] <= Remembered[j]
        BY <3>1, RememberedInOrder
      <3>2. ASSUME NEW i \in 1..Len(Remembered) PROVE Remembered[i] <= now
        <4>1. i <= i
          OBVIOUS
        <4> QED BY <4>1, RememberedInOrder
      <3> QED BY <1>1, <3>1, <3>2
    <2>5. ~IsBurst(settled)' \/ level = MaxLevel
      <3>1. Recent < Burst \/ level = MaxLevel
        <4>1. ~(Recent >= Burst /\ level < MaxLevel)
          BY DEF CountXrun, Raises
        <4>2. level \in 0..MaxLevel /\ MaxLevel \in Nat /\ Recent \in 0..Burst
          BY RecentIsBurst, LevelConstants DEF LevelInv, LevelTypes
        <4> HIDE DEF Recent
        <4> QED BY <1>2, <4>1, <4>2
      <3>2. IsBurst(settled)' = IsBurst(Remembered)
        BY <1>1 DEF IsBurst
      <3> QED BY <1>2, <3>1, <3>2, RecentIsBurst
    <2> QED BY <1>1, <2>1, <2>2, <2>3, <2>4, <2>5 DEF RingHolds
  <1>7. Waits'
    BY <1>1, <1>2, <1>4 DEF LevelInv, LevelTypes, Waits
  <1> QED BY <1>5, <1>6, <1>7 DEF LevelInv

LEMMA LevelRaises == ASSUME LevelInv, Raise PROVE LevelInv'
  <1>1. /\ BufferChanged /\ Recent >= Burst /\ level < MaxLevel /\ level' = level + 1 /\ now' = now
        /\ failures' = IF Failed /\ failures < 3 THEN failures + 1 ELSE failures
        /\ lowered' = [lowered EXCEPT !.from = 0] /\ hasXrun' = TRUE /\ recentBurst' = Recent
        /\ raised' = [at |-> now, busy |-> TRUE]
    BY DEF Raise, Raises
  <1>2. now \in 1..MaxTime /\ graceUntil \in Nat /\ failures \in 0..3 /\ level \in 0..MaxLevel
        /\ lowered \in [from : 0..MaxLevel, at : Nat]
    BY DEF LevelInv, LevelTypes
  <1>3. Recent \in 0..Burst
    BY RecentIsBurst
  <1>4. LevelTypes'
    <2>1. xrunTimes' \in [Place -> 0..now]
      BY <1>1, <1>2, RingCleared
    <2>2. lowered' \in [from : 0..MaxLevel, at : Nat] /\ failures' \in 0..3 /\ level' \in 0..MaxLevel
      BY <1>1, <1>2, LevelConstants
    <2>3. raised' \in [at : 0..now', busy : BOOLEAN] /\ now' \in 1..MaxTime
          /\ recentBurst' \in 0..Burst /\ xrunTimes' \in [Place -> 0..now']
      BY <1>1, <1>2, <1>3, <2>1
    <2>4. /\ lastXrunAt' \in 0..now' /\ changed' \in 0..now' /\ settled' \in Seq(1..MaxTime)
          /\ graceUntil' \in Nat /\ graceUntil' <= MaxTime + StartupGrace + ShiftGrace
          /\ xrunIndex' \in Place
      BY <1>1, <1>2, RingCleared
    <2> QED BY <1>1, <2>2, <2>3, <2>4 DEF LevelTypes
  <1>5. Waits'
    <2>1. raised'.at = now /\ recentBurst' >= Burst
      BY <1>1
    <2>2. graceUntil >= 1 + StartupGrace
      BY DEF LevelInv, Waits
    <2>3. /\ graceUntil' >= 1 + StartupGrace /\ (changed' > 0 => graceUntil' >= changed' + ShiftGrace)
          /\ changed' <= lastXrunAt' /\ raised'.at <= lastXrunAt'
      <3>1. /\ changed' = now /\ lastXrunAt' = now /\ graceUntil' \in Nat
            /\ graceUntil' >= graceUntil /\ graceUntil' >= now + ShiftGrace
        BY <1>1, RingCleared
      <3> QED BY <1>2, <2>1, <2>2, <3>1, LevelConstants
    <2> QED BY <2>1, <2>3 DEF Waits
  <1> QED BY <1>1, <1>4, <1>5, RingCleared DEF LevelInv

LEMMA LevelLowers == ASSUME LevelInv, Lower PROVE LevelInv' /\ StepsBackWhenCalm
  <1>1. /\ BufferChanged /\ level > 0 /\ level' = level - 1 /\ now - lastXrunAt >= RequiredQuiet
        /\ recentBurst' = 0 /\ UNCHANGED <<now, hasXrun, failures, raised>>
        /\ lowered' = [from |-> level, at |-> now]
    BY DEF Lower
  <1>2. now \in 1..MaxTime /\ graceUntil \in Nat /\ failures \in 0..3 /\ level \in 0..MaxLevel
        /\ lastXrunAt \in 0..now /\ recentBurst \in 0..Burst /\ MaxTime \in Nat
        /\ raised \in [at : 0..now, busy : BOOLEAN] /\ changed \in 0..now
    BY LevelConstants DEF LevelInv, LevelTypes
  <1> DEFINE B == Backoff[failures + 1]
  <1>3. B \in Nat /\ BusyQuietPeriod \in Nat /\ QuietPeriod \in 0..BusyQuietPeriod /\ Burst \in Nat
    BY <1>2, LevelConstants
  <1>4. RequiredQuiet = LET q == IF recentBurst >= Burst THEN BusyQuietPeriod ELSE QuietPeriod
                        IN  IF q >= B THEN q ELSE B
    BY DEF RequiredQuiet, Larger
  <1>5. changed <= lastXrunAt /\ raised.at <= lastXrunAt /\ raised.at \in 0..now
        /\ (raised.busy => recentBurst >= Burst \/ now - raised.at >= Larger(BusyQuietPeriod, B))
    BY <1>2 DEF LevelInv, Waits
  <1> HIDE DEF B
  <1>6. /\ now - lastXrunAt >= QuietPeriod /\ now - lastXrunAt >= B
        /\ raised.busy => now - raised.at >= Larger(BusyQuietPeriod, B)
    BY <1>1, <1>2, <1>3, <1>4, <1>5 DEF Larger
  <1>7. LevelTypes'
    <2>1. xrunTimes' \in [Place -> 0..now]
      BY <1>1, <1>2, RingCleared
    <2>2. lowered' \in [from : 0..MaxLevel, at : Nat] /\ level' \in 0..MaxLevel
      BY <1>1, <1>2, LevelConstants
    <2> QED BY <1>1, <1>2, <1>3, <2>1, <2>2, RingCleared DEF LevelInv, LevelTypes
  <1>8. Waits'
    <2>1. raised'.busy => now' - raised'.at >= Larger(BusyQuietPeriod, Backoff[failures' + 1])
      BY <1>1, <1>6 DEF B
    <2>2. graceUntil >= 1 + StartupGrace
      BY DEF LevelInv, Waits
    <2>3. /\ graceUntil' >= 1 + StartupGrace /\ (changed' > 0 => graceUntil' >= changed' + ShiftGrace)
          /\ changed' <= lastXrunAt' /\ raised'.at <= lastXrunAt'
      BY <1>1, <1>2, <1>5, <2>2, RingCleared, LevelConstants
    <2> QED BY <2>1, <2>3 DEF Waits
  <1>9. StepsBackWhenCalm
    <2>1. now - changed >= QuietPeriod /\ now - raised.at >= B
      BY <1>2, <1>3, <1>5, <1>6
    <2>2. settled # <<>> => now - settled[Len(settled)] >= QuietPeriod
      <3>1. ASSUME settled # <<>> PROVE now - settled[Len(settled)] >= QuietPeriod
        <4>1. settled \in Seq(1..MaxTime) /\ Len(settled) \in 1..Len(settled)
          BY <3>1 DEF LevelInv, LevelTypes
        <4>2. settled[Len(settled)] <= lastXrunAt /\ settled[Len(settled)] \in 1..MaxTime
          BY <4>1, ElementOfSeq DEF LevelInv, RingHolds
        <4> QED BY <1>2, <1>3, <1>6, <4>2
      <3> QED BY <3>1
    <2> QED BY <1>1, <1>6, <2>1, <2>2 DEF StepsBackWhenCalm, B
  <1> QED BY <1>1, <1>7, <1>8, <1>9, RingCleared DEF LevelInv

(* The level rises on bursts that came after the buffers had settled, and  *)
(* when it does not rise no such burst is left without an answer.          *)
LEMMA RaisesRight == ASSUME LevelInv, Raise PROVE RisesOnBursts
  <1>1. now >= graceUntil /\ Recent >= Burst /\ level' = level + 1 /\ settled' = <<>>
    BY DEF Raise, Raises, BufferChanged
  <1>2. IsBurst(Remembered)
    BY <1>1, RecentIsBurst
  <1>3. /\ graceUntil >= 1 + StartupGrace /\ (changed > 0 => graceUntil >= changed + ShiftGrace)
        /\ graceUntil \in Nat /\ now \in 1..MaxTime /\ changed \in 0..now /\ level \in 0..MaxLevel
    BY DEF LevelInv, LevelTypes, Waits
  <1>4. now > StartupGrace /\ (changed > 0 => now - changed >= ShiftGrace) /\ level' # level
    BY <1>1, <1>3, LevelConstants
  <1> QED BY <1>1, <1>2, <1>4 DEF RisesOnBursts

LEMMA StaysRight ==
  ASSUME LevelInv, LevelInv', now' = now, level' = level
  PROVE  RisesOnBursts /\ StepsBackWhenCalm
  <1>1. level \in 0..MaxLevel /\ MaxLevel \in Nat
    BY LevelConstants DEF LevelInv, LevelTypes
  <1>2. settled' # <<>> => ~IsBurst(settled') \/ level = MaxLevel
    <2>1. settled' # <<>> => ~(Len(settled') = Burst /\ now' - settled'[1] <= Window) \/ level' = MaxLevel
      BY DEF LevelInv, RingHolds, IsBurst
    <2> QED BY <2>1 DEF IsBurst
  <1>3. ~(level' > level) /\ ~(level' < level)
    BY <1>1
  <1> QED BY <1>2, <1>3 DEF RisesOnBursts, StepsBackWhenCalm

(* AdaptiveAudioBuffer: every step keeps the invariant, and moves the      *)
(* level only when it should.                                              *)
LEMMA LevelStep ==
  ASSUME LevelInv, LevelNext
  PROVE  LevelInv' /\ RisesOnBursts /\ StepsBackWhenCalm
  <1>1. CASE Later
    <2>1. LevelInv' /\ level' = level /\ settled' = settled
      BY <1>1, LevelLater DEF Later
    <2>2. level \in 0..MaxLevel /\ MaxLevel \in Nat
      BY LevelConstants DEF LevelInv, LevelTypes
    <2>3. ~(level' > level) /\ ~(level' < level)
      BY <2>1, <2>2
    <2>4. settled' # <<>> => ~IsBurst(settled') \/ level = MaxLevel
      BY <2>1 DEF LevelInv, RingHolds
    <2> QED BY <2>1, <2>3, <2>4 DEF RisesOnBursts, StepsBackWhenCalm
  <1>2. CASE Opens
    BY <1>2, LevelOpens, StaysRight DEF Opens
  <1>3. CASE CountXrun
    BY <1>3, LevelCounts, StaysRight DEF CountXrun
  <1>4. CASE Raise
    <2>1. LevelInv' /\ RisesOnBursts /\ level' = level + 1
      BY <1>4, LevelRaises, RaisesRight DEF Raise
    <2>2. ~(level' < level)
      BY <2>1 DEF LevelInv, LevelTypes
    <2> QED BY <2>1, <2>2 DEF StepsBackWhenCalm
  <1>5. CASE Lower
    <2>1. LevelInv' /\ StepsBackWhenCalm /\ level' = level - 1
      BY <1>5, LevelLowers DEF Lower
    <2>2. ~(level' > level) /\ level' # level
      BY <2>1 DEF LevelInv, LevelTypes
    <2> QED BY <2>1, <2>2 DEF RisesOnBursts
  <1> QED BY <1>1, <1>2, <1>3, <1>4, <1>5 DEF LevelNext

LEMMA LevelStutters ==
  ASSUME LevelInv, UNCHANGED levelVars
  PROVE  LevelInv'
  BY Zenon DEF LevelInv, LevelTypes, RingHolds, Waits, Turn, IsBurst, levelVars

(* AdaptiveAudioBuffer: the ring of times holds the X-runs since the       *)
(* buffers last settled, and the graces and waits that they began.         *)
THEOREM LevelIsSound == LevelSpec => []LevelInv
  <1>1. LevelInv /\ [LevelNext]_levelVars => LevelInv'
    BY LevelStep, LevelStutters
  <1> QED BY LevelStarts, <1>1, PTL DEF LevelSpec

(* LevelsSettle: the buffers grow on bursts of X-runs that came after they *)
(* had settled, and shrink when it was calm for as long as the failed      *)
(* steps down ask.                                                         *)
THEOREM BuffersFollowXruns == LevelSpec => LevelsSettle
  <1>1. LevelInv /\ [LevelNext]_levelVars => [RisesOnBursts /\ StepsBackWhenCalm]_levelVars
    BY LevelStep
  <1> QED BY LevelIsSound, <1>1, PTL DEF LevelSpec, LevelsSettle

(* The level, the counters and the ring keep their types and bounds.       *)
THEOREM LevelKeepsType == LevelSpec => []LevelTyped
  <1>1. LevelInv => LevelTyped
    <2> SUFFICES ASSUME LevelInv PROVE LevelTyped
      OBVIOUS
    <2>1. graceUntil \in 1..(MaxTime + StartupGrace + ShiftGrace)
      BY LevelConstants DEF LevelInv, LevelTypes, Waits
    <2> QED BY <2>1 DEF LevelInv, LevelTypes, LevelTyped
  <1> QED BY LevelIsSound, <1>1, PTL

-----------------------------------------------------------------------------
Streams == [bytes : Seq(Byte), needed : {0, 2, 3}, running : Channel \cup {NoStatus}, sysex : BOOLEAN]
St(b, n, r, x) == [bytes |-> b, needed |-> n, running |-> r, sysex |-> x]

(* A stream is its four fields.                                            *)
LEMMA StreamIs ==
  ASSUME NEW s \in Streams
  PROVE  s = St(s.bytes, s.needed, s.running, s.sysex)
  BY DEF Streams, St

(* The fields that feed() sets together.                                   *)
Put(s, c) == [s EXCEPT !.bytes = c]
Fill(s, c, m) == [s EXCEPT !.bytes = c, !.needed = m]
Quit(s, c, y) == [s EXCEPT !.bytes = c, !.sysex = y]
Turned(s, y, q) == [s EXCEPT !.sysex = y, !.running = q]
(* feed() sets the bytes,                                                  *)
LEMMA PutIs ==
  ASSUME NEW b, NEW n, NEW r, NEW x, NEW s, s = St(b, n, r, x), NEW c
  PROVE  Put(s, c) = St(c, n, r, x)
  BY DEF St, Put

(* the bytes and whether it is in a system exclusive message,              *)
LEMMA QuitIs ==
  ASSUME NEW b, NEW n, NEW r, NEW x, NEW s, s = St(b, n, r, x), NEW c, NEW y
  PROVE  Quit(s, c, y) = St(c, n, r, y)
  <1> DEFINE t == St(c, n, r, x)
  <1>1. [s EXCEPT !.bytes = c] = t
    BY DEF St
  <1>2. [t EXCEPT !.sysex = y] = St(c, n, r, y)
    BY DEF St
  <1> HIDE DEF t
  <1>3. [s EXCEPT !.bytes = c, !.sysex = y] = [[s EXCEPT !.bytes = c] EXCEPT !.sysex = y]
    OBVIOUS
  <1> QED BY <1>1, <1>2, <1>3 DEF Quit

(* the bytes and how many are needed,                                      *)
LEMMA FillIs ==
  ASSUME NEW b, NEW n, NEW r, NEW x, NEW s, s = St(b, n, r, x), NEW c, NEW m
  PROVE  Fill(s, c, m) = St(c, m, r, x)
  <1> DEFINE t == St(c, n, r, x)
  <1>1. [s EXCEPT !.bytes = c] = t
    BY DEF St
  <1>2. [t EXCEPT !.needed = m] = St(c, m, r, x)
    BY DEF St
  <1> HIDE DEF t
  <1>3. [s EXCEPT !.bytes = c, !.needed = m] = [[s EXCEPT !.bytes = c] EXCEPT !.needed = m]
    OBVIOUS
  <1> QED BY <1>1, <1>2, <1>3 DEF Fill

(* or what runs.                                                           *)
LEMMA TurnedIs ==
  ASSUME NEW b, NEW n, NEW r, NEW x, NEW s, s = St(b, n, r, x), NEW y, NEW q
  PROVE  Turned(s, y, q) = St(b, n, q, y)
  <1> DEFINE t == St(b, n, r, y)
  <1>1. [s EXCEPT !.sysex = y] = t
    BY DEF St
  <1>2. [t EXCEPT !.running = q] = St(b, n, q, y)
    BY DEF St
  <1> HIDE DEF t
  <1>3. [s EXCEPT !.sysex = y, !.running = q] = [[s EXCEPT !.sysex = y] EXCEPT !.running = q]
    OBVIOUS
  <1> QED BY <1>1, <1>2, <1>3 DEF Turned

(* The fields of a stream.                                                 *)
LEMMA Fields ==
  ASSUME NEW b, NEW n, NEW r, NEW x
  PROVE  /\ St(b, n, r, x).bytes = b /\ St(b, n, r, x).needed = n
         /\ St(b, n, r, x).running = r /\ St(b, n, r, x).sysex = x
  BY DEF St

Parses == [running : Channel \cup {NoStatus}, need : 0..2, have : Seq(Data)]
(* The kinds of bytes differ.                                              *)
LEMMA Kinds ==
  /\ Channel \cap System = {} /\ "clock" \notin Channel \cup System \cup Data
  /\ Data \cap Channel = {} /\ Data \cap System = {} /\ NoStatus \notin Channel
  /\ Byte = Channel \cup System \cup {"clock"} \cup Data
  /\ "sysex" \in System /\ "eox" \in System
  BY ParserAssumption DEF Channel, System, Byte, NoStatus

(* The lengths of messages.                                                *)
LEMMA Lengths ==
  /\ \A b \in Channel : Length(b) \in {2, 3}
  /\ \A b \in System : Length(b) \in {0, 2, 3}
  /\ Length("sysex") = 0 /\ Length("eox") = 0
  BY DEF Channel, System, Length

(* What feed() does to the fields of the stream.                           *)
LEMMA SysexIs ==
  ASSUME NEW s \in Streams, NEW b
  PROVE  FeedSysex(s, b) =
           IF b = "eox" THEN Step(St(<<>>, s.needed, s.running, FALSE), Append(s.bytes, b))
           ELSE IF Len(Append(s.bytes, b)) = SysexMax
           THEN Step(St(<<>>, s.needed, s.running, s.sysex), Append(s.bytes, b))
           ELSE Step(St(Append(s.bytes, b), s.needed, s.running, s.sysex), <<>>)
  <1> DEFINE c == Append(s.bytes, b)
  <1>1. s = St(s.bytes, s.needed, s.running, s.sysex)
    BY StreamIs
  <1>2. Quit(s, <<>>, FALSE) = St(<<>>, s.needed, s.running, FALSE)
    <2> DEFINE y == FALSE
    <2> HIDE DEF y
    <2>1. Quit(s, <<>>, y) = St(<<>>, s.needed, s.running, y)
      BY <1>1, QuitIs
    <2> QED BY <2>1 DEF y
  <1>3. /\ Put(s, <<>>) = St(<<>>, s.needed, s.running, s.sysex)
        /\ Put(s, c) = St(c, s.needed, s.running, s.sysex)
    BY <1>1, PutIs
  <1> QED BY <1>2, <1>3, Zenon DEF FeedSysex, Quit, Put

(* A status byte ends what was before it.                                  *)
LEMMA StatusIs ==
  ASSUME NEW s \in Streams, NEW b
  PROVE  FeedStatus(s, b) =
           IF b = "sysex" \/ Length(b) > 0
           THEN Step(St(<<b>>, Length(b), IF b \in Channel THEN b ELSE NoStatus, b = "sysex"), <<>>)
           ELSE Step(St(<<>>, 0, IF b \in Channel THEN b ELSE NoStatus, b = "sysex"),
                     IF b \in {"tune", "eox"} THEN <<b>> ELSE <<>>)
  <1> DEFINE r == IF b \in Channel THEN b ELSE NoStatus
             x == b = "sysex"
             n == Length(b)
             fresh == [Drained(s) EXCEPT !.sysex = x, !.running = r]
  <1> HIDE DEF r, x, n
  <1>1. s = St(s.bytes, s.needed, s.running, s.sysex)
    BY StreamIs
  <1>2. Drained(s) = St(<<>>, 0, s.running, s.sysex)
    <2>1. Fill(s, <<>>, 0) = St(<<>>, 0, s.running, s.sysex)
      BY <1>1, FillIs
    <2> QED BY <2>1, Zenon DEF Fill, Drained
  <1>3. fresh = St(<<>>, 0, r, x)
    <2>1. Turned(Drained(s), x, r) = St(<<>>, 0, r, x)
      BY <1>2, TurnedIs
    <2> QED BY <2>1, Zenon DEF Turned
  <1> HIDE DEF fresh
  <1>4. [fresh EXCEPT !.bytes = <<b>>, !.needed = n] = St(<<b>>, n, r, x)
    <2>1. Fill(fresh, <<b>>, n) = St(<<b>>, n, r, x)
      BY <1>3, FillIs
    <2> QED BY <2>1, Zenon DEF Fill
  <1> QED BY <1>3, <1>4, Zenon DEF FeedStatus, fresh, r, x, n

Begun(s) == IF s.bytes = <<>> /\ s.running # NoStatus
            THEN St(<<s.running>>, Length(s.running), s.running, s.sysex) ELSE s
Fed(g, b) == IF g.needed = 0 THEN Step(g, <<>>)
             ELSE IF Len(Append(g.bytes, b)) = g.needed THEN Step(Drained(g), Append(g.bytes, b))
             ELSE Step([g EXCEPT !.bytes = Append(g.bytes, b)], <<>>)
(* A data byte begins a message of the running status, or goes on with one.*)
LEMMA DataIs ==
  ASSUME NEW s \in Streams, NEW b
  PROVE  LET g == Begun(s) IN FeedData(s, b) =
           IF g.needed = 0 THEN Step(g, <<>>)
           ELSE IF Len(Append(g.bytes, b)) = g.needed
           THEN Step(St(<<>>, 0, s.running, s.sysex), Append(g.bytes, b))
           ELSE Step(St(Append(g.bytes, b), g.needed, s.running, s.sysex), <<>>)
  <1> DEFINE g == Begun(s)
             c == Append(g.bytes, b)
  <1>1. s = St(s.bytes, s.needed, s.running, s.sysex)
    BY StreamIs
  <1>2. g = IF s.bytes = <<>> /\ s.running # NoStatus
            THEN [s EXCEPT !.bytes = <<s.running>>, !.needed = Length(s.running)] ELSE s
    <2>1. Fill(s, <<s.running>>, Length(s.running)) = St(<<s.running>>, Length(s.running), s.running, s.sysex)
      BY <1>1, FillIs
    <2> QED BY <2>1, Zenon DEF Fill, Begun
  <1>3. g = St(g.bytes, g.needed, s.running, s.sysex)
    BY <1>1, Fields DEF Begun
  <1> HIDE DEF g
  <1>4. Drained(g) = St(<<>>, 0, s.running, s.sysex)
        /\ [g EXCEPT !.bytes = c] = St(c, g.needed, s.running, s.sysex)
    <2>1. Fill(g, <<>>, 0) = St(<<>>, 0, s.running, s.sysex)
      BY <1>3, FillIs
    <2>2. Drained(g) = St(<<>>, 0, s.running, s.sysex)
      BY <2>1, Zenon DEF Fill, Drained
    <2>3. Put(g, c) = St(c, g.needed, s.running, s.sysex)
      BY <1>3, PutIs
    <2>4. [g EXCEPT !.bytes = c] = St(c, g.needed, s.running, s.sysex)
      BY <2>3, Zenon DEF Put
    <2> QED BY <2>2, <2>4
  <1>5. FeedData(s, b) = IF g.needed = 0 THEN Step(g, <<>>)
                         ELSE IF Len(c) = g.needed THEN Step(Drained(g), c)
                         ELSE Step([g EXCEPT !.bytes = c], <<>>)
    <2> DEFINE h == IF s.bytes = <<>> /\ s.running # NoStatus
                    THEN [s EXCEPT !.bytes = <<s.running>>, !.needed = Length(s.running)] ELSE s
    <2>1. FeedData(s, b) = Fed(h, b)
      BY Zenon DEF FeedData, Fed
    <2>2. h = g
      BY <1>2
    <2> HIDE DEF h
    <2>3. FeedData(s, b) = Fed(g, b)
      BY <2>1, <2>2
    <2> QED BY <2>3, Zenon DEF Fed
  <1>6. FeedData(s, b) = IF g.needed = 0 THEN Step(g, <<>>)
                         ELSE IF Len(c) = g.needed THEN Step(St(<<>>, 0, s.running, s.sysex), c)
                         ELSE Step(St(c, g.needed, s.running, s.sysex), <<>>)
    BY <1>4, <1>5, Zenon
  <1> QED BY <1>6, Zenon DEF g

Pa(r, n, h) == [running |-> r, need |-> n, have |-> h]
(* What midiParseByte() does to the fields of the context.                 *)
LEMMA ParseIs ==
  ASSUME NEW p \in Parses, NEW b \in Byte
  PROVE  /\ b = "clock" => ParseByte(p, b) = Step(p, <<>>)
         /\ b \in System => ParseByte(p, b) = Step(NewParse, <<>>)
         /\ b \in Channel => ParseByte(p, b) = Step(Pa(b, Length(b) - 1, <<>>), <<>>)
         /\ b \in Data /\ p.running = NoStatus => ParseByte(p, b) = Step(p, <<>>)
         /\ b \in Data /\ p.running # NoStatus => ParseByte(p, b) =
              IF Len(Append(p.have, b)) >= p.need
              THEN Step(Pa(p.running, p.need, <<>>), <<p.running>> \o Append(p.have, b))
              ELSE Step(Pa(p.running, p.need, Append(p.have, b)), <<>>)
  <1> DEFINE c == Append(p.have, b)
  <1>1. [p EXCEPT !.have = <<>>] = Pa(p.running, p.need, <<>>) /\ [p EXCEPT !.have = c] = Pa(p.running, p.need, c)
    <2>1. p = Pa(p.running, p.need, p.have)
      BY DEF Parses, Pa
    <2> HIDE DEF c
    <2> QED BY <2>1 DEF Pa
  <1>2. ParseByte(p, b) =
    CASE b = "clock" -> Step(p, <<>>)
          [] b \in System -> Step(NewParse, <<>>)
          [] b \in Channel -> Step(Pa(b, Length(b) - 1, <<>>), <<>>)
          [] b \in Data /\ p.running = NoStatus -> Step(p, <<>>)
          [] b \in Data /\ p.running # NoStatus ->
                IF Len(c) >= p.need THEN Step(Pa(p.running, p.need, <<>>), <<p.running>> \o c)
                ELSE Step(Pa(p.running, p.need, c), <<>>)
    BY <1>1, Zenon DEF ParseByte, Pa
  <1> HIDE DEF c
  <1>3. b = "clock" \/ b \in System \/ b \in Channel \/ b \in Data
    BY Kinds
  <1>a. CASE b = "clock"
    BY <1>2, Kinds, <1>a
  <1>b. CASE b \in System
    BY <1>2, Kinds, <1>b
  <1>c. CASE b \in Channel
    BY <1>2, Kinds, <1>c
  <1>d. CASE b \in Data /\ p.running = NoStatus
    BY <1>2, Kinds, <1>d
  <1>e. CASE b \in Data /\ p.running # NoStatus
    <2>1. b # "clock" /\ b \notin System /\ b \notin Channel
      BY Kinds, <1>e
    <2>2. ParseByte(p, b) = IF Len(c) >= p.need THEN Step(Pa(p.running, p.need, <<>>), <<p.running>> \o c)
                ELSE Step(Pa(p.running, p.need, c), <<>>)
      BY <1>2, <1>e, <2>1
    <2> QED BY <2>1, <2>2, <1>e DEF c
  <1> QED BY <1>3, <1>a, <1>b, <1>c, <1>d, <1>e

(* Without a running status the stream may keep a message of the system;   *)
(* with one both parsers have as much of its message.                      *)
NoMessage(s, p) ==
  /\ p.have = <<>>
  /\ s.bytes # <<>> => s.bytes[1] \notin Channel
  /\ s.sysex => s.needed = 0 /\ Len(s.bytes) < SysexMax
  /\ ~s.sysex /\ s.needed = 0 => s.bytes = <<>>
  /\ ~s.sysex /\ s.needed # 0 => s.bytes # <<>> /\ Len(s.bytes) < s.needed
SameMessage(s, p) ==
  /\ ~s.sysex
  /\ p.need = Length(p.running) - 1 /\ Len(p.have) < p.need
  /\ s.needed = 0 => s.bytes = <<>> /\ p.have = <<>>
  /\ s.needed # 0 => s.needed = Length(p.running) /\ s.bytes = <<p.running>> \o p.have

Related(s, p) ==
  /\ s \in Streams /\ p \in Parses /\ s.running = p.running
  /\ p.running = NoStatus => NoMessage(s, p)
  /\ p.running # NoStatus => SameMessage(s, p)

ParserInv == Related(stream, parse)

(* A byte more at the end is the first one only where there was none.      *)
LEMMA FirstOf ==
  ASSUME NEW q \in Seq(Byte), NEW b \in Byte
  PROVE  /\ Append(q, b) \in Seq(Byte) /\ Len(Append(q, b)) = Len(q) + 1 /\ Append(q, b) # <<>>
         /\ Append(q, b)[1] = IF q = <<>> THEN b ELSE q[1]
  <1>1. CASE q = <<>>
    BY <1>1
  <1>2. CASE q # <<>>
    BY <1>2
  <1> QED BY <1>1, <1>2

(* The empty buffers.                                                      *)
LEMMA EmptyOnes == <<>> \in Seq(Byte) /\ <<>> \in Seq(Data) /\ Len(<<>>) = 0
  OBVIOUS

(* A byte of real time, in the middle of a message.                        *)
LEMMA ClockAgrees ==
  ASSUME NEW s, NEW p, Related(s, p)
  PROVE  /\ Related(Feed(s, "clock").then, ParseByte(p, "clock").then)
         /\ ChannelMessage(Feed(s, "clock").out) = ParseByte(p, "clock").out
  <1>1. Feed(s, "clock") = Step(s, <<"clock">>)
    BY DEF Feed
  <1>2. ParseByte(p, "clock") = Step(p, <<>>)
    BY ParseIs, Kinds DEF Related
  <1>3. ChannelMessage(<<"clock">>) = <<>>
    BY Kinds DEF ChannelMessage
  <1> QED BY <1>1, <1>2, <1>3 DEF Step

(* A status byte of a channel begins a message for both.                   *)
LEMMA ChannelAgrees ==
  ASSUME NEW s, NEW p, Related(s, p), NEW b \in Channel
  PROVE  /\ Related(Feed(s, b).then, ParseByte(p, b).then)
         /\ ChannelMessage(Feed(s, b).out) = ParseByte(p, b).out
  <1> DEFINE s1 == St(<<b>>, Length(b), b, FALSE)
             p1 == Pa(b, Length(b) - 1, <<>>)
  <1>1. Feed(s, b) = Step(s1, <<>>)
    <2>1. b # "clock" /\ b # "eox" /\ b # "sysex" /\ b \notin Data /\ Length(b) > 0
      BY Kinds, Lengths
    <2>2. Feed(s, b) = FeedStatus(s, b)
      BY <2>1 DEF Feed
    <2>3. s \in Streams
      BY DEF Related
    <2>4. FeedStatus(s, b) = Step(St(<<b>>, Length(b), IF b \in Channel THEN b ELSE NoStatus, b = "sysex"), <<>>)
      BY <2>1, <2>3, StatusIs
    <2> QED BY <2>1, <2>2, <2>4
  <1>2. ParseByte(p, b) = Step(p1, <<>>)
    BY ParseIs, Kinds DEF Related
  <1>3. s1 \in Streams /\ p1 \in Parses
    <2>1. <<b>> \in Seq(Byte)
      BY Kinds
    <2> QED BY <2>1, EmptyOnes, Lengths DEF Streams, Parses, St, Pa
  <1>4. SameMessage(s1, p1)
    <2>1. <<b>> \o <<>> = <<b>> /\ Len(<<>>) = 0
      OBVIOUS
    <2> QED BY <2>1, Lengths DEF SameMessage, St, Pa
  <1>5. Related(s1, p1)
    BY <1>3, <1>4, Kinds DEF Related, St, Pa
  <1> HIDE DEF s1, p1
  <1> QED BY <1>1, <1>2, <1>5 DEF Step, ChannelMessage

(* A status byte of the system ends the running status for both.           *)
LEMMA SystemAgrees ==
  ASSUME NEW s, NEW p, Related(s, p), NEW b \in System
  PROVE  /\ Related(Feed(s, b).then, ParseByte(p, b).then)
         /\ ChannelMessage(Feed(s, b).out) = ParseByte(p, b).out
  <1> DEFINE Clean(t) == t \in Streams /\ t.running = NoStatus /\ NoMessage(t, NewParse)
             Unsaid(m) == m # <<>> => m[1] \notin Channel
  <1>1. b # "clock" /\ b \notin Data /\ b \notin Channel /\ b \in Byte
    BY Kinds
  <1>2. NewParse \in Parses /\ NewParse.running = NoStatus /\ NewParse.have = <<>>
    BY EmptyOnes DEF NewParse, Parses
  <1>3. s \in Streams /\ p \in Parses
    BY DEF Related
  <1>4. ParseByte(p, b) = Step(NewParse, <<>>)
    BY <1>1, <1>3, ParseIs
  <1>5. ASSUME NEW t, NEW m, Feed(s, b) = Step(t, m), Clean(t), Unsaid(m)
        PROVE  /\ Related(Feed(s, b).then, ParseByte(p, b).then)
               /\ ChannelMessage(Feed(s, b).out) = ParseByte(p, b).out
    <2>1. Related(t, NewParse)
      BY <1>2, <1>5 DEF Related
    <2>2. ChannelMessage(m) = <<>>
      BY <1>5 DEF ChannelMessage
    <2> QED BY <1>4, <1>5, <2>1, <2>2 DEF Step
  <1>6. CASE s.sysex /\ b = "eox"
    <2>1. p.running = NoStatus /\ s.running = NoStatus /\ NoMessage(s, p)
      BY <1>6 DEF Related, SameMessage
    <2> DEFINE t == St(<<>>, s.needed, s.running, FALSE)
               m == Append(s.bytes, b)
    <2>2. Feed(s, b) = Step(t, m)
      BY <1>1, <1>3, <1>6, SysexIs DEF Feed
    <2>3. m # <<>> /\ m[1] \notin Channel
      BY <1>1, <1>3, <2>1, FirstOf DEF NoMessage, Streams
    <2>4. s.needed = 0
      BY <1>6, <2>1 DEF NoMessage
    <2>5. Clean(t)
      BY <1>2, <1>3, <2>1, <2>4, EmptyOnes DEF Streams, NoMessage, St
    <2> HIDE DEF t, m
    <2> QED BY <1>5, <2>2, <2>3, <2>5
  <1>7. CASE ~(s.sysex /\ b = "eox")
    <2>1. Feed(s, b) = FeedStatus(s, b)
      BY <1>1, <1>7 DEF Feed
    <2>2. CASE b = "sysex" \/ Length(b) > 0
      <3> DEFINE t == St(<<b>>, Length(b), NoStatus, b = "sysex")
      <3>1. Feed(s, b) = Step(t, <<>>)
        BY <1>1, <1>3, <2>1, <2>2, StatusIs
      <3>2. <<b>> \in Seq(Byte) /\ Len(<<b>>) = 1 /\ <<b>>[1] = b /\ <<b>> # <<>>
        BY <1>1
      <3>3. t \in Streams
        BY <3>2, Lengths DEF Streams, St
      <3>4. SysexMax >= 3 /\ SysexMax \in Nat
        BY ParserAssumption
      <3>5. Clean(t)
        <4> DEFINE x == b = "sysex"
        <4> HIDE DEF x
        <4>1. t = St(<<b>>, Length(b), NoStatus, x)
          BY DEF x
        <4>2. t.bytes = <<b>> /\ t.needed = Length(b) /\ t.running = NoStatus /\ t.sysex = x
          BY <4>1, Fields
        <4> HIDE DEF t
        <4>3. CASE b = "sysex"
          <5>1. t.sysex /\ Length(b) = 0
            BY <4>2, <4>3, Lengths DEF x
          <5> QED BY <1>1, <1>2, <3>2, <3>3, <3>4, <4>2, <5>1 DEF NoMessage
        <4>4. CASE b # "sysex"
          <5>1. ~t.sysex
            BY <4>2, <4>4 DEF x
          <5>2. Length(b) \in {2, 3}
            BY <2>2, <4>4, Lengths
          <5> QED BY <1>1, <1>2, <3>2, <3>3, <4>2, <5>1, <5>2 DEF NoMessage
        <4> QED BY <4>3, <4>4
      <3> HIDE DEF t
      <3> QED BY <1>5, <3>1, <3>5
    <2>3. CASE ~(b = "sysex" \/ Length(b) > 0)
      <3> DEFINE t == St(<<>>, 0, NoStatus, b = "sysex")
                 m == IF b \in {"tune", "eox"} THEN <<b>> ELSE <<>>
      <3>1. Feed(s, b) = Step(t, m)
        BY <1>1, <1>3, <2>1, <2>3, StatusIs
      <3>2. Clean(t)
        BY <1>2, <2>3, EmptyOnes DEF Streams, NoMessage, St
      <3>3. Unsaid(m)
        BY <1>1
      <3> HIDE DEF t, m
      <3> QED BY <1>5, <3>1, <3>2, <3>3
    <2> QED BY <2>2, <2>3
  <1> QED BY <1>6, <1>7

(* A data byte without a running status belongs to the system or to nobody.*)
LEMMA StrayAgrees ==
  ASSUME NEW s, NEW p, Related(s, p), NEW b \in Data, p.running = NoStatus
  PROVE  /\ Related(Feed(s, b).then, ParseByte(p, b).then)
         /\ ChannelMessage(Feed(s, b).out) = ParseByte(p, b).out
  <1> DEFINE Clean(t) == t \in Streams /\ t.running = NoStatus /\ NoMessage(t, p)
             Unsaid(m) == m # <<>> => m[1] \notin Channel
             c == Append(s.bytes, b)
  <1>1. b # "clock" /\ b # "eox" /\ b \notin Channel /\ b \in Byte
    BY Kinds
  <1>2. s \in Streams /\ p \in Parses /\ s.running = NoStatus /\ NoMessage(s, p)
    BY DEF Related
  <1>3. ParseByte(p, b) = Step(p, <<>>)
    BY <1>1, <1>2, ParseIs
  <1>4. ASSUME NEW t, NEW m, Feed(s, b) = Step(t, m), Clean(t), Unsaid(m)
        PROVE  /\ Related(Feed(s, b).then, ParseByte(p, b).then)
               /\ ChannelMessage(Feed(s, b).out) = ParseByte(p, b).out
    <2>1. Related(t, p)
      BY <1>2, <1>4 DEF Related
    <2>2. ChannelMessage(m) = <<>>
      BY <1>4 DEF ChannelMessage
    <2> QED BY <1>3, <1>4, <2>1, <2>2 DEF Step
  <1>5. /\ c \in Seq(Byte) /\ Len(c) = Len(s.bytes) + 1 /\ c # <<>> /\ c[1] \notin Channel
        /\ Len(s.bytes) \in Nat
    BY <1>1, <1>2, FirstOf DEF NoMessage, Streams
  <1>6. SysexMax \in Nat /\ SysexMax > 0
    BY ParserAssumption
  <1>7. CASE s.sysex
    <2>1. Feed(s, b) = FeedSysex(s, b)
      BY <1>1, <1>7 DEF Feed
    <2>2. CASE Len(c) = SysexMax
      <3> DEFINE t == St(<<>>, s.needed, s.running, s.sysex)
      <3>1. Feed(s, b) = Step(t, c)
        BY <1>1, <1>2, <2>1, <2>2, SysexIs
      <3>2. Clean(t)
        BY <1>2, <1>5, <1>6, <1>7, <2>2, EmptyOnes DEF Streams, NoMessage, St
      <3> HIDE DEF t, c
      <3> QED BY <1>4, <1>5, <3>1, <3>2
    <2>3. CASE Len(c) # SysexMax
      <3> DEFINE t == St(c, s.needed, s.running, s.sysex)
      <3>1. Feed(s, b) = Step(t, <<>>)
        BY <1>1, <1>2, <2>1, <2>3, SysexIs
      <3> HIDE DEF c
      <3>2. Clean(t)
        BY <1>2, <1>5, <1>6, <1>7, <2>3 DEF Streams, NoMessage, St
      <3> HIDE DEF t
      <3> QED BY <1>4, <3>1, <3>2
    <2> QED BY <2>2, <2>3
  <1>8. CASE ~s.sysex
    <2>1. Feed(s, b) = FeedData(s, b)
      BY <1>1, <1>8 DEF Feed
    <2>2. Begun(s) = s
      BY <1>2 DEF Begun
    <2>3. CASE s.needed = 0
      <3>1. Feed(s, b) = Step(s, <<>>)
        BY <1>2, <2>1, <2>2, <2>3, DataIs
      <3> QED BY <1>2, <1>4, <3>1
    <2>4. CASE s.needed # 0 /\ Len(c) = s.needed
      <3> DEFINE t == St(<<>>, 0, s.running, s.sysex)
      <3>1. Feed(s, b) = Step(t, c)
        BY <1>2, <2>1, <2>2, <2>4, DataIs
      <3>2. Clean(t)
        BY <1>2, <1>8, EmptyOnes DEF Streams, NoMessage, St
      <3> HIDE DEF t, c
      <3> QED BY <1>4, <1>5, <3>1, <3>2
    <2>5. CASE s.needed # 0 /\ Len(c) # s.needed
      <3> DEFINE t == St(c, s.needed, s.running, s.sysex)
      <3>1. Feed(s, b) = Step(t, <<>>)
        BY <1>2, <2>1, <2>2, <2>5, DataIs
      <3> HIDE DEF c
      <3>2. Clean(t)
        BY <1>2, <1>5, <1>8, <2>5 DEF Streams, NoMessage, St
      <3> HIDE DEF t
      <3> QED BY <1>4, <3>1, <3>2
    <2> QED BY <2>3, <2>4, <2>5
  <1> QED BY <1>7, <1>8

(* A data byte of a channel message, with or without its own status byte.  *)
LEMMA MessageAgrees ==
  ASSUME NEW s, NEW p, Related(s, p), NEW b \in Data, p.running # NoStatus
  PROVE  /\ Related(Feed(s, b).then, ParseByte(p, b).then)
         /\ ChannelMessage(Feed(s, b).out) = ParseByte(p, b).out
  <1> DEFINE r == p.running
             h == Append(p.have, b)
             g == Begun(s)
             c == Append(g.bytes, b)
  <1>1. b # "clock" /\ b # "eox" /\ b \notin Channel /\ b \in Byte
    BY Kinds
  <1>2. s \in Streams /\ p \in Parses /\ s.running = r /\ SameMessage(s, p) /\ ~s.sysex
    BY DEF Related, SameMessage
  <1>3. /\ r \in Channel /\ r \in Byte /\ Length(r) \in {2, 3} /\ p.need = Length(r) - 1
        /\ p.have \in Seq(Data) /\ Len(p.have) < p.need /\ Len(p.have) \in Nat
    BY <1>2, Kinds, Lengths DEF Parses, SameMessage
  <1>4. /\ h \in Seq(Data) /\ Len(h) = Len(p.have) + 1
        /\ h \in Seq(Byte) /\ p.have \in Seq(Byte)
    <2>1. Data \subseteq Byte
      BY Kinds
    <2> QED BY <1>3, <2>1
  <1>5. g.bytes = <<r>> \o p.have /\ g.needed = Length(r)
    <2>1. CASE s.needed = 0
      <3>1. s.bytes = <<>> /\ p.have = <<>> /\ <<r>> \o <<>> = <<r>>
        BY <1>2, <2>1 DEF SameMessage
      <3>2. g = St(<<r>>, Length(r), r, s.sysex)
        BY <1>2, <3>1 DEF Begun
      <3> QED BY <3>1, <3>2, Fields
    <2>2. CASE s.needed # 0
      <3>1. s.bytes = <<r>> \o p.have /\ s.needed = Length(r)
        BY <1>2, <2>2 DEF SameMessage
      <3>2. s.bytes # <<>>
        BY <1>3, <3>1
      <3> QED BY <3>1, <3>2 DEF Begun
    <2> QED BY <2>1, <2>2
  <1> HIDE DEF g
  <1>6. c = <<r>> \o h /\ Len(c) = Len(h) + 1 /\ c \in Seq(Byte) /\ c # <<>> /\ c[1] = r
    BY <1>1, <1>3, <1>4, <1>5
  <1>7. Feed(s, b) = FeedData(s, b)
    BY <1>1, <1>2 DEF Feed
  <1>8. FeedData(s, b) = IF g.needed = 0 THEN Step(g, <<>>)
           ELSE IF Len(c) = g.needed THEN Step(St(<<>>, 0, s.running, s.sysex), c)
           ELSE Step(St(c, g.needed, s.running, s.sysex), <<>>)
    BY <1>2, DataIs DEF g
  <1>9. ParseByte(p, b) = IF Len(h) >= p.need THEN Step(Pa(r, p.need, <<>>), <<r>> \o h)
                          ELSE Step(Pa(r, p.need, h), <<>>)
    BY <1>1, <1>2, ParseIs
  <1> HIDE DEF c, h, r
  <1>10. CASE Len(h) = p.need
    <2> DEFINE t == St(<<>>, 0, r, s.sysex)
               q == Pa(r, p.need, <<>>)
    <2>1. Feed(s, b) = Step(t, c)
      BY <1>2, <1>3, <1>5, <1>6, <1>7, <1>8, <1>10
    <2>2. ParseByte(p, b) = Step(q, c)
      BY <1>3, <1>4, <1>6, <1>9, <1>10
    <2>3. t \in Streams /\ q \in Parses
      BY <1>2, <1>3, EmptyOnes DEF St, Pa, Streams, Parses
    <2>4. SameMessage(t, q)
      BY <1>2, <1>3, EmptyOnes DEF St, Pa, SameMessage
    <2>5. Related(t, q)
      BY <1>3, <2>3, <2>4, Kinds DEF St, Pa, Related
    <2>6. ChannelMessage(c) = c
      BY <1>3, <1>6 DEF ChannelMessage
    <2> HIDE DEF t, q
    <2> QED BY <2>1, <2>2, <2>5, <2>6 DEF Step
  <1>11. CASE Len(h) # p.need
    <2> DEFINE t == St(c, Length(r), r, s.sysex)
               q == Pa(r, p.need, h)
    <2>0. Len(h) < p.need
      BY <1>3, <1>4, <1>11
    <2>1. Feed(s, b) = Step(t, <<>>)
      BY <1>2, <1>3, <1>5, <1>6, <1>7, <1>8, <2>0
    <2>2. ParseByte(p, b) = Step(q, <<>>)
      BY <1>3, <1>4, <1>9, <2>0
    <2>3. t \in Streams /\ q \in Parses
      BY <1>2, <1>3, <1>4, <1>6 DEF St, Pa, Streams, Parses, r
    <2>4. SameMessage(t, q)
      BY <1>2, <1>3, <1>6, <2>0 DEF St, Pa, SameMessage
    <2>5. Related(t, q)
      BY <1>3, <2>3, <2>4, Kinds DEF St, Pa, Related
    <2> HIDE DEF t, q
    <2> QED BY <2>1, <2>2, <2>5 DEF Step, ChannelMessage
  <1> QED BY <1>10, <1>11

(* Both parsers stay in step with every byte.                              *)
LEMMA ByteAgrees ==
  ASSUME NEW s, NEW p, Related(s, p), NEW b \in Byte
  PROVE  /\ Related(Feed(s, b).then, ParseByte(p, b).then)
         /\ ChannelMessage(Feed(s, b).out) = ParseByte(p, b).out
  <1>1. b = "clock" \/ b \in Channel \/ b \in System \/ b \in Data
    BY Kinds
  <1>2. CASE b = "clock"
    BY <1>2, ClockAgrees
  <1>3. CASE b \in Channel
    BY <1>3, ChannelAgrees
  <1>4. CASE b \in System
    BY <1>4, SystemAgrees
  <1>5. CASE b \in Data /\ p.running = NoStatus
    BY <1>5, StrayAgrees
  <1>6. CASE b \in Data /\ p.running # NoStatus
    BY <1>6, MessageAgrees
  <1> QED BY <1>1, <1>2, <1>3, <1>4, <1>5, <1>6

(* What both begin with.                                                   *)
LEMMA FreshRelated == Related(NewStream, NewParse)
  BY EmptyOnes, ParserAssumption, Kinds DEF Related, NewStream, NewParse, Streams, Parses, NoMessage

(* Before every byte both parsers have as much of the same message.        *)
THEOREM ParsersStayRelated == ParserSpec => []ParserInv
  <1>1. ParserInit => ParserInv
    BY FreshRelated DEF ParserInit, ParserInv
  <1>2. ParserInv /\ [ParserNext]_parserVars => ParserInv'
    <2> SUFFICES ASSUME ParserInv, [ParserNext]_parserVars PROVE ParserInv'
      OBVIOUS
    <2>1. CASE Reset
      BY <2>1, FreshRelated DEF Reset, ParserInv
    <2>2. ASSUME NEW b \in Byte, ReadByte(b) PROVE ParserInv'
      BY <2>2, ByteAgrees DEF ReadByte, ParserInv
    <2>3. CASE UNCHANGED parserVars
      BY <2>3 DEF parserVars, ParserInv
    <2> QED BY <2>1, <2>2, <2>3 DEF ParserNext
  <1> QED BY <1>1, <1>2, PTL DEF ParserSpec

(* ParsersAgree: whatever was read before, the host and the device are     *)
(* given the same channel message by the next byte.                        *)
THEOREM ParsersUnderstandAlike == ParserSpec => []ParsersAgree
  <1>1. ParserInv => ParsersAgree
    BY ByteAgrees DEF ParserInv, ParsersAgree
  <1> QED BY <1>1, ParsersStayRelated, PTL

(* The buffers of both parsers have room for one more byte.                *)
THEOREM ParsersKeepType == ParserSpec => []ParserTyped
  <1>1. ParserInv => ParserTyped
    <2> SUFFICES ASSUME ParserInv PROVE ParserTyped
      OBVIOUS
    <2>1. stream \in Streams /\ parse \in Parses
      BY DEF ParserInv, Related
    <2>2. SysexMax \in Nat /\ SysexMax >= 3
      BY ParserAssumption
    <2>3. stream.bytes \in Seq(Byte) /\ parse.have \in Seq(Data) /\ Len(parse.have) \in Nat /\ Len(stream.bytes) \in Nat
      BY <2>1 DEF Streams, Parses
    <2>4. Len(stream.bytes) <= SysexMax - 1 /\ Len(parse.have) <= 1
      <3>1. CASE parse.running = NoStatus
        <4>1. NoMessage(stream, parse)
          BY <3>1 DEF ParserInv, Related
        <4>2. Len(parse.have) = 0
          BY <4>1 DEF NoMessage
        <4>3. Len(stream.bytes) < SysexMax
          BY <2>1, <2>2, <2>3, <4>1, EmptyOnes DEF NoMessage, Streams
        <4> QED BY <2>2, <2>3, <4>2, <4>3
      <3>2. CASE parse.running # NoStatus
        <4>1. SameMessage(stream, parse) /\ parse.running \in Channel
          BY <2>1, <3>2 DEF ParserInv, Related, Parses
        <4>2. Len(parse.have) <= 1
          BY <2>3, <4>1, Lengths DEF SameMessage
        <4>3. parse.running \in Byte /\ parse.have \in Seq(Byte)
          <5>1. Data \subseteq Byte /\ Channel \subseteq Byte
            BY Kinds
          <5> QED BY <2>3, <4>1, <5>1
        <4>4. Len(stream.bytes) <= 1 + Len(parse.have)
          BY <2>1, <2>3, <4>1, <4>3, EmptyOnes DEF SameMessage, Streams
        <4> QED BY <2>2, <2>3, <4>2, <4>4
      <3> QED BY <3>1, <3>2
    <2>5. stream.bytes \in [1..Len(stream.bytes) -> Byte] /\ parse.have \in [1..Len(parse.have) -> Data]
      BY <2>3
    <2>6. stream.bytes \in UNION {[1..n -> Byte] : n \in 0..(SysexMax - 1)}
      BY <2>2, <2>3, <2>4, <2>5
    <2>7. parse.have \in UNION {[1..n -> Data] : n \in 0..1}
      <3>1. Len(parse.have) = 0 \/ Len(parse.have) = 1
        <4> DEFINE n == Len(parse.have)
        <4>1. n \in Nat /\ n <= 1
          BY <2>3, <2>4
        <4> HIDE DEF n
        <4>2. n = 0 \/ n = 1
          BY <4>1
        <4> QED BY <4>2 DEF n
      <3>2. CASE Len(parse.have) = 0
        BY <2>5, <3>2
      <3>3. CASE Len(parse.have) = 1
        BY <2>5, <3>3
      <3> QED BY <3>1, <3>2, <3>3
    <2> QED BY <2>1, <2>6, <2>7 DEF ParserTyped, Streams, Parses
  <1> QED BY <1>1, ParsersStayRelated, PTL

-----------------------------------------------------------------------------
Message == [note : Note, on : BOOLEAN]

UsbTyped ==
  /\ mode \in 0..2 /\ open \in BOOLEAN /\ policy \in [Note -> {"none", "sent", "kept"}]
  /\ pending \in Seq(Message) /\ Len(pending) <= MaxPending
  /\ host \subseteq Note /\ excused \subseteq Note
DeviceTyped ==
  /\ connected \in BOOLEAN /\ map \in [Note -> Meaning]
  /\ sampler \in BOOLEAN /\ dim \in BOOLEAN /\ bypassed \in BOOLEAN /\ stale \in BOOLEAN
  /\ led \in [Note -> {"unknown", "dark", "mapped", "playing", "stop", "sampler"}]
  /\ hold \in Note \cup {NoNote} /\ voice \in {"nobody", "pad", "touch", "page", "orphan"}
  /\ touch \in {"hidden", "shown", "held"} /\ down \subseteq Note

(* Of the notes that the host has on, or will have when it has read what   *)
(* is pending, each is of a pad that is down and is to be ended.           *)
Sounding == Hears(host, pending) \ excused
HostFollows ==
  /\ \A n \in Sounding : open /\ policy[n] = "sent" /\ n \in down
  /\ ~open => pending = <<>>
  /\ open => mode # 0

VoiceFollows ==
  /\ voice = "pad" => connected /\ hold \in down
  /\ voice = "touch" => touch = "held"

UsbInv == UsbTyped /\ HostFollows
DeviceInv == DeviceTyped /\ VoiceFollows /\ LightsFollow
PadsInv == UsbInv /\ DeviceInv

-----------------------------------------------------------------------------
(* Nothing was sent.                                                       *)
LEMMA HearsNothing == ASSUME NEW h \in SUBSET Note PROVE Hears(h, <<>>) = h
  BY DEF Hears

(* One more message.                                                       *)
LEMMA HearsOneMore ==
  ASSUME NEW h \in SUBSET Note, NEW q \in Seq(Message), NEW m \in Message
  PROVE  Hears(h, Append(q, m)) = IF m.on THEN Hears(h, q) \cup {m.note} ELSE Hears(h, q) \ {m.note}
  <1> DEFINE s == Append(q, m)
  <1>1. /\ Len(s) = Len(q) + 1 /\ Len(q) \in Nat /\ DOMAIN s = 1..(Len(q) + 1) /\ DOMAIN q = 1..Len(q)
        /\ s[Len(q) + 1] = m /\ \A i \in 1..Len(q) : s[i] = q[i]
    OBVIOUS
  <1>2. m.note \in Note /\ m.on \in BOOLEAN
    BY DEF Message
  <1> HIDE DEF s
  <1>3. ASSUME NEW n \in Note
        PROVE  n \in Hears(h, s) <=> IF n = m.note THEN m.on ELSE n \in Hears(h, q)
    <2>1. CASE n = m.note
      <3>1. \E i \in DOMAIN s : s[i].note = n
        BY <1>1, <2>1
      <3>2. (\E i \in DOMAIN s : s[i].note = n /\ s[i].on /\ \A j \in (i + 1)..Len(s) : s[j].note # n) <=> m.on
        <4>1. ASSUME NEW i \in DOMAIN s, s[i].note = n, s[i].on, \A j \in (i + 1)..Len(s) : s[j].note # n
              PROVE  m.on
          <5>1. i = Len(q) + 1 \/ Len(q) + 1 \in (i + 1)..Len(s)
            BY <1>1
          <5> QED BY <1>1, <2>1, <4>1, <5>1
        <4>2. ASSUME m.on
              PROVE  \E i \in DOMAIN s : s[i].note = n /\ s[i].on /\ \A j \in (i + 1)..Len(s) : s[j].note # n
          <5>1. Len(q) + 1 \in DOMAIN s /\ (Len(q) + 1 + 1)..Len(s) = {}
            BY <1>1
          <5> QED BY <1>1, <2>1, <4>2, <5>1
        <4> QED BY <4>1, <4>2
      <3> QED BY <2>1, <3>1, <3>2 DEF Hears
    <2>2. CASE n # m.note
      <3>1. (\E i \in DOMAIN s : s[i].note = n) <=> \E i \in DOMAIN q : q[i].note = n
        BY <1>1, <2>2
      <3>2. (\E i \in DOMAIN s : s[i].note = n /\ s[i].on /\ \A j \in (i + 1)..Len(s) : s[j].note # n)
            <=> \E i \in DOMAIN q : q[i].note = n /\ q[i].on /\ \A j \in (i + 1)..Len(q) : q[j].note # n
        <4>1. ASSUME NEW i \in DOMAIN s, s[i].note = n, s[i].on, \A j \in (i + 1)..Len(s) : s[j].note # n
              PROVE  i \in DOMAIN q /\ q[i].note = n /\ q[i].on /\ \A j \in (i + 1)..Len(q) : q[j].note # n
          <5>1. i \in 1..Len(q)
            BY <1>1, <2>2, <4>1
          <5>2. \A j \in (i + 1)..Len(q) : j \in (i + 1)..Len(s) /\ j \in 1..Len(q)
            BY <1>1, <5>1
          <5> QED BY <1>1, <4>1, <5>1, <5>2
        <4>2. ASSUME NEW i \in DOMAIN q, q[i].note = n, q[i].on, \A j \in (i + 1)..Len(q) : q[j].note # n
              PROVE  i \in DOMAIN s /\ s[i].note = n /\ s[i].on /\ \A j \in (i + 1)..Len(s) : s[j].note # n
          <5>1. ASSUME NEW j \in (i + 1)..Len(s) PROVE s[j].note # n
            <6>1. j = Len(q) + 1 \/ (j \in (i + 1)..Len(q) /\ j \in 1..Len(q))
              BY <1>1
            <6> QED BY <1>1, <2>2, <4>2, <6>1
          <5> QED BY <1>1, <4>2, <5>1
        <4> QED BY <4>1, <4>2, Zenon
      <3> QED BY <2>2, <3>1, <3>2 DEF Hears
    <2> QED BY <2>1, <2>2
  <1>4. Hears(h, s) \subseteq Note /\ Hears(h, q) \subseteq Note
    BY DEF Hears
  <1> QED BY <1>2, <1>3, <1>4 DEF s

(* What is written now and what is written later.                          *)
LEMMA HearsInTwo ==
  ASSUME NEW h \in SUBSET Note, NEW q \in Seq(Message), NEW k \in 1..Len(q)
  PROVE  Hears(Hears(h, SubSeq(q, 1, k)), SubSeq(q, k + 1, Len(q))) = Hears(h, q)
  <1> DEFINE a == SubSeq(q, 1, k)
             b == SubSeq(q, k + 1, Len(q))
             l == Len(q)
  <1>1. /\ l \in Nat /\ k \in Nat /\ k <= l /\ DOMAIN q = 1..l
        /\ Len(a) = k /\ DOMAIN a = 1..k /\ \A i \in 1..k : a[i] = q[i]
    BY SubSeqProperties
  <1>2. Len(b) = l - k /\ DOMAIN b = 1..(l - k) /\ \A i \in 1..(l - k) : b[i] = q[k + i]
    <2>1. Len(b) = l - k /\ DOMAIN b = 1..(l - k)
      BY <1>1
    <2>2. ASSUME NEW i \in 1..(l - k) PROVE b[i] = q[k + i]
      <3>1. i \in 1..(Len(q) - (k + 1) + 1) /\ (k + 1) + i - 1 = k + i
        BY <1>1
      <3> QED BY <1>1, <3>1
    <2> QED BY <2>1, <2>2
  <1> HIDE DEF a, b, l
  <1>3. ASSUME NEW n \in Note
        PROVE  n \in Hears(Hears(h, a), b) <=> n \in Hears(h, q)
    <2>1. CASE \E i \in 1..(l - k) : b[i].note = n
      <3>1. \E i \in DOMAIN q : q[i].note = n
        BY <1>1, <1>2, <2>1
      <3>2. (\E i \in DOMAIN b : b[i].note = n /\ b[i].on /\ \A j \in (i + 1)..Len(b) : b[j].note # n)
            <=> \E i \in DOMAIN q : q[i].note = n /\ q[i].on /\ \A j \in (i + 1)..l : q[j].note # n
        <4>1. ASSUME NEW i \in DOMAIN b, b[i].note = n, b[i].on, \A j \in (i + 1)..Len(b) : b[j].note # n
              PROVE  \E x \in DOMAIN q : q[x].note = n /\ q[x].on /\ \A j \in (x + 1)..l : q[j].note # n
          <5>1. k + i \in DOMAIN q /\ q[k + i] = b[i]
            <6>1. i \in 1..(l - k)
              BY <1>2
            <6>2. b[i] = q[k + i]
              BY <1>2, <6>1
            <6>3. k + i \in 1..l
              BY <1>1, <6>1
            <6> QED BY <1>1, <6>2, <6>3
          <5>2. ASSUME NEW j \in (k + i + 1)..l PROVE q[j].note # n
            <6>1. j - k \in (i + 1)..Len(b) /\ j - k \in 1..(l - k) /\ k + (j - k) = j
              BY <1>1, <1>2
            <6> QED BY <1>2, <4>1, <6>1
          <5> QED BY <4>1, <5>1, <5>2
        <4>2. ASSUME NEW x \in DOMAIN q, q[x].note = n, q[x].on, \A j \in (x + 1)..l : q[j].note # n
              PROVE  \E i \in DOMAIN b : b[i].note = n /\ b[i].on /\ \A j \in (i + 1)..Len(b) : b[j].note # n
          <5>1. x > k
            <6> SUFFICES ASSUME x <= k PROVE FALSE
              BY <1>1
            <6>1. PICK i \in 1..(l - k) : b[i].note = n
              BY <2>1
            <6>2. k + i \in (x + 1)..l /\ q[k + i] = b[i]
              BY <1>1, <1>2
            <6> QED BY <4>2, <6>1, <6>2
          <5>2. x - k \in 1..(l - k) /\ k + (x - k) = x
            BY <1>1, <5>1
          <5>3. b[x - k] = q[x]
            BY <1>2, <5>2
          <5>4. ASSUME NEW j \in (x - k + 1)..Len(b) PROVE b[j].note # n
            <6>1. k + j \in (x + 1)..l /\ j \in 1..(l - k)
              BY <1>1, <1>2, <5>2
            <6> QED BY <1>2, <4>2, <6>1
          <5> QED BY <1>2, <4>2, <5>2, <5>3, <5>4
        <4> QED BY <4>1, <4>2, Zenon
      <3> QED BY <1>2, <2>1, <3>1, <3>2 DEF Hears, l
    <2>2. CASE ~\E i \in 1..(l - k) : b[i].note = n
      <3>1. ASSUME NEW x \in DOMAIN q, q[x].note = n PROVE x \in 1..k
        <4> SUFFICES ASSUME x > k PROVE FALSE
          BY <1>1
        <4>1. x - k \in 1..(l - k) /\ k + (x - k) = x
          BY <1>1
        <4> QED BY <1>2, <2>2, <3>1, <4>1
      <3>2. (\E i \in DOMAIN a : a[i].note = n) <=> \E i \in DOMAIN q : q[i].note = n
        BY <1>1, <3>1
      <3>3. (\E i \in DOMAIN a : a[i].note = n /\ a[i].on /\ \A j \in (i + 1)..Len(a) : a[j].note # n)
            <=> \E i \in DOMAIN q : q[i].note = n /\ q[i].on /\ \A j \in (i + 1)..l : q[j].note # n
        <4>1. ASSUME NEW i \in DOMAIN a, a[i].note = n, a[i].on, \A j \in (i + 1)..Len(a) : a[j].note # n
              PROVE  \E x \in DOMAIN q : q[x].note = n /\ q[x].on /\ \A j \in (x + 1)..l : q[j].note # n
          <5>1. i \in DOMAIN q /\ q[i] = a[i]
            BY <1>1
          <5>2. ASSUME NEW j \in (i + 1)..l, q[j].note = n PROVE FALSE
            <6>1. j \in DOMAIN q
              BY <1>1
            <6>2. j \in 1..k
              BY <3>1, <5>2, <6>1
            <6>3. j \in (i + 1)..Len(a)
              BY <1>1, <6>2
            <6> QED BY <1>1, <4>1, <5>2, <6>2, <6>3
          <5> QED BY <4>1, <5>1, <5>2
        <4>2. ASSUME NEW x \in DOMAIN q, q[x].note = n, q[x].on, \A j \in (x + 1)..l : q[j].note # n
              PROVE  \E i \in DOMAIN a : a[i].note = n /\ a[i].on /\ \A j \in (i + 1)..Len(a) : a[j].note # n
          <5>1. x \in 1..k
            BY <3>1, <4>2
          <5>2. \A j \in (x + 1)..Len(a) : j \in 1..k /\ j \in (x + 1)..l
            BY <1>1, <5>1
          <5> QED BY <1>1, <4>2, <5>1, <5>2
        <4> QED BY <4>1, <4>2, Zenon
      <3>4. n \in Hears(Hears(h, a), b) <=> n \in Hears(h, a)
        BY <1>2, <2>2 DEF Hears
      <3> QED BY <3>2, <3>3, <3>4 DEF Hears, l
    <2> QED BY <2>1, <2>2
  <1>4. Hears(h, q) \subseteq Note /\ Hears(Hears(h, a), b) \subseteq Note
    BY DEF Hears
  <1> QED BY <1>3, <1>4 DEF a, b, l

-----------------------------------------------------------------------------
(* The host.                                                               *)

(* The devices are closed: what could not be silenced is excused.          *)
LEMMA Closes ==
  ASSUME UsbInv, NEW ok \in BOOLEAN, NEW more \in SUBSET Note, CloseDevices(ok, more), mode' \in 0..2
  PROVE  UsbInv'
  <1>1. open' = FALSE /\ pending' = <<>> /\ policy' = [n \in Note |-> "none"]
    BY DEF CloseDevices
  <1>2. host' = (IF ok /\ open THEN {} ELSE host)
        /\ excused' = excused \cup more \cup (IF ok THEN {} ELSE host)
    BY DEF CloseDevices
  <1>3. host' \in SUBSET Note /\ excused' \subseteq Note
    BY <1>2 DEF UsbInv, UsbTyped
  <1>4. <<>> \in Seq(Message) /\ Len(<<>>) = 0
    OBVIOUS
  <1>5. UsbTyped'
    <2>1. policy' \in [Note -> {"none", "sent", "kept"}]
      BY <1>1
    <2>2. pending' \in Seq(Message) /\ Len(pending') <= MaxPending
      BY <1>1, <1>4, PadsAssumption
    <2>3. open' \in BOOLEAN
      BY <1>1
    <2> QED BY <1>3, <2>1, <2>2, <2>3 DEF UsbTyped
  <1>6. Hears(host', pending') = host'
    BY <1>1, <1>3, HearsNothing
  <1>7. host' \subseteq excused'
    <2>1. CASE ok /\ open
      BY <1>2, <2>1
    <2>2. CASE ~ok
      BY <1>2, <2>2
    <2>3. CASE ~open
      <3>1. Hears(host, pending) = host
        BY <2>3, HearsNothing DEF UsbInv, UsbTyped, HostFollows
      <3>2. Sounding = {}
        BY <2>3 DEF UsbInv, HostFollows
      <3> QED BY <1>2, <2>3, <3>1, <3>2 DEF Sounding
    <2> QED BY <2>1, <2>2, <2>3
  <1>8. Sounding' = {}
    BY <1>6, <1>7 DEF Sounding
  <1> QED BY <1>1, <1>5, <1>8 DEF UsbInv, HostFollows

(* A press is forwarded, kept or lost.                                     *)
LEMMA ForwardsPress ==
  ASSUME UsbInv, down \subseteq Note, NEW n \in Note, NEW ok \in BOOLEAN,
         Forward(n, TRUE, ok, down \cap {n}), down' = down \cup {n}
  PROVE  UsbInv'
  <1> DEFINE pass == mode = 2 \/ ~Claimed(n)
             full == pass /\ Len(pending) = MaxPending
             m == [note |-> n, on |-> TRUE]
  <1>1. mode' = mode
    BY DEF Forward
  <1>2. CASE mode # 0 /\ open /\ full
    <2>1. CloseDevices(ok, down \cap {n})
      BY <1>2 DEF Forward
    <2> QED BY <1>1, <2>1, Closes DEF UsbInv, UsbTyped
  <1>3. CASE ~(mode # 0 /\ open /\ full)
    <2>1. open' = open /\ host' = host /\ excused' = excused \cup (down \cap {n})
      BY <1>3 DEF Forward
    <2>2. host' \in SUBSET Note /\ excused' \subseteq Note
      BY <2>1 DEF UsbInv, UsbTyped
    <2>3. CASE mode = 0 \/ ~open
      <3>1. UNCHANGED <<policy, pending>>
        BY <1>3, <2>3 DEF Forward
      <3>2. Sounding = {}
        BY <2>3 DEF UsbInv, HostFollows
      <3>3. Sounding' = {}
        BY <2>1, <3>1, <3>2 DEF Sounding
      <3> QED BY <1>1, <2>1, <2>2, <3>1, <3>3 DEF UsbInv, UsbTyped, HostFollows
    <2>4. CASE mode # 0 /\ open /\ pass
      <3>1. policy' = [policy EXCEPT ![n] = "sent"] /\ pending' = Append(pending, m)
        BY <1>3, <2>4 DEF Forward
      <3>2. m \in Message /\ m.on /\ m.note = n
        BY DEF Message
      <3> HIDE DEF m
      <3>3. pending' \in Seq(Message) /\ Len(pending') <= MaxPending
        BY <1>3, <2>4, <3>1, <3>2, PadsAssumption DEF UsbInv, UsbTyped
      <3>4. Hears(host', pending') = Hears(host, pending) \cup {n}
        BY <2>1, <2>2, <3>1, <3>2, HearsOneMore DEF UsbInv, UsbTyped
      <3>5. policy \in [Note -> {"none", "sent", "kept"}]
        BY DEF UsbInv, UsbTyped
      <3>6. policy' \in [Note -> {"none", "sent", "kept"}]
        BY <3>1, <3>5
      <3>7. ASSUME NEW k \in Sounding' PROVE policy'[k] = "sent" /\ k \in down'
        <4>1. CASE k = n
          BY <3>1, <3>5, <4>1
        <4>2. CASE k # n
          <5>1. k \in Sounding
            BY <2>1, <3>4, <3>7, <4>2 DEF Sounding
          <5>2. k \in Note
            BY <5>1 DEF Sounding, Hears
          <5> QED BY <3>1, <3>5, <4>2, <5>1, <5>2 DEF UsbInv, HostFollows
        <4> QED BY <4>1, <4>2
      <3>8. UsbTyped'
        BY <1>1, <2>1, <2>2, <3>3, <3>6 DEF UsbInv, UsbTyped
      <3> QED BY <1>1, <2>1, <2>4, <3>7, <3>8 DEF UsbInv, HostFollows
    <2>5. CASE mode # 0 /\ open /\ ~pass
      <3>1. policy' = [policy EXCEPT ![n] = "kept"] /\ pending' = pending
        BY <1>3, <2>5 DEF Forward
      <3>5. policy \in [Note -> {"none", "sent", "kept"}]
        BY DEF UsbInv, UsbTyped
      <3>6. policy' \in [Note -> {"none", "sent", "kept"}]
        BY <3>1, <3>5
      <3>7. ASSUME NEW k \in Sounding' PROVE policy'[k] = "sent" /\ k \in down'
        <4>1. k \in Sounding
          BY <2>1, <3>1 DEF Sounding
        <4>2. k \in Note /\ k \in down /\ policy[k] = "sent"
          BY <4>1 DEF Sounding, Hears, UsbInv, HostFollows
        <4>3. k # n
          BY <2>1, <3>7, <4>2 DEF Sounding
        <4> QED BY <3>1, <3>5, <4>2, <4>3
      <3>8. UsbTyped'
        BY <1>1, <2>1, <2>2, <3>1, <3>6 DEF UsbInv, UsbTyped
      <3> QED BY <1>1, <2>1, <2>5, <3>7, <3>8 DEF UsbInv, HostFollows
    <2> QED BY <2>3, <2>4, <2>5
  <1> QED BY <1>2, <1>3

(* A release goes where its press went.                                    *)
LEMMA ForwardsRelease ==
  ASSUME UsbInv, down \subseteq Note, NEW n \in Note, NEW ok \in BOOLEAN,
         Forward(n, FALSE, ok, {}), down' = down \ {n}
  PROVE  UsbInv'
  <1> DEFINE pass == IF policy[n] # "none" THEN policy[n] = "sent" ELSE mode = 2 \/ ~Claimed(n)
             full == pass /\ Len(pending) = MaxPending
             m == [note |-> n, on |-> FALSE]
  <1>1. mode' = mode
    BY DEF Forward
  <1>2. CASE mode # 0 /\ open /\ full
    <2>1. CloseDevices(ok, {})
      BY <1>2 DEF Forward
    <2> QED BY <1>1, <2>1, Closes DEF UsbInv, UsbTyped
  <1>3. CASE ~(mode # 0 /\ open /\ full)
    <2>1. open' = open /\ host' = host /\ excused' = excused
      BY <1>3 DEF Forward
    <2>2. host' \in SUBSET Note /\ excused' \subseteq Note
      BY <2>1 DEF UsbInv, UsbTyped
    <2>3. CASE mode = 0 \/ ~open
      <3>1. UNCHANGED <<policy, pending>>
        BY <1>3, <2>3 DEF Forward
      <3>2. Sounding = {}
        BY <2>3 DEF UsbInv, HostFollows
      <3>3. Sounding' = {}
        BY <2>1, <3>1, <3>2 DEF Sounding
      <3> QED BY <1>1, <2>1, <2>2, <3>1, <3>3 DEF UsbInv, UsbTyped, HostFollows
    <2>4. CASE mode # 0 /\ open
      <3>1. policy' = [policy EXCEPT ![n] = "none"]
            /\ pending' = IF pass THEN Append(pending, m) ELSE pending
        BY <1>3, <2>4 DEF Forward
      <3>2. m \in Message /\ ~m.on /\ m.note = n
        BY DEF Message
      <3> HIDE DEF m
      <3>3. pending' \in Seq(Message) /\ Len(pending') <= MaxPending
        BY <1>3, <2>4, <3>1, <3>2, PadsAssumption DEF UsbInv, UsbTyped
      <3>4. Hears(host', pending') \subseteq Hears(host, pending)
            /\ (pass => n \notin Hears(host', pending'))
        BY <2>1, <2>2, <3>1, <3>2, HearsOneMore DEF UsbInv, UsbTyped
      <3>5. policy \in [Note -> {"none", "sent", "kept"}]
        BY DEF UsbInv, UsbTyped
      <3>6. policy' \in [Note -> {"none", "sent", "kept"}]
        BY <3>1, <3>5
      <3>7. ASSUME NEW k \in Sounding' PROVE policy'[k] = "sent" /\ k \in down'
        <4>1. k \in Sounding
          BY <2>1, <3>4, <3>7 DEF Sounding
        <4>2. k \in Note /\ k \in down /\ policy[k] = "sent"
          BY <4>1 DEF Sounding, Hears, UsbInv, HostFollows
        <4>3. k # n
          BY <3>4, <3>7, <4>2 DEF Sounding
        <4> QED BY <3>1, <3>5, <4>2, <4>3
      <3>8. UsbTyped'
        BY <1>1, <2>1, <2>2, <3>3, <3>6 DEF UsbInv, UsbTyped
      <3> QED BY <1>1, <2>1, <2>4, <3>7, <3>8 DEF UsbInv, HostFollows
    <2> QED BY <2>3, <2>4
  <1> QED BY <1>2, <1>3

(* The host and the modes, with the pads left alone.                       *)
LEMMA HostSteps ==
  ASSUME UsbInv
  PROVE  /\ \A m \in 0..2, ok \in BOOLEAN : SetMode(m, ok) => UsbInv'
         /\ \A ok \in BOOLEAN : WriteFails(ok) => UsbInv'
         /\ \A k \in DOMAIN pending : WritePending(k) => UsbInv'
         /\ OpenHost => UsbInv'
         /\ HostLeaves => UsbInv'
  <1>1. ASSUME NEW m \in 0..2, NEW ok \in BOOLEAN, SetMode(m, ok) PROVE UsbInv'
    BY <1>1, Closes DEF SetMode
  <1>2. ASSUME NEW ok \in BOOLEAN, WriteFails(ok) PROVE UsbInv'
    BY <1>2, Closes DEF WriteFails, UsbInv, UsbTyped
  <1>3. ASSUME NEW k \in DOMAIN pending, WritePending(k) PROVE UsbInv'
    <2>1. pending \in Seq(Message) /\ host \in SUBSET Note /\ k \in 1..Len(pending)
      BY DEF UsbInv, UsbTyped
    <2>2. /\ host' = Hears(host, SubSeq(pending, 1, k))
          /\ pending' = SubSeq(pending, k + 1, Len(pending))
          /\ UNCHANGED <<mode, open, policy, excused, down>>
      BY <1>3 DEF WritePending, usbOnly
    <2>3. Hears(host', pending') = Hears(host, pending)
      BY <2>1, <2>2, HearsInTwo
    <2>4. Sounding' = Sounding
      BY <2>2, <2>3 DEF Sounding
    <2>5. pending' \in Seq(Message) /\ Len(pending') <= Len(pending)
      BY <2>1, <2>2
    <2>6. host' \subseteq Note
      BY <2>2 DEF Hears
    <2>7. Len(pending') <= MaxPending
      BY <2>1, <2>5, PadsAssumption DEF UsbInv, UsbTyped
    <2>8. open
      BY <1>3 DEF WritePending
    <2> QED BY <2>2, <2>4, <2>5, <2>6, <2>7, <2>8 DEF UsbInv, UsbTyped, HostFollows
  <1>4. ASSUME OpenHost PROVE UsbInv'
    <2>1. open' = TRUE /\ mode # 0 /\ UNCHANGED <<mode, policy, pending, host, excused, down>>
      BY <1>4 DEF OpenHost, usbOnly
    <2>2. Sounding = {}
      BY <1>4 DEF OpenHost, UsbInv, HostFollows
    <2>3. Sounding' = {}
      BY <2>1, <2>2 DEF Sounding
    <2> QED BY <2>1, <2>3 DEF UsbInv, UsbTyped, HostFollows
  <1>5. ASSUME HostLeaves PROVE UsbInv'
    <2>1. /\ open' = FALSE /\ pending' = <<>> /\ host' = {} /\ policy' = [n \in Note |-> "none"]
          /\ UNCHANGED <<mode, excused, down>>
      BY <1>5 DEF HostLeaves, usbOnly
    <2>2. Hears(host', pending') = {}
      BY <2>1, HearsNothing
    <2>3. <<>> \in Seq(Message) /\ Len(<<>>) = 0 /\ policy' \in [Note -> {"none", "sent", "kept"}]
      BY <2>1
    <2>4. Len(pending') <= MaxPending
      BY <2>1, <2>3, PadsAssumption
    <2>5. UsbTyped'
      BY <2>1, <2>3, <2>4 DEF UsbInv, UsbTyped
    <2>6. Sounding' = {}
      BY <2>2 DEF Sounding
    <2> QED BY <2>1, <2>5, <2>6 DEF UsbInv, HostFollows
  <1> QED BY <1>1, <1>2, <1>3, <1>4, <1>5

LEMMA HostRests ==
  ASSUME UsbInv, UNCHANGED <<usbVars, down>>
  PROVE  UsbInv'
  BY DEF UsbInv, UsbTyped, HostFollows, Sounding, usbVars

-----------------------------------------------------------------------------
(* The pads, their lights and their sounds.                                *)
Light == {"unknown", "dark", "mapped", "playing", "stop", "sampler"}

LEMMA MeaningKinds ==
  /\ Sounds \subseteq Meaning /\ "free" \in Meaning /\ NoNote \notin Note
  /\ Maps \subseteq [Note -> Meaning]
  BY PadsAssumption DEF Meaning

LEMMA DesiredTyped ==
  ASSUME NEW m, NEW on, NEW dark, NEW off, NEW held
  PROVE  Desired(m, on, dark, off, held) \in [Note -> Light]
  <1>1. ASSUME NEW n \in Note
        PROVE  (IF dark THEN "dark"
                ELSE CASE m[n] \in Sounds -> IF on \/ (m[n] = "hold" /\ held = n) THEN "playing" ELSE "mapped"
                       [] m[n] \in {"stop", "sampler"} -> m[n]
                       [] m[n] = "effect" -> IF off THEN "mapped" ELSE "playing"
                       [] OTHER -> "dark") \in Light
    BY DEF Light, Sounds
  <1> QED BY <1>1 DEF Desired

(* The lights that are refreshed are right, and those that show what did   *)
(* not change stay so.                                                     *)
LightsTyped == led \in [Note -> Light] /\ stale \in BOOLEAN
LEMMA Refreshed ==
  ASSUME RefreshLights, LightsTyped
  PROVE  LightsFollow' /\ LightsTyped'
  BY DesiredTyped DEF RefreshLights, LightsFollow, LightsTyped

LEMMA KeptLights ==
  ASSUME LightsFollow, LightsTyped, KeepLights, UNCHANGED <<shown, connected>>
  PROVE  LightsFollow' /\ LightsTyped'
  BY DEF KeepLights, LightsFollow, LightsTyped, shown

Rest ==
  /\ connected \in BOOLEAN /\ map \in [Note -> Meaning]
  /\ sampler \in BOOLEAN /\ dim \in BOOLEAN /\ bypassed \in BOOLEAN
  /\ hold \in Note \cup {NoNote} /\ voice \in {"nobody", "pad", "touch", "page", "orphan"}
  /\ touch \in {"hidden", "shown", "held"} /\ down \subseteq Note
LEMMA DeviceParts ==
  /\ DeviceInv <=> Rest /\ LightsTyped /\ LightsFollow /\ VoiceFollows
  /\ DeviceInv' <=> Rest' /\ LightsTyped' /\ LightsFollow' /\ VoiceFollows'
  BY DEF DeviceInv, DeviceTyped, Rest, LightsTyped, Light

LEMMA Pressed ==
  ASSUME DeviceInv, NEW n \in Note, connected, UNCHANGED <<connected, touch>>, down' = down \cup {n},
         \/ \E starts \in BOOLEAN : HoldPad(n, starts)
         \/ SwitchPad(n)
         \/ OtherPad(n)
  PROVE  DeviceInv'
  <1>1. Rest /\ LightsTyped /\ LightsFollow /\ VoiceFollows
    BY DeviceParts
  <1>2. ASSUME NEW starts \in BOOLEAN, HoldPad(n, starts) PROVE DeviceInv'
    <2>1. CASE starts
      <3>1. /\ voice' = "pad" /\ hold' = n /\ RefreshLights /\ UNCHANGED <<map, sampler, dim, bypassed>>
        BY <1>2, <2>1 DEF HoldPad
      <3>2. LightsFollow' /\ LightsTyped'
        BY <1>1, <3>1, Refreshed
      <3> QED BY <1>1, <3>1, <3>2, DeviceParts DEF Rest, VoiceFollows
    <2>2. CASE ~starts
      <3>1. /\ voice' = "nobody" \/ voice' = voice
            /\ hold' = hold /\ KeepLights /\ UNCHANGED <<map, sampler, dim, bypassed>>
        BY <1>2, <2>2 DEF HoldPad
      <3>2. LightsFollow' /\ LightsTyped'
        BY <1>1, <3>1, KeptLights DEF shown
      <3> QED BY <1>1, <3>1, <3>2, DeviceParts DEF Rest, VoiceFollows
    <2> QED BY <2>1, <2>2
  <1>3. CASE SwitchPad(n)
    <2>1. /\ (hold' = NoNote /\ voice' = "nobody") \/ (hold' = hold /\ voice' = voice)
          /\ sampler' \in BOOLEAN /\ bypassed' \in BOOLEAN /\ UNCHANGED <<map, dim>> /\ RefreshLights
      <3>1. (hold' = NoNote /\ voice' = "nobody") \/ (hold' = hold /\ voice' = voice)
        BY <1>3 DEF SwitchPad
      <3>2. sampler' \in BOOLEAN
        BY <1>3, Zenon DEF SwitchPad
      <3>3. bypassed' \in BOOLEAN
        BY <1>3, Zenon DEF SwitchPad
      <3> QED BY <1>3, <3>1, <3>2, <3>3 DEF SwitchPad
    <2>2. LightsFollow' /\ LightsTyped'
      BY <1>1, <2>1, Refreshed
    <2> QED BY <1>1, <2>1, <2>2, DeviceParts DEF Rest, VoiceFollows
  <1>4. CASE OtherPad(n)
    <2>1. LightsFollow' /\ LightsTyped'
      BY <1>1, <1>4, KeptLights DEF OtherPad
    <2>2. UNCHANGED <<map, sampler, dim, bypassed, hold, voice>>
      BY <1>4 DEF OtherPad, shown
    <2> QED BY <1>1, <2>1, <2>2, DeviceParts DEF Rest, VoiceFollows
  <1> QED BY <1>2, <1>3, <1>4

LEMMA Released ==
  ASSUME DeviceInv, NEW n \in Note, NEW ok, ReleasePad(n, ok)
  PROVE  DeviceInv'
  <1>1. Rest /\ LightsTyped /\ LightsFollow /\ VoiceFollows
    BY DeviceParts
  <1>2. connected /\ down' = down \ {n} /\ UNCHANGED <<connected, touch, map, sampler, dim, bypassed>>
    BY DEF ReleasePad
  <1>3. CASE hold # NoNote
    <2>1. hold' = NoNote /\ voice' = "nobody" /\ RefreshLights
      BY <1>3 DEF ReleasePad
    <2>2. LightsFollow' /\ LightsTyped'
      BY <1>1, <2>1, Refreshed
    <2> QED BY <1>1, <1>2, <2>1, <2>2, DeviceParts DEF Rest, VoiceFollows
  <1>4. CASE hold = NoNote
    <2>1. hold' = hold /\ voice' = voice /\ (RefreshLights \/ KeepLights)
      BY <1>4 DEF ReleasePad
    <2>2. LightsFollow' /\ LightsTyped'
      BY <1>1, <1>2, <2>1, Refreshed, KeptLights DEF shown
    <2>3. voice # "pad"
      BY <1>1, <1>4, MeaningKinds DEF VoiceFollows, Rest
    <2> QED BY <1>1, <1>2, <2>1, <2>2, <2>3, DeviceParts DEF Rest, VoiceFollows
  <1> QED BY <1>3, <1>4

LEMMA Unplugged ==
  ASSUME DeviceInv, NEW ok, Disconnect(ok)
  PROVE  DeviceInv'
  <1>1. Rest /\ LightsTyped /\ LightsFollow /\ VoiceFollows
    BY DeviceParts
  <1>2. /\ connected' = FALSE /\ down' = {} /\ hold' = NoNote /\ led' = Unlit
        /\ voice' = (IF voice = "pad" THEN "orphan" ELSE voice)
        /\ UNCHANGED <<map, sampler, dim, bypassed, stale, touch>>
    BY DEF Disconnect
  <1>3. LightsFollow' /\ LightsTyped'
    BY <1>1, <1>2 DEF LightsFollow, LightsTyped, Unlit, Light
  <1>4. Rest'
    BY <1>1, <1>2 DEF Rest
  <1>5. VoiceFollows'
    BY <1>1, <1>2 DEF VoiceFollows
  <1> QED BY <1>3, <1>4, <1>5, DeviceParts

LEMMA Plugged ==
  ASSUME DeviceInv, Connect
  PROVE  DeviceInv'
  <1>1. Rest /\ LightsTyped /\ LightsFollow /\ VoiceFollows
    BY DeviceParts
  <1>2. connected' = TRUE /\ UNCHANGED <<map, sampler, dim, bypassed, hold, voice, touch, down>>
    BY DEF Connect, shown
  <1>3. LightsFollow' /\ LightsTyped'
    BY <1>1, Refreshed DEF Connect
  <1> QED BY <1>1, <1>2, <1>3, DeviceParts DEF Rest, VoiceFollows

(* The map, the effect and the lights, by the web interface.               *)
LEMMA Edited ==
  ASSUME DeviceInv
  PROVE  /\ \A m \in Maps, lights \in BOOLEAN : SaveMap(m, lights) => DeviceInv'
         /\ \A gone \in SUBSET Note : PurgeSounds(gone) => DeviceInv'
         /\ \A d \in BOOLEAN : SwitchLights(d) => DeviceInv'
         /\ ReloadMap => DeviceInv'
         /\ SwitchEffect => DeviceInv'
  <1>1. Rest /\ LightsTyped /\ LightsFollow /\ VoiceFollows
    BY DeviceParts
  <1>2. ASSUME NEW m \in Maps, NEW lights \in BOOLEAN, SaveMap(m, lights) PROVE DeviceInv'
    <2>1. map' = m /\ UNCHANGED <<connected, down, sampler, dim, bypassed, hold, voice, touch>>
      BY <1>2 DEF SaveMap, others
    <2>2. LightsFollow' /\ LightsTyped'
      <3>1. CASE lights
        BY <1>1, <1>2, <3>1, Refreshed DEF SaveMap
      <3>2. CASE ~lights
        <4>1. stale' = TRUE /\ led' = led
          BY <1>2, <3>2 DEF SaveMap
        <4> QED BY <1>1, <4>1 DEF LightsFollow, LightsTyped
      <3> QED BY <3>1, <3>2
    <2>3. m \in [Note -> Meaning]
      BY MeaningKinds
    <2> QED BY <1>1, <2>1, <2>2, <2>3, DeviceParts DEF Rest, VoiceFollows
  <1>3. ASSUME NEW gone \in SUBSET Note, PurgeSounds(gone) PROVE DeviceInv'
    <2>1. /\ map' = [n \in Note |-> IF n \in gone /\ map[n] \in Sounds THEN "free" ELSE map[n]]
          /\ (hold' = NoNote /\ voice' = "nobody") \/ (hold' = hold /\ voice' = voice)
          /\ UNCHANGED <<connected, down, sampler, dim, bypassed, touch>>
      BY <1>3 DEF PurgeSounds, others
    <2>2. LightsFollow' /\ LightsTyped'
      BY <1>1, <1>3, Refreshed DEF PurgeSounds
    <2>3. map' \in [Note -> Meaning]
      BY <1>1, <2>1, MeaningKinds DEF Rest
    <2> QED BY <1>1, <2>1, <2>2, <2>3, DeviceParts DEF Rest, VoiceFollows
  <1>4. ASSUME NEW d \in BOOLEAN, SwitchLights(d) PROVE DeviceInv'
    <2>1. /\ dim' \in BOOLEAN /\ sampler' \in BOOLEAN
          /\ UNCHANGED <<connected, down, map, bypassed, hold, voice, touch>>
      BY <1>4, Zenon DEF SwitchLights, others
    <2>2. LightsFollow' /\ LightsTyped'
      BY <1>1, <1>4, Refreshed DEF SwitchLights
    <2> QED BY <1>1, <2>1, <2>2, DeviceParts DEF Rest, VoiceFollows
  <1>5. ASSUME ReloadMap PROVE DeviceInv'
    <2>1. UNCHANGED <<connected, down, map, sampler, dim, bypassed, hold, voice, touch>>
      BY <1>5 DEF ReloadMap, shown, others
    <2>2. LightsFollow' /\ LightsTyped'
      BY <1>1, <1>5, Refreshed DEF ReloadMap
    <2> QED BY <1>1, <2>1, <2>2, DeviceParts DEF Rest, VoiceFollows
  <1>6. ASSUME SwitchEffect PROVE DeviceInv'
    <2>1. /\ bypassed' \in BOOLEAN /\ stale' = TRUE /\ led' = led
          /\ UNCHANGED <<connected, down, map, sampler, dim, hold, voice, touch>>
      BY <1>6, Zenon DEF SwitchEffect, others
    <2>2. LightsFollow' /\ LightsTyped'
      BY <1>1, <2>1 DEF LightsFollow, LightsTyped
    <2> QED BY <1>1, <2>1, <2>2, DeviceParts DEF Rest, VoiceFollows
  <1> QED BY <1>2, <1>3, <1>4, <1>5, <1>6

(* Sounds that are held elsewhere.                                         *)
LEMMA Sounded ==
  ASSUME DeviceInv, StopVoice \/ PageHolds \/ TouchPad \/ LiftFinger \/ SwitchView
  PROVE  DeviceInv'
  <1>1. Rest /\ LightsTyped /\ LightsFollow /\ VoiceFollows
    BY DeviceParts
  <1>2. UNCHANGED voiceOnly
    BY DEF StopVoice, PageHolds, TouchPad, LiftFinger, SwitchView
  <1>3. LightsFollow' /\ LightsTyped'
    BY <1>1, <1>2, KeptLights DEF voiceOnly, KeepLights, others
  <1>4. UNCHANGED <<connected, down, map, sampler, dim, bypassed, hold>>
    BY <1>2 DEF voiceOnly, shown, others
  <1>5. /\ voice' \in {"nobody", "pad", "touch", "page", "orphan"} /\ touch' \in {"hidden", "shown", "held"}
        /\ voice' = "pad" => voice = "pad"
        /\ voice' = "touch" => touch' = "held"
    BY <1>1 DEF StopVoice, PageHolds, TouchPad, LiftFinger, SwitchView, Rest, VoiceFollows
  <1> QED BY <1>1, <1>3, <1>4, <1>5, DeviceParts DEF Rest, VoiceFollows

LEMMA DeviceRests ==
  ASSUME DeviceInv, UNCHANGED <<connected, led, shown, stale, voice, touch, down>>
  PROVE  DeviceInv'
  BY DEF DeviceInv, DeviceTyped, VoiceFollows, LightsFollow, shown

-----------------------------------------------------------------------------
LEMMA PadsStart == ASSUME PadsInit PROVE PadsInv
  <1>1. <<>> \in Seq(Message) /\ Len(<<>>) = 0 /\ MaxPending \in Nat
    BY PadsAssumption
  <1>2. Sounding = {}
    BY HearsNothing DEF PadsInit, Sounding
  <1>3. UsbTyped
    <2>1. policy \in [Note -> {"none", "sent", "kept"}]
      BY DEF PadsInit
    <2>2. pending \in Seq(Message) /\ Len(pending) <= MaxPending
      BY <1>1 DEF PadsInit
    <2> QED BY <2>1, <2>2 DEF PadsInit, UsbTyped
  <1>4. UsbInv
    BY <1>2, <1>3 DEF PadsInit, UsbInv, HostFollows
  <1>5. DeviceInv
    BY MeaningKinds DEF PadsInit, DeviceInv, DeviceTyped, VoiceFollows, LightsFollow, Unlit
  <1> QED BY <1>4, <1>5 DEF PadsInv

LEMMA PadsStep == ASSUME PadsInv, [PadsNext]_padsVars PROVE PadsInv'
  <1>1. UsbInv /\ DeviceInv /\ down \subseteq Note
    BY DEF PadsInv, DeviceInv, DeviceTyped
  <1>2. ASSUME NEW n \in Note, NEW ok \in BOOLEAN, PressPad(n, ok) PROVE PadsInv'
    <2>1. UsbInv'
      BY <1>1, <1>2, ForwardsPress DEF PressPad
    <2>2. DeviceInv'
      BY <1>1, <1>2, Pressed DEF PressPad
    <2> QED BY <2>1, <2>2 DEF PadsInv
  <1>3. ASSUME NEW n \in Note, NEW ok \in BOOLEAN, ReleasePad(n, ok) PROVE PadsInv'
    <2>1. UsbInv'
      BY <1>1, <1>3, ForwardsRelease DEF ReleasePad
    <2>2. DeviceInv'
      BY <1>1, <1>3, Released
    <2> QED BY <2>1, <2>2 DEF PadsInv
  <1>4. ASSUME NEW ok \in BOOLEAN, Disconnect(ok) PROVE PadsInv'
    <2>1. UsbInv'
      BY <1>1, <1>4, Closes DEF Disconnect, UsbInv, UsbTyped
    <2>2. DeviceInv'
      BY <1>1, <1>4, Unplugged
    <2> QED BY <2>1, <2>2 DEF PadsInv
  <1>5. CASE \/ \E m \in 0..2, ok \in BOOLEAN : SetMode(m, ok)
             \/ \E ok \in BOOLEAN : WriteFails(ok)
             \/ \E k \in DOMAIN pending : WritePending(k)
             \/ OpenHost \/ HostLeaves
    <2>1. UsbInv'
      BY <1>1, <1>5, HostSteps
    <2>2. UNCHANGED <<connected, led, shown, stale, voice, touch, down>>
      BY <1>5 DEF SetMode, WriteFails, WritePending, OpenHost, HostLeaves, usbOnly
    <2>3. DeviceInv'
      BY <1>1, <2>2, DeviceRests
    <2> QED BY <2>1, <2>3 DEF PadsInv
  <1>6. CASE Connect
    <2>1. UsbInv'
      BY <1>1, <1>6, HostRests DEF Connect
    <2>2. DeviceInv'
      BY <1>1, <1>6, Plugged
    <2> QED BY <2>1, <2>2 DEF PadsInv
  <1>7. CASE \/ \E m \in Maps, lights \in BOOLEAN : SaveMap(m, lights)
             \/ \E gone \in SUBSET Note \ {{}} : PurgeSounds(gone)
             \/ ReloadMap \/ SwitchEffect \/ \E d \in BOOLEAN : SwitchLights(d)
    <2>1. UNCHANGED <<usbVars, down>>
      BY <1>7 DEF SaveMap, PurgeSounds, ReloadMap, SwitchEffect, SwitchLights, others
    <2>2. UsbInv'
      BY <1>1, <2>1, HostRests
    <2>3. DeviceInv'
      BY <1>1, <1>7, Edited
    <2> QED BY <2>2, <2>3 DEF PadsInv
  <1>8. CASE StopVoice \/ PageHolds \/ TouchPad \/ LiftFinger \/ SwitchView
    <2>1. UNCHANGED <<usbVars, down>>
      BY <1>8 DEF StopVoice, PageHolds, TouchPad, LiftFinger, SwitchView, voiceOnly, others
    <2>2. UsbInv'
      BY <1>1, <2>1, HostRests
    <2>3. DeviceInv'
      BY <1>1, <1>8, Sounded
    <2> QED BY <2>2, <2>3 DEF PadsInv
  <1>9. CASE UNCHANGED padsVars
    <2>1. UNCHANGED <<connected, led, shown, stale, voice, touch, down>> /\ UNCHANGED <<usbVars, down>>
      BY <1>9 DEF padsVars
    <2> QED BY <1>1, <2>1, HostRests, DeviceRests DEF PadsInv
  <1> QED BY <1>2, <1>3, <1>4, <1>5, <1>6, <1>7, <1>8, <1>9 DEF PadsNext

(* The host has no note on that no pad will end, no sound is held by a pad *)
(* or a finger that is gone, and the lights follow.                        *)
THEOREM PadsStaySound == PadsSpec => []PadsInv
  <1>1. PadsInv /\ [PadsNext]_padsVars => PadsInv'
    BY PadsStep
  <1> QED BY PadsStart, <1>1, PTL DEF PadsSpec

(* ControllerIsUnderstood: whatever bytes the parsers read, and however    *)
(* presses and releases fall between changes of the map, the mode, the     *)
(* queue and the connections.                                              *)
THEOREM ControllerStaysUnderstood == ParserSpec /\ PadsSpec => []ControllerIsUnderstood
  <1>1. PadsInv => NothingHangs /\ LightsFollow
    BY DEF PadsInv, UsbInv, DeviceInv, HostFollows, VoiceFollows, Sounding, NothingHangs
  <1>2. ParsersAgree /\ NothingHangs /\ LightsFollow => ControllerIsUnderstood
    BY DEF ControllerIsUnderstood
  <1> QED BY <1>1, <1>2, ParsersUnderstandAlike, PadsStaySound, PTL

(* The messages for the host stay within the queue; lights and policies    *)
(* are of the kinds the code knows.                                        *)
THEOREM PadsKeepType == PadsSpec => []PadsTyped
  <1>1. PadsInv => PadsTyped
    BY DEF PadsInv, UsbInv, UsbTyped, DeviceInv, DeviceTyped, PadsTyped
  <1> QED BY <1>1, PadsStaySound, PTL

-----------------------------------------------------------------------------
(***************************************************************************)
(* What a script stores is kept (ScriptStore).                             *)
(***************************************************************************)

Steps == {"open", "root", "scan", "swept", "create", "sync", "rename", "unlink", "flush", "remove"}

(* The change that is under way: whose it is, what it changes and where it *)
(* is.                                                                     *)
JobTyped ==
  job # Free =>
    /\ job \in [at : Steps, by : {"plan", "ui"}, x : Target, v : 0..MaxContent]
    /\ job.at = "remove" => job.x \in CustomFile /\ job.v = None

(* A directory that a power loss may leave: within the limits, and empty   *)
(* when it is not there.                                                   *)
DirKept(d) ==
  /\ d \in [made : BOOLEAN, data : [Target -> 0..MaxContent], temps : 0..1]
  /\ ~d.made => d.data = Nothing /\ d.temps = 0
  /\ Cardinality(Stored(d.data, CustomFile)) <= FilesMax
  /\ Cardinality(Stored(d.data, Key)) <= EntriesMax
  /\ Total(d.data) <= TotalMax

DirsKept == disk \in dur /\ \A d \in dur : DirKept(d)

Action == [x : Target, v : 0..MaxContent]

RestTyped ==
  /\ scripts \subseteq 1..MaxId
  /\ may \in [Target -> SUBSET (0..MaxContent)]
  /\ JobTyped
  /\ plan \in Seq(Action)
  /\ plan # <<>> => 1 \in scripts

(* A directory whose entry was not flushed is known to be such, and a      *)
(* change that writes has made its own.                                    *)
Flushes ==
  /\ unflushed => disk.made
  /\ disk.made /\ (\E d \in dur : ~d.made) => unflushed \/ (job # Free /\ job.at = "root")
  /\ job # Free /\ job.at \notin {"open", "remove"} => disk.made

(* What a step has done already.                                           *)
StepsDone ==
  job # Free =>
    /\ job.at \in {"swept", "create"} => disk.temps = 0
    /\ job.at \in {"sync", "rename", "unlink"} => disk.temps = 1
    /\ job.at \in {"swept", "create", "sync", "rename"} /\ job.x \in Key
         => Cardinality(Stored(After, Key)) <= EntriesMax
    /\ job.at \in {"sync", "rename"} => FitsQuota(After)
    /\ job.at = "flush" => disk.data[job.x] = job.v

(* Each change is in what its file or option may hold.                     *)
MayHold ==
  /\ job # Free => job.v \in may[job.x]
  /\ \A x \in Target : may[x] # {}
  /\ OldOrNew

(* A change of the plan is its next action, one of the user is recorded.   *)
Owners ==
  job # Free =>
    /\ job.by = "plan" => plan # <<>> /\ Head(plan).x = job.x /\ Head(plan).v = job.v
    /\ job.by = "ui" => job.x \in edited

(* What is stored, under what is left of the plan, is what was shown.      *)
ShownStays ==
  \A w \in promised : \A x \in Target \ edited : Overlay(disk.data, plan)[x] = w[x]

StoreInv ==
  /\ DirsKept /\ RestTyped /\ Flushes /\ StepsDone /\ MayHold /\ Owners /\ ShownStays
  /\ NothingIsInherited

-----------------------------------------------------------------------------
(* Sets of numbers, and what is stored.                                    *)

(* A set of natural numbers has a least element: the intervals 0..t are    *)
(* finite sets, which strict inclusion orders well.                        *)
LEMMA LeastOfSome ==
  ASSUME NEW T \in SUBSET Nat, T # {}
  PROVE  \E m \in T : \A t \in T : m <= t
  <1> DEFINE Below == {0..t : t \in T}
  <1>1. Below \subseteq FiniteSubsetsOf(Nat)
    <2>1. ASSUME NEW t \in T PROVE IsFiniteSet(0..t)
      BY FS_Interval
    <2> QED BY <2>1 DEF FiniteSubsetsOf
  <1>2. Below # {}
    OBVIOUS
  <1>3. PICK I \in Below : \A J \in Below : <<J, I>> \notin StrictSubsetOrdering(Nat)
    <2> HIDE DEF Below
    <2> QED BY <1>1, <1>2, FS_StrictSubsetOrderingWellFounded, WFMin
  <1>4. PICK m \in T : I = 0..m
    BY <1>3
  <1>5. ASSUME NEW t \in T, ~(m <= t) PROVE FALSE
    <2>1. 0..t \in Below
      OBVIOUS
    <2>2. 0..t \subseteq 0..m /\ m \in 0..m /\ m \notin 0..t
      BY <1>5
    <2>3. <<0..t, 0..m>> \in StrictSubsetOrdering(Nat)
      BY <2>2 DEF StrictSubsetOrdering
    <2> QED BY <1>3, <1>4, <2>1, <2>3
  <1> QED BY <1>5

(* Max finds the largest of some numbers that are bounded.                 *)
LEMMA MaxIsLargest ==
  ASSUME NEW k \in Nat, NEW S \in SUBSET (0..k), S # {}
  PROVE  Max(S) \in S /\ \A y \in S : Max(S) >= y
  <1> DEFINE T == {k - s : s \in S}
  <1>1. T \in SUBSET Nat /\ T # {}
    <2>1. ASSUME NEW s \in S PROVE k - s \in Nat
      OBVIOUS
    <2> QED BY <2>1
  <1>2. PICK m \in T : \A t \in T : m <= t
    <2> HIDE DEF T
    <2> QED BY <1>1, LeastOfSome
  <1>3. PICK s \in S : m = k - s
    BY <1>2
  <1>4. ASSUME NEW y \in S PROVE s >= y
    <2>1. k - y \in T /\ y \in 0..k /\ s \in 0..k
      OBVIOUS
    <2>2. k - s <= k - y
      BY <1>2, <1>3, <2>1
    <2> QED BY <2>1, <2>2
  <1> QED BY <1>4 DEF Max

(* The largest of a set is the one that is as large as each.               *)
LEMMA MaxIsOne ==
  ASSUME NEW k \in Nat, NEW S \in SUBSET (0..k), NEW m \in S, \A y \in S : m >= y
  PROVE  Max(S) = m
  <1>1. Max(S) \in S /\ \A y \in S : Max(S) >= y
    BY MaxIsLargest
  <1>2. Max(S) \in 0..k /\ m \in 0..k /\ Max(S) >= m /\ m >= Max(S)
    BY <1>1
  <1> QED BY <1>2

(* The names that something is stored for can be counted.                  *)
LEMMA StoredIsFinite ==
  ASSUME NEW data, NEW S \in SUBSET Target
  PROVE  IsFiniteSet(Stored(data, S)) /\ Cardinality(Stored(data, S)) \in Nat
  <1>1. Stored(data, S) \in SUBSET Target
    BY DEF Stored
  <1> QED BY <1>1, FS_Subset, FS_CardinalityType, StoreAssumption

(* With one name more, at most one more of them.                           *)
LEMMA StoredGrows ==
  ASSUME NEW data \in [Target -> 0..MaxContent], NEW x \in Target, NEW v \in 0..MaxContent,
         NEW S \in SUBSET Target
  PROVE  LET next == [data EXCEPT ![x] = v]
         IN  /\ (x \notin S \/ v = None \/ data[x] # None)
                  => Cardinality(Stored(next, S)) <= Cardinality(Stored(data, S))
             /\ Cardinality(Stored(next, S)) <= Cardinality(Stored(data, S)) + 1
  <1> DEFINE next == [data EXCEPT ![x] = v]
             A == Stored(data, S)
             B == Stored(next, S)
  <1>1. next \in [Target -> 0..MaxContent] /\ next[x] = v /\ \A y \in Target \ {x} : next[y] = data[y]
    OBVIOUS
  <1> HIDE DEF next
  <1>2. (x \notin S \/ v = None \/ data[x] # None) => B \in SUBSET A
    BY <1>1 DEF Stored
  <1>3. B \in SUBSET (A \cup {x})
    BY <1>1 DEF Stored
  <1>4. IsFiniteSet(A) /\ Cardinality(A) \in Nat /\ Cardinality(B) \in Nat
    BY StoredIsFinite
  <1> HIDE DEF A, B
  <1>5. (x \notin S \/ v = None \/ data[x] # None) => Cardinality(B) <= Cardinality(A)
    BY <1>2, <1>4, FS_Subset
  <1>6. IsFiniteSet(A \cup {x}) /\ Cardinality(A \cup {x}) \in Nat
        /\ Cardinality(A \cup {x}) <= Cardinality(A) + 1
    BY <1>4, FS_AddElement
  <1>7. Cardinality(B) <= Cardinality(A \cup {x})
    BY <1>3, <1>6, FS_Subset
  <1>8. Cardinality(B) <= Cardinality(A) + 1
    BY <1>4, <1>6, <1>7
  <1> QED BY <1>5, <1>8 DEF next, A, B

(* What is stored for less takes no more room.                             *)
LEMMA LessTakesLess ==
  ASSUME NEW data \in [Target -> 0..MaxContent], NEW x \in Target
  PROVE  /\ Total(data) \in Nat
         /\ Total([data EXCEPT ![x] = None]) <= Total(data)
  <1> DEFINE Room == Target \X (1..MaxContent)
             next == [data EXCEPT ![x] = None]
  <1>1. IsFiniteSet(Room)
    <2>1. IsFiniteSet(1..MaxContent)
      BY FS_Interval, StoreAssumption
    <2> QED BY <2>1, FS_Product, StoreAssumption
  <1>2. Bytes(data) \in SUBSET Room
    BY StoreAssumption DEF Bytes
  <1>3. next \in [Target -> 0..MaxContent] /\ next[x] = 0 /\ \A y \in Target \ {x} : next[y] = data[y]
    BY StoreAssumption DEF None
  <1> HIDE DEF next
  <1>4. ASSUME NEW b \in Bytes(next) PROVE b \in Bytes(data)
    <2>1. PICK y \in Target : b \in {y} \X (1..next[y])
      BY <1>4 DEF Bytes
    <2>2. y # x
      BY <1>3, <2>1
    <2> QED BY <1>3, <2>1, <2>2 DEF Bytes
  <1>5. IsFiniteSet(Bytes(data))
    BY <1>1, <1>2, FS_Subset
  <1>6. Cardinality(Bytes(next)) <= Cardinality(Bytes(data)) /\ Cardinality(Bytes(data)) \in Nat
    BY <1>4, <1>5, FS_Subset, FS_CardinalityType
  <1> QED BY <1>6 DEF Total, next

(* Nothing takes no room.                                                  *)
LEMMA NothingTakesNothing ==
  /\ Nothing \in [Target -> 0..MaxContent]
  /\ Total(Nothing) = 0
  /\ \A S \in SUBSET Target : Cardinality(Stored(Nothing, S)) = 0
  <1>1. Nothing \in [Target -> 0..MaxContent] /\ \A x \in Target : Nothing[x] = 0
    BY StoreAssumption DEF Nothing, None
  <1>2. Bytes(Nothing) = {}
    BY <1>1 DEF Bytes
  <1>3. ASSUME NEW S \in SUBSET Target PROVE Stored(Nothing, S) = {}
    BY <1>1 DEF Stored, None
  <1> QED BY <1>1, <1>2, <1>3, FS_EmptySet DEF Total

-----------------------------------------------------------------------------
(* What is stored, under the actions of a plan.                            *)

(* Without actions it is what is stored.                                   *)
LEMMA NoActionChanges ==
  ASSUME NEW data \in [Target -> 0..MaxContent], NEW y \in Target
  PROVE  Overlay(data, <<>>)[y] = data[y]
  BY DEF Overlay, Changes

(* A change of one file or option is seen in that one, and there only if   *)
(* no action changes it.                                                   *)
LEMMA ActionsHide ==
  ASSUME NEW data \in [Target -> 0..MaxContent], NEW x \in Target, NEW v \in 0..MaxContent,
         NEW p, NEW y \in Target, y # x \/ Changes(p, y) # {}
  PROVE  Overlay([data EXCEPT ![x] = v], p)[y] = Overlay(data, p)[y]
  BY DEF Overlay

(* An action that is done already changes nothing.                         *)
LEMMA DoneIsDone ==
  ASSUME NEW data \in [Target -> 0..MaxContent], NEW p \in Seq(Action), p # <<>>,
         data[Head(p).x] = Head(p).v, NEW y \in Target
  PROVE  Overlay(data, Tail(p))[y] = Overlay(data, p)[y]
  <1> DEFINE q == Tail(p)
             k == Len(p)
             A == Changes(p, y)
             B == Changes(q, y)
  <1>1. /\ k \in Nat \ {0} /\ DOMAIN p = 1..k /\ q \in Seq(Action) /\ DOMAIN q = 1..(k - 1)
        /\ \A n \in 1..(k - 1) : q[n] = p[n + 1]
        /\ Head(p) = p[1]
    OBVIOUS
  <1>2. A = {n \in 1..k : p[n].x = y} /\ B = {n \in 1..(k - 1) : q[n].x = y}
    BY <1>1 DEF Changes
  <1>3. A \in SUBSET (0..k) /\ B \in SUBSET (0..k)
    BY <1>1, <1>2
  <1>4. Overlay(data, p)[y] = (IF A = {} THEN data[y] ELSE p[Max(A)].v)
    BY DEF Overlay
  <1>5. Overlay(data, q)[y] = (IF B = {} THEN data[y] ELSE q[Max(B)].v)
    BY DEF Overlay
  <1> HIDE DEF q, k, A, B
  <1>6. CASE B # {}
    <2> DEFINE m == Max(B)
    <2>1. m \in B /\ \A n \in B : m >= n
      BY <1>1, <1>3, <1>6, MaxIsLargest
    <2> HIDE DEF m
    <2>2. m + 1 \in A
      BY <1>1, <1>2, <2>1
    <2>3. ASSUME NEW n \in A PROVE m + 1 >= n
      <3>1. CASE n = 1
        BY <1>1, <1>2, <2>1, <3>1
      <3>2. CASE n # 1
        <4>1. n - 1 \in 1..(k - 1) /\ q[n - 1] = p[n - 1 + 1] /\ n - 1 + 1 = n
          BY <1>1, <1>2, <3>2
        <4>2. n - 1 \in B
          BY <1>2, <4>1
        <4>3. m >= n - 1 /\ m \in Int /\ n \in Int
          BY <1>2, <2>1, <4>1, <4>2
        <4> QED BY <4>3
      <3> QED BY <3>1, <3>2
    <2>4. Max(A) = m + 1
      BY <1>1, <1>3, <2>2, <2>3, MaxIsOne
    <2>5. q[m] = p[m + 1]
      BY <1>1, <1>2, <2>1
    <2> QED BY <1>4, <1>5, <1>6, <2>2, <2>4, <2>5 DEF q, m
  <1>7. CASE B = {}
    <2>1. ASSUME NEW n \in A, n # 1 PROVE FALSE
      <3>1. n - 1 \in 1..(k - 1) /\ q[n - 1] = p[n - 1 + 1] /\ n - 1 + 1 = n
        BY <1>1, <1>2, <2>1
      <3> QED BY <1>2, <1>7, <2>1, <3>1
    <2>2. CASE A = {}
      BY <1>4, <1>5, <1>7, <2>2 DEF q
    <2>3. CASE A # {}
      <3>1. 1 \in A /\ \A n \in A : 1 >= n
        BY <2>1, <2>3
      <3>2. Max(A) = 1
        BY <1>1, <1>3, <3>1, MaxIsOne
      <3>3. p[1].x = y
        BY <1>2, <3>1
      <3> QED BY <1>1, <1>4, <1>5, <1>7, <2>3, <3>2, <3>3 DEF q
    <2> QED BY <2>2, <2>3
  <1> QED BY <1>6, <1>7

-----------------------------------------------------------------------------
(* The steps of a change.                                                  *)

(* The job goes on: it is the same change, at another step.                *)
LEMMA JobGoesOn ==
  ASSUME JobTyped, job # Free, NEW go \in Steps, job' = [job EXCEPT !.at = go]
  PROVE  /\ job' # Free /\ job'.at = go /\ job'.by = job.by /\ job'.x = job.x /\ job'.v = job.v
         /\ job' \in [at : Steps, by : {"plan", "ui"}, x : Target, v : 0..MaxContent]
  <1>1. job \in [at : Steps, by : {"plan", "ui"}, x : Target, v : 0..MaxContent]
    BY DEF JobTyped
  <1>2. job'.at = go /\ job'.by = job.by /\ job'.x = job.x /\ job'.v = job.v
        /\ job' \in [at : Steps, by : {"plan", "ui"}, x : Target, v : 0..MaxContent]
    BY <1>1
  <1>3. job'.at # Free.at
    BY <1>2 DEF Steps, Free
  <1> QED BY <1>2, <1>3

(* A change begins with its first step.                                    *)
LEMMA JobBegins ==
  ASSUME NEW by \in {"plan", "ui"}, NEW a \in Action, BeginChange(by, a)
  PROVE  /\ job' # Free /\ job'.by = by /\ job'.x = a.x /\ job'.v = a.v
         /\ job' \in [at : Steps, by : {"plan", "ui"}, x : Target, v : 0..MaxContent]
         /\ job'.at \in {"open", "remove"}
         /\ job'.at = "remove" => a.x \in CustomFile /\ a.v = None
  <1>1. /\ job'.by = by /\ job'.x = a.x /\ job'.v = a.v
        /\ job'.at = IF a.v = None /\ a.x \in CustomFile THEN "remove" ELSE "open"
        /\ job' \in [at : Steps, by : {"plan", "ui"}, x : Target, v : 0..MaxContent]
    BY DEF BeginChange, Action, Steps
  <1>2. job'.at # Free.at
    BY <1>1 DEF Free
  <1> QED BY <1>1, <1>2

(* What a directory with one more change holds.                            *)
LEMMA OnceChanged ==
  ASSUME NEW d, d \in [made : BOOLEAN, data : [Target -> 0..MaxContent], temps : 0..1],
         NEW x \in Target, NEW v \in 0..MaxContent
  PROVE  LET f == [d.data EXCEPT ![x] = v]
         IN  f \in [Target -> 0..MaxContent] /\ f[x] = v /\ \A y \in Target \ {x} : f[y] = d.data[y]
  OBVIOUS

(* A change that ends keeps everything, when it leaves what is stored and  *)
(* what was shown agrees with it.                                          *)
LEMMA EndKeeps ==
  ASSUME StoreInv, job' = Free, disk' \in dur', dur' \subseteq dur \cup {disk'},
         disk'.made = disk.made, DirKept(disk'),
         (unflushed' <=> unflushed \/ (job # Free /\ job.at = "root")),
         scripts' \subseteq 1..MaxId, plan' # <<>> => 1 \in scripts',
         may' \in [Target -> SUBSET (0..MaxContent)], \A x \in Target : may'[x] # {},
         plan' \in Seq(Action), ShownStays', OldOrNew', NothingIsInherited'
  PROVE  StoreInv'
  <1>1. DirsKept'
    BY DEF StoreInv, DirsKept, DirKept
  <1>2. RestTyped'
    BY DEF RestTyped, JobTyped
  <1>3. Flushes'
    BY DEF StoreInv, Flushes
  <1>4. StepsDone' /\ MayHold' /\ Owners'
    BY DEF StepsDone, MayHold, Owners
  <1> QED BY <1>1, <1>2, <1>3, <1>4 DEF StoreInv

(* A change that goes on keeps everything, when it makes the change or     *)
(* leaves what is stored.                                                  *)
LEMMA MoveKeeps ==
  ASSUME StoreInv, job # Free, NEW go \in Steps, go \notin {"open", "remove"}, GoTo(go),
         UNCHANGED <<edited, scripts, foreign, unflushed>>,
         disk' \in dur', dur' \subseteq dur \cup {disk'}, DirKept(disk'), disk'.made,
         disk'.data \in {disk.data, After},
         (\E d \in dur' : ~d.made) => unflushed \/ go = "root",
         StepsDone'
  PROVE  StoreInv'
  <1>1. DirsKept'
    BY DEF StoreInv, DirsKept, DirKept
  <1>2. /\ job' # Free /\ job'.at = go /\ job'.by = job.by /\ job'.x = job.x /\ job'.v = job.v
        /\ job' \in [at : Steps, by : {"plan", "ui"}, x : Target, v : 0..MaxContent]
        /\ UNCHANGED <<plan, promised, may>>
    BY JobGoesOn DEF StoreInv, RestTyped, GoTo
  <1>3. RestTyped'
    BY <1>2 DEF StoreInv, RestTyped, JobTyped
  <1>4. Flushes'
    BY <1>2 DEF StoreInv, Flushes
  <1>5. job.x \in Target /\ job.v \in 0..MaxContent /\ disk \in dur /\ DirKept(disk)
        /\ disk.data \in [Target -> 0..MaxContent]
    BY DEF StoreInv, RestTyped, JobTyped, DirsKept, DirKept
  <1>6. After \in [Target -> 0..MaxContent] /\ After[job.x] = job.v
        /\ \A y \in Target \ {job.x} : After[y] = disk.data[y]
    BY <1>5 DEF After
  <1>7. MayHold'
    <2>1. \A x \in Target : disk.data[x] \in may[x]
      BY <1>5 DEF StoreInv, Flushes, MayHold, OldOrNew
    <2>2. job.v \in may[job.x]
      BY DEF StoreInv, MayHold
    <2>3. \A x \in Target : disk'.data[x] \in may[x]
      BY <1>6, <2>1, <2>2
    <2>4. OldOrNew'
      <3>1. ASSUME NEW d \in dur' PROVE (unflushed /\ ~d.made) \/ \A x \in Target : d.data[x] \in may[x]
        BY <2>3 DEF StoreInv, MayHold, OldOrNew
      <3> QED BY <1>2, <3>1 DEF OldOrNew
    <2> QED BY <1>2, <2>2, <2>4 DEF StoreInv, MayHold
  <1>8. Owners'
    BY <1>2 DEF StoreInv, Owners
  <1>9. ShownStays'
    <2>1. ASSUME NEW w \in promised, NEW x \in Target \ edited
          PROVE  Overlay(disk'.data, plan)[x] = Overlay(disk.data, plan)[x]
      <3>1. CASE disk'.data = disk.data
        BY <3>1
      <3>2. CASE disk'.data = After
        <4>1. x # job.x \/ Changes(plan, x) # {}
          <5>1. CASE job.by = "ui"
            BY <5>1 DEF StoreInv, Owners
          <5>2. CASE job.by = "plan"
            <6>1. plan \in Seq(Action) /\ plan # <<>> /\ Head(plan).x = job.x
              BY <5>2 DEF StoreInv, Owners, RestTyped
            <6>2. 1 \in DOMAIN plan /\ plan[1].x = job.x
              BY <6>1
            <6> QED BY <6>2 DEF Changes
          <5> QED BY <5>1, <5>2 DEF StoreInv, RestTyped, JobTyped
        <4>2. Overlay([disk.data EXCEPT ![job.x] = job.v], plan)[x] = Overlay(disk.data, plan)[x]
          BY <1>5, <4>1, ActionsHide
        <4> QED BY <3>2, <4>2 DEF After
      <3> QED BY <3>1, <3>2
    <2> QED BY <1>2, <2>1 DEF StoreInv, ShownStays
  <1> QED BY <1>1, <1>3, <1>4, <1>7, <1>8, <1>9 DEF StoreInv, NothingIsInherited

(* When nothing that is stored changes, each file and option is still what *)
(* it may be.                                                              *)
LEMMA StillOldOrNew ==
  ASSUME StoreInv, may' = may, disk'.made = disk.made, disk'.data = disk.data,
         dur' \subseteq dur \cup {disk'}, unflushed => unflushed'
  PROVE  OldOrNew'
  <1>1. disk \in dur
    BY DEF StoreInv, DirsKept
  <1>2. ASSUME NEW d \in dur' PROVE (unflushed' /\ ~d.made) \/ \A x \in Target : d.data[x] \in may[x]
    BY <1>1 DEF StoreInv, MayHold, OldOrNew
  <1> QED BY <1>2 DEF OldOrNew

(* The plan goes on to its next action when the one that ended is done, or *)
(* it ends.                                                                *)
LEMMA PlanMoves ==
  ASSUME StoreInv, job # Free, NEW ok \in BOOLEAN, PlanGoesOn(ok), ok => disk.data[job.x] = job.v,
         disk'.data = disk.data, edited' = edited
  PROVE  plan' \in Seq(Action) /\ (plan' # <<>> => plan # <<>>) /\ ShownStays'
  <1>1. plan \in Seq(Action) /\ disk.data \in [Target -> 0..MaxContent]
    BY DEF StoreInv, RestTyped, DirsKept, DirKept
  <1>2. CASE job.by # "plan"
    BY <1>1, <1>2 DEF PlanGoesOn, StoreInv, ShownStays
  <1>3. CASE job.by = "plan" /\ ~ok
    <2>1. plan' = <<>> /\ promised' = {}
      BY <1>3 DEF PlanGoesOn
    <2>2. <<>> \in Seq(Action)
      OBVIOUS
    <2> QED BY <2>1, <2>2 DEF ShownStays
  <1>4. CASE job.by = "plan" /\ ok
    <2>1. plan' = Tail(plan) /\ promised' = promised
      BY <1>4 DEF PlanGoesOn
    <2>2. plan # <<>> /\ Head(plan).x = job.x /\ Head(plan).v = job.v
      BY <1>4 DEF StoreInv, Owners
    <2>3. Tail(plan) \in Seq(Action)
      BY <1>1, <2>2
    <2>4. \A x \in Target : Overlay(disk.data, Tail(plan))[x] = Overlay(disk.data, plan)[x]
      BY <1>1, <1>4, <2>2, DoneIsDone
    <2> QED BY <2>1, <2>2, <2>3, <2>4 DEF StoreInv, ShownStays
  <1> QED BY <1>2, <1>3, <1>4

(* A change that fails keeps everything, whatever became of its temporary  *)
(* file.                                                                   *)
LEMMA FailKeeps ==
  ASSUME StoreInv, job # Free, Fail, UNCHANGED <<edited, scripts, foreign>>,
         disk' \in dur', dur' \subseteq dur \cup {disk'}, disk'.made = disk.made, disk'.data = disk.data,
         DirKept(disk'), (unflushed' <=> unflushed \/ job.at = "root")
  PROVE  StoreInv'
  <1>1. plan' \in Seq(Action) /\ (plan' # <<>> => plan # <<>>) /\ ShownStays'
    BY PlanMoves DEF Fail
  <1>2. may' = may /\ job' = Free
    BY DEF Fail
  <1>3. OldOrNew'
    BY <1>2, StillOldOrNew
  <1>4. scripts' \subseteq 1..MaxId /\ (plan' # <<>> => 1 \in scripts') /\ NothingIsInherited'
        /\ may' \in [Target -> SUBSET (0..MaxContent)] /\ \A x \in Target : may'[x] # {}
    BY <1>1, <1>2 DEF StoreInv, RestTyped, NothingIsInherited, MayHold
  <1> QED BY <1>1, <1>2, <1>3, <1>4, EndKeeps

(* What is known while a change is under way.                              *)
LEMMA UnderWay ==
  ASSUME StoreInv, job # Free
  PROVE  /\ job.at \in Steps /\ job.x \in Target /\ job.v \in 0..MaxContent
         /\ job \in [at : Steps, by : {"plan", "ui"}, x : Target, v : 0..MaxContent]
         /\ disk \in dur /\ DirKept(disk) /\ disk.temps \in 0..1
         /\ disk \in [made : BOOLEAN, data : [Target -> 0..MaxContent], temps : 0..1]
         /\ disk.data \in [Target -> 0..MaxContent]
  BY DEF StoreInv, RestTyped, JobTyped, DirsKept, DirKept

(* A step that leaves what is stored leaves what the change would make of  *)
(* it, and whether that fits.                                              *)
LEMMA StillAfter ==
  ASSUME StoreInv, job # Free, NEW go \in Steps, GoTo(go), disk'.data = disk.data
  PROVE  /\ job' # Free /\ job'.at = go /\ job'.by = job.by /\ job'.x = job.x /\ job'.v = job.v
         /\ After' = After /\ FitsQuota(After)' = FitsQuota(After)
  <1>1. job' # Free /\ job'.at = go /\ job'.by = job.by /\ job'.x = job.x /\ job'.v = job.v
    BY JobGoesOn DEF StoreInv, RestTyped, GoTo
  <1>2. After' = After
    BY <1>1 DEF After
  <1>3. FitsQuota(After)' = FitsQuota(After)
    BY <1>1, <1>2 DEF FitsQuota
  <1> QED BY <1>1, <1>2, <1>3

(* The directory is opened, and made when it is not there.                 *)
LEMMA OpenStoreKeeps ==
  ASSUME StoreInv, Open
  PROVE  StoreInv'
  <1>1. job # Free /\ job.at = "open" /\ UNCHANGED <<scripts, foreign, edited, unflushed>>
    BY DEF Open, StepIs, Script
  <1> USE UnderWay, <1>1
  <1>2. CASE disk.made /\ GoTo("scan") /\ UNCHANGED <<disk, dur>>
    <2>1. StepsDone'
      <3>1. job'.at = "scan"
        BY <1>2, StillAfter DEF Steps
      <3> QED BY <3>1 DEF StepsDone
    <2>2. (\E d \in dur : ~d.made) => unflushed
      BY <1>2 DEF StoreInv, Flushes
    <2> QED BY <1>2, <2>1, <2>2, MoveKeeps DEF Steps
  <1>3. CASE ~disk.made /\ GoTo("root") /\ Change([disk EXCEPT !.made = TRUE])
    <2>1. disk'.made /\ disk'.data = disk.data /\ disk'.temps = disk.temps
          /\ disk' \in [made : BOOLEAN, data : [Target -> 0..MaxContent], temps : 0..1]
          /\ disk' \in dur' /\ dur' \subseteq dur \cup {disk'}
      BY <1>3 DEF Change
    <2>2. DirKept(disk')
      BY <2>1 DEF DirKept
    <2>3. StepsDone'
      <3>1. job'.at = "root"
        BY <1>3, <2>1, StillAfter DEF Steps
      <3> QED BY <3>1 DEF StepsDone
    <2> QED BY <1>3, <2>1, <2>2, <2>3, MoveKeeps DEF Steps
  <1>4. CASE Fail /\ UNCHANGED <<disk, dur>>
    BY <1>4, FailKeeps
  <1> QED BY <1>2, <1>3, <1>4 DEF Open

(* The entry of a directory that was made is flushed.                      *)
LEMMA FlushRootKeeps ==
  ASSUME StoreInv, FlushRoot
  PROVE  StoreInv'
  <1>1. job # Free /\ job.at = "root" /\ UNCHANGED <<scripts, foreign, edited, disk>>
    BY DEF FlushRoot, StepIs, Script
  <1> USE UnderWay, <1>1
  <1>2. disk.made
    BY DEF StoreInv, Flushes
  <1>3. CASE GoTo("scan") /\ dur' = {d \in dur : d.made} /\ UNCHANGED unflushed
    <2>1. StepsDone'
      <3>1. job'.at = "scan"
        BY <1>3, StillAfter DEF Steps
      <3> QED BY <3>1 DEF StepsDone
    <2> QED BY <1>2, <1>3, <2>1, MoveKeeps DEF Steps
  <1>4. CASE Fail /\ unflushed' = TRUE /\ UNCHANGED dur
    BY <1>4, FailKeeps
  <1> QED BY <1>3, <1>4 DEF FlushRoot

(* What earlier writes left is swept.                                      *)
LEMMA ScanKeeps ==
  ASSUME StoreInv, Scan
  PROVE  StoreInv'
  <1>1. job # Free /\ job.at = "scan" /\ UNCHANGED <<scripts, foreign, edited, unflushed>>
    BY DEF Scan, StepIs, Script
  <1> USE UnderWay, <1>1
  <1>2. disk.made /\ ((\E d \in dur : ~d.made) => unflushed)
    BY DEF StoreInv, Flushes
  <1>3. CASE OptionFits /\ disk.temps = 0 /\ GoTo("create") /\ UNCHANGED <<disk, dur>>
    <2>1. StepsDone'
      BY <1>3, StillAfter DEF Steps, StepsDone, OptionFits
    <2> QED BY <1>2, <1>3, <2>1, MoveKeeps DEF Steps
  <1>4. CASE OptionFits /\ GoTo("swept") /\ Change([disk EXCEPT !.temps = 0])
    <2>1. disk'.made = disk.made /\ disk'.data = disk.data /\ disk'.temps = 0
          /\ disk' \in [made : BOOLEAN, data : [Target -> 0..MaxContent], temps : 0..1]
          /\ disk' \in dur' /\ dur' \subseteq dur \cup {disk'}
      BY <1>4 DEF Change
    <2>2. DirKept(disk')
      BY <2>1 DEF DirKept
    <2>3. StepsDone'
      BY <1>4, <2>1, StillAfter DEF Steps, StepsDone, OptionFits
    <2>4. (\E d \in dur' : ~d.made) => unflushed
      BY <1>2, <2>1
    <2> QED BY <1>2, <1>4, <2>1, <2>2, <2>3, <2>4, MoveKeeps DEF Steps
  <1>5. CASE Fail /\ UNCHANGED <<disk, dur>>
    BY <1>5, FailKeeps
  <1> QED BY <1>3, <1>4, <1>5 DEF Scan

(* What was swept is flushed.                                              *)
LEMMA FlushSweptKeeps ==
  ASSUME StoreInv, FlushSwept
  PROVE  StoreInv'
  <1>1. job # Free /\ job.at = "swept" /\ UNCHANGED <<scripts, foreign, edited, disk, unflushed>>
    BY DEF FlushSwept, StepIs, Script
  <1> USE UnderWay, <1>1
  <1>2. disk.made /\ ((\E d \in dur : ~d.made) => unflushed)
    BY DEF StoreInv, Flushes
  <1>3. CASE GoTo("create") /\ dur' = Flushed
    <2>1. disk \in dur' /\ dur' \subseteq dur
      BY <1>3 DEF Flushed
    <2>2. StepsDone'
      BY <1>3, StillAfter DEF Steps, StepsDone, StoreInv
    <2> QED BY <1>2, <1>3, <2>1, <2>2, MoveKeeps DEF Steps
  <1>4. CASE Fail /\ UNCHANGED dur
    BY <1>4, FailKeeps
  <1> QED BY <1>3, <1>4 DEF FlushSwept

(* A temporary file is made, when the limits allow it.                     *)
LEMMA CreateKeeps ==
  ASSUME StoreInv, Create
  PROVE  StoreInv'
  <1>1. job # Free /\ job.at = "create" /\ UNCHANGED <<scripts, foreign, edited, unflushed>>
    BY DEF Create, StepIs, Script
  <1> USE UnderWay, <1>1
  <1>2. disk.made /\ ((\E d \in dur : ~d.made) => unflushed) /\ disk.temps = 0
    BY DEF StoreInv, Flushes, StepsDone
  <1>3. CASE FitsQuota(After) /\ GoTo("sync") /\ Change([disk EXCEPT !.temps = @ + 1])
    <2>1. disk'.made = disk.made /\ disk'.data = disk.data /\ disk'.temps = 1
          /\ disk' \in [made : BOOLEAN, data : [Target -> 0..MaxContent], temps : 0..1]
          /\ disk' \in dur' /\ dur' \subseteq dur \cup {disk'}
      <3>1. disk' = [disk EXCEPT !.temps = 1] /\ dur' = dur \cup {disk'}
        BY <1>2, <1>3 DEF Change
      <3> QED BY <3>1
    <2>2. DirKept(disk')
      BY <1>2, <2>1 DEF DirKept
    <2>3. StepsDone'
      BY <1>3, <2>1, StillAfter DEF Steps, StepsDone, StoreInv
    <2>4. (\E d \in dur' : ~d.made) => unflushed
      BY <1>2, <2>1
    <2> QED BY <1>2, <1>3, <2>1, <2>2, <2>3, <2>4, MoveKeeps DEF Steps
  <1>4. CASE Fail /\ UNCHANGED <<disk, dur>>
    BY <1>4, FailKeeps
  <1> QED BY <1>3, <1>4 DEF Create

(* The file is written and flushed, or it is to be removed.                *)
LEMMA SyncKeeps ==
  ASSUME StoreInv, Sync
  PROVE  StoreInv'
  <1>1. job # Free /\ job.at = "sync" /\ UNCHANGED <<scripts, foreign, edited, disk, dur, unflushed>>
    BY DEF Sync, StepIs, Script
  <1> USE UnderWay, <1>1
  <1>2. disk.made /\ ((\E d \in dur : ~d.made) => unflushed)
    BY DEF StoreInv, Flushes
  <1>3. ASSUME NEW go \in {"rename", "unlink"}, GoTo(go) PROVE StoreInv'
    <2>1. StepsDone'
      BY <1>3, StillAfter DEF Steps, StepsDone, StoreInv
    <2> QED BY <1>2, <1>3, <2>1, MoveKeeps DEF Steps
  <1> QED BY <1>3 DEF Sync

(* The file takes its name.                                                *)
LEMMA RenameFileKeeps ==
  ASSUME StoreInv, RenameFile
  PROVE  StoreInv'
  <1>1. job # Free /\ job.at = "rename" /\ UNCHANGED <<scripts, foreign, edited, unflushed>>
    BY DEF RenameFile, StepIs, Script
  <1> USE UnderWay, <1>1
  <1>2. disk.made /\ ((\E d \in dur : ~d.made) => unflushed) /\ disk.temps = 1
    BY DEF StoreInv, Flushes, StepsDone
  <1>3. CASE GoTo("flush") /\ Change([disk EXCEPT !.data = After, !.temps = @ - 1])
    <2>1. After \in [Target -> 0..MaxContent] /\ After[job.x] = job.v
      BY DEF After
    <2>2. disk'.made = disk.made /\ disk'.data = After /\ disk'.temps = 0
          /\ disk' \in [made : BOOLEAN, data : [Target -> 0..MaxContent], temps : 0..1]
          /\ disk' \in dur' /\ dur' \subseteq dur \cup {disk'}
      <3> DEFINE e == [disk EXCEPT !.data = After]
      <3>1. disk' = [disk EXCEPT !.data = After, !.temps = 0] /\ dur' = dur \cup {disk'}
        BY <1>2, <1>3 DEF Change
      <3>2. e.made = disk.made /\ e.data = After
            /\ e \in [made : BOOLEAN, data : [Target -> 0..MaxContent], temps : 0..1]
        BY <2>1
      <3>3. disk' = [e EXCEPT !.temps = 0]
        BY <3>1
      <3> HIDE DEF e
      <3> QED BY <3>1, <3>2, <3>3
    <2>3. DirKept(disk')
      <3>1. FitsQuota(After) /\ (job.x \in Key => Cardinality(Stored(After, Key)) <= EntriesMax)
        BY DEF StoreInv, StepsDone
      <3>2. Total(After) <= TotalMax
        BY <3>1 DEF FitsQuota
      <3>3. CustomFile \in SUBSET Target /\ Key \in SUBSET Target
        BY DEF Target
      <3>4. /\ Cardinality(Stored(disk.data, CustomFile)) <= FilesMax
            /\ Cardinality(Stored(disk.data, Key)) <= EntriesMax
            /\ \A S \in SUBSET Target : /\ Cardinality(Stored(disk.data, S)) \in Nat
                                       /\ Cardinality(Stored(After, S)) \in Nat
            /\ FilesMax \in Nat /\ EntriesMax \in Nat
        BY StoredIsFinite, StoreAssumption DEF DirKept
      <3>5. Cardinality(Stored(After, Key)) <= EntriesMax
        <4>1. CASE job.x \in Key
          BY <3>1, <4>1
        <4>2. CASE job.x \notin Key
          <5>1. Cardinality(Stored(After, Key)) <= Cardinality(Stored(disk.data, Key))
            BY <3>3, <4>2, StoredGrows DEF After
          <5> QED BY <3>3, <3>4, <5>1
        <4> QED BY <4>1, <4>2
      <3>6. Cardinality(Stored(After, CustomFile)) <= FilesMax
        <4>1. CASE job.x \in CustomFile /\ disk.data[job.x] = None
          <5>1. Cardinality(Stored(disk.data, CustomFile)) < FilesMax
            BY <3>1, <4>1 DEF FitsQuota
          <5>2. Cardinality(Stored(After, CustomFile)) <= Cardinality(Stored(disk.data, CustomFile)) + 1
            BY <3>3, StoredGrows DEF After
          <5> QED BY <3>3, <3>4, <5>1, <5>2
        <4>2. CASE ~(job.x \in CustomFile /\ disk.data[job.x] = None)
          <5>1. Cardinality(Stored(After, CustomFile)) <= Cardinality(Stored(disk.data, CustomFile))
            BY <3>3, <4>2, StoredGrows DEF After
          <5> QED BY <3>3, <3>4, <5>1
        <4> QED BY <4>1, <4>2
      <3> QED BY <1>2, <2>2, <3>2, <3>5, <3>6 DEF DirKept
    <2>4. StepsDone'
      <3>1. job'.at = "flush" /\ job'.x = job.x /\ job'.v = job.v
        BY <1>3, JobGoesOn DEF StoreInv, RestTyped, GoTo, Steps
      <3> QED BY <2>1, <2>2, <3>1 DEF StepsDone
    <2>5. (\E d \in dur' : ~d.made) => unflushed
      BY <1>2, <2>2
    <2> QED BY <1>2, <1>3, <2>2, <2>3, <2>4, <2>5, MoveKeeps DEF Steps
  <1>4. CASE GoTo("unlink") /\ UNCHANGED <<disk, dur>>
    <2>1. StepsDone'
      BY <1>4, StillAfter DEF Steps, StepsDone, StoreInv
    <2> QED BY <1>2, <1>4, <2>1, MoveKeeps DEF Steps
  <1> QED BY <1>3, <1>4 DEF RenameFile

(* A file that could not be written is removed, if that can be done.       *)
LEMMA UnlinkKeeps ==
  ASSUME StoreInv, Unlink
  PROVE  StoreInv'
  <1>1. job # Free /\ job.at = "unlink" /\ Fail /\ UNCHANGED <<scripts, foreign, edited, unflushed>>
    BY DEF Unlink, StepIs, Script
  <1> USE UnderWay, <1>1
  <1>2. disk.made /\ disk.temps = 1
    BY DEF StoreInv, Flushes, StepsDone
  <1>3. CASE Change([disk EXCEPT !.temps = @ - 1])
    <2>1. disk'.made = disk.made /\ disk'.data = disk.data /\ disk'.temps = 0
          /\ disk' \in [made : BOOLEAN, data : [Target -> 0..MaxContent], temps : 0..1]
          /\ disk' \in dur' /\ dur' \subseteq dur \cup {disk'}
      <3>1. disk' = [disk EXCEPT !.temps = 0] /\ dur' = dur \cup {disk'}
        BY <1>2, <1>3 DEF Change
      <3> QED BY <3>1
    <2>2. DirKept(disk')
      BY <1>2, <2>1 DEF DirKept
    <2> QED BY <2>1, <2>2, FailKeeps
  <1>4. CASE UNCHANGED <<disk, dur>>
    BY <1>4, FailKeeps
  <1> QED BY <1>3, <1>4 DEF Unlink

(* A change that ended leaves one content of what it changed, and the      *)
(* others as they may be.                                                  *)
LEMMA DoneKeeps ==
  ASSUME StoreInv, job # Free, job.at # "root", job' = Free, PlanGoesOn(TRUE),
         UNCHANGED <<edited, scripts, foreign, unflushed, disk>>,
         disk.data[job.x] = job.v, disk \in dur', dur' \subseteq dur,
         \/ may' = may
         \/ may' = [may EXCEPT ![job.x] = {job.v}] /\ dur' = Flushed /\ disk.made
  PROVE  StoreInv'
  <1> USE UnderWay
  <1>1. plan' \in Seq(Action) /\ (plan' # <<>> => plan # <<>>) /\ ShownStays'
    BY PlanMoves
  <1>2. may \in [Target -> SUBSET (0..MaxContent)] /\ (\A x \in Target : may[x] # {})
    BY DEF StoreInv, RestTyped, MayHold
  <1>3. may' \in [Target -> SUBSET (0..MaxContent)] /\ (\A x \in Target : may'[x] # {}) /\ OldOrNew'
    <2>1. CASE may' = may
      BY <1>2, <2>1, StillOldOrNew
    <2>2. CASE may' = [may EXCEPT ![job.x] = {job.v}] /\ dur' = Flushed /\ disk.made
      <3>1. may' \in [Target -> SUBSET (0..MaxContent)] /\ (\A x \in Target : may'[x] # {})
            /\ may'[job.x] = {job.v} /\ \A x \in Target \ {job.x} : may'[x] = may[x]
        BY <1>2, <2>2
      <3>2. \A x \in Target : disk.data[x] \in may[x]
        BY <2>2 DEF StoreInv, Flushes, MayHold, OldOrNew
      <3>3. \A x \in Target : disk.data[x] \in may'[x]
        BY <3>1, <3>2
      <3>4. ASSUME NEW d \in dur, ~d.made PROVE unflushed
        BY <2>2, <3>4 DEF StoreInv, Flushes
      <3>5. ASSUME NEW d \in dur'
            PROVE  (unflushed' /\ ~d.made) \/ \A x \in Target : d.data[x] \in may'[x]
        BY <2>2, <3>3, <3>4 DEF Flushed
      <3> QED BY <3>1, <3>5 DEF OldOrNew
    <2> QED BY <2>1, <2>2
  <1>4. scripts' \subseteq 1..MaxId /\ (plan' # <<>> => 1 \in scripts') /\ NothingIsInherited'
    BY <1>1 DEF StoreInv, RestTyped, NothingIsInherited
  <1> QED BY <1>1, <1>3, <1>4, EndKeeps

(* The change is flushed: it is what there is.                             *)
LEMMA FlushKeeps ==
  ASSUME StoreInv, Flush
  PROVE  StoreInv'
  <1>1. job # Free /\ job.at = "flush" /\ UNCHANGED <<scripts, foreign, edited, disk, unflushed>>
    BY DEF Flush, StepIs, Script
  <1> USE UnderWay, <1>1
  <1>2. disk.made /\ disk.data[job.x] = job.v
    BY DEF StoreInv, Flushes, StepsDone
  <1>3. CASE Succeed /\ dur' = Flushed
    <2>1. disk \in dur' /\ dur' \subseteq dur
      BY <1>3 DEF Flushed
    <2> QED BY <1>2, <1>3, <2>1, DoneKeeps DEF Succeed
  <1>4. CASE Fail /\ UNCHANGED dur
    BY <1>4, FailKeeps
  <1> QED BY <1>3, <1>4 DEF Flush

(* A file is removed, or there was none.                                   *)
LEMMA RemoveFileKeeps ==
  ASSUME StoreInv, RemoveFile
  PROVE  StoreInv'
  <1>1. job # Free /\ job.at = "remove" /\ UNCHANGED <<scripts, foreign, edited, unflushed>>
    BY DEF RemoveFile, StepIs, Script
  <1> USE UnderWay, <1>1
  <1>2. job.v = None /\ job.x \in CustomFile
    BY DEF StoreInv, RestTyped, JobTyped
  <1>3. CASE (~disk.made \/ disk.data[job.x] = None) /\ FoundAbsent /\ UNCHANGED <<disk, dur>>
    <2>1. disk.data[job.x] = None
      BY <1>3 DEF DirKept, Nothing
    <2> QED BY <1>2, <1>3, <2>1, DoneKeeps DEF FoundAbsent
  <1>4. CASE disk.made /\ GoTo("flush") /\ Change([disk EXCEPT !.data[job.x] = None])
    <2> DEFINE f == [disk.data EXCEPT ![job.x] = None]
    <2>1. f \in [Target -> 0..MaxContent] /\ f[job.x] = None /\ f = After
      BY <1>2, StoreAssumption DEF After, None
    <2>2. disk' = [disk EXCEPT !.data = f] /\ dur' = dur \cup {disk'}
      BY <1>4 DEF Change
    <2>3. Cardinality(Stored(f, CustomFile)) <= FilesMax
          /\ Cardinality(Stored(f, Key)) <= EntriesMax /\ Total(f) <= TotalMax
      <3>1. CustomFile \in SUBSET Target /\ Key \in SUBSET Target
        BY DEF Target
      <3>2. None \in 0..MaxContent
        BY <1>2
      <3>3. \A S \in SUBSET Target : /\ Cardinality(Stored(f, S)) <= Cardinality(Stored(disk.data, S))
                                   /\ Cardinality(Stored(f, S)) \in Nat
                                   /\ Cardinality(Stored(disk.data, S)) \in Nat
        BY <3>2, StoredGrows, StoredIsFinite
      <3>4. Total(f) <= Total(disk.data) /\ Total(disk.data) \in Nat
        BY LessTakesLess
      <3>5. Total(f) \in Nat
        BY <2>1, LessTakesLess
      <3> HIDE DEF f
      <3> QED BY <3>1, <3>3, <3>4, <3>5, StoreAssumption DEF DirKept
    <2> HIDE DEF f
    <2>4. disk'.made = disk.made /\ disk'.data = f /\ disk'.temps = disk.temps
          /\ disk' \in [made : BOOLEAN, data : [Target -> 0..MaxContent], temps : 0..1]
          /\ disk' \in dur' /\ dur' \subseteq dur \cup {disk'}
      BY <2>1, <2>2
    <2>5. DirKept(disk')
      BY <1>4, <2>3, <2>4 DEF DirKept
    <2>6. StepsDone'
      <3>1. job'.at = "flush" /\ job'.x = job.x /\ job'.v = job.v
        BY <1>4, JobGoesOn DEF StoreInv, RestTyped, GoTo, Steps
      <3> QED BY <1>2, <2>1, <2>4, <3>1 DEF StepsDone
    <2>7. (\E d \in dur' : ~d.made) => unflushed
      BY <1>4, <2>4 DEF StoreInv, Flushes
    <2> QED BY <1>4, <2>1, <2>4, <2>5, <2>6, <2>7, MoveKeeps DEF Steps
  <1>5. CASE Fail /\ UNCHANGED <<disk, dur>>
    BY <1>5, FailKeeps
  <1> QED BY <1>3, <1>4, <1>5 DEF RemoveFile

-----------------------------------------------------------------------------
(* What begins a change, and what ends everything.                         *)

(* A change that begins is recorded before it does anything.               *)
LEMMA BeginKeeps ==
  ASSUME StoreInv, NoJob, NEW by \in {"plan", "ui"}, NEW a \in Action, BeginChange(by, a),
         UNCHANGED <<disk, dur, plan, promised, unflushed, scripts, foreign>>,
         edited \subseteq edited',
         by = "plan" => plan # <<>> /\ Head(plan) = a,
         by = "ui" => a.x \in edited'
  PROVE  StoreInv'
  <1>1. /\ job' # Free /\ job'.by = by /\ job'.x = a.x /\ job'.v = a.v
        /\ job' \in [at : Steps, by : {"plan", "ui"}, x : Target, v : 0..MaxContent]
        /\ job'.at \in {"open", "remove"}
        /\ job'.at = "remove" => a.x \in CustomFile /\ a.v = None
    BY JobBegins
  <1>2. a.x \in Target /\ a.v \in 0..MaxContent
    BY DEF Action
  <1>3. may \in [Target -> SUBSET (0..MaxContent)]
    BY DEF StoreInv, RestTyped
  <1>4. /\ may' \in [Target -> SUBSET (0..MaxContent)] /\ a.v \in may'[a.x]
        /\ \A x \in Target : may[x] \subseteq may'[x]
    BY <1>2, <1>3 DEF BeginChange
  <1>5. DirsKept'
    BY DEF StoreInv, DirsKept, DirKept
  <1>6. RestTyped'
    BY <1>1, <1>4 DEF StoreInv, RestTyped, JobTyped
  <1>7. Flushes'
    BY <1>1 DEF StoreInv, Flushes, NoJob
  <1>8. StepsDone'
    BY <1>1 DEF StepsDone
  <1>9. MayHold'
    <2>1. \A x \in Target : may[x] # {}
      BY DEF StoreInv, MayHold
    <2>2. \A x \in Target : may'[x] # {}
      BY <1>4, <2>1
    <2>3. OldOrNew'
      <3>1. ASSUME NEW d \in dur'
            PROVE  (unflushed' /\ ~d.made) \/ \A x \in Target : d.data[x] \in may'[x]
        BY <1>4 DEF StoreInv, MayHold, OldOrNew
      <3> QED BY <3>1 DEF OldOrNew
    <2> QED BY <1>1, <1>4, <2>2, <2>3 DEF MayHold
  <1>10. Owners'
    BY <1>1 DEF Owners
  <1>11. ShownStays'
    BY DEF StoreInv, ShownStays
  <1> QED BY <1>5, <1>6, <1>7, <1>8, <1>9, <1>10, <1>11 DEF StoreInv, NothingIsInherited

LEMMA PlayActionKeeps ==
  ASSUME StoreInv, PlayAction
  PROVE  StoreInv'
  <1>1. plan \in Seq(Action) /\ plan # <<>>
    BY DEF StoreInv, RestTyped, PlayAction
  <1>2. Head(plan) \in Action
    BY <1>1
  <1> QED BY <1>1, <1>2, BeginKeeps DEF PlayAction, Script

LEMMA EditOptionKeeps ==
  ASSUME StoreInv, EditOption
  PROVE  StoreInv'
  <1>1. PICK a \in OptionEdit : BeginChange("ui", a) /\ edited' = edited \cup {a.x}
    BY DEF EditOption
  <1>2. a \in Action
    BY StoreAssumption DEF Action, Target
  <1> QED BY <1>1, <1>2, BeginKeeps DEF EditOption, Script

(* While nothing is being changed, what is stored stays.                   *)
LEMMA RestKeeps ==
  ASSUME StoreInv, NoJob, UNCHANGED <<disk, dur, job, may, unflushed>>,
         scripts' \subseteq 1..MaxId, plan' # <<>> => 1 \in scripts', plan' \in Seq(Action),
         ShownStays', ~foreign'
  PROVE  StoreInv'
  <1>1. disk \in dur /\ DirKept(disk)
    BY DEF StoreInv, DirsKept
  <1>2. may \in [Target -> SUBSET (0..MaxContent)] /\ (\A x \in Target : may[x] # {})
    BY DEF StoreInv, RestTyped, MayHold
  <1>3. OldOrNew'
    BY StillOldOrNew
  <1> QED BY <1>1, <1>2, <1>3, EndKeeps DEF NoJob, NothingIsInherited

(* A plan is shown what it will leave.                                     *)
LEMMA EvaluateKeeps ==
  ASSUME StoreInv, Evaluate
  PROVE  StoreInv'
  <1>1. PICK p \in Plan : plan' = p /\ promised' = {Overlay(disk.data, p)} /\ edited' = {}
    BY DEF Evaluate
  <1>2. plan' \in Seq(Action)
    BY <1>1, StoreAssumption DEF Action
  <1>3. ShownStays'
    BY <1>1 DEF Evaluate, ShownStays
  <1> QED BY <1>2, <1>3, RestKeeps DEF Evaluate, Script, StoreInv, RestTyped, NothingIsInherited

LEMMA PlanFailsKeeps ==
  ASSUME StoreInv, PlanFails
  PROVE  StoreInv'
  <1>1. ShownStays' /\ plan' \in Seq(Action)
    <2>1. <<>> \in Seq(Action)
      OBVIOUS
    <2> QED BY <2>1 DEF PlanFails, ShownStays
  <1> QED BY <1>1, RestKeeps DEF PlanFails, Script, StoreInv, RestTyped, NothingIsInherited

(* The id of a new script is one that no directory has.                    *)
LEMMA NewIdIsNew ==
  ASSUME scripts \subseteq 1..MaxId
  PROVE  NextId \in Nat \ {0} /\ (disk.made => NextId # 1)
  <1> DEFINE ids == {1} \cup {i + 1 : i \in scripts} \cup IF disk.made THEN {2} ELSE {}
  <1>1. MaxId + 1 \in Nat /\ MaxId >= 1
    BY StoreAssumption
  <1>2. \A i \in scripts : i + 1 \in 1..(MaxId + 1)
    BY StoreAssumption
  <1>3. ids \in SUBSET (0..(MaxId + 1)) /\ ids \subseteq Nat \ {0} /\ 1 \in ids /\ (disk.made => 2 \in ids)
    <2> DEFINE next == {i + 1 : i \in scripts}
               M == MaxId + 1
               two == IF disk.made THEN {2} ELSE {}
    <2>1. next \subseteq 1..M /\ M \in Nat /\ M >= 2
      <3>1. M \in Nat /\ M >= 2
        BY <1>1, StoreAssumption
      <3>2. next \subseteq 1..M
        BY <1>2, Zenon DEF next, M
      <3> QED BY <3>1, <3>2
    <2>2. two \subseteq {2} /\ (disk.made => 2 \in two) /\ ids = {1} \cup next \cup two
      BY DEF next, two
    <2> HIDE DEF next, M, two, ids
    <2>3. 1 \in 1..M /\ 2 \in 1..M /\ 1..M \subseteq 0..M /\ 1..M \subseteq Nat \ {0}
      BY <2>1
    <2>4. ids \subseteq 1..M /\ 1 \in ids /\ (disk.made => 2 \in ids)
      BY <2>1, <2>2, <2>3
    <2>5. ids \in SUBSET (0..M) /\ ids \subseteq Nat \ {0}
      BY <2>3, <2>4
    <2> QED BY <2>4, <2>5 DEF M
  <1> HIDE DEF ids
  <1>4. Max(ids) \in ids /\ \A y \in ids : Max(ids) >= y
    BY <1>1, <1>3, MaxIsLargest
  <1>5. NextId = Max(ids)
    BY DEF NextId, ids
  <1>6. Max(ids) \in Nat \ {0} /\ (disk.made => Max(ids) >= 2)
    BY <1>3, <1>4
  <1> HIDE DEF Max
  <1>7. disk.made => Max(ids) # 1
    BY <1>6
  <1> QED BY <1>5, <1>6, <1>7

LEMMA NewScriptKeeps ==
  ASSUME StoreInv, NewScript
  PROVE  StoreInv'
  <1>1. NextId \in Nat \ {0} /\ (disk.made => NextId # 1) /\ scripts \subseteq 1..MaxId
    BY NewIdIsNew DEF StoreInv, RestTyped
  <1>2. scripts' \subseteq 1..MaxId
    <2>1. NextId <= MaxId /\ scripts' = scripts \cup {NextId}
      BY DEF NewScript
    <2>2. NextId \in 1..MaxId
      BY <1>1, <2>1, StoreAssumption
    <2> QED BY <1>1, <2>1, <2>2
  <1>3. ~foreign'
    BY <1>1 DEF NewScript, StoreInv, DirsKept, DirKept, NothingIsInherited
  <1>4. ShownStays' /\ plan' \in Seq(Action) /\ plan' = <<>>
    <2>1. <<>> \in Seq(Action)
      OBVIOUS
    <2> QED BY <2>1 DEF NewScript, Stopped, ShownStays
  <1> QED BY <1>2, <1>3, <1>4, RestKeeps DEF NewScript, Stopped

LEMMA RemoveScriptKeeps ==
  ASSUME StoreInv, RemoveScript
  PROVE  StoreInv'
  <1>1. scripts' \subseteq 1..MaxId
    BY DEF RemoveScript, StoreInv, RestTyped
  <1>2. ShownStays' /\ plan' \in Seq(Action) /\ plan' = <<>>
    <2>1. <<>> \in Seq(Action)
      OBVIOUS
    <2> QED BY <2>1 DEF RemoveScript, Stopped, ShownStays
  <1> QED BY <1>1, <1>2, RestKeeps DEF RemoveScript, Stopped, StoreInv, NothingIsInherited

(* A runtime that is killed leaves what its calls did.                     *)
LEMMA KilledKeeps ==
  ASSUME StoreInv, Killed
  PROVE  StoreInv'
  <1>1. disk \in dur /\ DirKept(disk)
    BY DEF StoreInv, DirsKept
  <1>2. may' = may /\ may \in [Target -> SUBSET (0..MaxContent)] /\ (\A x \in Target : may[x] # {})
    BY DEF StoreInv, RestTyped, MayHold, Killed
  <1>3. OldOrNew'
    BY StillOldOrNew DEF Killed
  <1>4. ShownStays' /\ plan' \in Seq(Action) /\ plan' = <<>>
    <2>1. <<>> \in Seq(Action)
      OBVIOUS
    <2> QED BY <2>1 DEF Killed, ShownStays
  <1>5. (unflushed' <=> unflushed \/ (job # Free /\ job.at = "root"))
    BY DEF Killed
  <1>6. job' = Free /\ UNCHANGED <<disk, dur>> /\ scripts' \subseteq 1..MaxId /\ NothingIsInherited'
    BY DEF Killed, Script, StoreInv, RestTyped, NothingIsInherited
  <1> QED BY <1>1, <1>2, <1>3, <1>4, <1>5, <1>6, EndKeeps

(* A power loss leaves one of the directories, and that is what there is.  *)
LEMMA PowerLossKeeps ==
  ASSUME StoreInv, PowerLoss
  PROVE  StoreInv'
  <1>1. PICK d \in dur : /\ disk' = d /\ dur' = {d}
                        /\ may' = [x \in Target |-> {d.data[x]}]
    BY DEF PowerLoss
  <1>2. job' = Free /\ plan' = <<>> /\ promised' = {} /\ unflushed' = FALSE /\ UNCHANGED <<scripts, foreign>>
    BY DEF PowerLoss, Script
  <1>3. DirKept(d) /\ d.data \in [Target -> 0..MaxContent]
    BY DEF StoreInv, DirsKept, DirKept
  <1>4. DirsKept'
    BY <1>1, <1>3 DEF DirsKept, DirKept
  <1>5. RestTyped'
    <2>1. <<>> \in Seq(Action)
      OBVIOUS
    <2>2. may' \in [Target -> SUBSET (0..MaxContent)]
      BY <1>1, <1>3
    <2> QED BY <1>2, <2>1, <2>2 DEF StoreInv, RestTyped, JobTyped
  <1>6. Flushes'
    BY <1>1, <1>2 DEF Flushes
  <1>7. MayHold'
    <2>1. \A x \in Target : may'[x] = {d.data[x]}
      BY <1>1
    <2>2. OldOrNew'
      BY <1>1, <2>1 DEF OldOrNew
    <2> QED BY <1>2, <2>1, <2>2 DEF MayHold
  <1>8. StepsDone' /\ Owners' /\ ShownStays'
    BY <1>2 DEF StepsDone, Owners, ShownStays
  <1> QED BY <1>2, <1>4, <1>5, <1>6, <1>7, <1>8 DEF StoreInv, NothingIsInherited

(* In the beginning there is no directory.                                 *)
LEMMA StoreStarts ==
  ASSUME StoreInit
  PROVE  StoreInv
  <1>1. NoDirectory \in [made : BOOLEAN, data : [Target -> 0..MaxContent], temps : 0..1]
        /\ ~NoDirectory.made /\ NoDirectory.data = Nothing /\ NoDirectory.temps = 0
    BY NothingTakesNothing DEF NoDirectory
  <1>2. DirKept(NoDirectory)
    <2>1. CustomFile \in SUBSET Target /\ Key \in SUBSET Target
      BY DEF Target
    <2> QED BY <1>1, <2>1, NothingTakesNothing, StoreAssumption DEF DirKept
  <1>3. DirsKept
    BY <1>2 DEF StoreInit, DirsKept
  <1>4. RestTyped
    <2>1. <<>> \in Seq(Action)
      OBVIOUS
    <2>2. may \in [Target -> SUBSET (0..MaxContent)]
      BY StoreAssumption DEF StoreInit, None
    <2>3. scripts \subseteq 1..MaxId
      BY StoreAssumption DEF StoreInit
    <2> QED BY <2>1, <2>2, <2>3 DEF StoreInit, RestTyped, JobTyped
  <1>5. Flushes /\ StepsDone /\ Owners /\ ShownStays
    BY <1>1 DEF StoreInit, Flushes, StepsDone, Owners, ShownStays
  <1>6. MayHold
    <2>1. \A x \in Target : may[x] = {None} /\ Nothing[x] = None
      BY DEF StoreInit, Nothing
    <2>2. OldOrNew
      BY <1>1, <2>1 DEF StoreInit, OldOrNew
    <2> QED BY <2>1, <2>2 DEF StoreInit, MayHold
  <1> QED BY <1>3, <1>4, <1>5, <1>6 DEF StoreInit, StoreInv, NothingIsInherited

(* Every step keeps what makes the store sound.                            *)
LEMMA StoreStep ==
  ASSUME StoreInv, [StoreNext]_storeVars
  PROVE  StoreInv'
  <1>1. CASE UNCHANGED storeVars
    BY <1>1, Zenon DEF storeVars, StoreInv, DirsKept, DirKept, RestTyped, JobTyped, Flushes, StepsDone,
       MayHold, Owners, ShownStays, NothingIsInherited, OldOrNew, After, FitsQuota
  <1> QED BY <1>1, OpenStoreKeeps, FlushRootKeeps, ScanKeeps, FlushSweptKeeps, CreateKeeps, SyncKeeps,
       RenameFileKeeps, UnlinkKeeps, FlushKeeps, RemoveFileKeeps, EvaluateKeeps, PlayActionKeeps,
       PlanFailsKeeps, EditOptionKeeps, NewScriptKeeps, RemoveScriptKeeps, KilledKeeps,
       PowerLossKeeps DEF StoreNext

(* What a script stores is sound at any time: the steps of a change, what  *)
(* a power loss may leave, and what the script was shown agree.            *)
THEOREM StoreStaysSound == StoreSpec => []StoreInv
  <1> QED BY StoreStarts, StoreStep, PTL DEF StoreSpec

(* Each file and option is what was acknowledged last, or what a change    *)
(* that was not acknowledged put there; the limits hold in every directory *)
(* that a power loss may leave; a plan that came to its end left what its  *)
(* script was shown; and no new script finds the files of another: for any *)
(* plans, edits, contents and limits, and however often a call fails, the  *)
(* runtime is killed or the power fails (storage.cpp:27-374).              *)
THEOREM ScriptsKeepTheirFiles == StoreSpec => []FilesAreKept
  <1>1. ASSUME StoreInv PROVE FilesAreKept
    <2>1. StaysWritable
      <3>1. ASSUME NEW d \in dur PROVE DirKept(d) /\ d.temps \in 0..1
        BY <1>1 DEF StoreInv, DirsKept, DirKept
      <3> QED BY <3>1 DEF StaysWritable, DirKept
    <2>2. PlanDidAsShown
      <3>1. ASSUME plan = <<>>, NEW w \in promised, NEW x \in Target \ edited
            PROVE  disk.data[x] = w[x]
        <4>1. disk.data \in [Target -> 0..MaxContent] /\ Overlay(disk.data, <<>>)[x] = w[x]
          BY <1>1, <3>1 DEF StoreInv, ShownStays, DirsKept, DirKept
        <4> QED BY <4>1, NoActionChanges
      <3> QED BY <3>1 DEF PlanDidAsShown
    <2> QED BY <1>1, <2>1, <2>2 DEF StoreInv, MayHold, FilesAreKept
  <1> QED BY <1>1, StoreStaysSound, PTL

(* Every table of the store keeps its type and its limit.                  *)
THEOREM StoreKeepsType == StoreSpec => []StoreTyped
  <1>1. ASSUME StoreInv PROVE StoreTyped
    <2>1. ASSUME NEW d \in dur PROVE d.data \in [Target -> 0..Torn] /\ d.temps \in Nat
      <3>1. d \in [made : BOOLEAN, data : [Target -> 0..MaxContent], temps : 0..1]
        BY <1>1 DEF StoreInv, DirsKept, DirKept
      <3> QED BY <3>1, StoreAssumption DEF Torn
    <2>2. \A x \in Target : may[x] # {} /\ may[x] \subseteq 0..MaxContent
      BY <1>1 DEF StoreInv, RestTyped, MayHold
    <2> QED BY <1>1, <2>1, <2>2 DEF StoreInv, RestTyped, DirsKept, StoreTyped
  <1> QED BY <1>1, StoreStaysSound, PTL

-----------------------------------------------------------------------------
(* A card has one index.                                                   *)
Unique(cards) ==
  \A s, r \in CardIndex : cards[s] = cards[r] /\ cards[s] # NoDevice => s = r
Cards == {cards \in [CardIndex -> Device \cup {NoDevice}] : Unique(cards)}

StreamFields == {"node", "slot", "pcm", "retry", "since", "level", "opens", "count", "from",
                 "pending", "offset", "of"}

(* What a stream of a direction is at any time, and while it is reopened.   *)
StreamBody(d, s) ==
  /\ DOMAIN s = StreamFields /\ s.slot \in CardIndex /\ s.pcm \in {"none", "live", "dead"}
  /\ s.opens \in {0, 1} /\ s.retry \in Nat /\ s.since \in Nat
  /\ s.count \in 0..Ring /\ s.pending \in Nat /\ s.offset \in Nat
  /\ d = "in" => s.pending = 0
  /\ d = "out" => s.count = 0 /\ s.from = {}
  /\ s.pending > 0 => s.pcm # "none" /\ s.of = s.opens /\ s.offset < s.pending
  /\ s.pcm # "none" => s.from \subseteq {s.opens}
WholeStream(d, s) == StreamBody(d, s) /\ (s.pcm = "none" => s.since + s.retry = Retry)

(* The streams of a direction are each on a card of their own.             *)
StreamForm ==
  /\ DOMAIN streams = Dir
  /\ \A d \in Dir : /\ DOMAIN streams[d] \subseteq 1..MaxStreams
                    /\ \A i \in DOMAIN streams[d] : WholeStream(d, streams[d][i])
                    /\ \A i, j \in DOMAIN streams[d] : streams[d][i].slot = streams[d][j].slot => i = j

(* A graph that is as new as the list of cards is of these cards.          *)
GraphForm ==
  /\ hw \in Cards /\ listed.cards \in Cards /\ listed.gen \in Nat
  /\ DOMAIN pub = {"gen", "top", "fx", "cards"} /\ pub.cards \in Cards /\ pub.gen \in Nat
  /\ pub.top \in Nat /\ pub.top <= listed.gen
  /\ pub.top = listed.gen => pub.cards = listed.cards
  /\ DOMAIN bt = {"pc", "top", "fx", "cards"} /\ bt.cards \in Cards
  /\ bt.top \in Nat /\ bt.top <= listed.gen
  /\ bt.pc = "publish" /\ bt.top = listed.gen => bt.cards = listed.cards
  /\ snapshot.top \in Nat /\ snapshot.top <= listed.gen /\ snapshot.gen \in Nat /\ snapshot.gen <= pub.gen
  /\ snapshot.gen = pub.gen => snapshot = pub
  /\ snapshot.top = listed.gen => snapshot.cards = listed.cards

(* The streams `some` are those of the cards, and the nodes find theirs.   *)
NodesOf(cards, d) == {PortOf(d, cards[s]) : s \in Offers(cards, d)}
Matched(cards, some, where) ==
  /\ \A d \in Dir : \A i \in DOMAIN some[d] :
        some[d][i].slot \in Offers(cards, d) /\ some[d][i].node = PortOf(d, cards[some[d][i].slot])
  /\ \A d \in Dir : Cardinality(NodesOf(cards, d)) <= MaxStreams =>
        \A s \in Offers(cards, d) : \E i \in DOMAIN some[d] : some[d][i].slot = s
  /\ DOMAIN where = ThingsOf(cards)
  /\ \A t \in ThingsOf(cards) :
        IF \E i \in DOMAIN some["in"] : some["in"][i].node = t
        THEN where[t] \in DOMAIN some["in"] /\ some["in"][where[t]].node = t ELSE where[t] = 0

BusyForm == busy \subseteq Dir \X CardIndex /\ NoHandleIsLost

PlaceForm ==
  /\ DOMAIN at = {"pc", "dir", "i"} /\ at.pc \in {"top", "sync", "io", "render"} /\ at.dir \in Dir
  /\ at.pc \in {"sync", "io"} => at.i \in DOMAIN streams[at.dir]
  /\ at.pc = "io" => streams[at.dir][at.i].pcm # "none"
  /\ size \in 0..MaxSize

StreamsInv ==
  /\ StreamForm /\ GraphForm /\ BusyForm /\ PlaceForm
  /\ snapshot.top = listed.gen => Matched(listed.cards, streams, place)

-----------------------------------------------------------------------------
(* What is done to one stream.                                             *)

(* openCaptureStream(), openPlaybackStream(): nothing old goes to the new  *)
(* handle.                                                                 *)
LEMMA OpenedIsWhole ==
  ASSUME NEW d \in Dir, NEW s, StreamBody(d, s)
  PROVE  /\ WholeStream(d, Opened(d, s)) /\ Opened(d, s).pcm = "live"
         /\ Opened(d, s).slot = s.slot /\ Opened(d, s).node = s.node
  <1> DEFINE l == Live(s)
             o == Opened(d, s)
  <1>1. DOMAIN s = StreamFields
    BY DEF StreamBody
  <1>2. /\ DOMAIN l = StreamFields /\ l.pcm = "live" /\ l.opens = 1 - s.opens /\ l.retry = 0
        /\ l.since = 0 /\ l.slot = s.slot /\ l.node = s.node /\ l.count = s.count
        /\ l.from = s.from /\ l.pending = s.pending /\ l.offset = s.offset /\ l.of = s.of
    BY <1>1 DEF Live, StreamFields
  <1> HIDE DEF l
  <1>3. CASE d = "in"
    <2>1. o = [l EXCEPT !.count = 0, !.from = {}]
      BY <1>3 DEF Opened, OpenedIn, l
    <2>2. /\ DOMAIN o = StreamFields /\ o.pcm = "live" /\ o.opens = 1 - s.opens /\ o.retry = 0
          /\ o.since = 0 /\ o.slot = s.slot /\ o.node = s.node /\ o.count = 0
          /\ o.from = {} /\ o.pending = s.pending /\ o.offset = s.offset /\ o.of = s.of
      BY <1>2, <2>1 DEF StreamFields
    <2> HIDE DEF o
    <2>3. 0 \in 0..Ring
      BY StreamsAssumption
    <2> QED BY <1>3, <2>2, <2>3 DEF StreamBody, WholeStream, o
  <1>4. CASE d = "out"
    <2>1. o = [l EXCEPT !.pending = 0, !.offset = 0]
      BY <1>4 DEF Opened, OpenedOut, l
    <2>2. /\ DOMAIN o = StreamFields /\ o.pcm = "live" /\ o.opens = 1 - s.opens /\ o.retry = 0
          /\ o.since = 0 /\ o.slot = s.slot /\ o.node = s.node /\ o.count = s.count
          /\ o.from = s.from /\ o.pending = 0 /\ o.offset = 0 /\ o.of = s.of
      BY <1>2, <2>1 DEF StreamFields
    <2> HIDE DEF o
    <2> QED BY <1>4, <2>2 DEF StreamBody, WholeStream, o
  <1> QED BY <1>3, <1>4 DEF Dir

(* A stream that could not be opened is to be tried again.                 *)
LEMMA NotOpenedIsWhole ==
  ASSUME NEW d \in Dir, NEW s, StreamBody(d, s), s.pcm = "none"
  PROVE  /\ WholeStream(d, NotOpened(s)) /\ NotOpened(s).pcm = "none"
         /\ NotOpened(s).slot = s.slot /\ NotOpened(s).node = s.node
  <1> DEFINE o == NotOpened(s)
  <1>1. DOMAIN s = StreamFields
    BY DEF StreamBody
  <1>2. /\ DOMAIN o = StreamFields /\ o.pcm = "none" /\ o.opens = s.opens /\ o.retry = Retry
        /\ o.since = 0 /\ o.slot = s.slot /\ o.node = s.node /\ o.count = s.count
        /\ o.from = s.from /\ o.pending = s.pending /\ o.offset = s.offset /\ o.of = s.of
    BY <1>1 DEF NotOpened, StreamFields
  <1> HIDE DEF o
  <1>3. Retry \in Nat
    BY StreamsAssumption
  <1> QED BY <1>2, <1>3 DEF StreamBody, WholeStream, o

(* A new stream holds nothing.                                             *)
LEMMA FreshIsSound ==
  ASSUME NEW d \in Dir, NEW t, NEW s \in CardIndex
  PROVE  LET o == FreshStream(t, s)
         IN  StreamBody(d, o) /\ o.pcm = "none" /\ o.slot = s /\ o.node = t
  <1> DEFINE n == [node |-> t, slot |-> s, pcm |-> "none", retry |-> 0, since |-> 0, level |-> 0,
                   opens |-> 0, count |-> 0, from |-> {}, pending |-> 0, offset |-> 0, of |-> 0]
             o == FreshStream(t, s)
  <1>1. o = RingReset(n)
    BY DEF FreshStream
  <1>2. /\ DOMAIN n = StreamFields /\ n.pcm = "none" /\ n.opens = 0 /\ n.retry = 0
        /\ n.since = 0 /\ n.slot = s /\ n.node = t /\ n.of = 0
    BY DEF StreamFields
  <1> HIDE DEF n
  <1>3. /\ DOMAIN o = StreamFields /\ o.pcm = "none" /\ o.opens = 0 /\ o.retry = 0
        /\ o.since = 0 /\ o.slot = s /\ o.node = t /\ o.count = 0
        /\ o.from = {} /\ o.pending = 0 /\ o.offset = 0 /\ o.of = 0
    BY <1>1, <1>2 DEF RingReset, StreamFields
  <1> HIDE DEF o
  <1>4. 0 \in 0..Ring
    BY StreamsAssumption
  <1> QED BY <1>3, <1>4 DEF StreamBody, o

(* A handle with an old buffer is closed, and what it left forgotten.      *)
LEMMA SyncedIsSound ==
  ASSUME NEW d \in Dir, NEW s, WholeStream(d, s)
  PROVE  LET o == Synced(s)
         IN  StreamBody(d, o) /\ o.slot = s.slot /\ o.node = s.node
             /\ (Stale(s) => o.pcm = "none") /\ (~Stale(s) => o = s)
  <1> DEFINE e == RingReset(s)
             c == Closed(e)
             o == [c EXCEPT !.retry = 0]
  <1>1. DOMAIN s = StreamFields /\ StreamBody(d, s)
    BY DEF StreamBody, WholeStream
  <1>2. CASE ~Stale(s)
    BY <1>1, <1>2 DEF Synced
  <1>3. CASE Stale(s)
    <2>1. Synced(s) = o
      BY <1>3 DEF Synced
    <2>2. /\ DOMAIN e = StreamFields /\ e.opens = s.opens /\ e.since = s.since /\ e.slot = s.slot
          /\ e.node = s.node /\ e.count = 0 /\ e.from = {} /\ e.pending = 0 /\ e.offset = 0 /\ e.of = s.of
      BY <1>1 DEF RingReset, StreamFields
    <2> HIDE DEF e
    <2>3. /\ DOMAIN c = StreamFields /\ c.opens = s.opens /\ c.since = s.since /\ c.slot = s.slot
          /\ c.node = s.node /\ c.count = 0 /\ c.from = {} /\ c.pending = 0 /\ c.offset = 0 /\ c.of = s.of
          /\ c.pcm = "none"
      BY <2>2 DEF Closed, StreamFields
    <2> HIDE DEF c
    <2>4. /\ DOMAIN o = StreamFields /\ o.opens = s.opens /\ o.since = s.since /\ o.slot = s.slot
          /\ o.node = s.node /\ o.count = 0 /\ o.from = {} /\ o.pending = 0 /\ o.offset = 0 /\ o.of = s.of
          /\ o.pcm = "none" /\ o.retry = 0
      BY <2>3 DEF StreamFields
    <2> HIDE DEF o
    <2>5. 0 \in 0..Ring
      BY StreamsAssumption
    <2>6. StreamBody(d, o)
      BY <1>1, <2>4, <2>5 DEF StreamBody
    <2> QED BY <1>3, <2>1, <2>4, <2>6
  <1> QED BY <1>2, <1>3

(* A stream that is given up is to be tried again.                         *)
LEMMA LostIsWhole ==
  ASSUME NEW d \in Dir, NEW s, StreamBody(d, s), s.pending = 0
  PROVE  LET o == [Closed(s) EXCEPT !.retry = Retry, !.since = 0]
         IN  WholeStream(d, o) /\ o.pcm = "none" /\ o.slot = s.slot /\ o.node = s.node
  <1> DEFINE c == Closed(s)
             o == [c EXCEPT !.retry = Retry, !.since = 0]
  <1>1. DOMAIN s = StreamFields
    BY DEF StreamBody
  <1>2. /\ DOMAIN c = StreamFields /\ c.pcm = "none" /\ c.opens = s.opens
        /\ c.slot = s.slot /\ c.node = s.node /\ c.count = s.count
        /\ c.from = s.from /\ c.pending = s.pending /\ c.offset = s.offset /\ c.of = s.of
    BY <1>1 DEF Closed, StreamFields
  <1> HIDE DEF c
  <1>3. /\ DOMAIN o = StreamFields /\ o.pcm = "none" /\ o.opens = s.opens /\ o.retry = Retry
        /\ o.since = 0 /\ o.slot = s.slot /\ o.node = s.node /\ o.count = s.count
        /\ o.from = s.from /\ o.pending = s.pending /\ o.offset = s.offset /\ o.of = s.of
    BY <1>2 DEF StreamFields
  <1> HIDE DEF o
  <1>4. Retry \in Nat
    BY StreamsAssumption
  <1>5. WholeStream(d, o)
    BY <1>3, <1>4 DEF StreamBody, WholeStream
  <1> QED BY <1>3, <1>5 DEF o, c

(* A stream that waits is one block nearer to its next trial.              *)
LEMMA WaitingIsWhole ==
  ASSUME NEW d \in Dir, NEW s, WholeStream(d, s), s.pcm = "none", s.retry > 0
  PROVE  LET o == [s EXCEPT !.retry = @ - 1, !.since = @ + 1]
         IN  WholeStream(d, o) /\ o.pcm = "none" /\ o.slot = s.slot /\ o.node = s.node
  <1> DEFINE o == [s EXCEPT !.retry = @ - 1, !.since = @ + 1]
  <1>1. DOMAIN s = StreamFields
    BY DEF StreamBody, WholeStream
  <1>2. /\ DOMAIN o = StreamFields /\ o.pcm = s.pcm /\ o.opens = s.opens /\ o.retry = s.retry - 1
        /\ o.since = s.since + 1 /\ o.slot = s.slot /\ o.node = s.node /\ o.count = s.count
        /\ o.from = s.from /\ o.pending = s.pending /\ o.offset = s.offset /\ o.of = s.of
    BY <1>1 DEF StreamFields
  <1> HIDE DEF o
  <1>3. s.retry - 1 \in Nat /\ s.since + 1 \in Nat /\ s.since + 1 + (s.retry - 1) = s.since + s.retry
    BY DEF StreamBody, WholeStream
  <1>4. WholeStream(d, o)
    BY <1>2, <1>3 DEF StreamBody, WholeStream
  <1> QED BY <1>2, <1>4 DEF o

(* The ring takes what the handle reads, and no more than there is room.   *)
LEMMA PushedIsWhole ==
  ASSUME NEW s, WholeStream("in", s), s.pcm # "none", NEW n \in 0..(Ring - s.count)
  PROVE  LET o == Pushed(s, n)
         IN  WholeStream("in", o) /\ o.pcm = s.pcm /\ o.slot = s.slot /\ o.node = s.node
             /\ o.pending = 0
  <1> DEFINE f == IF n > 0 THEN s.from \cup {s.opens} ELSE s.from
             o == [s EXCEPT !.count = s.count + n, !.from = f]
  <1>1. DOMAIN s = StreamFields
    BY DEF StreamBody, WholeStream
  <1>2. Pushed(s, n) = o
    BY DEF Pushed
  <1>3. f \subseteq {s.opens}
    BY DEF StreamBody, WholeStream
  <1> HIDE DEF f
  <1>4. /\ DOMAIN o = StreamFields /\ o.pcm = s.pcm /\ o.opens = s.opens /\ o.retry = s.retry
        /\ o.since = s.since /\ o.slot = s.slot /\ o.node = s.node /\ o.count = s.count + n
        /\ o.from = f /\ o.pending = s.pending /\ o.offset = s.offset /\ o.of = s.of
    BY <1>1 DEF StreamFields
  <1> HIDE DEF o
  <1>5. s.count + n \in 0..Ring
    BY StreamsAssumption DEF StreamBody, WholeStream
  <1>6. WholeStream("in", o)
    BY <1>3, <1>4, <1>5 DEF StreamBody, WholeStream
  <1> QED BY <1>2, <1>4, <1>6 DEF StreamBody, WholeStream

(* The graph takes no more from the ring than there is.                    *)
LEMMA ReadIsWhole ==
  ASSUME NEW s, WholeStream("in", s), NEW n \in 0..Ring, n <= s.count
  PROVE  LET o == Read(s, n)
         IN  WholeStream("in", o) /\ o.pcm = s.pcm /\ o.slot = s.slot /\ o.node = s.node
  <1> DEFINE f == IF s.count = n THEN {} ELSE s.from
             o == [s EXCEPT !.count = s.count - n, !.from = f]
  <1>1. DOMAIN s = StreamFields
    BY DEF StreamBody, WholeStream
  <1>2. Read(s, n) = o
    BY DEF Read
  <1>3. s.pcm # "none" => f \subseteq {s.opens}
    BY DEF StreamBody, WholeStream
  <1> HIDE DEF f
  <1>4. /\ DOMAIN o = StreamFields /\ o.pcm = s.pcm /\ o.opens = s.opens /\ o.retry = s.retry
        /\ o.since = s.since /\ o.slot = s.slot /\ o.node = s.node /\ o.count = s.count - n
        /\ o.from = f /\ o.pending = s.pending /\ o.offset = s.offset /\ o.of = s.of
    BY <1>1 DEF StreamFields
  <1> HIDE DEF o
  <1>5. s.count - n \in 0..Ring
    BY StreamsAssumption DEF StreamBody, WholeStream
  <1>6. WholeStream("in", o)
    BY <1>3, <1>4, <1>5 DEF StreamBody, WholeStream
  <1> QED BY <1>2, <1>4, <1>6

(* What is dropped of a block is not written later.                        *)
LEMMA DroppedIsWhole ==
  ASSUME NEW s, WholeStream("out", s)
  PROVE  LET o == Dropped(s)
         IN  WholeStream("out", o) /\ o.pcm = s.pcm /\ o.slot = s.slot /\ o.node = s.node
             /\ o.pending = 0
  <1> DEFINE o == Dropped(s)
  <1>1. DOMAIN s = StreamFields
    BY DEF StreamBody, WholeStream
  <1>2. /\ DOMAIN o = StreamFields /\ o.pcm = s.pcm /\ o.opens = s.opens /\ o.retry = s.retry
        /\ o.since = s.since /\ o.slot = s.slot /\ o.node = s.node /\ o.count = s.count
        /\ o.from = s.from /\ o.pending = 0 /\ o.offset = 0 /\ o.of = s.of
    BY <1>1 DEF Dropped, StreamFields
  <1> HIDE DEF o
  <1>3. WholeStream("out", o)
    BY <1>2 DEF StreamBody, WholeStream
  <1> QED BY <1>2, <1>3 DEF o

(* A block is made for the handle that it is written to.                   *)
LEMMA PreparedIsWhole ==
  ASSUME NEW s, WholeStream("out", s), s.pcm # "none"
  PROVE  LET o == Prepared(s)
         IN  WholeStream("out", o) /\ o.pcm = s.pcm /\ o.slot = s.slot /\ o.node = s.node
             /\ o.pending > 0
  <1> DEFINE o == [s EXCEPT !.pending = Block, !.offset = 0, !.of = s.opens]
  <1>1. DOMAIN s = StreamFields /\ s.pending \in Nat
    BY DEF StreamBody, WholeStream
  <1>2. CASE s.pending # 0
    BY <1>1, <1>2 DEF Prepared
  <1>3. CASE s.pending = 0
    <2>1. Prepared(s) = o
      BY <1>3 DEF Prepared
    <2>2. /\ DOMAIN o = StreamFields /\ o.pcm = s.pcm /\ o.opens = s.opens /\ o.retry = s.retry
          /\ o.since = s.since /\ o.slot = s.slot /\ o.node = s.node /\ o.count = s.count
          /\ o.from = s.from /\ o.pending = Block /\ o.offset = 0 /\ o.of = s.opens
      BY <1>1 DEF StreamFields
    <2> HIDE DEF o
    <2>3. Block \in Nat /\ Block > 0
      BY StreamsAssumption
    <2>4. WholeStream("out", o)
      BY <2>2, <2>3 DEF StreamBody, WholeStream
    <2> QED BY <2>1, <2>2, <2>3, <2>4
  <1> QED BY <1>2, <1>3

(* What is written of a block is gone; after the last of it comes another. *)
LEMMA WrittenIsWhole ==
  ASSUME NEW s, WholeStream("out", s), s.pcm # "none", s.pending > 0, NEW n \in 0..(s.pending - s.offset)
  PROVE  LET o == Written(s, n)
         IN  WholeStream("out", o) /\ o.pcm = s.pcm /\ o.slot = s.slot /\ o.node = s.node
  <1> DEFINE o == [s EXCEPT !.offset = s.offset + n]
  <1>1. DOMAIN s = StreamFields
    BY DEF StreamBody, WholeStream
  <1>2. CASE s.offset + n = s.pending
    BY <1>2, DroppedIsWhole DEF Written
  <1>3. CASE s.offset + n # s.pending
    <2>1. Written(s, n) = o
      BY <1>3 DEF Written
    <2>2. /\ DOMAIN o = StreamFields /\ o.pcm = s.pcm /\ o.opens = s.opens /\ o.retry = s.retry
          /\ o.since = s.since /\ o.slot = s.slot /\ o.node = s.node /\ o.count = s.count
          /\ o.from = s.from /\ o.pending = s.pending /\ o.offset = s.offset + n /\ o.of = s.of
      BY <1>1 DEF StreamFields
    <2> HIDE DEF o
    <2>3. s.offset + n \in Nat /\ s.offset + n < s.pending
      BY <1>3 DEF StreamBody, WholeStream
    <2>4. WholeStream("out", o)
      BY <2>2, <2>3 DEF StreamBody, WholeStream
    <2> QED BY <2>1, <2>2, <2>4
  <1> QED BY <1>2, <1>3

-----------------------------------------------------------------------------
(* One step of one stream.                                                 *)

(* The nodes find their streams whatever happens inside of these.          *)
SameShape(one, other) ==
  \A d \in Dir : DOMAIN other[d] = DOMAIN one[d] /\ \A i \in DOMAIN one[d] :
    other[d][i].slot = one[d][i].slot /\ other[d][i].node = one[d][i].node
LEMMA MatchedStays ==
  ASSUME NEW cards, NEW one, NEW other, NEW where, SameShape(one, other), Matched(cards, one, where)
  PROVE  Matched(cards, other, where)
  <1>1. \A d \in Dir : \A i \in DOMAIN other[d] :
          other[d][i].slot \in Offers(cards, d) /\ other[d][i].node = PortOf(d, cards[other[d][i].slot])
    BY DEF SameShape, Matched
  <1>2. ASSUME NEW d \in Dir, Cardinality(NodesOf(cards, d)) <= MaxStreams, NEW s \in Offers(cards, d)
        PROVE  \E i \in DOMAIN other[d] : other[d][i].slot = s
    <2>1. PICK i \in DOMAIN one[d] : one[d][i].slot = s
      BY <1>2 DEF Matched
    <2> QED BY <2>1 DEF SameShape
  <1>3. "in" \in Dir
    BY DEF Dir
  <1>4. DOMAIN other["in"] = DOMAIN one["in"] /\ \A i \in DOMAIN one["in"] : other["in"][i].node = one["in"][i].node
    BY <1>3 DEF SameShape
  <1>5. ASSUME NEW t \in ThingsOf(cards)
        PROVE  IF \E i \in DOMAIN other["in"] : other["in"][i].node = t
               THEN where[t] \in DOMAIN other["in"] /\ other["in"][where[t]].node = t ELSE where[t] = 0
    <2>1. IF \E i \in DOMAIN one["in"] : one["in"][i].node = t
          THEN where[t] \in DOMAIN one["in"] /\ one["in"][where[t]].node = t ELSE where[t] = 0
      BY DEF Matched
    <2> QED BY <1>4, <2>1
  <1> QED BY <1>1, <1>2, <1>5 DEF Matched

(* The thread goes on to a stream, or past the last of them.               *)
LEMMA ServiceIsPlaced ==
  ASSUME NEW d \in Dir, NEW i, NEW some
  PROVE  LET w == Service(d, i, some)
         IN  /\ DOMAIN w = {"pc", "dir", "i"} /\ w.pc \in {"top", "sync", "render"} /\ w.dir \in Dir
             /\ w.pc = "sync" => w.i \in DOMAIN some[w.dir]
  <1> DEFINE w == Service(d, i, some)
  <1>1. CASE i \in DOMAIN some[d]
    <2>1. w = [pc |-> "sync", dir |-> d, i |-> i]
      BY <1>1 DEF Service
    <2> QED BY <1>1, <2>1
  <1>2. CASE i \notin DOMAIN some[d]
    <2>1. CASE d = "in"
      <3>1. w = [pc |-> "render", dir |-> "in", i |-> 1]
        BY <1>2, <2>1 DEF Service
      <3> QED BY <3>1 DEF Dir
    <2>2. CASE d # "in"
      <3>1. w = [pc |-> "top", dir |-> "in", i |-> 1]
        BY <1>2, <2>2 DEF Service
      <3> QED BY <3>1 DEF Dir
    <2> QED BY <2>1, <2>2
  <1> QED BY <1>1, <1>2

(* One stream changes, and the handle that it holds with it.               *)
LEMMA StreamBecomes ==
  ASSUME StreamForm, BusyForm, at.dir \in Dir, at.i \in DOMAIN streams[at.dir],
         NEW s, WholeStream(at.dir, s), s.slot = Served.slot, s.node = Served.node, Becomes(s),
         \A b : b # <<at.dir, Served.slot>> => (b \in busy' <=> b \in busy),
         (<<at.dir, Served.slot>> \in busy') <=> (s.pcm = "live")
  PROVE  StreamForm' /\ BusyForm' /\ SameShape(streams, streams')
  <1> DEFINE D == at.dir
             I == at.i
  <1>1. streams' = [streams EXCEPT ![D] = [streams[D] EXCEPT ![I] = s]]
    BY DEF Becomes
  <1>2. DOMAIN streams = Dir /\ D \in Dir /\ I \in DOMAIN streams[D]
    BY DEF StreamForm
  <1>3. /\ DOMAIN streams' = Dir /\ streams'[D] = [streams[D] EXCEPT ![I] = s]
        /\ \A d \in Dir : d # D => streams'[d] = streams[d]
    BY <1>1, <1>2
  <1>4. /\ \A d \in Dir : DOMAIN streams'[d] = DOMAIN streams[d]
        /\ streams'[D][I] = s
        /\ \A d \in Dir : \A i \in DOMAIN streams[d] : ~(d = D /\ i = I) => streams'[d][i] = streams[d][i]
    BY <1>2, <1>3
  <1>5. Served = streams[D][I]
    BY DEF Served
  <1> HIDE DEF D, I
  <1>6. SameShape(streams, streams')
    BY <1>4, <1>5 DEF SameShape
  <1>7. ASSUME NEW d \in Dir
        PROVE  /\ DOMAIN streams'[d] \subseteq 1..MaxStreams
               /\ \A i \in DOMAIN streams'[d] : WholeStream(d, streams'[d][i])
               /\ \A i, j \in DOMAIN streams'[d] : streams'[d][i].slot = streams'[d][j].slot => i = j
    <2>1. \A i \in DOMAIN streams'[d] : WholeStream(d, streams'[d][i])
      BY <1>4 DEF StreamForm, D
    <2>2. DOMAIN streams'[d] \subseteq 1..MaxStreams
      BY <1>4 DEF StreamForm
    <2>3. \A i, j \in DOMAIN streams'[d] : streams'[d][i].slot = streams'[d][j].slot => i = j
      BY <1>4, <1>6 DEF StreamForm, SameShape
    <2> QED BY <2>1, <2>2, <2>3
  <1>8. StreamForm'
    BY <1>3, <1>7 DEF StreamForm
  <1>9. s.slot \in CardIndex
    BY DEF WholeStream, StreamBody
  <1>10. busy' \subseteq Dir \X CardIndex
    BY <1>2, <1>9 DEF BusyForm, D
  <1>11. ASSUME NEW d \in Dir, NEW c \in CardIndex
         PROVE  (<<d, c>> \in busy') <=> \E i \in DOMAIN streams'[d] : streams'[d][i].slot = c /\ streams'[d][i].pcm = "live"
    <2>1. (<<d, c>> \in busy) <=> \E i \in DOMAIN streams[d] : streams[d][i].slot = c /\ streams[d][i].pcm = "live"
      BY DEF BusyForm, NoHandleIsLost, All, Range
    <2>2. CASE d = D /\ c = s.slot
      <3>1. \A i \in DOMAIN streams'[d] : streams'[d][i].slot = c => i = I
        BY <1>2, <1>4, <1>7, <2>2
      <3> QED BY <1>2, <1>4, <2>2, <3>1 DEF D
    <2>3. CASE ~(d = D /\ c = s.slot)
      <3>1. (<<d, c>> \in busy') <=> (<<d, c>> \in busy)
        BY <2>3 DEF D
      <3>2. ASSUME NEW i \in DOMAIN streams[d], streams[d][i].slot = c
            PROVE  streams'[d][i] = streams[d][i]
        BY <1>4, <1>5, <2>3, <3>2
      <3>3. ASSUME NEW i \in DOMAIN streams[d], streams'[d][i].slot = c
            PROVE  streams'[d][i] = streams[d][i]
        BY <1>4, <1>5, <2>3, <3>3
      <3> QED BY <1>4, <2>1, <3>1, <3>2, <3>3
    <2> QED BY <2>2, <2>3
  <1>12. NoHandleIsLost'
    <2>1. ASSUME NEW d \in Dir, NEW c \in CardIndex
          PROVE  (\E r \in All(d)' : r.slot = c /\ r.pcm = "live")
                   <=> \E i \in DOMAIN streams'[d] : streams'[d][i].slot = c /\ streams'[d][i].pcm = "live"
      BY Zenon DEF All, Range
    <2> QED BY <1>11, <2>1, Zenon DEF NoHandleIsLost
  <1> QED BY <1>6, <1>8, <1>10, <1>12 DEF BusyForm

(* A step of the audio thread with one stream.                             *)
LEMMA StreamIsServed ==
  ASSUME StreamsInv, Frame, at.pc \in {"sync", "io"},
         NEW s, WholeStream(at.dir, s), s.slot = Served.slot, s.node = Served.node, Becomes(s),
         \A b : b # <<at.dir, Served.slot>> => (b \in busy' <=> b \in busy),
         (<<at.dir, Served.slot>> \in busy') <=> (s.pcm = "live"),
         size' \in 0..MaxSize, ToNext \/ (ToIo /\ s.pcm # "none")
  PROVE  StreamsInv'
  <1>1. StreamForm /\ GraphForm /\ BusyForm /\ PlaceForm /\ at.dir \in Dir /\ at.i \in DOMAIN streams[at.dir]
    BY DEF StreamsInv, PlaceForm
  <1>2. StreamForm' /\ BusyForm' /\ SameShape(streams, streams')
    BY <1>1, StreamBecomes
  <1>3. snapshot' = snapshot /\ listed' = listed /\ hw' = hw /\ pub' = pub /\ bt' = bt /\ place' = place
    BY DEF Frame, sysVars
  <1>4. GraphForm'
    BY <1>1, <1>3 DEF GraphForm
  <1>5. (snapshot.top = listed.gen => Matched(listed.cards, streams, place))'
    BY <1>2, <1>3, MatchedStays DEF StreamsInv
  <1>6. ASSUME ToNext PROVE PlaceForm'
    <2>1. at' = Service(at.dir, at.i + 1, streams)
      BY <1>6 DEF ToNext, NextStream
    <2>2. DOMAIN at' = {"pc", "dir", "i"} /\ at'.pc \in {"top", "sync", "render"} /\ at'.dir \in Dir
          /\ (at'.pc = "sync" => at'.i \in DOMAIN streams[at'.dir])
      BY <1>1, <2>1, ServiceIsPlaced
    <2>3. at'.pc = "sync" => at'.i \in DOMAIN streams'[at'.dir]
      BY <1>2, <2>2 DEF SameShape
    <2> QED BY <2>2, <2>3 DEF PlaceForm
  <1>7. ASSUME ToIo /\ s.pcm # "none" PROVE PlaceForm'
    <2>1. DOMAIN at' = {"pc", "dir", "i"} /\ at'.pc = "io" /\ at'.dir = at.dir /\ at'.i = at.i
      BY <1>1, <1>7 DEF ToIo, PlaceForm
    <2>2. at.i \in DOMAIN streams'[at.dir]
      BY <1>1, <1>2 DEF SameShape
    <2>3. streams'[at.dir][at.i] = s
      BY <1>1 DEF Becomes, StreamForm
    <2> QED BY <1>1, <1>7, <2>1, <2>2, <2>3 DEF PlaceForm
  <1>8. PlaceForm'
    BY <1>6, <1>7
  <1> QED BY <1>2, <1>4, <1>5, <1>8 DEF StreamsInv

(* A stream is live just when its port is held.                            *)
LEMMA LiveIsHeld ==
  ASSUME StreamForm, BusyForm, NEW d \in Dir, NEW i \in DOMAIN streams[d]
  PROVE  (<<d, streams[d][i].slot>> \in busy) <=> (streams[d][i].pcm = "live")
  <1>1. streams[d][i].slot \in CardIndex
    BY DEF StreamForm, WholeStream, StreamBody
  <1>2. (<<d, streams[d][i].slot>> \in busy) <=> \E r \in All(d) : r.slot = streams[d][i].slot /\ r.pcm = "live"
    BY <1>1 DEF BusyForm, NoHandleIsLost
  <1>3. ASSUME NEW r \in All(d), r.slot = streams[d][i].slot
        PROVE  r = streams[d][i]
    <2>1. PICK j \in DOMAIN streams[d] : r = streams[d][j]
      BY DEF All, Range
    <2> QED BY <1>3, <2>1 DEF StreamForm
  <1>4. streams[d][i] \in All(d)
    BY DEF All, Range
  <1> QED BY <1>2, <1>3, <1>4

(* The stream that is serviced is whole, and what is held of it.           *)
LEMMA ServedIsWhole ==
  ASSUME StreamsInv, at.pc \in {"sync", "io"}
  PROVE  /\ at.dir \in Dir /\ WholeStream(at.dir, Served) /\ (at.pc = "io" => Served.pcm # "none")
         /\ Served.pcm \in {"none", "live", "dead"}
         /\ (<<at.dir, Served.slot>> \in busy) <=> (Served.pcm = "live")
  <1>1. at.dir \in Dir /\ at.i \in DOMAIN streams[at.dir] /\ StreamForm /\ BusyForm
    BY DEF StreamsInv, PlaceForm
  <1>2. WholeStream(at.dir, Served)
    BY <1>1 DEF StreamForm, Served
  <1>3. (<<at.dir, Served.slot>> \in busy) <=> (Served.pcm = "live")
    BY <1>1, LiveIsHeld DEF Served
  <1> QED BY <1>1, <1>2, <1>3 DEF StreamsInv, PlaceForm, Served, WholeStream, StreamBody

(* maybeReopen, before it is time: the stream waits.                       *)
LEMMA WaitToReopenKeeps == ASSUME StreamsInv, WaitToReopen PROVE StreamsInv'
  <1> DEFINE o == [Served EXCEPT !.retry = @ - 1, !.since = @ + 1]
  <1>1. /\ at.pc = "sync" /\ Served.pcm = "none" /\ Served.retry > 0 /\ ToNext /\ Becomes(o) /\ Frame
        /\ size' = size /\ busy' = busy
    BY DEF WaitToReopen
  <1>2. at.dir \in Dir /\ WholeStream(at.dir, Served) /\ (<<at.dir, Served.slot>> \notin busy)
    BY <1>1, ServedIsWhole
  <1>3. WholeStream(at.dir, o) /\ o.pcm = "none" /\ o.slot = Served.slot /\ o.node = Served.node
    BY <1>1, <1>2, WaitingIsWhole
  <1> HIDE DEF o
  <1>4. size' \in 0..MaxSize
    BY <1>1 DEF StreamsInv, PlaceForm
  <1> QED BY <1>1, <1>2, <1>3, <1>4, StreamIsServed

(* The stream has the buffer that it should have.                          *)
LEMMA StayOpenKeeps == ASSUME StreamsInv, StayOpen PROVE StreamsInv'
  <1>1. /\ at.pc = "sync" /\ Synced(Served).pcm # "none" /\ ToIo /\ Frame
        /\ UNCHANGED <<size, streams, busy>>
    BY DEF StayOpen
  <1>2. at.dir \in Dir /\ WholeStream(at.dir, Served)
    BY <1>1, ServedIsWhole
  <1>3. Served.pcm # "none"
    BY <1>1, <1>2, SyncedIsSound
  <1>4. at.i \in DOMAIN streams[at.dir] /\ DOMAIN at = {"pc", "dir", "i"}
    BY <1>1 DEF StreamsInv, PlaceForm
  <1>5. DOMAIN at' = {"pc", "dir", "i"} /\ at'.pc = "io" /\ at'.dir = at.dir /\ at'.i = at.i
    BY <1>1, <1>4 DEF ToIo
  <1>6. PlaceForm'
    BY <1>1, <1>2, <1>3, <1>4, <1>5 DEF PlaceForm, Served, StreamsInv
  <1>7. StreamForm' /\ GraphForm' /\ BusyForm'
    BY <1>1 DEF StreamsInv, StreamForm, GraphForm, BusyForm, NoHandleIsLost, All, Frame, sysVars
  <1>8. (snapshot.top = listed.gen => Matched(listed.cards, streams, place))'
    BY <1>1 DEF StreamsInv, Frame, sysVars
  <1> QED BY <1>6, <1>7, <1>8 DEF StreamsInv

(* What is held once a handle with an old buffer has been closed.          *)
LEMMA SyncedIsReleased ==
  ASSUME StreamsInv, at.pc = "sync", Synced(Served).pcm = "none"
  PROVE  /\ StreamBody(at.dir, Synced(Served)) /\ at.dir \in Dir
         /\ Synced(Served).slot = Served.slot /\ Synced(Served).node = Served.node
         /\ <<at.dir, Served.slot>> \notin HeldAfterSync
         /\ \A b : b # <<at.dir, Served.slot>> => (b \in HeldAfterSync <=> b \in busy)
  <1>1. at.dir \in Dir /\ WholeStream(at.dir, Served) /\ ((<<at.dir, Served.slot>> \in busy) <=> (Served.pcm = "live"))
    BY ServedIsWhole
  <1>2. StreamBody(at.dir, Synced(Served)) /\ Synced(Served).slot = Served.slot /\ Synced(Served).node = Served.node
        /\ (~Stale(Served) => Synced(Served) = Served)
    BY <1>1, SyncedIsSound
  <1> QED BY <1>1, <1>2 DEF HeldAfterSync, Releases

(* The stream is opened again.                                             *)
LEMMA ReopenKeeps == ASSUME StreamsInv, Reopen PROVE StreamsInv'
  <1> DEFINE s == Synced(Served)
             o == Opened(at.dir, s)
  <1>1. /\ at.pc = "sync" /\ s.pcm = "none" /\ Becomes(o) /\ ToIo /\ Frame
        /\ busy' = HeldAfterSync \cup {<<at.dir, s.slot>>} /\ size' = size
    BY DEF Reopen
  <1>2. /\ StreamBody(at.dir, s) /\ at.dir \in Dir /\ s.slot = Served.slot /\ s.node = Served.node
        /\ \A b : b # <<at.dir, Served.slot>> => (b \in HeldAfterSync <=> b \in busy)
    BY <1>1, SyncedIsReleased
  <1>3. WholeStream(at.dir, o) /\ o.pcm = "live" /\ o.slot = s.slot /\ o.node = s.node
    BY <1>2, OpenedIsWhole
  <1> HIDE DEF o, s
  <1>4. size' \in 0..MaxSize
    BY <1>1 DEF StreamsInv, PlaceForm
  <1>5. \A b : b # <<at.dir, Served.slot>> => (b \in busy' <=> b \in busy)
    BY <1>1, <1>2
  <1> QED BY <1>1, <1>2, <1>3, <1>4, <1>5, StreamIsServed

(* The stream cannot be opened, and waits.                                 *)
LEMMA CannotReopenKeeps == ASSUME StreamsInv, CannotReopen PROVE StreamsInv'
  <1> DEFINE s == Synced(Served)
             o == NotOpened(s)
  <1>1. /\ at.pc = "sync" /\ s.pcm = "none" /\ Becomes(o) /\ ToNext /\ Frame
        /\ busy' = HeldAfterSync /\ size' = size
    BY DEF CannotReopen
  <1>2. /\ StreamBody(at.dir, s) /\ at.dir \in Dir /\ s.slot = Served.slot /\ s.node = Served.node
        /\ <<at.dir, Served.slot>> \notin HeldAfterSync
        /\ \A b : b # <<at.dir, Served.slot>> => (b \in HeldAfterSync <=> b \in busy)
    BY <1>1, SyncedIsReleased
  <1>3. WholeStream(at.dir, o) /\ o.pcm = "none" /\ o.slot = s.slot /\ o.node = s.node
    BY <1>1, <1>2, NotOpenedIsWhole
  <1> HIDE DEF o, s
  <1>4. size' \in 0..MaxSize
    BY <1>1 DEF StreamsInv, PlaceForm
  <1> QED BY <1>1, <1>2, <1>3, <1>4, StreamIsServed

(* The card is gone, or had an overrun or an underrun.                     *)
LEMMA FailsKeeps ==
  ASSUME StreamsInv, at.pc = "io", ToNext, Frame, NEW kept, NEW lost, Fails(kept, lost),
         Served.pcm = "live" => WholeStream(at.dir, kept) /\ kept.pcm = "live",
         kept.slot = Served.slot, kept.node = Served.node,
         StreamBody(at.dir, lost), lost.pending = 0, lost.pcm = Served.pcm, lost.slot = Served.slot, lost.node = Served.node
  PROVE  StreamsInv'
  <1> DEFINE o == [Closed(lost) EXCEPT !.retry = Retry, !.since = 0]
  <1>1. /\ at.dir \in Dir /\ WholeStream(at.dir, Served) /\ Served.pcm \in {"none", "live", "dead"}
        /\ (<<at.dir, Served.slot>> \in busy) <=> (Served.pcm = "live")
    BY ServedIsWhole
  <1>2. WholeStream(at.dir, o) /\ o.pcm = "none" /\ o.slot = lost.slot /\ o.node = lost.node
    BY <1>1, LostIsWhole
  <1>3. size \in 0..MaxSize
    BY DEF StreamsInv, PlaceForm
  <1>4. size' \in 0..MaxSize
    BY <1>3 DEF Fails
  <1>5. CASE Lose(lost)
    <2>1. Becomes(o) /\ busy' = busy \ Releases(at.dir, lost)
      BY <1>5 DEF Lose
    <2> HIDE DEF o
    <2>2. \A b : b # <<at.dir, Served.slot>> => (b \in busy' <=> b \in busy)
      BY <2>1 DEF Releases
    <2>3. <<at.dir, Served.slot>> \notin busy'
      BY <1>1, <2>1 DEF Releases
    <2> QED BY <1>2, <1>4, <2>1, <2>2, <2>3, StreamIsServed
  <1>6. CASE Served.pcm = "live" /\ Becomes(kept) /\ busy' = busy
    BY <1>1, <1>4, <1>6, StreamIsServed
  <1> QED BY <1>5, <1>6 DEF Fails

(* serviceCaptureIo(): the ring is filled.                                 *)
LEMMA CaptureKeeps == ASSUME StreamsInv, Capture PROVE StreamsInv'
  <1>1. at.pc = "io" /\ at.dir = "in" /\ ToNext /\ Frame
    BY DEF Capture
  <1>2. /\ WholeStream("in", Served) /\ Served.pcm # "none"
        /\ (<<at.dir, Served.slot>> \in busy) <=> (Served.pcm = "live")
    BY <1>1, ServedIsWhole
  <1>3. CASE \E n \in 0..(Ring - Served.count) :
               Served.pcm = "live" /\ Becomes(Pushed(Served, n)) /\ UNCHANGED <<size, busy, cardEvents>>
    <2>1. PICK n \in 0..(Ring - Served.count) :
            Served.pcm = "live" /\ Becomes(Pushed(Served, n)) /\ UNCHANGED <<size, busy, cardEvents>>
      BY <1>3
    <2> DEFINE o == Pushed(Served, n)
    <2>2. WholeStream("in", o) /\ o.pcm = Served.pcm /\ o.slot = Served.slot /\ o.node = Served.node
      BY <1>2, PushedIsWhole
    <2>3. size' \in 0..MaxSize
      BY <2>1 DEF StreamsInv, PlaceForm
    <2>4. Becomes(o) /\ busy' = busy /\ Served.pcm = "live"
      BY <2>1
    <2> HIDE DEF o
    <2> QED BY <1>1, <1>2, <2>2, <2>3, <2>4, StreamIsServed
  <1>4. CASE \E n \in {m \in 0..(Ring - Served.count) : m % Block = 0 /\ m # Ring - Served.count} :
               Fails(Pushed(Served, n), Pushed(Served, n))
    <2>1. PICK n \in 0..(Ring - Served.count) : Fails(Pushed(Served, n), Pushed(Served, n))
      BY <1>4, Zenon
    <2> DEFINE o == Pushed(Served, n)
    <2>2. WholeStream("in", o) /\ o.pcm = Served.pcm /\ o.slot = Served.slot /\ o.node = Served.node
          /\ o.pending = 0
      BY <1>2, PushedIsWhole
    <2>3. Fails(o, o)
      BY <2>1
    <2> HIDE DEF o
    <2>4. StreamBody("in", o)
      BY <2>2 DEF WholeStream
    <2> QED BY <1>1, <1>2, <2>2, <2>3, <2>4, FailsKeeps
  <1> QED BY <1>3, <1>4, Zenon DEF Capture

(* servicePlaybackIo(): a block is written, or the rest of it dropped.     *)
LEMMA PlayKeeps == ASSUME StreamsInv, Play PROVE StreamsInv'
  <1> DEFINE s == Prepared(Served)
  <1>1. at.pc = "io" /\ at.dir = "out" /\ ToNext /\ Frame
    BY DEF Play
  <1>2. /\ WholeStream("out", Served) /\ Served.pcm # "none"
        /\ (<<at.dir, Served.slot>> \in busy) <=> (Served.pcm = "live")
    BY <1>1, ServedIsWhole
  <1>3. WholeStream("out", s) /\ s.pcm = Served.pcm /\ s.slot = Served.slot /\ s.node = Served.node
        /\ s.pending > 0
    BY <1>2, PreparedIsWhole
  <1>4. \/ \E n \in 0..(s.pending - s.offset) :
            s.pcm = "live" /\ Becomes(Written(s, n)) /\ UNCHANGED <<size, busy, cardEvents>>
        \/ Fails(Dropped(s), Dropped(s))
    BY DEF Play
  <1> HIDE DEF s
  <1>5. ASSUME NEW n \in 0..(s.pending - s.offset),
               s.pcm = "live" /\ Becomes(Written(s, n)) /\ UNCHANGED <<size, busy, cardEvents>>
        PROVE  StreamsInv'
    <2> DEFINE o == Written(s, n)
    <2>1. WholeStream("out", o) /\ o.pcm = s.pcm /\ o.slot = s.slot /\ o.node = s.node
      BY <1>2, <1>3, WrittenIsWhole
    <2>2. size' \in 0..MaxSize
      BY <1>5 DEF StreamsInv, PlaceForm
    <2>3. Becomes(o) /\ busy' = busy /\ s.pcm = "live"
      BY <1>5
    <2> HIDE DEF o
    <2> QED BY <1>1, <1>2, <1>3, <2>1, <2>2, <2>3, StreamIsServed
  <1>6. ASSUME Fails(Dropped(s), Dropped(s)) PROVE StreamsInv'
    <2> DEFINE o == Dropped(s)
    <2>1. WholeStream("out", o) /\ o.pcm = s.pcm /\ o.slot = s.slot /\ o.node = s.node /\ o.pending = 0
      BY <1>3, DroppedIsWhole
    <2>2. Fails(o, o)
      BY <1>6
    <2> HIDE DEF o
    <2>3. StreamBody("out", o)
      BY <2>1 DEF WholeStream
    <2> QED BY <1>1, <1>2, <1>3, <2>1, <2>2, <2>3, FailsKeeps
  <1> QED BY <1>4, <1>5, <1>6

-----------------------------------------------------------------------------
(* Steps that change every stream at once.                                 *)

(* A step that leaves each stream on its card leaves their number.         *)
SameSlots(one, other) ==
  \A d \in Dir : DOMAIN other[d] = DOMAIN one[d] /\ \A i \in DOMAIN one[d] : other[d][i].slot = one[d][i].slot
LEMMA StreamsKeepForm ==
  ASSUME StreamForm, SameSlots(streams, streams'), DOMAIN streams' = Dir,
         \A d \in Dir : \A i \in DOMAIN streams[d] : WholeStream(d, streams'[d][i])
  PROVE  StreamForm'
  <1>1. ASSUME NEW d \in Dir
        PROVE  /\ DOMAIN streams'[d] \subseteq 1..MaxStreams
               /\ \A i \in DOMAIN streams'[d] : WholeStream(d, streams'[d][i])
               /\ \A i, j \in DOMAIN streams'[d] : streams'[d][i].slot = streams'[d][j].slot => i = j
    <2>1. DOMAIN streams'[d] = DOMAIN streams[d] /\ \A i \in DOMAIN streams[d] : streams'[d][i].slot = streams[d][i].slot
      BY DEF SameSlots
    <2> QED BY <2>1 DEF StreamForm
  <1> QED BY <1>1 DEF StreamForm

(* What is held, by the streams and not by the records of these.           *)
LEMMA HeldByStreams ==
  /\ NoHandleIsLost <=> \A d \in Dir, c \in CardIndex :
       (<<d, c>> \in busy) <=> \E i \in DOMAIN streams[d] : streams[d][i].slot = c /\ streams[d][i].pcm = "live"
  /\ NoHandleIsLost' <=> \A d \in Dir, c \in CardIndex :
       (<<d, c>> \in busy') <=> \E i \in DOMAIN streams'[d] : streams'[d][i].slot = c /\ streams'[d][i].pcm = "live"
  <1>1. ASSUME NEW d \in Dir, NEW c \in CardIndex
        PROVE  /\ (\E r \in All(d) : r.slot = c /\ r.pcm = "live")
                     <=> \E i \in DOMAIN streams[d] : streams[d][i].slot = c /\ streams[d][i].pcm = "live"
               /\ (\E r \in All(d)' : r.slot = c /\ r.pcm = "live")
                     <=> \E i \in DOMAIN streams'[d] : streams'[d][i].slot = c /\ streams'[d][i].pcm = "live"
    BY Zenon DEF All, Range
  <1>2. NoHandleIsLost <=> \A d \in Dir, c \in CardIndex :
          (<<d, c>> \in busy) <=> \E i \in DOMAIN streams[d] : streams[d][i].slot = c /\ streams[d][i].pcm = "live"
    BY <1>1, SMT DEF NoHandleIsLost
  <1>3. NoHandleIsLost' <=> \A d \in Dir, c \in CardIndex :
          (<<d, c>> \in busy') <=> \E i \in DOMAIN streams'[d] : streams'[d][i].slot = c /\ streams'[d][i].pcm = "live"
    BY <1>1, SMT DEF NoHandleIsLost
  <1> QED BY <1>2, <1>3

(* Streams that are closed are not held any longer, and no other is.       *)
LEMMA StreamsKeepHandles ==
  ASSUME BusyForm, SameSlots(streams, streams'), busy' \subseteq busy,
         \A d \in Dir : \A i \in DOMAIN streams[d] :
            /\ streams[d][i].slot \in CardIndex
            /\ (<<d, streams[d][i].slot>> \in busy') <=> (streams'[d][i].pcm = "live")
  PROVE  BusyForm'
  <1>1. ASSUME NEW d \in Dir, NEW c \in CardIndex
        PROVE  (<<d, c>> \in busy') <=> \E i \in DOMAIN streams'[d] : streams'[d][i].slot = c /\ streams'[d][i].pcm = "live"
    <2>1. (<<d, c>> \in busy) <=> \E i \in DOMAIN streams[d] : streams[d][i].slot = c /\ streams[d][i].pcm = "live"
      BY HeldByStreams DEF BusyForm
    <2>2. DOMAIN streams'[d] = DOMAIN streams[d] /\ \A i \in DOMAIN streams[d] : streams'[d][i].slot = streams[d][i].slot
      BY DEF SameSlots
    <2>3. ASSUME <<d, c>> \in busy' PROVE \E i \in DOMAIN streams'[d] : streams'[d][i].slot = c /\ streams'[d][i].pcm = "live"
      <3>1. PICK i \in DOMAIN streams[d] : streams[d][i].slot = c
        BY <2>1, <2>3
      <3> QED BY <2>2, <2>3, <3>1
    <2>4. ASSUME NEW i \in DOMAIN streams'[d], streams'[d][i].slot = c, streams'[d][i].pcm = "live"
          PROVE  <<d, c>> \in busy'
      BY <2>2, <2>4
    <2> QED BY <2>3, <2>4
  <1>2. NoHandleIsLost'
    BY <1>1, HeldByStreams
  <1> QED BY <1>2 DEF BusyForm

(* A port of a card that is unplugged is of no use.                        *)
LEMMA UnplugCardKeeps == ASSUME StreamsInv, NEW s \in CardIndex, UnplugCard(s) PROVE StreamsInv'
  <1> DEFINE Gone(d, i) == streams[d][i].slot = s /\ streams[d][i].pcm = "live"
             Dead(d, i) == [streams[d][i] EXCEPT !.pcm = "dead"]
  <1>1. /\ hw' = [hw EXCEPT ![s] = NoDevice] /\ busy' = {b \in busy : b[2] # s}
        /\ streams' = [d \in Dir |-> [i \in DOMAIN streams[d] |-> IF Gone(d, i) THEN Dead(d, i) ELSE streams[d][i]]]
        /\ UNCHANGED <<listed, pub, bt, size, at, snapshot, place>>
    BY DEF UnplugCard
  <1>2. StreamForm /\ GraphForm /\ BusyForm /\ PlaceForm
    BY DEF StreamsInv
  <1>3. /\ DOMAIN streams' = Dir
        /\ \A d \in Dir : DOMAIN streams'[d] = DOMAIN streams[d]
        /\ \A d \in Dir : \A i \in DOMAIN streams[d] : streams'[d][i] = IF Gone(d, i) THEN Dead(d, i) ELSE streams[d][i]
    BY <1>1, Zenon
  <1>4. ASSUME NEW d \in Dir, NEW i \in DOMAIN streams[d]
        PROVE  /\ WholeStream(d, streams'[d][i]) /\ streams'[d][i].slot = streams[d][i].slot
               /\ streams'[d][i].node = streams[d][i].node /\ streams[d][i].slot \in CardIndex
               /\ (streams[d][i].pcm = "none") <=> (streams'[d][i].pcm = "none")
               /\ (<<d, streams[d][i].slot>> \in busy') <=> (streams'[d][i].pcm = "live")
    <2> DEFINE r == streams[d][i]
    <2>1. WholeStream(d, r) /\ ((<<d, r.slot>> \in busy) <=> (r.pcm = "live"))
      BY <1>2, LiveIsHeld DEF StreamForm
    <2>2. CASE Gone(d, i)
      <3> DEFINE o == [r EXCEPT !.pcm = "dead"]
      <3>1. streams'[d][i] = o
        BY <1>3, <2>2
      <3>2. /\ DOMAIN o = StreamFields /\ o.pcm = "dead" /\ o.opens = r.opens /\ o.retry = r.retry
            /\ o.since = r.since /\ o.slot = r.slot /\ o.node = r.node /\ o.count = r.count
            /\ o.from = r.from /\ o.pending = r.pending /\ o.offset = r.offset /\ o.of = r.of
        BY <2>1 DEF WholeStream, StreamBody, StreamFields
      <3>3. r.slot = s /\ r.pcm = "live"
        BY <2>2
      <3> HIDE DEF o, r
      <3>4. WholeStream(d, o)
        BY <2>1, <3>2, <3>3 DEF WholeStream, StreamBody
      <3>5. <<d, r.slot>> \notin busy' /\ r.slot \in CardIndex
        BY <1>1, <3>3
      <3> QED BY <3>1, <3>2, <3>3, <3>4, <3>5 DEF r
    <2>3. CASE ~Gone(d, i)
      <3>1. streams'[d][i] = r
        BY <1>3, <2>3
      <3>2. ~(r.slot = s /\ r.pcm = "live")
        BY <2>3
      <3>3. r.slot \in CardIndex
        BY <2>1 DEF WholeStream, StreamBody
      <3> HIDE DEF r
      <3>4. (<<d, r.slot>> \in busy') <=> (r.pcm = "live")
        BY <1>1, <2>1, <3>2
      <3> QED BY <2>1, <3>1, <3>3, <3>4 DEF r
    <2> QED BY <2>2, <2>3
  <1> HIDE DEF Gone, Dead
  <1>5. SameSlots(streams, streams') /\ SameShape(streams, streams')
    BY <1>3, <1>4 DEF SameSlots, SameShape
  <1>6. StreamForm'
    BY <1>2, <1>3, <1>4, <1>5, StreamsKeepForm
  <1>7. BusyForm'
    BY <1>1, <1>2, <1>4, <1>5, StreamsKeepHandles
  <1>8. PlaceForm'
    BY <1>1, <1>2, <1>3, <1>4 DEF PlaceForm
  <1>9. hw' \in Cards
    BY <1>1, <1>2 DEF GraphForm, Cards, Unique
  <1>10. GraphForm'
    BY <1>1, <1>2, <1>9 DEF GraphForm
  <1>11. (snapshot.top = listed.gen => Matched(listed.cards, streams, place))'
    BY <1>1, <1>5, MatchedStays DEF StreamsInv
  <1> QED BY <1>6, <1>7, <1>8, <1>10, <1>11 DEF StreamsInv

(* The graph reads the inputs, and what was to be played may be dropped.   *)
LEMMA RenderKeeps == ASSUME StreamsInv, Render PROVE StreamsInv'
  <1>1. StreamForm /\ GraphForm /\ BusyForm /\ PlaceForm
    BY DEF StreamsInv
  <1>2. PICK n \in [DOMAIN streams["in"] -> 0..Ring], asleep \in BOOLEAN :
          /\ \A i \in DOMAIN n : n[i] <= streams["in"][i].count
          /\ streams' = [d \in Dir |-> IF d = "in" THEN [i \in DOMAIN n |-> Read(streams[d][i], n[i])]
                                       ELSE IF asleep THEN Emptied(streams[d]) ELSE streams[d]]
    BY Zenon DEF Render
  <1>3. at' = Service("out", 1, streams) /\ Frame /\ UNCHANGED <<size, busy>>
    BY DEF Render
  <1>4. DOMAIN n = DOMAIN streams["in"] /\ \A i \in DOMAIN streams["in"] : n[i] \in 0..Ring
    OBVIOUS
  <1>5. "in" \in Dir /\ "out" \in Dir /\ \A d \in Dir : d = "in" \/ d = "out"
    BY DEF Dir
  <1>6. /\ DOMAIN streams' = Dir /\ streams'["in"] = [i \in DOMAIN n |-> Read(streams["in"][i], n[i])]
        /\ streams'["out"] = IF asleep THEN Emptied(streams["out"]) ELSE streams["out"]
    BY <1>2, <1>5
  <1>7. ASSUME NEW i \in DOMAIN streams["in"]
        PROVE  streams'["in"][i] = Read(streams["in"][i], n[i])
    BY <1>4, <1>6
  <1>8. ASSUME NEW i \in DOMAIN streams["out"]
        PROVE  streams'["out"][i] = IF asleep THEN Dropped(streams["out"][i]) ELSE streams["out"][i]
    BY <1>6 DEF Emptied
  <1>9. DOMAIN streams'["in"] = DOMAIN streams["in"] /\ DOMAIN streams'["out"] = DOMAIN streams["out"]
    BY <1>4, <1>6 DEF Emptied
  <1>10. ASSUME NEW d \in Dir, NEW i \in DOMAIN streams[d]
         PROVE  /\ WholeStream(d, streams'[d][i]) /\ streams'[d][i].slot = streams[d][i].slot
                /\ streams'[d][i].node = streams[d][i].node /\ streams[d][i].slot \in CardIndex
                /\ streams'[d][i].pcm = streams[d][i].pcm
                /\ (<<d, streams[d][i].slot>> \in busy') <=> (streams'[d][i].pcm = "live")
    <2>1. WholeStream(d, streams[d][i]) /\ ((<<d, streams[d][i].slot>> \in busy) <=> (streams[d][i].pcm = "live"))
      BY <1>1, LiveIsHeld DEF StreamForm
    <2>2. streams[d][i].slot \in CardIndex
      BY <2>1 DEF WholeStream, StreamBody
    <2>3. CASE d = "in"
      <3>1. n[i] \in 0..Ring /\ n[i] <= streams["in"][i].count
        BY <1>2, <1>4, <2>3
      <3>2. WholeStream("in", streams["in"][i])
        BY <2>1, <2>3
      <3>3. WholeStream("in", Read(streams["in"][i], n[i])) /\ Read(streams["in"][i], n[i]).pcm = streams["in"][i].pcm
            /\ Read(streams["in"][i], n[i]).slot = streams["in"][i].slot
            /\ Read(streams["in"][i], n[i]).node = streams["in"][i].node
        BY <3>1, <3>2, ReadIsWhole
      <3> QED BY <1>3, <1>7, <2>1, <2>2, <2>3, <3>3
    <2>4. CASE d = "out" /\ asleep
      <3>1. streams'[d][i] = Dropped(streams[d][i])
        BY <1>8, <2>4
      <3>2. WholeStream("out", streams[d][i])
        BY <2>1, <2>4
      <3> QED BY <1>3, <2>1, <2>2, <2>4, <3>1, <3>2, DroppedIsWhole
    <2>5. CASE d = "out" /\ ~asleep
      BY <1>3, <1>8, <2>1, <2>2, <2>5
    <2> QED BY <1>5, <2>3, <2>4, <2>5
  <1>11. \A d \in Dir : DOMAIN streams'[d] = DOMAIN streams[d]
    BY <1>5, <1>9
  <1>12. SameSlots(streams, streams') /\ SameShape(streams, streams')
    BY <1>10, <1>11 DEF SameSlots, SameShape
  <1>13. StreamForm'
    BY <1>1, <1>6, <1>10, <1>12, StreamsKeepForm
  <1>14. BusyForm'
    <2>1. busy' \subseteq busy
      BY <1>3
    <2> QED BY <1>1, <1>10, <1>12, <2>1, StreamsKeepHandles
  <1>15. PlaceForm'
    <2>1. DOMAIN at' = {"pc", "dir", "i"} /\ at'.pc \in {"top", "sync", "render"} /\ at'.dir \in Dir
          /\ (at'.pc = "sync" => at'.i \in DOMAIN streams[at'.dir])
      BY <1>3, <1>5, ServiceIsPlaced
    <2> QED BY <1>1, <1>3, <1>11, <2>1 DEF PlaceForm
  <1>16. GraphForm' /\ listed' = listed /\ snapshot' = snapshot /\ place' = place
    BY <1>1, <1>3 DEF GraphForm, Frame, sysVars
  <1>17. (snapshot.top = listed.gen => Matched(listed.cards, streams, place))'
    BY <1>12, <1>16, MatchedStays DEF StreamsInv
  <1> QED BY <1>13, <1>14, <1>15, <1>16, <1>17 DEF StreamsInv

(* A block begins, perhaps with smaller buffers.                           *)
LEMMA StartBlockKeeps == ASSUME StreamsInv, StartBlock PROVE StreamsInv'
  <1>1. /\ size' \in {size} \cup {l \in 0..MaxSize : l = size - 1} /\ at' = Service("in", 1, streams)
        /\ UNCHANGED <<sysVars, snapshot, streams, place, busy>>
    BY DEF StartBlock
  <1>2. "in" \in Dir
    BY DEF Dir
  <1>3. DOMAIN at' = {"pc", "dir", "i"} /\ at'.pc \in {"top", "sync", "render"} /\ at'.dir \in Dir
        /\ (at'.pc = "sync" => at'.i \in DOMAIN streams[at'.dir])
    BY <1>1, <1>2, ServiceIsPlaced
  <1>4. PlaceForm'
    BY <1>1, <1>3 DEF PlaceForm, StreamsInv
  <1>5. StreamForm' /\ GraphForm' /\ BusyForm'
    BY <1>1 DEF StreamsInv, StreamForm, GraphForm, BusyForm, NoHandleIsLost, All, sysVars
  <1>6. (snapshot.top = listed.gen => Matched(listed.cards, streams, place))'
    BY <1>1 DEF StreamsInv, sysVars
  <1> QED BY <1>4, <1>5, <1>6 DEF StreamsInv

-----------------------------------------------------------------------------
(* The cards, and the threads that publish graphs.                         *)

(* What no step of these threads changes.                                  *)
LEMMA PublishersKeep ==
  ASSUME StreamsInv, GraphForm', UNCHANGED <<size, audioVars>>,
         snapshot.top = listed'.gen => snapshot.top = listed.gen /\ listed'.cards = listed.cards
  PROVE  StreamsInv'
  <1>1. StreamForm' /\ BusyForm' /\ PlaceForm'
    BY DEF StreamsInv, StreamForm, BusyForm, NoHandleIsLost, All, PlaceForm, audioVars
  <1>2. (snapshot.top = listed.gen => Matched(listed.cards, streams, place))'
    BY DEF StreamsInv, audioVars
  <1> QED BY <1>1, <1>2 DEF StreamsInv

(* A card gets an index that no other has, and has just one.               *)
LEMMA PlugCardKeeps == ASSUME StreamsInv, NEW s \in CardIndex, NEW d \in Device, PlugCard(s, d) PROVE StreamsInv'
  <1>1. /\ hw' = [hw EXCEPT ![s] = d] /\ (\A r \in CardIndex : hw[r] # d) /\ hw \in Cards
        /\ UNCHANGED <<listed, pub, bt, size, audioVars>>
    BY DEF PlugCard, StreamsInv, GraphForm
  <1>2. hw' \in Cards
    BY <1>1 DEF Cards, Unique
  <1>3. GraphForm'
    BY <1>1, <1>2 DEF GraphForm, StreamsInv, audioVars
  <1> QED BY <1>1, <1>3, PublishersKeep

(* rescanDevices(): no graph is of the new list of cards yet.              *)
LEMMA RescanCardsKeeps == ASSUME StreamsInv, RescanCards PROVE StreamsInv'
  <1>1. /\ listed' = [gen |-> listed.gen + 1, cards |-> hw] /\ UNCHANGED <<hw, pub, bt, size, audioVars>>
    BY DEF RescanCards
  <1>2. listed'.gen = listed.gen + 1 /\ listed'.cards = hw /\ listed.gen \in Nat
    BY <1>1 DEF StreamsInv, GraphForm
  <1>3. GraphForm'
    BY <1>1, <1>2 DEF GraphForm, StreamsInv, audioVars
  <1>4. snapshot.top # listed'.gen
    BY <1>2 DEF GraphForm, StreamsInv
  <1> QED BY <1>1, <1>3, <1>4, PublishersKeep

(* A graph that is published is of the generation that was read before its *)
(* cards were.                                                             *)
LEMMA PublishedIsSound ==
  ASSUME StreamsInv, UNCHANGED <<hw, listed, size, audioVars>>, NEW p, pub' = p,
         DOMAIN p = {"gen", "top", "fx", "cards"}, p.gen = pub.gen + 1, p.top \in Nat, p.top <= listed.gen,
         p.cards \in Cards, p.top = listed.gen => p.cards = listed.cards,
         DOMAIN bt' = {"pc", "top", "fx", "cards"}, bt'.cards \in Cards, bt'.top \in Nat, bt'.top <= listed.gen,
         bt'.pc = "publish" /\ bt'.top = listed.gen => bt'.cards = listed.cards
  PROVE  StreamsInv'
  <1>1. GraphForm
    BY DEF StreamsInv
  <1>2. snapshot'.gen # pub'.gen /\ snapshot'.gen <= pub'.gen /\ pub'.gen \in Nat
    BY <1>1 DEF GraphForm, audioVars
  <1>3. GraphForm'
    BY <1>1, <1>2 DEF GraphForm, audioVars
  <1> QED BY <1>3, PublishersKeep

LEMMA ReloadThingsKeeps == ASSUME StreamsInv, ReloadThings PROVE StreamsInv'
  <1> DEFINE p == [pub EXCEPT !.gen = pub.gen + 1, !.top = listed.gen, !.cards = listed.cards]
  <1>1. GraphForm
    BY DEF StreamsInv
  <1>2. pub' = p /\ UNCHANGED <<hw, listed, bt, size, audioVars>>
    BY DEF ReloadThings
  <1>3. DOMAIN p = {"gen", "top", "fx", "cards"} /\ p.gen = pub.gen + 1 /\ p.top = listed.gen /\ p.cards = listed.cards
    BY <1>1 DEF GraphForm
  <1> HIDE DEF p
  <1>4. p.top \in Nat /\ p.top <= listed.gen /\ p.cards \in Cards
    BY <1>1, <1>3 DEF GraphForm
  <1>5. /\ DOMAIN bt' = {"pc", "top", "fx", "cards"} /\ bt'.cards \in Cards /\ bt'.top \in Nat /\ bt'.top <= listed.gen
        /\ bt'.pc = "publish" /\ bt'.top = listed.gen => bt'.cards = listed.cards
    BY <1>1, <1>2 DEF GraphForm
  <1> QED BY <1>2, <1>3, <1>4, <1>5, PublishedIsSound

LEMMA EditKeeps == ASSUME StreamsInv, Edit PROVE StreamsInv'
  <1>1. GraphForm
    BY DEF StreamsInv
  <1>2. PICK fx \in BOOLEAN : pub' = [gen |-> pub.gen + 1, top |-> listed.gen, fx |-> fx, cards |-> listed.cards]
    BY DEF Edit
  <1>3. UNCHANGED <<hw, listed, bt, size, audioVars>>
    BY DEF Edit
  <1> DEFINE p == [gen |-> pub.gen + 1, top |-> listed.gen, fx |-> fx, cards |-> listed.cards]
  <1>4. DOMAIN p = {"gen", "top", "fx", "cards"} /\ p.gen = pub.gen + 1 /\ p.top = listed.gen /\ p.cards = listed.cards
    OBVIOUS
  <1>5. pub' = p
    BY <1>2
  <1> HIDE DEF p
  <1>6. p.top \in Nat /\ p.top <= listed.gen /\ p.cards \in Cards
    BY <1>1, <1>4 DEF GraphForm
  <1>7. /\ DOMAIN bt' = {"pc", "top", "fx", "cards"} /\ bt'.cards \in Cards /\ bt'.top \in Nat /\ bt'.top <= listed.gen
        /\ bt'.pc = "publish" /\ bt'.top = listed.gen => bt'.cards = listed.cards
    BY <1>1, <1>3 DEF GraphForm
  <1> QED BY <1>3, <1>4, <1>5, <1>6, <1>7, PublishedIsSound

(* The Bluetooth thread reads the generation, and then the cards.          *)
LEMMA BtBeginsKeeps == ASSUME StreamsInv, BtBegins PROVE StreamsInv'
  <1>1. GraphForm
    BY DEF StreamsInv
  <1>2. bt' = [bt EXCEPT !.pc = "list", !.top = listed.gen] /\ UNCHANGED <<hw, listed, pub, size, audioVars>>
    BY DEF BtBegins
  <1>3. /\ DOMAIN bt' = {"pc", "top", "fx", "cards"} /\ bt'.cards = bt.cards /\ bt'.top = listed.gen /\ bt'.pc = "list"
    BY <1>1, <1>2 DEF GraphForm
  <1>4. GraphForm'
    BY <1>1, <1>2, <1>3 DEF GraphForm, audioVars
  <1> QED BY <1>2, <1>4, PublishersKeep

LEMMA BtListsKeeps == ASSUME StreamsInv, BtLists PROVE StreamsInv'
  <1>1. GraphForm
    BY DEF StreamsInv
  <1>2. bt' = [bt EXCEPT !.pc = "publish", !.cards = listed.cards, !.fx = pub.fx]
        /\ UNCHANGED <<hw, listed, pub, size, audioVars>>
    BY DEF BtLists
  <1>3. /\ DOMAIN bt' = {"pc", "top", "fx", "cards"} /\ bt'.cards = listed.cards /\ bt'.top = bt.top
    BY <1>1, <1>2 DEF GraphForm
  <1>4. GraphForm'
    BY <1>1, <1>2, <1>3 DEF GraphForm, audioVars
  <1> QED BY <1>2, <1>4, PublishersKeep

(* No card has an index.                                                   *)
LEMMA NoCardsIsSound == NoCards \in Cards
  <1>1. NoCards \in [CardIndex -> Device \cup {NoDevice}] /\ \A s \in CardIndex : NoCards[s] = NoDevice
    BY DEF NoCards
  <1> QED BY <1>1 DEF Cards, Unique

LEMMA BtPublishesKeeps == ASSUME StreamsInv, BtPublishes PROVE StreamsInv'
  <1>1. GraphForm
    BY DEF StreamsInv
  <1> DEFINE p == [gen |-> pub.gen + 1, top |-> bt.top, fx |-> bt.fx, cards |-> bt.cards]
  <1>2. pub' = p /\ bt.pc = "publish" /\ bt' = [pc |-> "idle", top |-> 0, fx |-> FALSE, cards |-> NoCards]
        /\ UNCHANGED <<hw, listed, size, audioVars>>
    BY DEF BtPublishes
  <1>3. DOMAIN p = {"gen", "top", "fx", "cards"} /\ p.gen = pub.gen + 1 /\ p.top = bt.top /\ p.cards = bt.cards
    OBVIOUS
  <1> HIDE DEF p
  <1>4. /\ p.top \in Nat /\ p.top <= listed.gen /\ p.cards \in Cards
        /\ p.top = listed.gen => p.cards = listed.cards
    BY <1>1, <1>2, <1>3 DEF GraphForm
  <1>5. /\ DOMAIN bt' = {"pc", "top", "fx", "cards"} /\ bt'.cards = NoCards /\ bt'.top = 0 /\ bt'.pc = "idle"
    BY <1>2
  <1>6. listed.gen \in Nat
    BY <1>1 DEF GraphForm
  <1> QED BY <1>2, <1>3, <1>4, <1>5, <1>6, NoCardsIsSound, PublishedIsSound

-----------------------------------------------------------------------------
(* The streams of a new graph.                                             *)

(* There are as many ports as there are cards that offer one.              *)
LEMMA NodesAreOffers ==
  ASSUME NEW cards \in Cards, NEW d
  PROVE  /\ IsFiniteSet(Offers(cards, d)) /\ Cardinality(Offers(cards, d)) \in Nat
         /\ Cardinality(NodesOf(cards, d)) = Cardinality(Offers(cards, d))
  <1> DEFINE O == Offers(cards, d)
             f == [s \in O |-> PortOf(d, cards[s])]
  <1>1. IsFiniteSet(O)
    <2>1. IsFiniteSet(1..Slots)
      <3>1. 1 \in Int /\ Slots \in Int
        BY StreamsAssumption
      <3> QED BY <3>1, FS_Interval
    <2>2. O \in SUBSET (1..Slots)
      BY DEF Offers, CardIndex
    <2> QED BY <2>1, <2>2, FS_Subset
  <1>2. ASSUME NEW s \in O, NEW r \in O, f[s] = f[r]
        PROVE  s = r
    <2>1. PortOf(d, cards[s]) = PortOf(d, cards[r])
      BY <1>2
    <2>2. cards[s] = cards[r]
      BY <2>1 DEF PortOf
    <2> QED BY <2>2 DEF Offers, Cards, Unique
  <1>3. NodesOf(cards, d) = {f[s] : s \in O}
    BY DEF NodesOf
  <1>4. f \in [O -> NodesOf(cards, d)] /\ DOMAIN f = O
    BY <1>3
  <1> HIDE DEF f
  <1>5. f \in Bijection(O, NodesOf(cards, d))
    BY <1>2, <1>3, <1>4 DEF Bijection, Injection, Surjection, IsInjective
  <1>6. Cardinality(NodesOf(cards, d)) = Cardinality(O)
    <2>1. ExistsBijection(O, NodesOf(cards, d))
      BY <1>5 DEF ExistsBijection
    <2> QED BY <1>1, <2>1, FS_Bijection
  <1> QED BY <1>1, <1>6, FS_CardinalityType

(* No two cards have the same place in the order, and none has a place     *)
(* beyond their number.                                                    *)
LEMMA RanksAreApart ==
  ASSUME pub.cards \in Cards, NEW d
  PROVE  /\ \A s \in Resolved(d) : Rank(d, s) \in 1..Cardinality(Offers(pub.cards, d))
         /\ \A s, r \in Resolved(d) : Rank(d, s) = Rank(d, r) => s = r
  <1> DEFINE O == Offers(pub.cards, d)
             Upto(s) == {r \in Resolved(d) : r <= s}
  <1>1. IsFiniteSet(O) /\ Cardinality(O) \in Nat
    BY NodesAreOffers
  <1>2. Resolved(d) \subseteq O /\ Resolved(d) \subseteq Nat
    BY StreamsAssumption DEF Resolved, Offers, CardIndex
  <1>3. \A s : IsFiniteSet(Upto(s)) /\ Cardinality(Upto(s)) \in Nat /\ Cardinality(Upto(s)) <= Cardinality(O)
    <2> TAKE s
    <2>1. Upto(s) \in SUBSET O
      BY <1>2
    <2> QED BY <1>1, <2>1, FS_Subset, FS_CardinalityType
  <1>4. \A s : Rank(d, s) = Cardinality(Upto(s))
    BY DEF Rank
  <1>5. ASSUME NEW s \in Resolved(d)
        PROVE  Rank(d, s) \in 1..Cardinality(O)
    <2>1. s \in Upto(s)
      BY <1>2
    <2>2. Cardinality(Upto(s)) # 0
      BY <1>3, <2>1, FS_EmptySet
    <2> HIDE DEF Upto, O
    <2> QED BY <1>1, <1>3, <1>4, <2>2
  <1>6. ASSUME NEW s \in Resolved(d), NEW r \in Resolved(d), s < r, Rank(d, s) = Rank(d, r)
        PROVE  FALSE
    <2>1. Upto(s) \in SUBSET Upto(r)
      BY <1>2, <1>6
    <2>2. Cardinality(Upto(s)) = Cardinality(Upto(r))
      BY <1>4, <1>6
    <2>3. r \in Upto(r) /\ r \notin Upto(s)
      BY <1>2, <1>6
    <2> HIDE DEF Upto
    <2>4. Upto(r) = Upto(s)
      BY <1>3, <2>1, <2>2, FS_Subset
    <2> QED BY <2>3, <2>4
  <1>7. ASSUME NEW s \in Resolved(d), NEW r \in Resolved(d), Rank(d, s) = Rank(d, r)
        PROVE  s = r
    <2>1. s \in Nat /\ r \in Nat
      BY <1>2
    <2>2. s < r \/ r < s \/ s = r
      BY <2>1
    <2> QED BY <1>6, <1>7, <2>2
  <1> QED BY <1>5, <1>7

(* What a stream of the new graph is.                                      *)
LEMMA AttachedIsSound ==
  ASSUME NEW d \in Dir
  PROVE  LET new == Attached(d) IN
         /\ DOMAIN new = {Rank(d, s) : s \in Resolved(d)} \cap 1..MaxStreams
         /\ \A i \in DOMAIN new :
              /\ StreamBody(d, new[i]) /\ new[i].pcm = "none"
              /\ \E s \in Resolved(d) :
                    /\ Rank(d, s) = i /\ new[i].node = PortOf(d, pub.cards[s])
                    /\ new[i].slot \in Resolves(pub.cards[s])
  <1> DEFINE R == {Rank(d, s) : s \in Resolved(d)} \cap 1..MaxStreams
             card(i) == CHOOSE s \in Resolved(d) : Rank(d, s) = i
             dev(i) == pub.cards[card(i)]
             slot(i) == CHOOSE s \in Resolves(dev(i)) : TRUE
             new == Attached(d)
  <1>1. new = [i \in R |-> FreshStream(PortOf(d, dev(i)), slot(i))]
    BY DEF Attached
  <1>2. ASSUME NEW i \in R
        PROVE  /\ StreamBody(d, new[i]) /\ new[i].pcm = "none"
               /\ \E s \in Resolved(d) :
                     /\ Rank(d, s) = i /\ new[i].node = PortOf(d, pub.cards[s])
                     /\ new[i].slot \in Resolves(pub.cards[s])
    <2>1. \E s \in Resolved(d) : Rank(d, s) = i
      OBVIOUS
    <2>2. card(i) \in Resolved(d) /\ Rank(d, card(i)) = i
      BY <2>1, Zenon
    <2>3. Resolves(dev(i)) # {}
      BY <2>2 DEF Resolved
    <2>4. slot(i) \in Resolves(dev(i))
      BY <2>3, Zenon
    <2>5. slot(i) \in CardIndex
      BY <2>4 DEF Resolves
    <2>6. new[i] = FreshStream(PortOf(d, dev(i)), slot(i))
      BY <1>1
    <2> HIDE DEF slot, new
    <2>7. StreamBody(d, new[i]) /\ new[i].pcm = "none" /\ new[i].slot = slot(i) /\ new[i].node = PortOf(d, dev(i))
      BY <2>5, <2>6, FreshIsSound
    <2> QED BY <2>2, <2>4, <2>7
  <1>3. DOMAIN new = R
    BY <1>1
  <1> QED BY <1>2, <1>3

(* They are each on a card of their own.                                   *)
LEMMA AttachedAreApart ==
  ASSUME GraphForm, NEW d \in Dir,
         NEW i \in DOMAIN Attached(d), NEW j \in DOMAIN Attached(d), Attached(d)[i].slot = Attached(d)[j].slot
  PROVE  i = j
  <1>1. PICK s \in Resolved(d) : Rank(d, s) = i /\ Attached(d)[i].slot \in Resolves(pub.cards[s])
    BY AttachedIsSound
  <1>2. PICK r \in Resolved(d) : Rank(d, r) = j /\ Attached(d)[j].slot \in Resolves(pub.cards[r])
    BY AttachedIsSound
  <1>3. pub.cards[s] = pub.cards[r]
    BY <1>1, <1>2 DEF Resolves
  <1>4. s \in CardIndex /\ r \in CardIndex /\ pub.cards[s] # NoDevice /\ pub.cards \in Cards
    BY DEF Resolved, Offers, GraphForm
  <1>5. s = r
    BY <1>3, <1>4 DEF Cards, Unique
  <1> QED BY <1>1, <1>2, <1>5

(* When the graph is of the cards that are listed, these are its cards.    *)
LEMMA AttachedIsMatched ==
  ASSUME GraphForm, NEW d \in Dir, pub.cards = listed.cards
  PROVE  LET new == Attached(d) IN
         /\ \A i \in DOMAIN new : new[i].slot \in Offers(pub.cards, d) /\ new[i].node = PortOf(d, pub.cards[new[i].slot])
         /\ Cardinality(NodesOf(pub.cards, d)) <= MaxStreams =>
              \A s \in Offers(pub.cards, d) : \E i \in DOMAIN new : new[i].slot = s
  <1> DEFINE new == Attached(d)
  <1>1. pub.cards \in Cards
    BY DEF GraphForm
  <1>2. ASSUME NEW s \in Resolved(d), NEW c \in Resolves(pub.cards[s])
        PROVE  c = s /\ s \in Offers(pub.cards, d)
    <2>1. pub.cards[c] = pub.cards[s] /\ c \in CardIndex
      BY DEF Resolves
    <2>2. s \in Offers(pub.cards, d) /\ s \in CardIndex /\ pub.cards[s] # NoDevice
      BY DEF Resolved, Offers
    <2> QED BY <1>1, <2>1, <2>2 DEF Cards, Unique
  <1>3. ASSUME NEW i \in DOMAIN new
        PROVE  new[i].slot \in Offers(pub.cards, d) /\ new[i].node = PortOf(d, pub.cards[new[i].slot])
    <2>1. PICK s \in Resolved(d) : new[i].node = PortOf(d, pub.cards[s]) /\ new[i].slot \in Resolves(pub.cards[s])
      BY AttachedIsSound
    <2> QED BY <1>2, <2>1
  <1>4. ASSUME Cardinality(NodesOf(pub.cards, d)) <= MaxStreams, NEW s \in Offers(pub.cards, d)
        PROVE  \E i \in DOMAIN new : new[i].slot = s
    <2>1. s \in Resolved(d)
      BY DEF Resolved, Resolves, Offers
    <2>2. Rank(d, s) \in 1..Cardinality(Offers(pub.cards, d))
      BY <1>1, <2>1, RanksAreApart
    <2>3. Cardinality(Offers(pub.cards, d)) \in Nat /\ Cardinality(Offers(pub.cards, d)) <= MaxStreams
      BY <1>1, <1>4, NodesAreOffers
    <2>4. Rank(d, s) \in 1..MaxStreams
      BY <2>2, <2>3, StreamsAssumption
    <2>5. Rank(d, s) \in DOMAIN new
      BY <2>1, <2>4, AttachedIsSound
    <2>6. PICK r \in Resolved(d) : Rank(d, r) = Rank(d, s) /\ new[Rank(d, s)].slot \in Resolves(pub.cards[r])
      BY <2>5, AttachedIsSound
    <2>7. r = s
      BY <1>1, <2>1, <2>6, RanksAreApart
    <2>8. new[Rank(d, s)].slot = s
      BY <1>2, <2>6, <2>7
    <2> QED BY <2>5, <2>8
  <1> QED BY <1>3, <1>4

-----------------------------------------------------------------------------
(* A new graph is taken.                                                   *)

(* Every handle is the handle of a stream: none is held once all of these  *)
(* have been closed.                                                       *)
LEMMA NoneIsHeld ==
  ASSUME StreamForm, BusyForm
  PROVE  busy \ UNION {Releases(o[1], streams[o[1]][o[2]]) :
                         o \in UNION {{<<d, i>> : i \in DOMAIN streams[d]} : d \in Dir}} = {}
  <1> DEFINE old == UNION {{<<d, i>> : i \in DOMAIN streams[d]} : d \in Dir}
             given == UNION {Releases(o[1], streams[o[1]][o[2]]) : o \in old}
  <1>1. ASSUME NEW b \in busy PROVE b \in given
    <2>1. PICK d \in Dir, c \in CardIndex : b = <<d, c>>
      BY DEF BusyForm
    <2>2. PICK i \in DOMAIN streams[d] : streams[d][i].slot = c /\ streams[d][i].pcm = "live"
      BY <2>1, HeldByStreams DEF BusyForm
    <2>3. b \in Releases(d, streams[d][i])
      BY <2>1, <2>2 DEF Releases
    <2> DEFINE o == <<d, i>>
    <2>4. o \in old /\ o[1] = d /\ o[2] = i
      <3>1. o[1] = d /\ o[2] = i
        OBVIOUS
      <3>2. o \in {<<d, k>> : k \in DOMAIN streams[d]}
        OBVIOUS
      <3> HIDE DEF o
      <3>3. o \in old
        BY <3>2
      <3> QED BY <3>1, <3>3
    <2>5. Releases(d, streams[d][i]) = Releases(o[1], streams[o[1]][o[2]])
      BY <2>4
    <2> HIDE DEF old, o
    <2> QED BY <2>3, <2>4, <2>5
  <1> HIDE DEF given
  <1>2. busy \ given = {}
    BY <1>1
  <1> QED BY <1>2 DEF given

(* rebuildRuntimeGraph(): each stream of the new graph is opened, or to be *)
(* tried again.                                                            *)
LEMMA RebuildIsSound ==
  ASSUME StreamsInv, Rebuild
  PROVE  /\ StreamForm' /\ BusyForm'
         /\ pub.cards = listed.cards => Matched(pub.cards, streams', place')
  <1> DEFINE new == [d \in Dir |-> Attached(d)]
             old  == UNION {{<<d, i>> : i \in DOMAIN streams[d]} : d \in Dir}
             held == busy \ UNION {Releases(o[1], streams[o[1]][o[2]]) : o \in old}
             able == {o \in Dir \X (1..MaxStreams) :
                        o[2] \in DOMAIN new[o[1]] /\ CanOpen(o[1], new[o[1]][o[2]], held)}
  <1>1. PICK ok \in SUBSET able :
          /\ streams' = [d \in Dir |-> [i \in DOMAIN new[d] |->
               IF <<d, i>> \in ok THEN Opened(d, new[d][i]) ELSE NotOpened(new[d][i])]]
          /\ busy' = held \cup {<<o[1], new[o[1]][o[2]].slot>> : o \in ok}
          /\ place' = [t \in ThingsOf(pub.cards) |->
               IF \E i \in DOMAIN new["in"] : new["in"][i].node = t
               THEN CHOOSE i \in DOMAIN new["in"] : new["in"][i].node = t ELSE 0]
    BY Zenon DEF Rebuild
  <1>2. StreamForm /\ BusyForm /\ GraphForm
    BY DEF StreamsInv
  <1>3. held = {}
    BY <1>2, NoneIsHeld
  <1>4. \A d \in Dir : new[d] = Attached(d)
    OBVIOUS
  <1>5. ASSUME NEW o \in ok
        PROVE  \E d \in Dir : \E i \in DOMAIN new[d] : o = <<d, i>>
    <2>1. o \in Dir \X (1..MaxStreams) /\ o[2] \in DOMAIN new[o[1]]
      OBVIOUS
    <2> QED BY <2>1
  <1> HIDE DEF new, held, able
  <1>6. ASSUME NEW d \in Dir
        PROVE  /\ DOMAIN streams'[d] = DOMAIN new[d] /\ DOMAIN new[d] \subseteq 1..MaxStreams
               /\ \A i \in DOMAIN new[d] :
                    /\ WholeStream(d, streams'[d][i]) /\ streams'[d][i].slot = new[d][i].slot
                    /\ streams'[d][i].node = new[d][i].node /\ new[d][i].slot \in CardIndex
                    /\ (streams'[d][i].pcm = "live") <=> (<<d, i>> \in ok)
    <2>1. streams'[d] = [i \in DOMAIN new[d] |->
            IF <<d, i>> \in ok THEN Opened(d, new[d][i]) ELSE NotOpened(new[d][i])]
      BY <1>1
    <2>2. ASSUME NEW i \in DOMAIN new[d]
          PROVE  /\ WholeStream(d, streams'[d][i]) /\ streams'[d][i].slot = new[d][i].slot
                 /\ streams'[d][i].node = new[d][i].node /\ new[d][i].slot \in CardIndex
                 /\ (streams'[d][i].pcm = "live") <=> (<<d, i>> \in ok)
      <3>1. StreamBody(d, new[d][i]) /\ new[d][i].pcm = "none"
        BY <1>4, AttachedIsSound
      <3>2. new[d][i].slot \in CardIndex
        BY <3>1 DEF StreamBody
      <3>3. CASE <<d, i>> \in ok
        <4>1. streams'[d][i] = Opened(d, new[d][i])
          BY <2>1, <3>3
        <4> QED BY <3>1, <3>2, <3>3, <4>1, OpenedIsWhole
      <3>4. CASE <<d, i>> \notin ok
        <4>1. streams'[d][i] = NotOpened(new[d][i])
          BY <2>1, <3>4
        <4> QED BY <3>1, <3>2, <3>4, <4>1, NotOpenedIsWhole
      <3> QED BY <3>3, <3>4
    <2>3. DOMAIN new[d] \subseteq 1..MaxStreams
      BY <1>4, AttachedIsSound
    <2>4. DOMAIN streams'[d] = DOMAIN new[d]
      BY <2>1
    <2> QED BY <2>2, <2>3, <2>4
  <1>7. DOMAIN streams' = Dir
    BY <1>1
  <1>8. ASSUME NEW d \in Dir, NEW i \in DOMAIN new[d], NEW j \in DOMAIN new[d], new[d][i].slot = new[d][j].slot
        PROVE  i = j
    BY <1>2, <1>4, <1>8, AttachedAreApart
  <1>9. StreamForm'
    <2>1. ASSUME NEW d \in Dir
          PROVE  /\ DOMAIN streams'[d] \subseteq 1..MaxStreams
                 /\ \A i \in DOMAIN streams'[d] : WholeStream(d, streams'[d][i])
                 /\ \A i, j \in DOMAIN streams'[d] : streams'[d][i].slot = streams'[d][j].slot => i = j
      BY <1>6, <1>8
    <2> QED BY <1>7, <2>1 DEF StreamForm
  <1>10. busy' = {<<o[1], new[o[1]][o[2]].slot>> : o \in ok}
    BY <1>1, <1>3
  <1>11. ASSUME NEW d \in Dir, NEW c \in CardIndex
         PROVE  (<<d, c>> \in busy') <=> \E i \in DOMAIN streams'[d] : streams'[d][i].slot = c /\ streams'[d][i].pcm = "live"
    <2>1. ASSUME <<d, c>> \in busy' PROVE \E i \in DOMAIN streams'[d] : streams'[d][i].slot = c /\ streams'[d][i].pcm = "live"
      <3>1. PICK o \in ok : <<d, c>> = <<o[1], new[o[1]][o[2]].slot>>
        BY <1>10, <2>1
      <3>2. PICK e \in Dir : \E i \in DOMAIN new[e] : o = <<e, i>>
        BY <1>5
      <3>3. PICK i \in DOMAIN new[e] : o = <<e, i>>
        BY <3>2
      <3>4. e = d /\ c = new[d][i].slot
        BY <3>1, <3>3
      <3> QED BY <1>6, <3>3, <3>4
    <2>2. ASSUME NEW i \in DOMAIN streams'[d], streams'[d][i].slot = c, streams'[d][i].pcm = "live"
          PROVE  <<d, c>> \in busy'
      <3> DEFINE o == <<d, i>>
      <3>1. o \in ok /\ c = new[d][i].slot
        BY <1>6, <2>2
      <3>2. <<d, c>> = <<o[1], new[o[1]][o[2]].slot>>
        BY <3>1
      <3> HIDE DEF o
      <3> QED BY <1>10, <3>1, <3>2
    <2> QED BY <2>1, <2>2
  <1>12. NoHandleIsLost'
    BY <1>11, HeldByStreams
  <1>13. busy' \subseteq Dir \X CardIndex
    <2>1. ASSUME NEW o \in ok PROVE <<o[1], new[o[1]][o[2]].slot>> \in Dir \X CardIndex
      <3>1. PICK e \in Dir : \E i \in DOMAIN new[e] : o = <<e, i>>
        BY <1>5
      <3>2. PICK i \in DOMAIN new[e] : o = <<e, i>>
        BY <3>1
      <3> QED BY <1>6, <3>2
    <2> QED BY <1>10, <2>1
  <1>14. ASSUME pub.cards = listed.cards
         PROVE  Matched(pub.cards, streams', place')
    <2>1. \A d \in Dir : \A i \in DOMAIN streams'[d] :
            streams'[d][i].slot \in Offers(pub.cards, d) /\ streams'[d][i].node = PortOf(d, pub.cards[streams'[d][i].slot])
      <3> TAKE d \in Dir
      <3> TAKE i \in DOMAIN streams'[d]
      <3>1. i \in DOMAIN new[d] /\ streams'[d][i].slot = new[d][i].slot /\ streams'[d][i].node = new[d][i].node
        BY <1>6
      <3>2. new[d][i].slot \in Offers(pub.cards, d) /\ new[d][i].node = PortOf(d, pub.cards[new[d][i].slot])
        BY <1>2, <1>4, <1>14, <3>1, AttachedIsMatched
      <3> QED BY <3>1, <3>2
    <2>2. ASSUME NEW d \in Dir, Cardinality(NodesOf(pub.cards, d)) <= MaxStreams, NEW s \in Offers(pub.cards, d)
          PROVE  \E i \in DOMAIN streams'[d] : streams'[d][i].slot = s
      <3>1. PICK i \in DOMAIN new[d] : new[d][i].slot = s
        BY <1>2, <1>4, <1>14, <2>2, AttachedIsMatched
      <3> QED BY <1>6, <3>1
    <2>3. DOMAIN place' = ThingsOf(pub.cards)
      BY <1>1
    <2>4. "in" \in Dir
      BY DEF Dir
    <2>5. ASSUME NEW t \in ThingsOf(pub.cards)
          PROVE  IF \E i \in DOMAIN streams'["in"] : streams'["in"][i].node = t
                 THEN place'[t] \in DOMAIN streams'["in"] /\ streams'["in"][place'[t]].node = t ELSE place'[t] = 0
      <3>1. place'[t] = IF \E i \in DOMAIN new["in"] : new["in"][i].node = t
                        THEN CHOOSE i \in DOMAIN new["in"] : new["in"][i].node = t ELSE 0
        BY <1>1
      <3>2. IF \E i \in DOMAIN new["in"] : new["in"][i].node = t
            THEN place'[t] \in DOMAIN new["in"] /\ new["in"][place'[t]].node = t ELSE place'[t] = 0
        BY <3>1, Zenon
      <3>3. DOMAIN streams'["in"] = DOMAIN new["in"] /\ \A i \in DOMAIN new["in"] : streams'["in"][i].node = new["in"][i].node
        BY <1>6, <2>4
      <3> QED BY <3>2, <3>3
    <2> QED BY <2>1, <2>2, <2>3, <2>5 DEF Matched
  <1> QED BY <1>9, <1>12, <1>13, <1>14 DEF BusyForm

(* The streams stay, and are found again.                                  *)
LEMMA RemapIsSound ==
  ASSUME StreamsInv, Remap
  PROVE  /\ StreamForm' /\ BusyForm'
         /\ pub.cards = listed.cards /\ Matched(pub.cards, streams, place) => Matched(pub.cards, streams', place')
  <1> DEFINE on(d, t) == {i \in DOMAIN streams[d] : t.dir = d /\ streams[d][i].slot \in Resolves(t.dev)}
             nodes(d, i) == {t \in ThingsOf(pub.cards) : i \in on(d, t)}
             Moved(d, i) == [streams[d][i] EXCEPT !.node = CHOOSE t \in nodes(d, i) : TRUE]
  <1>1. /\ place' = [t \in ThingsOf(pub.cards) |->
               IF on("in", t) = {} THEN 0 ELSE CHOOSE i \in on("in", t) : TRUE]
        /\ streams' = [d \in Dir |-> [i \in DOMAIN streams[d] |->
               IF nodes(d, i) = {} THEN streams[d][i] ELSE Moved(d, i)]]
        /\ busy' = busy
    BY DEF Remap
  <1>2. StreamForm /\ BusyForm /\ GraphForm
    BY DEF StreamsInv
  <1>3. /\ DOMAIN streams' = Dir
        /\ \A d \in Dir : DOMAIN streams'[d] = DOMAIN streams[d]
        /\ \A d \in Dir : \A i \in DOMAIN streams[d] :
             streams'[d][i] = IF nodes(d, i) = {} THEN streams[d][i] ELSE Moved(d, i)
    BY <1>1, Zenon
  <1> HIDE DEF on, nodes, Moved
  <1>4. ASSUME NEW d \in Dir, NEW i \in DOMAIN streams[d]
        PROVE  /\ WholeStream(d, streams'[d][i]) /\ streams'[d][i].slot = streams[d][i].slot
               /\ streams[d][i].slot \in CardIndex
               /\ (<<d, streams[d][i].slot>> \in busy') <=> (streams'[d][i].pcm = "live")
               /\ streams'[d][i].node = IF nodes(d, i) = {} THEN streams[d][i].node
                                        ELSE CHOOSE t \in nodes(d, i) : TRUE
    <2> DEFINE s == streams[d][i]
               n == CHOOSE t \in nodes(d, i) : TRUE
               o == [s EXCEPT !.node = n]
    <2>1. WholeStream(d, s) /\ ((<<d, s.slot>> \in busy) <=> (s.pcm = "live"))
      BY <1>2, LiveIsHeld DEF StreamForm
    <2>2. s.slot \in CardIndex /\ DOMAIN s = StreamFields
      BY <2>1 DEF WholeStream, StreamBody
    <2>3. CASE nodes(d, i) = {}
      <3>1. streams'[d][i] = s
        BY <1>3, <2>3, Zenon
      <3> QED BY <1>1, <2>1, <2>2, <2>3, <3>1
    <2>4. CASE nodes(d, i) # {}
      <3>1. streams'[d][i] = o
        BY <1>3, <2>4 DEF Moved
      <3> HIDE DEF n, s
      <3>2. /\ DOMAIN o = StreamFields /\ o.pcm = s.pcm /\ o.opens = s.opens /\ o.retry = s.retry
            /\ o.since = s.since /\ o.slot = s.slot /\ o.node = n /\ o.count = s.count
            /\ o.from = s.from /\ o.pending = s.pending /\ o.offset = s.offset /\ o.of = s.of
        BY <2>2 DEF StreamFields
      <3> HIDE DEF o
      <3>3. WholeStream(d, o)
        BY <2>1, <3>2 DEF WholeStream, StreamBody
      <3> QED BY <1>1, <2>1, <2>2, <2>4, <3>1, <3>2, <3>3 DEF n, s
    <2> QED BY <2>3, <2>4
  <1>5. SameSlots(streams, streams')
    BY <1>3, <1>4, Zenon DEF SameSlots
  <1>6. StreamForm'
    BY <1>2, <1>3, <1>4, <1>5, StreamsKeepForm
  <1>7. BusyForm'
    <2>1. busy' \subseteq busy
      BY <1>1
    <2> QED BY <1>2, <1>4, <1>5, <2>1, StreamsKeepHandles
  <1>8. ASSUME pub.cards = listed.cards, Matched(pub.cards, streams, place)
        PROVE  Matched(pub.cards, streams', place')
    <2>1. \A t \in ThingsOf(pub.cards) : t = PortOf(t.dir, t.dev) /\ t.dir \in Dir
      <3> TAKE t \in ThingsOf(pub.cards)
      <3>1. PICK d \in Dir : t \in {PortOf(d, pub.cards[s]) : s \in Offers(pub.cards, d)}
        BY DEF ThingsOf
      <3> QED BY <3>1 DEF PortOf
    <2>2. ASSUME NEW d \in Dir, NEW i \in DOMAIN streams[d]
          PROVE  /\ streams[d][i].node \in ThingsOf(pub.cards)
                 /\ \A t \in ThingsOf(pub.cards) : i \in on(d, t) <=> t = streams[d][i].node
      <3> DEFINE s == streams[d][i].slot
      <3>1. s \in Offers(pub.cards, d) /\ streams[d][i].node = PortOf(d, pub.cards[s])
        BY <1>8 DEF Matched
      <3>2. \A dev : s \in Resolves(dev) <=> pub.cards[s] = dev
        BY <1>8, <3>1 DEF Resolves, Offers
      <3>3. streams[d][i].node \in ThingsOf(pub.cards)
        BY <3>1 DEF ThingsOf
      <3> HIDE DEF s
      <3>4. ASSUME NEW t \in ThingsOf(pub.cards)
            PROVE  i \in on(d, t) <=> t = streams[d][i].node
        <4>1. i \in on(d, t) <=> t.dir = d /\ t.dev = pub.cards[s]
          BY <3>2 DEF s, on
        <4>2. t = PortOf(t.dir, t.dev)
          BY <2>1
        <4> QED BY <3>1, <4>1, <4>2 DEF PortOf
      <3> QED BY <3>3, <3>4
    <2>3. ASSUME NEW d \in Dir, NEW i \in DOMAIN streams[d]
          PROVE  streams'[d][i].node = streams[d][i].node
      <3>1. nodes(d, i) = {streams[d][i].node}
        BY <2>2 DEF nodes
      <3> QED BY <1>4, <3>1
    <2>4. SameShape(streams, streams')
      BY <1>5, <2>3 DEF SameShape, SameSlots
    <2>5. "in" \in Dir
      BY DEF Dir
    <2>6. ASSUME NEW t \in ThingsOf(pub.cards)
          PROVE  IF \E i \in DOMAIN streams["in"] : streams["in"][i].node = t
                 THEN place'[t] \in DOMAIN streams["in"] /\ streams["in"][place'[t]].node = t ELSE place'[t] = 0
      <3>1. on("in", t) = {i \in DOMAIN streams["in"] : streams["in"][i].node = t}
        BY <2>2, <2>5 DEF on
      <3>2. place'[t] = IF on("in", t) = {} THEN 0 ELSE CHOOSE i \in on("in", t) : TRUE
        BY <1>1
      <3>3. on("in", t) # {} => place'[t] \in on("in", t)
        BY <3>2, Zenon
      <3> QED BY <3>1, <3>2, <3>3
    <2>7. DOMAIN place' = ThingsOf(pub.cards)
      BY <1>1
    <2>8. Matched(pub.cards, streams, place')
      BY <1>8, <2>6, <2>7 DEF Matched
    <2> QED BY <2>4, <2>8, MatchedStays
  <1> QED BY <1>6, <1>7, <1>8

(* The audio thread takes the newest graph.                                *)
LEMMA TakeGraphKeeps == ASSUME StreamsInv, TakeGraph PROVE StreamsInv'
  <1>1. /\ snapshot' = pub /\ at' = Service("in", 1, streams') /\ UNCHANGED <<sysVars, size>>
        /\ IF TopologyChanged THEN Rebuild ELSE Remap
    BY DEF TakeGraph
  <1>2. GraphForm /\ PlaceForm /\ "in" \in Dir
    BY DEF StreamsInv, Dir
  <1>3. StreamForm' /\ BusyForm'
    BY <1>1, RebuildIsSound, RemapIsSound
  <1>4. ASSUME pub.top = listed.gen
        PROVE  Matched(listed.cards, streams', place')
    <2>1. pub.cards = listed.cards
      BY <1>2, <1>4 DEF GraphForm
    <2>2. CASE TopologyChanged
      BY <1>1, <2>1, <2>2, RebuildIsSound
    <2>3. CASE ~TopologyChanged
      <3>1. snapshot.top = listed.gen
        BY <1>4, <2>3 DEF TopologyChanged
      <3>2. Matched(pub.cards, streams, place)
        BY <2>1, <3>1 DEF StreamsInv
      <3> QED BY <1>1, <2>1, <2>3, <3>2, RemapIsSound
    <2> QED BY <2>2, <2>3
  <1>5. (snapshot.top = listed.gen => Matched(listed.cards, streams, place))'
    BY <1>1, <1>4 DEF sysVars
  <1>6. DOMAIN at' = {"pc", "dir", "i"} /\ at'.pc \in {"top", "sync", "render"} /\ at'.dir \in Dir
        /\ (at'.pc = "sync" => at'.i \in DOMAIN streams'[at'.dir])
    BY <1>1, <1>2, ServiceIsPlaced
  <1>7. PlaceForm'
    BY <1>1, <1>2, <1>6 DEF PlaceForm
  <1>8. GraphForm'
    BY <1>1, <1>2 DEF GraphForm, sysVars
  <1> QED BY <1>3, <1>5, <1>7, <1>8 DEF StreamsInv

-----------------------------------------------------------------------------
(* The property.                                                           *)

(* At the start, no graph has been taken and no stream is there.           *)
LEMMA StreamsStart == StreamsInit => StreamsInv
  <1> SUFFICES ASSUME StreamsInit PROVE StreamsInv
    OBVIOUS
  <1>1. /\ hw \in AtFirst /\ listed = [gen |-> 1, cards |-> hw]
        /\ pub = [gen |-> 1, top |-> 1, fx |-> FALSE, cards |-> hw]
        /\ bt = [pc |-> "idle", top |-> 0, fx |-> FALSE, cards |-> NoCards]
        /\ size = 0 /\ at = [pc |-> "top", dir |-> "in", i |-> 1]
        /\ snapshot = [gen |-> 0, top |-> 0, fx |-> FALSE, cards |-> NoCards]
        /\ streams = [d \in Dir |-> <<>>] /\ busy = {}
    BY DEF StreamsInit
  <1>2. hw \in Cards
    BY <1>1, StreamsAssumption DEF Cards, Unique, CardIndex
  <1>3. GraphForm
    BY <1>1, <1>2, NoCardsIsSound DEF GraphForm
  <1>4. DOMAIN streams = Dir /\ \A d \in Dir : DOMAIN streams[d] = {}
    BY <1>1
  <1>5. StreamForm
    BY <1>4 DEF StreamForm
  <1>6. BusyForm
    BY <1>1, <1>4, HeldByStreams DEF BusyForm
  <1>7. PlaceForm
    <2>1. 0 \in 0..MaxSize /\ "in" \in Dir
      BY StreamsAssumption DEF Dir
    <2> QED BY <1>1, <2>1 DEF PlaceForm
  <1>8. snapshot.top # listed.gen
    BY <1>1
  <1> QED BY <1>3, <1>5, <1>6, <1>7, <1>8 DEF StreamsInv

(* Every step keeps the streams as they should be.                         *)
LEMMA StreamsStep == StreamsInv /\ [StreamsNext]_streamsVars => StreamsInv'
  <1> SUFFICES ASSUME StreamsInv, [StreamsNext]_streamsVars PROVE StreamsInv'
    OBVIOUS
  <1>1. CASE UNCHANGED streamsVars
    <2>1. UNCHANGED <<hw, listed, pub, bt, size, at, snapshot, streams, place, busy>>
      BY <1>1 DEF streamsVars, sysVars, audioVars
    <2>2. GraphForm'
      BY <2>1 DEF StreamsInv, GraphForm
    <2> QED BY <2>1, <2>2, PublishersKeep DEF audioVars
  <1>2. CASE \E s \in CardIndex : UnplugCard(s) \/ \E d \in Device : PlugCard(s, d)
    BY <1>2, UnplugCardKeeps, PlugCardKeeps, Zenon
  <1>3. CASE RescanCards \/ ReloadThings \/ Edit \/ BtBegins \/ BtLists \/ BtPublishes
    BY <1>3, RescanCardsKeeps, ReloadThingsKeeps, EditKeeps, BtBeginsKeeps, BtListsKeeps, BtPublishesKeeps
  <1>4. CASE Audio
    BY <1>4, TakeGraphKeeps, StartBlockKeeps, StayOpenKeeps, WaitToReopenKeeps, ReopenKeeps, CannotReopenKeeps,
       CaptureKeeps, RenderKeeps, PlayKeeps DEF Audio
  <1> QED BY <1>1, <1>2, <1>3, <1>4, Zenon DEF StreamsNext

(* The invariant says what is promised.                                    *)
LEMMA StreamsInvIsEnough == StreamsInv => StreamsAreKept
  <1> SUFFICES ASSUME StreamsInv PROVE StreamsAreKept
    OBVIOUS
  <1>1. StreamForm /\ GraphForm /\ BusyForm /\ "in" \in Dir
    BY DEF StreamsInv, Dir
  <1>2. NoHandleIsLost
    BY <1>1 DEF BusyForm
  <1>3. ASSUME NEW d \in Dir, NEW r \in All(d)
        PROVE  WholeStream(d, r) /\ \E i \in DOMAIN streams[d] : r = streams[d][i]
    <2>1. PICK i \in DOMAIN streams[d] : r = streams[d][i]
      BY DEF All, Range
    <2> QED BY <1>1, <2>1 DEF StreamForm
  <1>4. BlocksStayWhole
    BY <1>3 DEF BlocksStayWhole, WholeStream, StreamBody
  <1>5. OfflineIsRetried
    BY <1>3 DEF OfflineIsRetried, WholeStream
  <1>6. ASSUME snapshot.gen = pub.gen, pub.top = listed.gen
        PROVE  /\ pub.cards = listed.cards
               /\ \A d \in Dir :
                   /\ \A r \in All(d) : r.slot \in Resolves(r.node.dev)
                   /\ \A i, j \in DOMAIN streams[d] : streams[d][i].slot = streams[d][j].slot => i = j
                   /\ Cardinality(SettledThings(d)) <= MaxStreams =>
                        {r.node : r \in All(d)} = SettledThings(d)
               /\ \A t \in DOMAIN place : place[t] # 0 => streams["in"][place[t]].node = t
               /\ \A i \in DOMAIN streams["in"] : Heard(i)
    <2>1. pub.cards = listed.cards /\ pub.cards \in Cards /\ Matched(pub.cards, streams, place)
      BY <1>1, <1>6 DEF GraphForm, StreamsInv
    <2>2. ASSUME NEW d \in Dir, NEW i \in DOMAIN streams[d]
          PROVE  /\ streams[d][i].slot \in Offers(pub.cards, d)
                 /\ streams[d][i].node = PortOf(d, pub.cards[streams[d][i].slot])
                 /\ streams[d][i].slot \in Resolves(streams[d][i].node.dev)
      <3>1. /\ streams[d][i].slot \in Offers(pub.cards, d)
            /\ streams[d][i].node = PortOf(d, pub.cards[streams[d][i].slot])
        BY <2>1 DEF Matched
      <3>2. streams[d][i].node.dev = pub.cards[streams[d][i].slot]
        BY <3>1 DEF PortOf
      <3> QED BY <2>1, <3>1, <3>2 DEF Resolves, Offers
    <2>3. ASSUME NEW d \in Dir
          PROVE  /\ \A r \in All(d) : r.slot \in Resolves(r.node.dev)
                 /\ \A i, j \in DOMAIN streams[d] : streams[d][i].slot = streams[d][j].slot => i = j
                 /\ Cardinality(SettledThings(d)) <= MaxStreams =>
                      {r.node : r \in All(d)} = SettledThings(d)
      <3>1. \A r \in All(d) : r.slot \in Resolves(r.node.dev)
        BY <1>3, <2>2
      <3>2. \A i, j \in DOMAIN streams[d] : streams[d][i].slot = streams[d][j].slot => i = j
        BY <1>1 DEF StreamForm
      <3>3. SettledThings(d) = NodesOf(pub.cards, d)
        BY DEF SettledThings, NodesOf
      <3>4. ASSUME Cardinality(NodesOf(pub.cards, d)) <= MaxStreams
            PROVE  {r.node : r \in All(d)} = NodesOf(pub.cards, d)
        <4>1. ASSUME NEW r \in All(d) PROVE r.node \in NodesOf(pub.cards, d)
          BY <1>3, <2>2 DEF NodesOf
        <4>2. ASSUME NEW n \in NodesOf(pub.cards, d) PROVE \E r \in All(d) : r.node = n
          <5>1. PICK s \in Offers(pub.cards, d) : n = PortOf(d, pub.cards[s])
            BY DEF NodesOf
          <5>2. PICK i \in DOMAIN streams[d] : streams[d][i].slot = s
            BY <2>1, <3>4 DEF Matched
          <5>3. streams[d][i] \in All(d)
            BY DEF All, Range
          <5> QED BY <2>2, <5>1, <5>2, <5>3
        <4> QED BY <4>1, <4>2
      <3> QED BY <3>1, <3>2, <3>3, <3>4
    <2>4. \A t \in DOMAIN place : place[t] # 0 => streams["in"][place[t]].node = t
      <3> TAKE t \in DOMAIN place
      <3>1. t \in ThingsOf(pub.cards)
        BY <2>1 DEF Matched
      <3>2. IF \E i \in DOMAIN streams["in"] : streams["in"][i].node = t
            THEN place[t] \in DOMAIN streams["in"] /\ streams["in"][place[t]].node = t ELSE place[t] = 0
        BY <2>1, <3>1, Zenon DEF Matched
      <3> QED BY <3>2
    <2>5. ASSUME NEW i \in DOMAIN streams["in"]
          PROVE  Heard(i)
      <3> DEFINE t == streams["in"][i].node
      <3>1. t \in NodesOf(pub.cards, "in")
        BY <1>1, <2>2 DEF NodesOf
      <3>2. t \in ThingsOf(pub.cards)
        BY <1>1, <3>1 DEF ThingsOf, NodesOf
      <3> HIDE DEF t
      <3>3. IF \E j \in DOMAIN streams["in"] : streams["in"][j].node = t
            THEN place[t] \in DOMAIN streams["in"] /\ streams["in"][place[t]].node = t ELSE place[t] = 0
        BY <2>1, <3>2, Zenon DEF Matched
      <3>4. place[t] \in DOMAIN streams["in"] /\ streams["in"][place[t]].node = streams["in"][i].node
        BY <3>3 DEF t
      <3> DEFINE j == place[t]
                 a == streams["in"][i].slot
                 b == streams["in"][j].slot
      <3>5. PortOf("in", pub.cards[a]) = PortOf("in", pub.cards[b]) /\ a \in Offers(pub.cards, "in") /\ b \in Offers(pub.cards, "in")
        BY <1>1, <2>2, <3>4
      <3>6. pub.cards[a] = pub.cards[b]
        BY <3>5 DEF PortOf
      <3>7. a = b
        BY <2>1, <3>5, <3>6 DEF Offers, Cards, Unique
      <3>8. i = j
        BY <1>1, <3>4, <3>7 DEF StreamForm
      <3>9. t \in DOMAIN place
        BY <2>1, <3>2 DEF Matched
      <3> QED BY <3>8, <3>9 DEF Heard
    <2> QED BY <2>1, <2>3, <2>4, <2>5
  <1>7. StreamsMatchGraph
    BY <1>6 DEF StreamsMatchGraph
  <1> QED BY <1>2, <1>4, <1>5, <1>7 DEF StreamsAreKept

(* Whatever cards come and go, whichever calls fail, and whenever graphs   *)
(* are published: every handle has its place, the streams are those of the *)
(* newest graph once it is taken, no card hears the rest of a block that   *)
(* was made for another handle, and what is offline is tried again.        *)
THEOREM StreamsStay == StreamsSpec => []StreamsAreKept
  <1>1. StreamsSpec => []StreamsInv
    BY StreamsStart, StreamsStep, PTL DEF StreamsSpec
  <1> QED BY <1>1, StreamsInvIsEnough, PTL

(* The bound on events never runs below zero, and the tables stay in their *)
(* limits (kMaxCaptureStreams, kMaxPlaybackStreams).                       *)
THEOREM StreamsKeepType == StreamsSpec => []StreamsTyped
  <1>1. StreamsSpec => []StreamsInv
    BY StreamsStart, StreamsStep, PTL DEF StreamsSpec
  <1>2. StreamsInit => cardEvents \in Nat
    BY StreamsAssumption DEF StreamsInit
  <1>3. cardEvents \in Nat /\ [StreamsNext]_streamsVars => (cardEvents \in Nat)'
    <2> SUFFICES ASSUME cardEvents \in Nat, [StreamsNext]_streamsVars PROVE cardEvents' \in Nat
      OBVIOUS
    <2>1. CardEvent => cardEvents' \in Nat
      BY DEF CardEvent
    <2>2. ASSUME Rebuild PROVE CardEvent \/ UNCHANGED cardEvents
      BY <2>2, Zenon DEF Rebuild
    <2>3. ASSUME TakeGraph PROVE CardEvent \/ UNCHANGED cardEvents
      BY <2>2, <2>3 DEF TakeGraph, Remap
    <2>4. ASSUME Capture PROVE CardEvent \/ UNCHANGED cardEvents
      BY <2>4, Zenon DEF Capture, Fails
    <2>5. ASSUME Render PROVE CardEvent \/ UNCHANGED cardEvents
      BY <2>5, Zenon DEF Render
    <2>6. ASSUME Play PROVE CardEvent \/ UNCHANGED cardEvents
      BY <2>6, Zenon DEF Play, Fails
    <2>7. ASSUME StartBlock \/ StayOpen \/ WaitToReopen \/ Reopen \/ CannotReopen PROVE CardEvent \/ UNCHANGED cardEvents
      BY <2>7, Zenon DEF StartBlock, StayOpen, WaitToReopen, Reopen, CannotReopen
    <2>8. ASSUME RescanCards \/ ReloadThings \/ Edit \/ BtBegins \/ BtLists \/ BtPublishes PROVE CardEvent \/ UNCHANGED cardEvents
      BY <2>8, Zenon DEF RescanCards, ReloadThings, Edit, BtBegins, BtLists, BtPublishes
    <2>9. ASSUME \E s \in CardIndex : UnplugCard(s) \/ \E d \in Device : PlugCard(s, d) PROVE CardEvent
      BY <2>9, Zenon DEF UnplugCard, PlugCard
    <2>10. UNCHANGED streamsVars => UNCHANGED cardEvents
      BY DEF streamsVars
    <2> QED BY <2>1, <2>3, <2>4, <2>5, <2>6, <2>7, <2>8, <2>9, <2>10 DEF StreamsNext, Audio
  <1>4. StreamsInv /\ cardEvents \in Nat => StreamsTyped
    <2> SUFFICES ASSUME StreamsInv, cardEvents \in Nat PROVE StreamsTyped
      OBVIOUS
    <2> QED BY DEF StreamsInv, StreamForm, GraphForm, BusyForm, PlaceForm, Cards, StreamsTyped
  <1>5. StreamsSpec => [](cardEvents \in Nat)
    BY <1>2, <1>3, PTL DEF StreamsSpec
  <1> QED BY <1>1, <1>4, <1>5, PTL
=============================================================================
