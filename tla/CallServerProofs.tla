-------------------------- MODULE CallServerProofs --------------------------
(***************************************************************************)
(* Proofs about CallServer: for any number of calls, browsers, requests    *)
(* and bridges, a live call is published, an ended one leaves the          *)
(* registry, and every open bridge has an owner.                           *)
(*                                                                         *)
(* ServerInv is inductive.  Most steps only move one goroutine on, so the  *)
(* first part says what such a step has to respect (Quiet) and shows it of *)
(* a goroutine that goes on (Then) or starts; the second part takes the    *)
(* actions one by one.                                                     *)
(***************************************************************************)
EXTENDS CallServer, SequenceTheorems, TLAPS

-----------------------------------------------------------------------------
(* Goroutines. *)

LEMMA ThreadTypes ==
  ASSUME ServerInv, NEW t \in Threads
  PROVE  /\ th[t] \in Goroutines /\ th[t].k \in Seq(Steps) /\ th[t].c \in Calls \cup {NoCall}
         /\ th[t].left \subseteq Calls /\ th[t].b \in Bridges \cup {NoBridge}
         /\ th[t].o \in Operators \cup {NoOwner} /\ th[t].snap \in Operators \cup {NoOwner}
         /\ OrderOf(t, th[t], reg)
BY DEF ServerInv, TypeOK, Goroutines, Ordered

(* A goroutine's next step is the first it has left. *)
LEMMA AtFacts ==
  ASSUME ServerInv, NEW t \in Threads, NEW l, At(t, l)
  PROVE  /\ th[t].k # <<>> /\ 1 \in DOMAIN th[t].k /\ th[t].k[1] = l /\ Head(th[t].k) = l
         /\ Len(th[t].k) \in Nat /\ Len(th[t].k) >= 1 /\ DOMAIN th[t].k = 1 .. Len(th[t].k)
<1>1. PICK k \in Seq(Steps) : k = th[t].k
  BY ThreadTypes
<1>2. k # <<>> /\ Head(k) = l
  BY <1>1 DEF At, IsIdle
<1>3. 1 \in DOMAIN k /\ k[1] = l /\ Len(k) \in Nat /\ Len(k) >= 1 /\ DOMAIN k = 1 .. Len(k)
  BY <1>2
<1> QED
  BY <1>1, <1>2, <1>3

(* The steps ks and then the rest. *)
LEMMA ThenSeq ==
  ASSUME NEW k \in Seq(Steps), k # <<>>, NEW ks \in Seq(Steps), NEW r, r = ks \o Tail(k)
  PROVE  /\ r \in Seq(Steps) /\ Len(r) = Len(ks) + Len(k) - 1
         /\ \A i \in DOMAIN r : i <= Len(ks) => i \in DOMAIN ks /\ r[i] = ks[i]
         /\ \A i \in DOMAIN r : i > Len(ks) =>
              /\ i - Len(ks) + 1 \in DOMAIN k /\ i - Len(ks) + 1 > 1 /\ r[i] = k[i - Len(ks) + 1]
         /\ \A i \in DOMAIN ks : i \in DOMAIN r /\ r[i] = ks[i]
         /\ \A i \in DOMAIN k : i > 1 => i - 1 + Len(ks) \in DOMAIN r /\ r[i - 1 + Len(ks)] = k[i]
OBVIOUS

(* What goroutines push on what they have left. *)
Pushes == {<<>>, <<"remove", "endCall">>, <<"upsert">>, <<"note">>, <<"close">>, <<"OnStateChange">>,
           <<"OnStateChange", "remove", "endCall">>, <<"EndCall">>}

LEMMA PushFacts ==
  ASSUME NEW ks \in Pushes
  PROVE  /\ ks \in Seq(Steps) /\ Len(ks) \in 0 .. 3
         /\ \A i \in DOMAIN ks :
              /\ ks[i] \in {"remove", "endCall", "upsert", "note", "close", "OnStateChange", "EndCall"}
              /\ ks[i] = "endCall" => i > 1 /\ ks[i - 1] = "remove"
              /\ ks[i] \in {"OnStateChange", "upsert", "note"} => i = 1
         /\ \A i \in DOMAIN ks : ks[i] = "note" => ks = <<"note">>
<1>1. CASE ks = <<>>
  BY <1>1 DEF Steps
<1>2. CASE ks = <<"remove", "endCall">>
  BY <1>2 DEF Steps
<1>3. CASE ks = <<"upsert">>
  BY <1>3 DEF Steps
<1>4. CASE ks = <<"note">>
  BY <1>4 DEF Steps
<1>5. CASE ks = <<"close">>
  BY <1>5 DEF Steps
<1>6. CASE ks = <<"OnStateChange">>
  BY <1>6 DEF Steps
<1>7. CASE ks = <<"OnStateChange", "remove", "endCall">>
  BY <1>7 DEF Steps
<1>8. CASE ks = <<"EndCall">>
  BY <1>8 DEF Steps
<1> QED
  BY <1>1, <1>2, <1>3, <1>4, <1>5, <1>6, <1>7, <1>8 DEF Pushes

(* The heads of the goroutines that create or announce a call. *)
CreateSteps == {"cap", "createCall", "StartCall", "HandleCallOffer"}
AnnounceSteps == {"OnIncoming", "inbound", "emitState"}

LEMMA Heads ==
  ASSUME NEW k
  PROVE  /\ k \in Creating => k # <<>> /\ Head(k) \in CreateSteps
         /\ k \in Registering => Head(k) \in {"cap", "createCall"}
         /\ k \in Beginning => Head(k) \in {"StartCall", "HandleCallOffer"}
         /\ k \in Announcements => k # <<>> /\ Head(k) \in AnnounceSteps
BY DEF Creating, Registering, Beginning, Announcements, CreateSteps, AnnounceSteps

(* A goroutine past that has no such step left. *)
LEMMA PastCreation ==
  ASSUME ServerInv, NEW t \in Threads, ~IsIdle(t), Head(th[t].k) \notin CreateSteps \cup AnnounceSteps
  PROVE  /\ \A i \in DOMAIN th[t].k : th[t].k[i] \notin CreateSteps \cup AnnounceSteps
         /\ th[t].k \notin Creating /\ th[t].k \notin Announcements
<1>1. th[t].k \notin Creating /\ th[t].k \notin Announcements
  BY Heads
<1>2. ~Pending(th[t], CreateSteps) /\ ~Pending(th[t], AnnounceSteps)
  BY <1>1, ThreadTypes DEF OrderOf, CreateSteps, AnnounceSteps
<1> QED
  BY <1>1, <1>2 DEF Pending

-----------------------------------------------------------------------------
(* What a step must respect, one part of ServerInv after the other.  Each part
   looks at the goroutines the step changes, w being what one becomes. *)

LEMMA OrderKept ==
  ASSUME ServerInv,
         \A u \in Threads : th'[u] = th[u] \/ OrderOf(u, th[u], reg)',
         \A u \in Threads : th'[u] = th[u] /\ th[u].c \in reg' => th[u].c \in reg
  PROVE  Ordered'
<1> SUFFICES ASSUME NEW u \in Threads PROVE OrderOf(u, th[u], reg)'
  BY DEF Ordered
<1>1. CASE th'[u] = th[u]
  BY <1>1, ThreadTypes DEF OrderOf, Pending, Only
<1>2. CASE OrderOf(u, th[u], reg)'
  BY <1>2
<1> QED
  BY <1>1, <1>2

BirthQuiet(t, w) ==
  /\ th[t].k \notin Beginning /\ w.k \notin Beginning
  /\ w.k \in Registering => th[t].k \in Registering /\ w.c = th[t].c
  /\ w.left \subseteq th[t].left
  /\ w.c \in Calls /\ st[w.c] = "none" => w.k \in Creating \/ Only(w, Draining)
  /\ \/ w.c = th[t].c \/ w.c \in th[t].left \/ w.c \notin Calls
     \/ \A u \in Threads : th[u].k \in Registering => th[u].c # w.c

LEMMA CreatorsCall ==
  ASSUME ServerInv, NEW t \in Threads, th[t].k \in Creating
  PROVE  th[t].c \in Calls
<1>1. th[t].k # <<>> /\ Head(th[t].k) \in CreateSteps
  BY Heads
<1>2. th[t].k[1] \in CreateSteps /\ 1 \in DOMAIN th[t].k
  BY <1>1, AtFacts DEF At, IsIdle
<1> QED
  BY <1>2, ThreadTypes DEF OrderOf, Only, CreateSteps

LEMMA BirthsKept ==
  ASSUME ServerInv,
         \A c \in Calls : st'[c] = "none" <=> st[c] = "none", reg' \subseteq reg,
         \A c \in Calls : st[c] = "none" => Unpublished(c)',
         \A u \in Threads : th'[u] = th[u] \/ BirthQuiet(u, th'[u])
  PROVE  Births'
<1>1. \A c \in Calls : st'[c] = "none" => Unpublished(c)'
  OBVIOUS
<1>2. ASSUME NEW c \in Calls, st'[c] = "none", c \in reg' \/ \E u \in Threads : c \in th'[u].left
      PROVE  \E t \in Threads : th'[t].c = c /\ th'[t].k \in Beginning
  <2>1. st[c] = "none"
    BY <1>2
  <2>2. c \in reg \/ \E u \in Threads : c \in th[u].left
    BY <1>2 DEF BirthQuiet
  <2>3. PICK t \in Threads : th[t].c = c /\ th[t].k \in Beginning
    BY <2>1, <2>2 DEF ServerInv, Births
  <2>4. th'[t] = th[t]
    BY <2>3 DEF BirthQuiet
  <2> QED
    BY <2>3, <2>4
<1>3. ASSUME NEW t \in Threads, th'[t].k \in Creating
      PROVE  /\ th[t].k \in Creating /\ th'[t].c = th[t].c /\ th[t].c \in Calls
             /\ st[th[t].c] = "none"
             /\ \A u \in Threads \ {t} : th[u].c = th[t].c => Only(th[u], Draining)
             /\ th'[t].k \in Registering => th[t].k \in Registering
  <2>1. th[t].k \in Creating /\ th'[t].c = th[t].c /\ (th'[t].k \in Registering => th[t].k \in Registering)
    BY <1>3 DEF BirthQuiet, Creating
  <2> QED
    BY <2>1, CreatorsCall DEF ServerInv, Births
<1>4. ASSUME NEW t \in Threads, th[t].k \in Registering
      PROVE  /\ th[t].c \notin reg
             /\ \A u \in Threads : th[t].c \notin th[u].left /\ (u # t => th[u].c # th[t].c)
  BY <1>4 DEF ServerInv, Births
<1>5. ASSUME NEW t \in Threads, th'[t].k \in Creating
      PROVE  /\ st'[th'[t].c] = "none"
             /\ \A u \in Threads \ {t} : th'[u].c = th'[t].c => Only(th'[u], Draining)
  <2>1. st'[th'[t].c] = "none"
    BY <1>3, <1>5
  <2>2. ASSUME NEW u \in Threads \ {t}, th'[u].c = th'[t].c PROVE Only(th'[u], Draining)
    <3>1. CASE th'[u] = th[u]
      BY <1>3, <1>5, <2>2, <3>1
    <3>2. CASE BirthQuiet(u, th'[u])
      <4>1. th'[u].k \in Creating \/ Only(th'[u], Draining)
        BY <1>3, <1>5, <2>2, <3>2 DEF BirthQuiet
      <4>2. ~(th'[u].k \in Creating)
        <5> SUFFICES ASSUME th'[u].k \in Creating PROVE FALSE
          OBVIOUS
        <5>1. th[u].k \in Registering /\ th[u].c = th'[u].c
          BY <3>2 DEF BirthQuiet, Creating
        <5> QED
          BY <1>3, <1>4, <1>5, <2>2, <5>1
      <4> QED
        BY <4>1, <4>2
    <3> QED
      BY <3>1, <3>2
  <2> QED
    BY <2>1, <2>2
<1>6. ASSUME NEW t \in Threads, th'[t].k \in Registering
      PROVE  /\ th'[t].c \notin reg'
             /\ \A u \in Threads : th'[t].c \notin th'[u].left /\ (u # t => th'[u].c # th'[t].c)
  <2>1. th'[t].k \in Creating
    BY <1>6 DEF Creating
  <2>2. th[t].k \in Registering /\ th'[t].c = th[t].c /\ th[t].c \in Calls
    BY <1>3, <1>6, <2>1
  <2>3. /\ th[t].c \notin reg
        /\ \A u \in Threads : th[t].c \notin th[u].left /\ (u # t => th[u].c # th[t].c)
    BY <1>4, <2>2
  <2>4. ASSUME NEW u \in Threads
        PROVE  th[t].c \notin th'[u].left /\ (u # t => th'[u].c # th[t].c)
    <3>1. CASE th'[u] = th[u]
      BY <2>3, <3>1
    <3>2. CASE BirthQuiet(u, th'[u])
      <4>1. th[t].c \notin th'[u].left
        BY <2>3, <3>2 DEF BirthQuiet
      <4>2. ASSUME u # t PROVE th'[u].c # th[t].c
        BY <2>2, <2>3, <3>2, <4>2 DEF BirthQuiet
      <4> QED
        BY <4>1, <4>2
    <3> QED
      BY <3>1, <3>2
  <2> QED
    BY <2>2, <2>3, <2>4
<1>7. ASSUME NEW t \in Threads, th'[t].c \in Calls, st'[th'[t].c] = "none"
      PROVE  th'[t].k \in Creating \/ Only(th'[t], Draining)
  <2>1. st[th'[t].c] = "none"
    BY <1>7
  <2>2. CASE th'[t] = th[t]
    BY <1>7, <2>1, <2>2 DEF ServerInv, Births
  <2>3. CASE BirthQuiet(t, th'[t])
    BY <1>7, <2>1, <2>3 DEF BirthQuiet
  <2> QED
    BY <2>2, <2>3
<1> QED
  BY <1>1, <1>2, <1>5, <1>6, <1>7 DEF Births, Only

RingQuiet(t, w) ==
  /\ t \in Calls => th[t] # Idle /\ (w = Idle \/ w.c = t)
  /\ Pending(w, {"record"}) => Pending(th[t], {"record"}) /\ w.c = th[t].c

LEMMA RingKept ==
  ASSUME ServerInv, timer' = timer,
         \A u \in Threads : th'[u] = th[u] \/ RingQuiet(u, th'[u])
  PROVE  RingOnce'
<1>1. \A c \in Calls : c \in Threads
  BY DEF Threads
<1>2. \A c \in Calls : th[c] = Idle => th'[c] = Idle
  BY <1>1 DEF RingQuiet
<1>3. \A c \in timer' : th'[c] = Idle
  BY <1>2 DEF ServerInv, RingOnce, TypeOK
<1>4. \A c \in Calls : th'[c] = Idle \/ th'[c].c = c
  BY <1>1 DEF ServerInv, RingOnce, RingQuiet
<1>5. ASSUME NEW t \in Threads, Pending(th'[t], {"record"})
      PROVE  Pending(th[t], {"record"}) /\ th'[t].c = th[t].c
  BY <1>5 DEF RingQuiet
<1>6. ASSUME NEW t \in Threads, Pending(th'[t], {"record"})
      PROVE  /\ th'[t].c \in Outbound \ timer' /\ th'[th'[t].c] = Idle
             /\ \A u \in Threads \ {t} : Pending(th'[u], {"record"}) => th'[u].c # th'[t].c
  <2>1. /\ th[t].c \in Outbound \ timer /\ th[th[t].c] = Idle
        /\ \A u \in Threads \ {t} : Pending(th[u], {"record"}) => th[u].c # th[t].c
    BY <1>5, <1>6 DEF ServerInv, RingOnce
  <2>2. th'[t].c = th[t].c /\ th[t].c \in Calls
    BY <1>5, <1>6, <2>1 DEF Calls
  <2> QED
    BY <1>2, <1>5, <2>1, <2>2
<1> QED
  BY <1>3, <1>4, <1>6 DEF RingOnce, Pending, Idle

LockQuiet(t, w) ==
  /\ \A c \in Calls : lock[c] = t =>
       w.c = c /\ Inside(w) /\ (st[c] = "ended" \/ Head(w.k) \in {"OnStateChange", "upsert"})
  /\ w.k # <<>> /\ Head(w.k) \in {"OnStateChange", "upsert"} => lock[w.c] = t
  /\ w.k # <<>> /\ Head(w.k) = "upsert" => st[w.c] # "ended"

LEMMA LockedKept ==
  ASSUME ServerInv, UNCHANGED <<st, lock>>,
         \A u \in Threads : th'[u] = th[u] \/ LockQuiet(u, th'[u])
  PROVE  Locked'
<1>1. ASSUME NEW c \in Calls, lock'[c] # NoThread
      PROVE  /\ th'[lock'[c]].c = c /\ Inside(th'[lock'[c]])
             /\ st'[c] = "ended" \/ Head(th'[lock'[c]].k) \in {"OnStateChange", "upsert"}
  <2>1. PICK t \in Threads : t = lock[c] /\ lock' = lock /\ st' = st
    BY <1>1 DEF ServerInv, TypeOK
  <2>2. /\ th[t].c = c /\ Inside(th[t])
        /\ st[c] = "ended" \/ Head(th[t].k) \in {"OnStateChange", "upsert"}
    BY <1>1, <2>1 DEF ServerInv, Locked
  <2>3. CASE th'[t] = th[t]
    BY <2>1, <2>2, <2>3
  <2>4. CASE LockQuiet(t, th'[t])
    BY <2>1, <2>4 DEF LockQuiet
  <2> QED
    BY <2>3, <2>4
<1>2. ASSUME NEW t \in Threads
      PROVE  /\ (At(t, "OnStateChange") \/ At(t, "upsert"))' => lock'[th'[t].c] = t
             /\ At(t, "upsert")' => st'[th'[t].c] # "ended"
  <2>1. CASE th'[t] = th[t]
    BY <2>1 DEF ServerInv, Locked, At, IsIdle
  <2>2. CASE LockQuiet(t, th'[t])
    BY <2>2 DEF LockQuiet, At, IsIdle
  <2> QED
    BY <2>1, <2>2
<1> QED
  BY <1>1, <1>2 DEF Locked, Inside, At, IsIdle

(* Goroutine t enters or leaves the engine of d, and is in no other. *)
LEMMA LockedMoved ==
  ASSUME ServerInv, NEW t \in Threads, NEW d \in Calls,
         \A c \in Calls \ {d} : lock'[c] = lock[c] /\ st'[c] = st[c],
         \A c \in Calls \ {d} : lock[c] # t,
         lock[d] \in {NoThread, t}, lock'[d] \in {NoThread, t},
         \A u \in Threads \ {t} : th'[u] = th[u],
         lock'[d] = t => /\ th'[t].c = d /\ Inside(th'[t])
                         /\ st'[d] = "ended" \/ Head(th'[t].k) \in {"OnStateChange", "upsert"},
         th'[t].k # <<>> /\ Head(th'[t].k) \in {"OnStateChange", "upsert"}
           => th'[t].c = d /\ lock'[d] = t,
         th'[t].k # <<>> /\ Head(th'[t].k) = "upsert" => st'[d] # "ended"
  PROVE  Locked'
<1>1. NoThread \notin Threads
  BY ServerAssumption
<1>2. ASSUME NEW c \in Calls, lock'[c] # NoThread
      PROVE  /\ th'[lock'[c]].c = c /\ Inside(th'[lock'[c]])
             /\ st'[c] = "ended" \/ Head(th'[lock'[c]].k) \in {"OnStateChange", "upsert"}
  <2>1. CASE c = d
    BY <1>2, <2>1
  <2>2. CASE c # d
    <3>1. lock'[c] = lock[c] /\ st'[c] = st[c] /\ lock[c] # t /\ lock[c] \in Threads
      BY <1>2, <2>2 DEF ServerInv, TypeOK
    <3>2. th'[lock[c]] = th[lock[c]]
      BY <3>1
    <3> QED
      BY <1>2, <3>1, <3>2 DEF ServerInv, Locked
  <2> QED
    BY <2>1, <2>2
<1>3. ASSUME NEW u \in Threads
      PROVE  /\ (At(u, "OnStateChange") \/ At(u, "upsert"))' => lock'[th'[u].c] = u
             /\ At(u, "upsert")' => st'[th'[u].c] # "ended"
  <2>1. CASE u = t
    BY <2>1 DEF At, IsIdle
  <2>2. CASE u # t
    <3>1. th'[u] = th[u]
      BY <2>2
    <3>2. ASSUME At(u, "OnStateChange") \/ At(u, "upsert")
          PROVE  lock'[th[u].c] = u /\ st'[th[u].c] = st[th[u].c]
      <4>1. lock[th[u].c] = u
        BY <3>2 DEF ServerInv, Locked
      <4>2. th[u].c \in Calls
        <5>1. th[u].k[1] \in {"OnStateChange", "upsert"} /\ 1 \in DOMAIN th[u].k
          BY <3>2, AtFacts
        <5> QED
          BY <5>1, ThreadTypes DEF OrderOf, Only
      <4>3. th[u].c # d
        BY <1>1, <2>2, <4>1
      <4> QED
        BY <4>1, <4>2, <4>3
    <3> QED
      BY <3>1, <3>2 DEF ServerInv, Locked, At, IsIdle
  <2> QED
    BY <2>1, <2>2
<1> QED
  BY <1>2, <1>3 DEF Locked, Inside, At, IsIdle

Announces(w) == Pending(w, {"OnIncoming", "emitState"})
AnnounceQuiet(t, w) ==
  /\ Announces(w) => t = EventLoop
  /\ Announces(th[t]) => (w.c = th[t].c /\ Announces(w)) \/ st[th[t].c] \notin Live

LEMMA AnnounceKept ==
  ASSUME ServerInv, \A u \in Threads : th'[u] = th[u] \/ AnnounceQuiet(u, th'[u])
  PROVE  /\ \A t \in Threads : Pending(th'[t], {"OnIncoming", "emitState"}) => t = EventLoop
         /\ \A c \in Calls : Announcing(c) => Announcing(c)' \/ st[c] \notin Live
<1>1. ASSUME NEW t \in Threads, Pending(th'[t], {"OnIncoming", "emitState"}) PROVE t = EventLoop
  BY <1>1 DEF AnnounceQuiet, Announces, ServerInv
<1>2. EventLoop \in Threads
  BY DEF Threads
<1>3. ASSUME NEW c \in Calls, Announcing(c), st[c] \in Live PROVE Announcing(c)'
  <2>1. th[EventLoop].c = c /\ Announces(th[EventLoop])
    BY <1>3 DEF Announcing, Announces, Pending
  <2>2. th'[EventLoop].c = c /\ Announces(th'[EventLoop])
    BY <1>2, <1>3, <2>1 DEF AnnounceQuiet
  <2> QED
    BY <2>2 DEF Announcing, Announces, Pending
<1> QED
  BY <1>1, <1>3

LEMMA PublishedKept ==
  ASSUME ServerInv, reg' \subseteq reg, UNCHANGED <<st, lock, rec>>,
         \A c \in Calls : Announcing(c) => Announcing(c)' \/ st[c] \notin Live
  PROVE  LiveCallPublished' /\ EndedLeavesRegistry'
<1>1. reg \subseteq Calls
  BY DEF ServerInv, TypeOK
<1>2. ASSUME NEW c \in reg', lock'[c] = NoThread, st'[c] \in Live, ~Announcing(c)'
      PROVE  rec'[c] # NoRecord /\ (c \in Inbound => rec'[c].status = mapStatus(st'[c]))
  BY <1>1, <1>2 DEF ServerInv, LiveCallPublished
<1>3. EndedLeavesRegistry'
  BY <1>1 DEF ServerInv, EndedLeavesRegistry
<1> QED
  BY <1>2, <1>3 DEF LiveCallPublished, mapStatus

BridgeQuiet(t, w, bs) == \A b \in bs : Owes(th[t], b) => Owes(w, b)

LEMMA BridgesKept ==
  ASSUME ServerInv, open' \subseteq open, UNCHANGED <<reg, bridge>>,
         \A u \in Threads : th'[u] = th[u] \/ BridgeQuiet(u, th'[u], open')
  PROVE  BridgeOwned'
<1> SUFFICES ASSUME NEW b \in open', ~\E c \in reg : bridge[c] = b
             PROVE  \E t \in Threads : Owes(th[t], b)'
  BY DEF BridgeOwned
<1>1. PICK t \in Threads : Owes(th[t], b)
  BY DEF ServerInv, BridgeOwned
<1>2. Owes(th'[t], b)
  BY <1>1 DEF BridgeQuiet
<1>3. Owes(th[t], b)'
  BY <1>2 DEF Owes
<1> QED
  BY <1>3

(* All of it. *)
Quiet(t, w, bs) ==
  /\ w \in Goroutines /\ OrderOf(t, w, reg) /\ BirthQuiet(t, w) /\ RingQuiet(t, w) /\ LockQuiet(t, w)
  /\ AnnounceQuiet(t, w) /\ BridgeQuiet(t, w, bs)

LEMMA QuietInv ==
  ASSUME ServerInv, UNCHANGED <<st, lock, reg, bridge, rec, hist, timer, ofCall>>,
         open' \subseteq open,
         isInbound' \subseteq Calls, answered' \subseteq Calls, missed' \subseteq Calls,
         th' \in [Threads -> Goroutines],
         \A u \in Threads : th'[u] = th[u] \/ Quiet(u, th'[u], open')
  PROVE  ServerInv'
<1>1. TypeOK'
  BY DEF ServerInv, TypeOK
<1>2. Ordered'
  <2>1. \A u \in Threads : th'[u] = th[u] \/ OrderOf(u, th'[u], reg)
    BY DEF Quiet
  <2>2. \A u \in Threads : th'[u] = th[u] \/ OrderOf(u, th[u], reg)'
    BY <2>1 DEF OrderOf, Pending, Only
  <2> QED
    BY <2>2, OrderKept
<1>3. Births'
  <2>1. ASSUME NEW c \in Calls, st[c] = "none" PROVE Unpublished(c)'
    BY <2>1 DEF ServerInv, Births, Unpublished
  <2>2. \A u \in Threads : th'[u] = th[u] \/ BirthQuiet(u, th'[u])
    BY DEF Quiet
  <2> QED
    BY <2>1, <2>2, BirthsKept
<1>4. RingOnce'
  <2>1. \A u \in Threads : th'[u] = th[u] \/ RingQuiet(u, th'[u])
    BY DEF Quiet
  <2> QED
    BY <2>1, RingKept
<1>5. Locked'
  <2>1. \A u \in Threads : th'[u] = th[u] \/ LockQuiet(u, th'[u])
    BY DEF Quiet
  <2> QED
    BY <2>1, LockedKept
<1>6. /\ \A t \in Threads : Pending(th'[t], {"OnIncoming", "emitState"}) => t = EventLoop
      /\ \A c \in Calls : Announcing(c) => Announcing(c)' \/ st[c] \notin Live
  <2>1. \A u \in Threads : th'[u] = th[u] \/ AnnounceQuiet(u, th'[u])
    BY DEF Quiet
  <2> QED
    BY <2>1, AnnounceKept
<1>7. LiveCallPublished' /\ EndedLeavesRegistry'
  BY <1>6, PublishedKept
<1>8. BridgeOwned'
  <2>1. \A u \in Threads : th'[u] = th[u] \/ BridgeQuiet(u, th'[u], open')
    BY DEF Quiet
  <2> QED
    BY <2>1, BridgesKept
<1>9. \A b \in open' : ofCall'[b] \in Calls
  BY DEF ServerInv
<1> QED
  BY <1>1, <1>2, <1>3, <1>4, <1>5, <1>6, <1>7, <1>8, <1>9 DEF ServerInv, Pending

-----------------------------------------------------------------------------
(* A goroutine goes on: it does its first step and has ks and the rest left. *)

Goes(t, w, ks) ==
  w \in Goroutines /\ w.k = ks \o Tail(th[t].k) /\ w.c = th[t].c /\ w.left = th[t].left

LEMMA ThreadStep ==
  ASSUME ServerInv, NEW t \in Threads, NEW w \in Goroutines, th' = [th EXCEPT ![t] = w]
  PROVE  /\ th' \in [Threads -> Goroutines] /\ th'[t] = w
         /\ \A u \in Threads \ {t} : th'[u] = th[u]
BY DEF ServerInv, TypeOK

LEMMA ThenGoes ==
  ASSUME ServerInv, NEW t \in Threads, ~IsIdle(t), NEW ks \in Pushes, Then(t, ks)
  PROVE  \E w : Goes(t, w, ks) /\ w.b = th[t].b /\ th' = [th EXCEPT ![t] = w]
<1>1. PICK r : r = ks \o Tail(th[t].k)
  OBVIOUS
<1>2. th[t] \in Goroutines /\ th[t].k \in Seq(Steps) /\ th[t].k # <<>> /\ ks \in Seq(Steps)
  BY ThreadTypes, PushFacts DEF IsIdle
<1>3. r \in Seq(Steps)
  BY <1>1, <1>2, ThenSeq
<1>4. PICK w : w = [th[t] EXCEPT !.k = r]
  OBVIOUS
<1>5. w \in Goroutines /\ w.k = r /\ w.c = th[t].c /\ w.left = th[t].left /\ w.b = th[t].b
  BY <1>2, <1>3, <1>4 DEF Goroutines
<1>6. th' = [th EXCEPT ![t] = w]
  BY <1>1, <1>4 DEF Then, ServerInv, TypeOK
<1> QED
  BY <1>1, <1>5, <1>6 DEF Goes

(* What is left comes from ks, or was left before: the n steps of ks, then those of k but the
   first. *)
Moved(t, w, ks, k, r, n) ==
  /\ k = th[t].k /\ r = w.k /\ n = Len(ks) /\ k # <<>> /\ k[1] = Head(th[t].k)
  /\ Len(r) = n + Len(k) - 1 /\ Len(k) >= 1
  /\ \A i \in 1 .. n : i <= Len(r) /\ r[i] = ks[i]
  /\ \A i \in 1 .. Len(r) : i > n => i - n + 1 \in 2 .. Len(k) /\ r[i] = k[i - n + 1]
  /\ \A j \in 2 .. Len(k) : j - 1 + n \in 1 .. Len(r) /\ r[j - 1 + n] = k[j]

LEMMA GoesFacts ==
  ASSUME ServerInv, NEW t \in Threads, ~IsIdle(t), NEW ks \in Pushes, NEW w, Goes(t, w, ks)
  PROVE  \E k \in Seq(Steps), r \in Seq(Steps), n \in 0 .. 3 : Moved(t, w, ks, k, r, n)
<1>1. PICK k \in Seq(Steps) : k = th[t].k /\ k # <<>>
  BY ThreadTypes DEF IsIdle
<1>2. ks \in Seq(Steps) /\ Len(ks) \in 0 .. 3
  BY PushFacts
<1>3. PICK r : r = ks \o Tail(k) /\ w.k = r
  BY <1>1 DEF Goes
<1>4. PICK n \in 0 .. 3 : n = Len(ks)
  BY <1>2
<1>5. r \in Seq(Steps) /\ Len(r) = n + Len(k) - 1 /\ k[1] = Head(k) /\ Len(k) >= 1
  BY <1>1, <1>2, <1>3, <1>4
<1>6. \A i \in 1 .. n : i <= Len(r) /\ r[i] = ks[i]
  BY <1>1, <1>2, <1>3, <1>4
<1>7. \A i \in 1 .. Len(r) : i > n => i - n + 1 \in 2 .. Len(k) /\ r[i] = k[i - n + 1]
  BY <1>1, <1>2, <1>3, <1>4
<1>8. \A j \in 2 .. Len(k) : j - 1 + n \in 1 .. Len(r) /\ r[j - 1 + n] = k[j]
  BY <1>1, <1>2, <1>3, <1>4
<1> QED
  BY <1>1, <1>3, <1>4, <1>5, <1>6, <1>7, <1>8 DEF Moved

LEMMA GoesOrder ==
  ASSUME ServerInv, NEW t \in Threads, ~IsIdle(t),
         Head(th[t].k) \notin CreateSteps \cup AnnounceSteps \cup {"drain"},
         NEW ks \in Pushes, NEW w, Goes(t, w, ks), NEW g, g \subseteq reg,
         Head(th[t].k) = "remove" \/ ks = <<"note">> => th[t].c \notin g
  PROVE  OrderOf(t, w, g)
<1> PICK k \in Seq(Steps), r \in Seq(Steps), n \in 0 .. 3 : Moved(t, w, ks, k, r, n)
  BY GoesFacts
<1>1. /\ k = th[t].k /\ r = w.k /\ n = Len(ks) /\ k # <<>> /\ k[1] = Head(th[t].k)
      /\ Len(r) = n + Len(k) - 1 /\ Len(k) >= 1
  BY DEF Moved
<1>new. \A i \in 1 .. n : i <= Len(r) /\ r[i] = ks[i]
  BY DEF Moved
<1>old. ASSUME NEW i \in 1 .. Len(r), i > n PROVE \E j \in 2 .. Len(k) : j = i - n + 1 /\ r[i] = k[j]
  BY <1>old DEF Moved
<1>kept. ASSUME NEW j \in 2 .. Len(k) PROVE \E i \in 1 .. Len(r) : i = j - 1 + n /\ r[i] = k[j]
  BY <1>kept DEF Moved
<1>2. /\ \A i \in 1 .. n :
           /\ ks[i] \in {"remove", "endCall", "upsert", "note", "close", "OnStateChange", "EndCall"}
           /\ ks[i] = "endCall" => i > 1 /\ ks[i - 1] = "remove"
           /\ ks[i] \in {"OnStateChange", "upsert", "note"} => i = 1
      /\ \A i \in 1 .. n : ks[i] = "note" => ks = <<"note">>
  <2>1. DOMAIN ks = 1 .. n
    BY <1>1, PushFacts
  <2> QED
    BY <2>1, PushFacts
<1>3. w.c = th[t].c /\ w.left = th[t].left /\ k[1] \notin CreateSteps \cup AnnounceSteps \cup {"drain"}
      /\ DOMAIN r = 1 .. Len(r) /\ DOMAIN k = 1 .. Len(k) /\ Len(k) \in Nat /\ Len(r) \in Nat
  BY <1>1 DEF Goes
<1>4. /\ \A i \in 1 .. Len(k) : k[i] = "endCall" => (i > 1 /\ k[i - 1] = "remove") \/ w.c \notin reg
      /\ \A i \in 1 .. Len(k) : k[i] = "note" => i = 1
      /\ \A i \in 1 .. Len(k) : k[i] \in {"OnStateChange", "upsert"} => i = 1
      /\ \A i \in 1 .. Len(k) : k[i] = "drain" => i = Len(k)
  BY <1>1, <1>3, ThreadTypes DEF OrderOf
<1>5. /\ \A i \in 1 .. Len(k) : k[i] \in {"drained", "drain"}
              => t \in Handlers /\ \A j \in 1 .. Len(k) : k[j] \in DrainSteps
      /\ w.left # {} => \E i \in 1 .. Len(k) : k[i] = "drain"
      /\ \A i \in 1 .. Len(k) : k[i] \notin CreateSteps \cup AnnounceSteps
      /\ w.c \in Calls
  <2>1. OrderOf(t, th[t], reg)
    BY ThreadTypes
  <2>2. \A i \in 1 .. Len(k) : k[i] \in {"drained", "drain"}
              => t \in Handlers /\ \A j \in 1 .. Len(k) : k[j] \in DrainSteps
    BY <1>1, <1>3, <2>1 DEF OrderOf, Pending, Only
  <2>3. w.left # {} => \E i \in 1 .. Len(k) : k[i] = "drain"
    BY <1>1, <1>3, <2>1 DEF OrderOf, Pending
  <2>4. \A i \in 1 .. Len(k) : k[i] \notin CreateSteps \cup AnnounceSteps
    BY <1>1, <1>3, PastCreation
  <2>5. w.c \in Calls
    <3>1. ~Only(th[t], {"drain"})
      BY <1>1, <1>3 DEF Only
    <3> QED
      BY <1>3, <2>1, <3>1 DEF OrderOf
  <2> QED
    BY <2>2, <2>3, <2>4, <2>5
<1>6. ASSUME NEW i \in 1 .. Len(r), r[i] = "endCall"
      PROVE  (i > 1 /\ r[i - 1] = "remove") \/ w.c \notin g
  <2>1. CASE i <= n
    <3>1. i \in 1 .. n /\ ks[i] = "endCall"
      BY <1>new, <1>6, <2>1
    <3>2. i > 1 /\ ks[i - 1] = "remove" /\ i - 1 \in 1 .. n
      BY <1>2, <3>1
    <3> QED
      BY <1>new, <3>2
  <2>2. CASE i > n
    <3>1. PICK j \in 2 .. Len(k) : j = i - n + 1 /\ k[j] = "endCall"
      BY <1>old, <1>6, <2>2
    <3>2. k[j - 1] = "remove" \/ w.c \notin reg
      <4>1. j \in 1 .. Len(k)
        BY <1>3, <3>1
      <4> QED
        BY <1>4, <3>1, <4>1
    <3>3. CASE w.c \notin reg
      BY <3>3
    <3>4. CASE k[j - 1] = "remove" /\ j = 2
      BY <1>1, <1>3, <3>4
    <3>5. CASE k[j - 1] = "remove" /\ j # 2
      <4>1. j - 1 \in 2 .. Len(k) /\ (j - 1) - 1 + n = i - 1 /\ i > 1
        BY <1>3, <3>1, <3>5
      <4>2. r[i - 1] = k[j - 1]
        BY <1>kept, <4>1
      <4> QED
        BY <3>5, <4>1, <4>2
    <3> QED
      BY <3>2, <3>3, <3>4, <3>5
  <2> QED
    BY <1>1, <1>3, <2>1, <2>2
<1>7. ASSUME NEW i \in 1 .. Len(r), r[i] \in {"note", "OnStateChange", "upsert"}
      PROVE  i = 1 /\ (r[i] = "note" => w.c \notin g)
  <2>1. CASE i <= n
    <3>1. i \in 1 .. n /\ r[i] = ks[i]
      BY <1>new, <2>1
    <3>2. i = 1
      BY <1>2, <1>7, <3>1
    <3> QED
      BY <1>2, <1>3, <3>1, <3>2
  <2>2. CASE i > n
    <3>1. PICK j \in 2 .. Len(k) : k[j] = r[i]
      BY <1>old, <2>2
    <3>2. j \in 1 .. Len(k) /\ j # 1
      BY <1>3, <3>1
    <3> QED
      BY <1>4, <1>7, <3>1, <3>2
  <2> QED
    BY <1>1, <1>3, <2>1, <2>2
<1>8. ASSUME NEW i \in 1 .. Len(r), r[i] = "drain" PROVE i = Len(r)
  <2>1. CASE i <= n
    BY <1>new, <1>2, <1>8, <2>1
  <2>2. CASE i > n
    <3>1. PICK j \in 2 .. Len(k) : j = i - n + 1 /\ k[j] = "drain"
      BY <1>old, <1>8, <2>2
    <3>2. j \in 1 .. Len(k)
      BY <1>3, <3>1
    <3>3. j = Len(k)
      BY <1>4, <3>1, <3>2
    <3>4. i = j + n - 1 /\ Len(r) = n + Len(k) - 1
      <4>1. j \in Nat /\ i \in Nat /\ n \in Nat
        BY <1>3, <3>1
      <4> QED
        BY <1>1, <3>1, <4>1
    <3> QED
      BY <3>3, <3>4
  <2> QED
    BY <1>1, <1>3, <2>1, <2>2
<1>9. ASSUME NEW i \in 1 .. Len(r)
      PROVE  \/ r[i] \in {"remove", "endCall", "upsert", "note", "close", "OnStateChange", "EndCall"}
             \/ \E j \in 1 .. Len(k) : r[i] = k[j]
  <2>1. CASE i <= n
    BY <1>new, <1>2, <2>1
  <2>2. CASE i > n
    <3>1. PICK j \in 2 .. Len(k) : k[j] = r[i]
      BY <1>old, <2>2
    <3> QED
      BY <1>3, <3>1
  <2> QED
    BY <1>1, <1>3, <2>1, <2>2
<1>10. ASSUME NEW i \in 1 .. Len(r), r[i] \in {"drained", "drain"}
       PROVE  t \in Handlers /\ \A j \in 1 .. Len(r) : r[j] \in DrainSteps
  <2>1. \E j \in 1 .. Len(k) : r[i] = k[j]
    BY <1>9, <1>10
  <2>2. t \in Handlers /\ \A j \in 1 .. Len(k) : k[j] \in DrainSteps
    BY <1>5, <1>10, <2>1
  <2> QED
    BY <1>9, <2>2 DEF DrainSteps, Draining
<1>11. ASSUME w.left # {} PROVE \E i \in 1 .. Len(r) : r[i] = "drain"
  <2>1. PICK j \in 1 .. Len(k) : k[j] = "drain"
    BY <1>5, <1>11
  <2>2. j \in 2 .. Len(k)
    BY <1>3, <2>1
  <2> QED
    BY <1>kept, <2>1, <2>2
<1>12. \A i \in 1 .. Len(r) : r[i] \notin CreateSteps \cup AnnounceSteps
  BY <1>5, <1>9 DEF CreateSteps, AnnounceSteps
<1>13. w.k = r /\ DOMAIN w.k = 1 .. Len(r)
  BY <1>1, <1>3
<1>14. Pending(w, {"drained", "drain"}) => Only(w, DrainSteps) /\ t \in Handlers
  BY <1>10, <1>13 DEF Pending, Only
<1>15. w.left # {} => Pending(w, {"drain"})
  BY <1>11, <1>13 DEF Pending
<1>16. /\ ~Pending(w, {"cap", "createCall", "StartCall", "HandleCallOffer"})
       /\ ~Pending(w, {"OnIncoming", "inbound", "emitState"})
  BY <1>12, <1>13 DEF Pending, CreateSteps, AnnounceSteps
<1> QED
  BY <1>5, <1>6, <1>7, <1>8, <1>13, <1>14, <1>15, <1>16 DEF OrderOf

(* A goroutine past the creation of a call that goes on creates nothing, starts no ring timeout and
   announces nothing. *)
LEMMA GoesQuiet ==
  ASSUME ServerInv, NEW t \in Threads, ~IsIdle(t),
         Head(th[t].k) \notin CreateSteps \cup AnnounceSteps,
         NEW ks \in Pushes, NEW w, Goes(t, w, ks),
         th[t].c \in Calls /\ st[th[t].c] = "none" => ks = <<>>
  PROVE  BirthQuiet(t, w) /\ RingQuiet(t, w) /\ AnnounceQuiet(t, w)
<1> PICK k \in Seq(Steps), r \in Seq(Steps), n \in 0 .. 3 : Moved(t, w, ks, k, r, n)
  BY GoesFacts
<1>1. k = th[t].k /\ r = w.k /\ n = Len(ks) /\ k # <<>>
  BY DEF Moved
<1>new. \A i \in 1 .. n : i <= Len(r) /\ r[i] = ks[i]
  BY DEF Moved
<1>old. ASSUME NEW i \in 1 .. Len(r), i > n PROVE \E j \in 2 .. Len(k) : r[i] = k[j]
  BY <1>old DEF Moved
<1>2. DOMAIN r = 1 .. Len(r) /\ DOMAIN k = 1 .. Len(k) /\ Len(k) \in Nat /\ Len(r) \in Nat
      /\ w.c = th[t].c /\ w.left = th[t].left
  BY DEF Goes
<1>3. ASSUME NEW i \in DOMAIN r
      PROVE  \/ n > 0 /\ r[i] \in {"remove", "endCall", "upsert", "note", "close", "OnStateChange", "EndCall"}
             \/ \E j \in DOMAIN k : r[i] = k[j]
  <2>1. CASE i <= n
    <3>1. i \in 1 .. n /\ DOMAIN ks = 1 .. n /\ n > 0
      BY <1>1, <1>2, <1>3, <2>1, PushFacts
    <3> QED
      BY <1>new, <3>1, PushFacts
  <2>2. CASE i > n
    <3>1. PICK j \in 2 .. Len(k) : r[i] = k[j]
      BY <1>old, <1>2, <1>3, <2>2
    <3> QED
      BY <1>2, <3>1
  <2> QED
    BY <1>2, <1>3, <2>1, <2>2
<1>4. \A j \in DOMAIN k : k[j] \notin CreateSteps \cup AnnounceSteps
  BY <1>1, PastCreation
<1>5. k \notin Creating /\ k \notin Announcements
  BY <1>1, PastCreation
<1>6. \A i \in DOMAIN r : r[i] \notin CreateSteps \cup AnnounceSteps
  BY <1>3, <1>4 DEF CreateSteps, AnnounceSteps
<1>7. r \notin Creating
  <2> SUFFICES ASSUME r \in Creating PROVE FALSE
    OBVIOUS
  <2>1. r # <<>> /\ Head(r) \in CreateSteps
    BY Heads
  <2>2. 1 \in DOMAIN r /\ r[1] = Head(r)
    BY <2>1
  <2> QED
    BY <1>6, <2>1, <2>2
<1>8. w.c \in Calls /\ st[w.c] = "none" => Only(w, Draining)
  <2> SUFFICES ASSUME w.c \in Calls, st[w.c] = "none" PROVE \A i \in DOMAIN r : r[i] \in Draining
    BY <1>1 DEF Only
  <2>1. n = 0
    BY <1>1, <1>2
  <2>2. \A j \in DOMAIN k : k[j] \in Draining
    BY <1>1, <1>2, <1>5 DEF ServerInv, Births, Only
  <2> QED
    BY <1>3, <2>1, <2>2
<1>9. BirthQuiet(t, w)
  BY <1>1, <1>2, <1>5, <1>7, <1>8 DEF BirthQuiet, Creating
<1>10. RingQuiet(t, w)
  <2>1. t \in Calls => th[t] # Idle /\ w.c = t
    <3>1. th[t] # Idle
      BY <1>1 DEF Idle
    <3> QED
      BY <1>2, <3>1 DEF ServerInv, RingOnce
  <2>2. Pending(w, {"record"}) => Pending(th[t], {"record"})
    BY <1>1, <1>3 DEF Pending
  <2> QED
    BY <1>2, <2>1, <2>2 DEF RingQuiet
<1>11. AnnounceQuiet(t, w)
  <2>1. ~Announces(w)
    BY <1>1, <1>6 DEF Announces, Pending, AnnounceSteps
  <2>2. ~Announces(th[t])
    BY <1>1, <1>4 DEF Announces, Pending, AnnounceSteps
  <2> QED
    BY <2>1, <2>2 DEF AnnounceQuiet
<1> QED
  BY <1>9, <1>10, <1>11

(* Who is not inside an engine holds no mutex. *)
LEMMA OutsideHolds ==
  ASSUME ServerInv, NEW t \in Threads, ~Inside(th[t])
  PROVE  \A c \in Calls : lock[c] # t
BY ServerAssumption DEF ServerInv, Locked

(* A goroutine that holds no mutex and goes on outside of the engines. *)
LEMMA GoesOutside ==
  ASSUME ServerInv, NEW t \in Threads, ~IsIdle(t), \A c \in Calls : lock[c] # t,
         NEW ks \in {<<>>, <<"remove", "endCall">>, <<"note">>, <<"close">>, <<"EndCall">>},
         NEW w, Goes(t, w, ks)
  PROVE  LockQuiet(t, w)
<1>0. ks \in Pushes
  BY DEF Pushes
<1> PICK k \in Seq(Steps), r \in Seq(Steps), n \in 0 .. 3 : Moved(t, w, ks, k, r, n)
  BY <1>0, GoesFacts
<1>1. k = th[t].k /\ r = w.k /\ n = Len(ks) /\ k # <<>>
  BY DEF Moved
<1>new. \A i \in 1 .. n : i <= Len(r) /\ r[i] = ks[i]
  BY DEF Moved
<1>old. ASSUME NEW i \in 1 .. Len(r), i > n PROVE \E j \in 2 .. Len(k) : r[i] = k[j]
  BY <1>old DEF Moved
<1>2. \A j \in 2 .. Len(k) : k[j] \notin {"OnStateChange", "upsert"}
  <2>1. \A i \in DOMAIN k : k[i] \in {"OnStateChange", "upsert"} => i = 1
    BY <1>1, ThreadTypes DEF OrderOf
  <2> QED
    BY <2>1
<1>3. ASSUME r # <<>> PROVE r[1] \notin {"OnStateChange", "upsert"}
  <2>1. 1 \in 1 .. Len(r)
    BY <1>3
  <2>2. CASE n = 0
    BY <1>2, <1>old, <2>1, <2>2
  <2>3. CASE n > 0
    <3>1. ks[1] \notin {"OnStateChange", "upsert"}
      BY <1>1, <2>3
    <3> QED
      BY <1>new, <2>3, <3>1
  <2> QED
    BY <2>2, <2>3
<1>4. w.k # <<>> => Head(w.k) \notin {"OnStateChange", "upsert"}
  BY <1>1, <1>3
<1> QED
  BY <1>4 DEF LockQuiet

(* The bridges a goroutine still owes when it goes on: all but those its first step dealt with. *)
LEMMA GoesOwes ==
  ASSUME ServerInv, NEW t \in Threads, ~IsIdle(t),
         NEW ks \in Pushes, NEW w, Goes(t, w, ks), NEW b \in Bridges,
         Owes(th[t], b),
         Head(th[t].k) \in {"setBridge", "close"} => th[t].b # b,
         Head(th[t].k) \in {"note", "drained"} => bridge[th[t].c] # b
  PROVE  Owes(w, b)
<1> PICK k \in Seq(Steps), r \in Seq(Steps), n \in 0 .. 3 : Moved(t, w, ks, k, r, n)
  BY GoesFacts
<1>1. k = th[t].k /\ r = w.k /\ k # <<>> /\ k[1] = Head(th[t].k)
  BY DEF Moved
<1>kept. ASSUME NEW j \in 2 .. Len(k) PROVE \E i \in 1 .. Len(r) : r[i] = k[j]
  BY <1>kept DEF Moved
<1>2. w.c = th[t].c /\ w.left = th[t].left
  BY DEF Goes
<1>3. PICK c \in Calls : bridge[c] = b /\
          \/ th[t].c = c /\ th[t].k # <<>> /\ Head(th[t].k) = "note"
          \/ c \in th[t].left
          \/ th[t].c = c /\ \E i \in DOMAIN th[t].k : th[t].k[i] = "drained"
  BY DEF Owes
<1>4. CASE c \in th[t].left
  BY <1>2, <1>3, <1>4 DEF Owes
<1>5. CASE th[t].c = c /\ \E i \in DOMAIN th[t].k : th[t].k[i] = "drained"
  <2>1. PICK j \in DOMAIN k : k[j] = "drained"
    BY <1>1, <1>5
  <2>2. j \in 2 .. Len(k)
    <3>1. k[1] # "drained"
      BY <1>1, <1>3, <1>5
    <3> QED
      BY <2>1, <3>1
  <2>3. \E i \in DOMAIN r : r[i] = "drained"
    BY <1>kept, <2>1, <2>2
  <2> QED
    BY <1>1, <1>2, <1>3, <1>5, <2>3 DEF Owes
<1> QED
  BY <1>1, <1>3, <1>4, <1>5

LEMMA QuietStep ==
  ASSUME ServerInv, UNCHANGED <<st, lock, reg, bridge, rec, hist, timer, ofCall>>,
         open' \subseteq open,
         isInbound' \subseteq Calls, answered' \subseteq Calls, missed' \subseteq Calls,
         NEW t \in Threads, NEW w, th' = [th EXCEPT ![t] = w], Quiet(t, w, open')
  PROVE  ServerInv'
<1>1. w \in Goroutines
  BY DEF Quiet
<1>2. /\ th' \in [Threads -> Goroutines] /\ th'[t] = w
      /\ \A u \in Threads \ {t} : th'[u] = th[u]
  BY <1>1, ThreadStep
<1> QED
  BY <1>2, QuietInv

(* A goroutine outside of the engines that goes on. *)
LEMMA GoesOn ==
  ASSUME ServerInv, UNCHANGED <<st, lock, reg, bridge, rec, hist, timer, ofCall>>,
         open' \subseteq open,
         isInbound' \subseteq Calls, answered' \subseteq Calls, missed' \subseteq Calls,
         NEW t \in Threads, ~IsIdle(t),
         Head(th[t].k) \notin CreateSteps \cup AnnounceSteps \cup {"drain", "remove"},
         NEW ks \in Pushes \ {<<"note">>}, NEW w, Goes(t, w, ks), th' = [th EXCEPT ![t] = w],
         th[t].c \in Calls /\ st[th[t].c] = "none" => ks = <<>>,
         LockQuiet(t, w), BridgeQuiet(t, w, open')
  PROVE  ServerInv'
<1>1. OrderOf(t, w, reg)
  BY GoesOrder
<1>2. BirthQuiet(t, w) /\ RingQuiet(t, w) /\ AnnounceQuiet(t, w)
  BY GoesQuiet
<1>3. Quiet(t, w, open')
  BY <1>1, <1>2 DEF Quiet, Goes
<1> QED
  BY <1>3, QuietStep

(* A request, a handler or a timeout begins. *)
Requests == {<<"check", "claim", "AcceptCall">>, <<"RejectCall", "remove", "endCall">>,
             <<"remove", "endCall">>, <<"EndCall", "remove", "endCall">>, <<"setBridge">>, <<"terminate">>,
             <<"HandleCallAccept">>, <<"HandleCallTerminate">>, <<"OnStateChange">>}

LEMMA RequestFacts ==
  ASSUME NEW k \in Requests
  PROVE  /\ k \in Seq(Steps) /\ k # <<>>
         /\ \A i \in DOMAIN k : k[i] \in {"check", "claim", "AcceptCall", "RejectCall", "remove", "endCall",
              "EndCall", "setBridge", "terminate", "HandleCallAccept", "HandleCallTerminate", "OnStateChange"}
         /\ \A i \in DOMAIN k : k[i] = "endCall" => i > 1 /\ k[i - 1] = "remove"
         /\ \A i \in DOMAIN k : k[i] = "OnStateChange" => i = 1
         /\ k # <<"OnStateChange">> => Head(k) # "OnStateChange"
<1>1. CASE k = <<"check", "claim", "AcceptCall">>
  BY <1>1 DEF Steps
<1>2. CASE k = <<"RejectCall", "remove", "endCall">>
  BY <1>2 DEF Steps
<1>3. CASE k = <<"remove", "endCall">>
  BY <1>3 DEF Steps
<1>4. CASE k = <<"EndCall", "remove", "endCall">>
  BY <1>4 DEF Steps
<1>5. CASE k = <<"setBridge">>
  BY <1>5 DEF Steps
<1>6. CASE k = <<"terminate">>
  BY <1>6 DEF Steps
<1>7. CASE k = <<"HandleCallAccept">>
  BY <1>7 DEF Steps
<1>8. CASE k = <<"HandleCallTerminate">>
  BY <1>8 DEF Steps
<1>9. CASE k = <<"OnStateChange">>
  BY <1>9 DEF Steps
<1> QED
  BY <1>1, <1>2, <1>3, <1>4, <1>5, <1>6, <1>7, <1>8, <1>9 DEF Requests

LEMMA IdleFacts ==
  ASSUME ServerInv, NEW t \in Threads, IsIdle(t)
  PROVE  /\ th[t].k = <<>> /\ th[t].left = {} /\ \A ls : ~Pending(th[t], ls)
         /\ th[t].k \notin Creating /\ \A c \in Calls : lock[c] # t
         /\ \A b \in Bridges : ~Owes(th[t], b)
<1>1. th[t].k = <<>> /\ DOMAIN th[t].k = {}
  BY DEF IsIdle
<1>2. \A ls : ~Pending(th[t], ls)
  BY <1>1 DEF Pending
<1>3. th[t].left = {}
  BY <1>2, ThreadTypes DEF OrderOf
<1>4. th[t].k \notin Creating
  BY <1>1, Heads
<1>5. \A c \in Calls : lock[c] # t
  BY <1>1, OutsideHolds DEF Inside
<1>6. \A b \in Bridges : ~Owes(th[t], b)
  BY <1>1, <1>3 DEF Owes
<1> QED
  BY <1>1, <1>2, <1>3, <1>4, <1>5, <1>6

LEMMA StartOrder ==
  ASSUME NEW t, NEW g, NEW w, w.k \in Requests, w.c \in Calls, w.left = {}
  PROVE  OrderOf(t, w, g)
<1>1. PICK k \in Requests : k = w.k
  OBVIOUS
<1>2. /\ \A i \in DOMAIN k : k[i] \in {"check", "claim", "AcceptCall", "RejectCall", "remove", "endCall",
              "EndCall", "setBridge", "terminate", "HandleCallAccept", "HandleCallTerminate", "OnStateChange"}
      /\ \A i \in DOMAIN k : k[i] = "endCall" => i > 1 /\ k[i - 1] = "remove"
      /\ \A i \in DOMAIN k : k[i] = "OnStateChange" => i = 1
  BY RequestFacts
<1>3. /\ ~Pending(w, {"drained", "drain"})
      /\ ~Pending(w, {"cap", "createCall", "StartCall", "HandleCallOffer"})
      /\ ~Pending(w, {"OnIncoming", "inbound", "emitState"})
  BY <1>1, <1>2 DEF Pending
<1> QED
  BY <1>1, <1>2, <1>3 DEF OrderOf


LEMMA StartParts ==
  ASSUME ServerInv, NEW t \in Threads, IsIdle(t), t \notin Calls,
         NEW w, w.k \in Requests, w.c \in Calls, w.left = {}, st[w.c] # "none"
  PROVE  BirthQuiet(t, w) /\ RingQuiet(t, w) /\ AnnounceQuiet(t, w)
<1>1. PICK k \in Requests : k = w.k
  OBVIOUS
<1>2. /\ \A i \in DOMAIN k : k[i] \in {"check", "claim", "AcceptCall", "RejectCall", "remove", "endCall",
              "EndCall", "setBridge", "terminate", "HandleCallAccept", "HandleCallTerminate", "OnStateChange"}
  BY RequestFacts
<1>3. k \notin Creating
  <2>1. k # <<>> /\ Head(k) = k[1] /\ 1 \in DOMAIN k
    BY RequestFacts
  <2> QED
    BY <1>2, <2>1, Heads DEF CreateSteps
<1>4. \A u \in Threads : th[u].k \in Registering => th[u].c # w.c
  BY DEF ServerInv, Births, Creating
<1>5. th[t].k \notin Beginning /\ th[t].left = {} /\ ~Announces(th[t])
  BY IdleFacts DEF Creating, Announces
<1>6. ~Pending(w, {"record"}) /\ ~Announces(w)
  BY <1>1, <1>2 DEF Pending, Announces
<1>7. BirthQuiet(t, w)
  BY <1>1, <1>3, <1>4, <1>5 DEF BirthQuiet, Creating
<1> QED
  BY <1>5, <1>6, <1>7 DEF RingQuiet, AnnounceQuiet

LEMMA StartQuiet ==
  ASSUME ServerInv, NEW t \in Threads, IsIdle(t), t \notin Calls,
         NEW w \in Goroutines, w.k \in Requests, w.k # <<"OnStateChange">>,
         w.c \in Calls, w.left = {}, st[w.c] # "none", NEW bs \in SUBSET Bridges
  PROVE  Quiet(t, w, bs)
<1>1. OrderOf(t, w, reg)
  BY StartOrder
<1>2. BirthQuiet(t, w) /\ RingQuiet(t, w) /\ AnnounceQuiet(t, w)
  BY StartParts
<1>3. LockQuiet(t, w)
  <2>1. PICK k \in Requests : k = w.k
    OBVIOUS
  <2>2. Head(k) \notin {"OnStateChange", "upsert"}
    BY <2>1, RequestFacts
  <2> QED
    BY <2>1, <2>2, IdleFacts DEF LockQuiet
<1>4. BridgeQuiet(t, w, bs)
  BY IdleFacts DEF BridgeQuiet
<1> QED
  BY <1>1, <1>2, <1>3, <1>4 DEF Quiet

(* A goroutine gives its request up. *)
LEMMA IdleGoroutine == Idle \in Goroutines /\ Idle.k = <<>> /\ Idle.left = {} /\ Idle.c = NoCall
BY DEF Idle, Goroutines, Steps

LEMMA ReturnQuiet ==
  ASSUME ServerInv, NEW t \in Threads, ~IsIdle(t), ~Inside(th[t]), th[t].k \notin Beginning,
         Announces(th[t]) => st[th[t].c] \notin Live,
         NEW bs, \A b \in bs : ~Owes(th[t], b)
  PROVE  Quiet(t, Idle, bs)
<1>1. /\ Idle \in Goroutines /\ Idle.k = <<>> /\ DOMAIN Idle.k = {} /\ Idle.left = {}
      /\ Idle.c \notin Calls /\ Idle.k \notin Creating
  BY IdleGoroutine, ServerAssumption, Heads
<1>2. \A ls : Only(Idle, ls) /\ ~Pending(Idle, ls)
  BY <1>1 DEF Only, Pending
<1>3. OrderOf(t, Idle, reg)
  BY <1>1, <1>2 DEF OrderOf
<1>4. BirthQuiet(t, Idle)
  BY <1>1 DEF BirthQuiet, Creating
<1>5. RingQuiet(t, Idle)
  <2>1. th[t] # Idle
    BY <1>1 DEF IsIdle
  <2> QED
    BY <1>2, <2>1 DEF RingQuiet
<1>6. LockQuiet(t, Idle)
  BY <1>1, OutsideHolds DEF LockQuiet
<1>7. AnnounceQuiet(t, Idle)
  BY <1>2 DEF AnnounceQuiet, Announces
<1>8. BridgeQuiet(t, Idle, bs)
  BY DEF BridgeQuiet
<1> QED
  BY <1>1, <1>3, <1>4, <1>5, <1>6, <1>7, <1>8 DEF Quiet

-----------------------------------------------------------------------------
(* The actions that begin something. *)

LEMMA KnownCall ==
  ASSUME ServerInv, NEW c \in Calls, Known(c)
  PROVE  st[c] # "none"
BY DEF ServerInv, Births, Unpublished, Known

LEMMA StartGoroutine ==
  ASSUME ServerInv, NEW t \in Threads, NEW k \in Seq(Steps), NEW c \in Calls,
         NEW o \in Operators \cup {NoOwner}, Start(t, k, c, o)
  PROVE  \E w \in Goroutines : w.k = k /\ w.c = c /\ w.left = {} /\ th' = [th EXCEPT ![t] = w]
BY DEF Start, Idle, Goroutines

LEMMA Begin ==
  ASSUME ServerInv, UNCHANGED <<engine, active, broker, missed, timer, bridges>>,
         NEW t \in Threads, IsIdle(t), t \notin Calls,
         NEW k \in Requests, k # <<"OnStateChange">>, NEW c \in Calls, st[c] # "none",
         NEW o \in Operators \cup {NoOwner}, Start(t, k, c, o)
  PROVE  ServerInv'
<1>1. PICK w \in Goroutines : w.k = k /\ w.c = c /\ w.left = {} /\ th' = [th EXCEPT ![t] = w]
  BY RequestFacts, StartGoroutine
<1>2. /\ UNCHANGED <<st, lock, reg, bridge, rec, hist, timer, ofCall, open>>
      /\ isInbound' \subseteq Calls /\ answered' \subseteq Calls /\ missed' \subseteq Calls
      /\ open \in SUBSET Bridges
  BY DEF engine, active, broker, bridges, ServerInv, TypeOK
<1>3. Quiet(t, w, open')
  BY <1>1, <1>2, StartQuiet
<1> QED
  BY <1>1, <1>2, <1>3, QuietStep

LEMMA HandlerFacts ==
  ASSUME NEW t \in Handlers PROVE t \in Threads /\ t \notin Calls /\ t # EventLoop /\ t # RelayLoop
BY RolesAssumption DEF Threads

LEMMA ThenEnd ==
  ASSUME NEW l \in Steps
  PROVE  <<l>> \o <<"remove", "endCall">> = <<l, "remove", "endCall">>
<1>1. <<l>> \in Seq(Steps) /\ <<"remove", "endCall">> \in Seq(Steps)
  BY DEF Steps
<1>2. PICK p : p = <<l>> \o <<"remove", "endCall">>
  OBVIOUS
<1>3. p \in Seq(Steps)
  BY <1>1, <1>2
<1>4. Len(p) = 3 /\ p[1] = l /\ p[2] = "remove" /\ p[3] = "endCall"
  BY <1>1, <1>2
<1>5. PICK q : q = <<l, "remove", "endCall">>
  OBVIOUS
<1>6. q \in Seq(Steps)
  BY <1>5 DEF Steps
<1>7. Len(q) = 3 /\ q[1] = l /\ q[2] = "remove" /\ q[3] = "endCall"
  BY <1>5
<1>8. \A i \in 1 .. Len(p) : p[i] = q[i]
  BY <1>4, <1>7
<1>9. p = q
  BY <1>3, <1>4, <1>6, <1>7, <1>8, SeqEqual
<1> QED
  BY <1>2, <1>5, <1>9

LEMMA BeginInv ==
  ASSUME ServerInv, NEW t \in Handlers, NEW c \in Calls
  PROVE  /\ \A o \in Operators : doAccept(t, c, o) => ServerInv'
         /\ doReject(t, c) => ServerInv'
         /\ doEndCall(t, c) => ServerInv'
<1>0. t \in Threads /\ t \notin Calls
  BY HandlerFacts
<1>1. ASSUME NEW o \in Operators, doAccept(t, c, o) PROVE ServerInv'
  <2>1. st[c] # "none" /\ IsIdle(t) /\ Start(t, <<"check", "claim", "AcceptCall">>, c, o)
        /\ UNCHANGED <<engine, active, broker, missed, timer, bridges>>
    BY <1>1, KnownCall DEF doAccept
  <2>2. <<"check", "claim", "AcceptCall">> \in Requests \ {<<"OnStateChange">>}
    BY DEF Requests
  <2> QED
    BY <1>0, <2>1, <2>2, Begin
<1>2. ASSUME doReject(t, c) PROVE ServerInv'
  <2>1. PICK k : k = (IF c \in reg THEN <<"RejectCall">> ELSE <<>>) \o <<"remove", "endCall">>
    OBVIOUS
  <2>2. st[c] # "none" /\ IsIdle(t) /\ Start(t, k, c, NoOwner)
        /\ UNCHANGED <<engine, active, broker, missed, timer, bridges>>
    BY <1>2, <2>1, KnownCall DEF doReject
  <2>3. k = <<"RejectCall", "remove", "endCall">> \/ k = <<"remove", "endCall">>
    <3>1. "RejectCall" \in Steps
      BY DEF Steps
    <3>2. <<"RejectCall">> \o <<"remove", "endCall">> = <<"RejectCall", "remove", "endCall">>
      BY <3>1, ThenEnd
    <3>3. CASE c \in reg
      BY <2>1, <3>2, <3>3, Zenon
    <3>4. CASE c \notin reg
      BY <2>1, <3>4
    <3> QED
      BY <3>3, <3>4
  <2>4. k \in Requests \ {<<"OnStateChange">>}
    BY <2>3 DEF Requests
  <2> QED
    BY <1>0, <2>2, <2>4, Begin
<1>3. ASSUME doEndCall(t, c) PROVE ServerInv'
  <2>1. PICK k : k = (IF c \in reg THEN <<"EndCall">> ELSE <<>>) \o <<"remove", "endCall">>
    OBVIOUS
  <2>2. st[c] # "none" /\ IsIdle(t) /\ Start(t, k, c, NoOwner)
        /\ UNCHANGED <<engine, active, broker, missed, timer, bridges>>
    BY <1>3, <2>1, KnownCall DEF doEndCall
  <2>3. k = <<"EndCall", "remove", "endCall">> \/ k = <<"remove", "endCall">>
    <3>1. "EndCall" \in Steps
      BY DEF Steps
    <3>2. <<"EndCall">> \o <<"remove", "endCall">> = <<"EndCall", "remove", "endCall">>
      BY <3>1, ThenEnd
    <3>3. CASE c \in reg
      BY <2>1, <3>2, <3>3, Zenon
    <3>4. CASE c \notin reg
      BY <2>1, <3>4
    <3> QED
      BY <3>3, <3>4
  <2>4. k \in Requests \ {<<"OnStateChange">>}
    BY <2>3 DEF Requests
  <2> QED
    BY <1>0, <2>2, <2>4, Begin
<1> QED
  BY <1>1, <1>2, <1>3

LEMMA HandleEventInv ==
  ASSUME ServerInv, NEW c \in Calls, NEW h \in {"HandleCallAccept", "HandleCallTerminate"}, handleEvent(c, h)
  PROVE  ServerInv'
<1>1. st[c] # "none" /\ IsIdle(EventLoop) /\ Start(EventLoop, <<h>>, c, NoOwner)
      /\ UNCHANGED <<engine, active, broker, missed, timer, bridges>>
  BY DEF handleEvent, PeerKnows
<1>2. EventLoop \in Threads /\ EventLoop \notin Calls
  BY RolesAssumption DEF Threads
<1>3. <<h>> \in Requests \ {<<"OnStateChange">>}
  BY DEF Requests
<1> QED
  BY <1>1, <1>2, <1>3, Begin

(* The browser's connection is gone: its goroutine terminates the call. *)
LEMMA TerminatingFacts ==
  ASSUME ServerInv, NEW b \in open
  PROVE  /\ b \in Threads /\ b \in Bridges /\ b \notin Calls /\ ofCall[b] \in Calls /\ st[ofCall[b]] # "none"
         /\ Terminating(b) \in Goroutines /\ Terminating(b).k = <<"terminate">>
         /\ Terminating(b).c = ofCall[b] /\ Terminating(b).left = {}
<1>1. b \in Bridges /\ b \in Threads /\ b \notin Calls
  BY RolesAssumption DEF ServerInv, TypeOK, Threads
<1>2. ofCall[b] \in Calls
  BY DEF ServerInv
<1>3. st[ofCall[b]] # "none"
  BY <1>1, <1>2 DEF ServerInv, Births, Unpublished
<1>4. <<"terminate">> \in Seq(Steps)
  BY DEF Steps
<1> QED
  BY <1>1, <1>2, <1>3, <1>4 DEF Terminating, Idle, Goroutines

LEMMA TerminatingQuiet ==
  ASSUME ServerInv, NEW b \in open, IsIdle(b), NEW bs \in SUBSET Bridges
  PROVE  Quiet(b, Terminating(b), bs)
<1>1. PICK w \in Goroutines : w = Terminating(b)
  BY TerminatingFacts
<1>2. w.k \in Requests /\ w.k # <<"OnStateChange">>
  BY <1>1, TerminatingFacts DEF Requests
<1>3. Quiet(b, w, bs)
  BY <1>1, <1>2, TerminatingFacts, StartQuiet
<1> QED
  BY <1>1, <1>3

LEMMA OnTerminalICEInv ==
  ASSUME ServerInv, NEW b \in Bridges, OnTerminalICE(b)
  PROVE  ServerInv'
<1>1. b \in open /\ IsIdle(b) /\ th' = [th EXCEPT ![b] = Terminating(b)] /\ b \in Threads
  BY TerminatingFacts DEF OnTerminalICE
<1>2. /\ UNCHANGED <<st, lock, reg, bridge, rec, hist, timer, ofCall, open>>
      /\ isInbound' \subseteq Calls /\ answered' \subseteq Calls /\ missed' \subseteq Calls
      /\ open \in SUBSET Bridges
  BY DEF engine, active, broker, bridges, ServerInv, TypeOK, OnTerminalICE
<1>3. Quiet(b, Terminating(b), open')
  BY <1>1, <1>2, TerminatingQuiet
<1> QED
  BY <1>1, <1>2, <1>3, QuietStep

-----------------------------------------------------------------------------
(* The actions that end a request. *)

(* Only who drains the registry has calls left. *)
LEMMA NotDraining ==
  ASSUME ServerInv, NEW t \in Threads, ~IsIdle(t), Head(th[t].k) \notin DrainSteps
  PROVE  th[t].left = {} /\ ~Pending(th[t], {"drained"})
<1>1. th[t].k[1] = Head(th[t].k) /\ 1 \in DOMAIN th[t].k
  BY AtFacts DEF At
<1>2. ~Only(th[t], DrainSteps)
  BY <1>1 DEF Only
<1>3. ~Pending(th[t], {"drained", "drain"})
  BY <1>2, ThreadTypes DEF OrderOf
<1>4. ~Pending(th[t], {"drained"}) /\ ~Pending(th[t], {"drain"})
  BY <1>3 DEF Pending
<1> QED
  BY <1>4, ThreadTypes DEF OrderOf

LEMMA PlainReturn ==
  ASSUME ServerInv, NEW t \in Threads, ~IsIdle(t), Head(th[t].k) \in {"check", "claim", "AcceptCall", "record"},
         NEW bs
  PROVE  Quiet(t, Idle, bs)
<1>1. ~Inside(th[t])
  BY DEF Inside
<1>2. th[t].k \notin Beginning /\ ~Announces(th[t])
  BY PastCreation DEF Creating, CreateSteps, AnnounceSteps, Announces, Pending
<1>3. th[t].left = {} /\ ~Pending(th[t], {"drained"})
  BY NotDraining DEF DrainSteps, Draining
<1>4. \A b \in bs : ~Owes(th[t], b)
  BY <1>3 DEF Owes, Pending
<1> QED
  BY <1>1, <1>2, <1>4, ReturnQuiet

LEMMA CheckInv ==
  ASSUME ServerInv, NEW t \in Threads, check(t)
  PROVE  ServerInv'
<1>1. /\ ~IsIdle(t) /\ Head(th[t].k) = "check"
      /\ UNCHANGED <<st, lock, reg, bridge, rec, hist, timer, ofCall, open>>
      /\ isInbound' \subseteq Calls /\ answered' \subseteq Calls /\ missed' \subseteq Calls
      /\ open \in SUBSET Bridges
  BY DEF check, At, engine, active, broker, bridges, ServerInv, TypeOK
<1>2. CASE Return(t)
  <2>1. Quiet(t, Idle, open')
    BY <1>1, PlainReturn
  <2> QED
    BY <1>1, <1>2, <2>1, QuietStep DEF Return
<1>3. CASE Then(t, <<>>)
  <2>1. <<>> \in Pushes \ {<<"note">>}
    BY DEF Pushes
  <2>2. PICK w : Goes(t, w, <<>>) /\ th' = [th EXCEPT ![t] = w]
    BY <1>1, <1>3, <2>1, ThenGoes
  <2>3. LockQuiet(t, w)
    BY <1>1, <2>2, OutsideHolds, GoesOutside DEF Inside
  <2>4. BridgeQuiet(t, w, open')
    BY <1>1, <2>1, <2>2, GoesOwes DEF BridgeQuiet
  <2> QED
    BY <1>1, <2>1, <2>2, <2>3, <2>4, GoesOn DEF CreateSteps, AnnounceSteps
<1> QED
  BY <1>2, <1>3 DEF check

(* A call is known once it has a state: who neither creates it nor drains works on such a call. *)
LEMMA HasEngine ==
  ASSUME ServerInv, NEW t \in Threads, ~IsIdle(t),
         Head(th[t].k) \notin CreateSteps \cup AnnounceSteps \cup Draining
  PROVE  th[t].c \in Calls /\ st[th[t].c] # "none"
<1>1. th[t].k \notin Creating
  BY PastCreation
<1>2. th[t].k[1] = Head(th[t].k) /\ 1 \in DOMAIN th[t].k
  BY AtFacts DEF At
<1>3. ~Only(th[t], Draining)
  BY <1>2 DEF Only
<1>4. ~Only(th[t], {"drain"})
  BY <1>2 DEF Only, Draining
<1>5. th[t].c \in Calls
  BY <1>4, ThreadTypes DEF OrderOf
<1> QED
  BY <1>1, <1>3, <1>5 DEF ServerInv, Births

LEMMA TerminateCallInv ==
  ASSUME ServerInv, NEW t \in Threads, terminateCall(t)
  PROVE  ServerInv'
<1>1. /\ ~IsIdle(t) /\ Head(th[t].k) = "terminate"
      /\ UNCHANGED <<st, lock, reg, bridge, rec, hist, timer, ofCall, open>>
      /\ isInbound' \subseteq Calls /\ answered' \subseteq Calls /\ missed' \subseteq Calls
      /\ open \in SUBSET Bridges
  BY DEF terminateCall, At, engine, active, broker, bridges, ServerInv, TypeOK
<1>2. PICK ks : ks = IF th[t].c \in reg THEN <<"EndCall">> ELSE <<>>
  OBVIOUS
<1>3. ks \in Pushes /\ ks # <<"note">> /\ ks \in {<<>>, <<"remove", "endCall">>, <<"note">>, <<"close">>, <<"EndCall">>}
  BY <1>2 DEF Pushes
<1>4. PICK w : Goes(t, w, ks) /\ th' = [th EXCEPT ![t] = w]
  BY <1>1, <1>2, <1>3, ThenGoes DEF terminateCall
<1>5. LockQuiet(t, w)
  BY <1>1, <1>3, <1>4, OutsideHolds, GoesOutside DEF Inside
<1>6. BridgeQuiet(t, w, open')
  BY <1>1, <1>3, <1>4, GoesOwes DEF BridgeQuiet
<1>7. th[t].c \in Calls => st[th[t].c] # "none"
  BY <1>1, HasEngine DEF CreateSteps, AnnounceSteps, Draining
<1> QED
  BY <1>1, <1>3, <1>4, <1>5, <1>6, <1>7, GoesOn DEF CreateSteps, AnnounceSteps

-----------------------------------------------------------------------------
(* The actions that leave registry, records and engines alone. *)

(* On the way out of an engine that has ended. *)
LEMMA GoesInside ==
  ASSUME ServerInv, NEW t \in Threads, ~IsIdle(t), Head(th[t].k) \in {"remove", "note", "close"},
         NEW ks \in {<<>>, <<"note">>, <<"close">>}, NEW w, Goes(t, w, ks)
  PROVE  LockQuiet(t, w)
<1>0. Len(ks) = 0 \/ (Len(ks) = 1 /\ ks[1] \in {"note", "close"})
  OBVIOUS
<1>1. CASE \A c \in Calls : lock[c] # t
  BY <1>1, GoesOutside
<1>2. CASE \E c \in Calls : lock[c] = t
  <2>1. PICK c \in Calls : lock[c] = t
    BY <1>2
  <2>2. th[t].c = c /\ Inside(th[t]) /\ st[c] = "ended"
    BY <2>1, ServerAssumption DEF ServerInv, Locked
  <2>3. \A d \in Calls : lock[d] = t => d = c
    BY <2>2, ServerAssumption DEF ServerInv, Locked
  <2>4. ks \in Pushes
    BY DEF Pushes
  <2> PICK k \in Seq(Steps), r \in Seq(Steps), n \in 0 .. 3 : Moved(t, w, ks, k, r, n)
    BY <2>4, GoesFacts
  <2>5. k = th[t].k /\ r = w.k /\ n = Len(ks) /\ k # <<>>
    BY DEF Moved
  <2>6. \A i \in 1 .. n : i <= Len(r) /\ r[i] = ks[i]
    BY DEF Moved
  <2>7. \A j \in 2 .. Len(k) : j - 1 + n \in 1 .. Len(r) /\ r[j - 1 + n] = k[j]
    BY DEF Moved
  <2>8. Len(k) > 1 /\ k[2] = "endCall"
    BY <2>2, <2>5 DEF Inside
  <2>9. 2 \in 2 .. Len(k)
    BY <2>8
  <2>10. n + 1 \in 1 .. Len(r) /\ r[n + 1] = "endCall"
    BY <2>7, <2>8, <2>9
  <2>11. CASE n = 0
    <3>1. r # <<>> /\ Head(r) = "endCall"
      BY <2>10, <2>11
    <3> QED
      BY <2>2, <2>3, <2>5, <3>1 DEF LockQuiet, Inside, Goes
  <2>12. CASE n = 1
    <3>1. r # <<>> /\ Head(r) = ks[1] /\ Len(r) > 1 /\ r[2] = "endCall"
      BY <2>6, <2>10, <2>12
    <3>2. ks[1] \in {"note", "close"}
      BY <1>0, <2>5, <2>12
    <3> QED
      BY <2>2, <2>3, <2>5, <3>1, <3>2 DEF LockQuiet, Inside, Goes
  <2>13. n = 0 \/ n = 1
    BY <2>5
  <2> QED
    BY <2>11, <2>12, <2>13
<1> QED
  BY <1>1, <1>2

(* Who closes the bridge of his call owes it until it is closed. *)
LEMMA CloseBridgeGoes ==
  ASSUME ServerInv, NEW t \in Threads, ~IsIdle(t), Head(th[t].k) \in {"note", "drained"},
         CloseBridgeOf(t, th[t].c)
  PROVE  \E w, ks : /\ ks \in {<<>>, <<"close">>} /\ Goes(t, w, ks) /\ th' = [th EXCEPT ![t] = w]
                    /\ BridgeQuiet(t, w, Bridges) /\ (bridge[th[t].c] = NoBridge => ks = <<>>)
<1>1. PICK c \in Calls : c = th[t].c
  <2>1. th[t].k[1] = Head(th[t].k) /\ 1 \in DOMAIN th[t].k
    BY AtFacts DEF At
  <2> QED
    BY <2>1, ThreadTypes DEF OrderOf, Only
<1>2. PICK ks : ks = IF bridge[c] = NoBridge THEN <<>> ELSE <<"close">>
  OBVIOUS
<1>3. ks \in {<<>>, <<"close">>} /\ ks \in Pushes
  BY <1>2 DEF Pushes
<1>4. PICK r : r = ks \o Tail(th[t].k)
  OBVIOUS
<1>5. th[t] \in Goroutines /\ th[t].k \in Seq(Steps) /\ th[t].k # <<>> /\ ks \in Seq(Steps)
  BY <1>3, ThreadTypes, PushFacts DEF IsIdle
<1>6. r \in Seq(Steps)
  BY <1>4, <1>5, ThenSeq
<1>7. bridge[c] \in Bridges \cup {NoBridge}
  BY DEF ServerInv, TypeOK
<1>8. PICK w : w = [th[t] EXCEPT !.k = r, !.b = bridge[c]]
  OBVIOUS
<1>9. w \in Goroutines /\ w.k = r /\ w.c = th[t].c /\ w.left = th[t].left /\ w.b = bridge[c]
  BY <1>5, <1>6, <1>7, <1>8 DEF Goroutines
<1>10. th' = [th EXCEPT ![t] = w]
  BY <1>1, <1>2, <1>4, <1>8 DEF CloseBridgeOf, ServerInv, TypeOK
<1>11. Goes(t, w, ks)
  BY <1>4, <1>9 DEF Goes
<1>12. ASSUME NEW b \in Bridges, Owes(th[t], b) PROVE Owes(w, b)
  <2>1. CASE bridge[c] = b
    <3>1. ks = <<"close">>
      BY <1>2, <2>1, ServerAssumption
    <3>2. r # <<>> /\ Head(r) = "close"
      BY <1>4, <1>5, <3>1
    <3> QED
      BY <1>9, <2>1, <3>2 DEF Owes
  <2>2. CASE bridge[c] # b
    BY <1>1, <1>3, <1>11, <1>12, <2>2, GoesOwes
  <2> QED
    BY <2>1, <2>2
<1> QED
  BY <1>1, <1>2, <1>3, <1>10, <1>11, <1>12 DEF BridgeQuiet

LEMMA NoteInv ==
  ASSUME ServerInv, NEW t \in Threads, note(t)
  PROVE  ServerInv'
<1>1. /\ ~IsIdle(t) /\ Head(th[t].k) = "note" /\ CloseBridgeOf(t, th[t].c)
  BY DEF note, At
<1>2. th[t].c \in Calls /\ st[th[t].c] # "none"
  BY <1>1, HasEngine DEF CreateSteps, AnnounceSteps, Draining
<1>3. /\ UNCHANGED <<st, lock, reg, bridge, rec, hist, timer, ofCall, open>>
      /\ isInbound' \subseteq Calls /\ answered' \subseteq Calls /\ missed' \subseteq Calls
      /\ open \in SUBSET Bridges
  BY <1>2 DEF note, engine, active, broker, bridges, ServerInv, TypeOK
<1>4. PICK w, ks : /\ ks \in {<<>>, <<"close">>} /\ Goes(t, w, ks) /\ th' = [th EXCEPT ![t] = w]
                   /\ BridgeQuiet(t, w, Bridges)
  BY <1>1, CloseBridgeGoes
<1>5. ks \in Pushes /\ ks # <<"note">>
  BY <1>4 DEF Pushes
<1>6. LockQuiet(t, w)
  BY <1>1, <1>4, GoesInside
<1>7. BridgeQuiet(t, w, open')
  BY <1>3, <1>4 DEF BridgeQuiet
<1> QED
  BY <1>1, <1>2, <1>3, <1>4, <1>5, <1>6, <1>7, GoesOn DEF CreateSteps, AnnounceSteps

LEMMA DrainedInv ==
  ASSUME ServerInv, NEW t \in Threads, drained(t)
  PROVE  ServerInv'
<1>1. /\ ~IsIdle(t) /\ Head(th[t].k) = "drained" /\ CloseBridgeOf(t, th[t].c)
      /\ UNCHANGED <<st, lock, reg, bridge, rec, hist, timer, ofCall, open>>
      /\ isInbound' \subseteq Calls /\ answered' \subseteq Calls /\ missed' \subseteq Calls
      /\ open \in SUBSET Bridges
  BY DEF drained, At, engine, active, broker, bridges, ServerInv, TypeOK
<1>2. PICK w, ks : /\ ks \in {<<>>, <<"close">>} /\ Goes(t, w, ks) /\ th' = [th EXCEPT ![t] = w]
                   /\ BridgeQuiet(t, w, Bridges) /\ (bridge[th[t].c] = NoBridge => ks = <<>>)
  BY <1>1, CloseBridgeGoes
<1>3. ks \in Pushes /\ ks # <<"note">>
  BY <1>2 DEF Pushes
<1>4. LockQuiet(t, w)
  BY <1>1, <1>2, OutsideHolds, GoesOutside DEF Inside
<1>5. BridgeQuiet(t, w, open')
  BY <1>1, <1>2 DEF BridgeQuiet
<1>6. th[t].c \in Calls /\ st[th[t].c] = "none" => ks = <<>>
  BY <1>2 DEF ServerInv, Births, Unpublished
<1> QED
  BY <1>1, <1>2, <1>3, <1>4, <1>5, <1>6, GoesOn DEF CreateSteps, AnnounceSteps

LEMMA CloseInv ==
  ASSUME ServerInv, NEW t \in Threads, close(t)
  PROVE  ServerInv'
<1>1. /\ ~IsIdle(t) /\ Head(th[t].k) = "close"
      /\ UNCHANGED <<st, lock, reg, bridge, rec, hist, timer, ofCall>>
      /\ isInbound' \subseteq Calls /\ answered' \subseteq Calls /\ missed' \subseteq Calls
      /\ open' = open \ {th[t].b} /\ open' \subseteq Bridges
  BY DEF close, At, engine, active, broker, ServerInv, TypeOK
<1>2. <<>> \in Pushes \ {<<"note">>}
  BY DEF Pushes
<1>3. ASSUME NEW w, Goes(t, w, <<>>) PROVE LockQuiet(t, w) /\ BridgeQuiet(t, w, open')
  <2>1. LockQuiet(t, w)
    BY <1>1, <1>3, GoesInside
  <2>2. ASSUME NEW b \in open', Owes(th[t], b) PROVE Owes(w, b)
    BY <1>1, <1>2, <1>3, <2>2, GoesOwes
  <2> QED
    BY <2>1, <2>2 DEF BridgeQuiet
<1>4. CASE Then(t, <<>>)
  <2>1. PICK w : Goes(t, w, <<>>) /\ th' = [th EXCEPT ![t] = w]
    BY <1>1, <1>2, <1>4, ThenGoes
  <2> QED
    BY <1>1, <1>2, <1>3, <2>1, GoesOn DEF CreateSteps, AnnounceSteps
<1>5. ASSUME th[t].b \in open, IsIdle(th[t].b),
             th' = [th EXCEPT ![t].k = Tail(@), ![th[t].b] = Terminating(th[t].b)]
      PROVE  ServerInv'
  <2>1. PICK b \in open : b = th[t].b
    BY <1>5
  <2>2. /\ b \in Threads /\ b \in Bridges /\ Terminating(b) \in Goroutines /\ b # t /\ IsIdle(b)
    BY <1>1, <1>5, <2>1, TerminatingFacts
  <2>3. PICK r : r = Tail(th[t].k)
    OBVIOUS
  <2>4. th[t] \in Goroutines /\ th[t].k \in Seq(Steps) /\ th[t].k # <<>>
    BY <1>1, ThreadTypes DEF IsIdle
  <2>5. r \in Seq(Steps) /\ r = <<>> \o Tail(th[t].k)
    BY <2>3, <2>4
  <2>6. PICK w : w = [th[t] EXCEPT !.k = r]
    OBVIOUS
  <2>7. w \in Goroutines /\ w.k = r /\ w.c = th[t].c /\ w.left = th[t].left
    BY <2>4, <2>5, <2>6 DEF Goroutines
  <2>8. Goes(t, w, <<>>)
    BY <2>5, <2>7 DEF Goes
  <2>9. th' = [th EXCEPT ![t] = w, ![b] = Terminating(b)]
    BY <1>5, <2>1, <2>3, <2>6 DEF ServerInv, TypeOK
  <2>10. /\ th' \in [Threads -> Goroutines] /\ th'[t] = w /\ th'[b] = Terminating(b)
         /\ \A u \in Threads \ {t, b} : th'[u] = th[u]
    BY <2>2, <2>7, <2>9 DEF ServerInv, TypeOK
  <2>11. Quiet(b, Terminating(b), open')
    BY <1>1, <2>2, TerminatingQuiet
  <2>12. OrderOf(t, w, reg)
    BY <1>1, <1>2, <2>8, GoesOrder DEF CreateSteps, AnnounceSteps
  <2>13. BirthQuiet(t, w) /\ RingQuiet(t, w) /\ AnnounceQuiet(t, w)
    BY <1>1, <1>2, <2>8, GoesQuiet DEF CreateSteps, AnnounceSteps
  <2>14. Quiet(t, w, open')
    BY <1>3, <2>7, <2>8, <2>12, <2>13 DEF Quiet
  <2>15. \A u \in Threads : th'[u] = th[u] \/ Quiet(u, th'[u], open')
    BY <2>10, <2>11, <2>14
  <2>16. open' \subseteq open
    BY <1>1
  <2> QED
    BY <1>1, <2>10, <2>15, <2>16, QuietInv
<1> QED
  BY <1>4, <1>5 DEF close

LEMMA OnStateChangeInv ==
  ASSUME ServerInv, NEW t \in Threads, OnStateChange(t)
  PROVE  ServerInv'
<1>1. /\ ~IsIdle(t) /\ Head(th[t].k) = "OnStateChange" /\ At(t, "OnStateChange")
      /\ UNCHANGED <<st, lock, reg, bridge, rec, hist, timer, ofCall, open>>
      /\ isInbound' \subseteq Calls /\ missed' \subseteq Calls
      /\ open \in SUBSET Bridges
  BY DEF OnStateChange, At, engine, broker, bridges, ServerInv, TypeOK
<1>2. PICK c \in Calls : c = th[t].c /\ st[c] # "none"
  BY <1>1, HasEngine DEF CreateSteps, AnnounceSteps, Draining
<1>3. answered' \subseteq Calls
  BY <1>2 DEF OnStateChange, ServerInv, TypeOK
<1>4. PICK ks : ks = IF st[c] = "ended" THEN <<"remove", "endCall">> ELSE <<"upsert">>
  OBVIOUS
<1>5. ks \in Pushes /\ ks # <<"note">>
  BY <1>4 DEF Pushes
<1>6. PICK r : r = ks \o Tail(th[t].k)
  OBVIOUS
<1>7. th[t] \in Goroutines /\ th[t].k \in Seq(Steps) /\ th[t].k # <<>> /\ ks \in Seq(Steps)
      /\ th[t].snap \in Operators \cup {NoOwner}
  BY <1>1, <1>5, ThreadTypes, PushFacts DEF IsIdle
<1>8. r \in Seq(Steps)
  BY <1>6, <1>7, ThenSeq
<1>9. PICK q : q = IF st[c] = "ended" THEN th[t].snap ELSE IF rec[c] = NoRecord THEN NoOwner ELSE rec[c].owner
  OBVIOUS
<1>10. q \in Operators \cup {NoOwner}
  BY <1>7, <1>9 DEF ServerInv, TypeOK, Records
<1>11. PICK w : w = [th[t] EXCEPT !.k = r, !.snap = q]
  OBVIOUS
<1>12. w \in Goroutines /\ w.k = r /\ w.c = th[t].c /\ w.left = th[t].left
  BY <1>7, <1>8, <1>10, <1>11 DEF Goroutines
<1>13. th' = [th EXCEPT ![t] = w]
  <2>1. CASE st[c] = "ended"
    <3>1. w = [th[t] EXCEPT !.k = r]
      BY <1>7, <1>9, <1>11, <2>1 DEF Goroutines
    <3>2. th' = [th EXCEPT ![t].k = ks \o Tail(@)]
      BY <1>2, <1>4, <2>1 DEF OnStateChange, Then
    <3> QED
      BY <1>6, <3>1, <3>2 DEF ServerInv, TypeOK
  <2>2. CASE st[c] # "ended"
    BY <1>2, <1>4, <1>6, <1>9, <1>11, <2>2 DEF OnStateChange, ServerInv, TypeOK
  <2> QED
    BY <2>1, <2>2
<1>14. Goes(t, w, ks)
  BY <1>6, <1>12 DEF Goes
<1>15. LockQuiet(t, w)
  <2>1. lock[c] = t
    BY <1>1, <1>2 DEF ServerInv, Locked
  <2>2. \A d \in Calls : lock[d] = t => d = c
    BY <1>2, ServerAssumption DEF ServerInv, Locked
  <2>3. CASE st[c] = "ended"
    <3>1. r # <<>> /\ Head(r) = "remove" /\ Len(r) > 1 /\ r[2] = "endCall"
      BY <1>4, <1>6, <1>7, <2>3
    <3> QED
      BY <1>2, <1>12, <2>1, <2>2, <2>3, <3>1 DEF LockQuiet, Inside
  <2>4. CASE st[c] # "ended"
    <3>1. r # <<>> /\ Head(r) = "upsert"
      BY <1>4, <1>6, <1>7, <2>4
    <3> QED
      BY <1>2, <1>12, <2>1, <2>2, <2>4, <3>1 DEF LockQuiet, Inside
  <2> QED
    BY <2>3, <2>4
<1>16. BridgeQuiet(t, w, open')
  BY <1>1, <1>5, <1>14, GoesOwes DEF BridgeQuiet
<1> QED
  BY <1>1, <1>2, <1>3, <1>5, <1>13, <1>14, <1>15, <1>16, GoesOn DEF CreateSteps, AnnounceSteps

(* Who is about to drain has nothing else left to do. *)
LEMMA AtDrain ==
  ASSUME ServerInv, NEW t \in Threads, At(t, "drain")
  PROVE  /\ t \in Handlers /\ \A ls : "drain" \notin ls => ~Pending(th[t], ls)
         /\ ~Inside(th[t]) /\ th[t].k \notin Creating
<1>1. 1 \in DOMAIN th[t].k /\ th[t].k[1] = "drain" /\ DOMAIN th[t].k = 1 .. Len(th[t].k)
  BY AtFacts
<1>2. Len(th[t].k) = 1
  BY <1>1, ThreadTypes DEF OrderOf
<1>3. \A i \in DOMAIN th[t].k : th[t].k[i] = "drain"
  BY <1>1, <1>2
<1>4. t \in Handlers
  BY <1>1, ThreadTypes DEF OrderOf, Pending
<1>5. th[t].k \notin Creating
  BY Heads DEF At, CreateSteps
<1> QED
  BY <1>3, <1>4, <1>5 DEF Pending, Inside, At

LEMMA DrainInv ==
  ASSUME ServerInv, NEW t \in Threads, drain(t)
  PROVE  ServerInv'
<1>1. /\ ~IsIdle(t) /\ Head(th[t].k) = "drain" /\ At(t, "drain")
      /\ UNCHANGED <<st, lock, reg, bridge, rec, hist, timer, ofCall, open>>
      /\ isInbound' \subseteq Calls /\ answered' \subseteq Calls /\ missed' \subseteq Calls
      /\ open \in SUBSET Bridges
  BY DEF drain, At, engine, active, broker, bridges, ServerInv, TypeOK
<1>2. /\ t \in Handlers /\ t \notin Calls /\ ~Inside(th[t]) /\ th[t].k \notin Creating
      /\ ~Pending(th[t], {"drained"}) /\ ~Announces(th[t]) /\ ~Pending(th[t], {"record"})
  BY <1>1, AtDrain, HandlerFacts DEF Announces
<1>3. CASE th[t].left = {} /\ Return(t)
  <2>1. \A b \in open' : ~Owes(th[t], b)
    BY <1>1, <1>2, <1>3 DEF Owes, Pending
  <2>2. Quiet(t, Idle, open')
    BY <1>1, <1>2, <2>1, ReturnQuiet DEF Creating
  <2> QED
    BY <1>1, <1>3, <2>2, QuietStep DEF Return
<1>4. ASSUME NEW c \in th[t].left,
             th' = [th EXCEPT ![t].k = <<"EndCall", "drained", "drain">>, ![t].c = c, ![t].left = @ \ {c}]
      PROVE  ServerInv'
  <2>1. th[t] \in Goroutines /\ th[t].left \subseteq Calls /\ c \in Calls
    BY ThreadTypes
  <2>2. PICK r : r = <<"EndCall", "drained", "drain">>
    OBVIOUS
  <2>3. r \in Seq(Steps) /\ DOMAIN r = 1 .. 3 /\ Len(r) = 3 /\ r # <<>>
    BY <2>2 DEF Steps
  <2>4. r[1] = "EndCall" /\ r[2] = "drained" /\ r[3] = "drain" /\ Head(r) = "EndCall"
    BY <2>2
  <2>5. PICK w : w = [th[t] EXCEPT !.k = r, !.c = c, !.left = th[t].left \ {c}]
    OBVIOUS
  <2>6. w \in Goroutines /\ w.k = r /\ w.c = c /\ w.left = th[t].left \ {c} /\ w.b = th[t].b
    BY <2>1, <2>3, <2>5 DEF Goroutines
  <2>7. th' = [th EXCEPT ![t] = w]
    BY <1>4, <2>2, <2>5 DEF ServerInv, TypeOK
  <2>8. Only(w, Draining) /\ Only(w, DrainSteps) /\ Pending(w, {"drain"}) /\ Pending(w, {"drained"})
    BY <2>3, <2>4, <2>6 DEF Only, Pending, Draining, DrainSteps
  <2>9. \A ls : ls \cap Draining = {} => ~Pending(w, ls)
    BY <2>8 DEF Only, Pending
  <2>10. r \notin Creating
    BY <2>4, Heads DEF CreateSteps
  <2>11. OrderOf(t, w, reg)
    <3>1. \A i \in DOMAIN w.k : w.k[i] = "drain" => i = Len(w.k)
      BY <2>3, <2>4, <2>6
    <3>2. \A i \in DOMAIN w.k : w.k[i] \notin {"endCall", "note", "OnStateChange", "upsert"}
      BY <2>8 DEF Only, Draining
    <3>3. /\ ~Pending(w, {"cap", "createCall", "StartCall", "HandleCallOffer"})
          /\ ~Pending(w, {"OnIncoming", "inbound", "emitState"})
      BY <2>9 DEF Draining
    <3> QED
      BY <1>2, <2>1, <2>6, <2>8, <3>1, <3>2, <3>3 DEF OrderOf
  <2>12. BirthQuiet(t, w)
    BY <1>2, <2>6, <2>8, <2>10 DEF BirthQuiet, Creating
  <2>13. RingQuiet(t, w) /\ AnnounceQuiet(t, w)
    BY <1>2, <2>9 DEF RingQuiet, AnnounceQuiet, Announces, Draining
  <2>14. LockQuiet(t, w)
    BY <1>2, <2>4, <2>6, OutsideHolds DEF LockQuiet
  <2>15. ASSUME NEW b \in open', Owes(th[t], b) PROVE Owes(w, b)
    <3>1. PICK d \in Calls : bridge[d] = b /\ d \in th[t].left
      BY <1>1, <1>2, <2>15 DEF Owes, Pending
    <3>2. CASE d = c
      BY <2>6, <2>8, <3>1, <3>2 DEF Owes, Pending
    <3>3. CASE d # c
      BY <2>6, <3>1, <3>3 DEF Owes
    <3> QED
      BY <3>2, <3>3
  <2>16. Quiet(t, w, open')
    BY <2>6, <2>11, <2>12, <2>13, <2>14, <2>15 DEF Quiet, BridgeQuiet
  <2> QED
    BY <1>1, <2>7, <2>16, QuietStep
<1> QED
  BY <1>3, <1>4 DEF drain

LEMMA OfferFailsInv ==
  ASSUME ServerInv, NEW t \in Threads, OfferFails(t)
  PROVE  ServerInv'
<1>1. /\ ~IsIdle(t) /\ Head(th[t].k) = "offer"
      /\ UNCHANGED <<st, lock, reg, bridge, rec, hist, timer, ofCall, open>>
      /\ isInbound' \subseteq Calls /\ answered' \subseteq Calls /\ missed' \subseteq Calls
      /\ open \in SUBSET Bridges
  BY DEF OfferFails, At, engine, active, broker, bridges, ServerInv, TypeOK
<1>2. /\ th[t].left = {} /\ ~Pending(th[t], {"drained"}) /\ ~Inside(th[t])
  BY <1>1, NotDraining DEF DrainSteps, Draining, Inside
<1>3. th[t].k \notin Creating /\ ~Announces(th[t]) /\ th[t].c \in Calls /\ st[th[t].c] # "none"
  BY <1>1, PastCreation, HasEngine DEF CreateSteps, AnnounceSteps, Draining, Announces, Pending
<1>4. PICK r : r = <<"remove">>
  OBVIOUS
<1>5. r \in Seq(Steps) /\ r # <<>> /\ Head(r) = "remove" /\ DOMAIN r = {1} /\ r[1] = "remove"
  BY <1>4 DEF Steps
<1>6. PICK w : w = [th[t] EXCEPT !.k = r]
  OBVIOUS
<1>7. w \in Goroutines /\ w.k = r /\ w.c = th[t].c /\ w.left = {}
  BY <1>2, <1>5, <1>6, ThreadTypes DEF Goroutines
<1>8. th' = [th EXCEPT ![t] = w]
  BY <1>4, <1>6 DEF OfferFails, ServerInv, TypeOK
<1>9. r \notin Creating
  BY <1>5, Heads DEF CreateSteps
<1>10. \A ls : "remove" \notin ls => ~Pending(w, ls)
  BY <1>5, <1>7 DEF Pending
<1>11. OrderOf(t, w, reg)
  BY <1>3, <1>5, <1>7, <1>10 DEF OrderOf
<1>12. BirthQuiet(t, w)
  BY <1>3, <1>7, <1>9 DEF BirthQuiet, Creating
<1>13. RingQuiet(t, w)
  <2>1. th[t] # Idle
    BY <1>1 DEF Idle, IsIdle
  <2>2. t \in Calls => th[t].c = t
    BY <2>1 DEF ServerInv, RingOnce
  <2> QED
    BY <1>7, <1>10, <2>1, <2>2 DEF RingQuiet
<1>14. LockQuiet(t, w) /\ AnnounceQuiet(t, w)
  BY <1>2, <1>3, <1>5, <1>7, <1>10, OutsideHolds DEF LockQuiet, AnnounceQuiet, Announces
<1>15. BridgeQuiet(t, w, open')
  BY <1>1, <1>2 DEF BridgeQuiet, Owes, Pending
<1>16. Quiet(t, w, open')
  BY <1>7, <1>11, <1>12, <1>13, <1>14, <1>15 DEF Quiet
<1> QED
  BY <1>1, <1>8, <1>16, QuietStep

-----------------------------------------------------------------------------
(* Creation: what is left of doStartCall and onIncomingOffer. *)

CreationSteps == CreateSteps \cup AnnounceSteps \cup {"offer", "record"}

LEMMA CreatorSteps ==
  ASSUME NEW k \in Creating \cup Announcements
  PROVE  /\ k \in Seq(Steps) /\ k # <<>> /\ \A i \in DOMAIN k : k[i] \in CreationSteps
         /\ k \in Announcements => \A i \in DOMAIN k : k[i] \in AnnounceSteps
<1> DEFINE Good == k \in Seq(Steps) /\ k # <<>> /\ \A i \in DOMAIN k : k[i] \in CreationSteps
           Announced == \A i \in DOMAIN k : k[i] \in AnnounceSteps
<1>1. ASSUME k = <<"cap", "createCall", "StartCall", "offer", "record">> PROVE Good
  BY <1>1 DEF Steps, CreationSteps, CreateSteps, AnnounceSteps
<1>2. ASSUME k = <<"createCall", "StartCall", "offer", "record">> PROVE Good
  BY <1>2 DEF Steps, CreationSteps, CreateSteps, AnnounceSteps
<1>3. ASSUME k = <<"cap", "createCall", "HandleCallOffer", "OnIncoming", "inbound", "emitState">> PROVE Good
  BY <1>3 DEF Steps, CreationSteps, CreateSteps, AnnounceSteps
<1>4. ASSUME k = <<"createCall", "HandleCallOffer", "OnIncoming", "inbound", "emitState">> PROVE Good
  BY <1>4 DEF Steps, CreationSteps, CreateSteps, AnnounceSteps
<1>5. ASSUME k = <<"StartCall", "offer", "record">> PROVE Good
  BY <1>5 DEF Steps, CreationSteps, CreateSteps, AnnounceSteps
<1>6. ASSUME k = <<"HandleCallOffer", "OnIncoming", "inbound", "emitState">> PROVE Good
  BY <1>6 DEF Steps, CreationSteps, CreateSteps, AnnounceSteps
<1>7. ASSUME k = <<"OnIncoming", "inbound", "emitState">> PROVE Good /\ Announced
  BY <1>7 DEF Steps, CreationSteps, CreateSteps, AnnounceSteps
<1>8. ASSUME k = <<"inbound", "emitState">> PROVE Good /\ Announced
  BY <1>8 DEF Steps, CreationSteps, CreateSteps, AnnounceSteps
<1>9. ASSUME k = <<"emitState">> PROVE Good /\ Announced
  BY <1>9 DEF Steps, CreationSteps, CreateSteps, AnnounceSteps
<1>10. k \in Creating => Good /\ k \notin Announcements
  BY <1>1, <1>2, <1>3, <1>4, <1>5, <1>6, Heads DEF Creating, Registering, Beginning, CreateSteps, AnnounceSteps
<1>11. k \in Announcements => Good /\ Announced
  BY <1>7, <1>8, <1>9 DEF Announcements
<1> QED
  BY <1>10, <1>11

LEMMA CreatorOrder ==
  ASSUME NEW t, NEW g, NEW w, w.k \in Creating \cup Announcements, w.c \in Calls, w.left = {}
  PROVE  OrderOf(t, w, g)
<1>1. /\ \A i \in DOMAIN w.k : w.k[i] \in CreationSteps
      /\ w.k \in Announcements => \A i \in DOMAIN w.k : w.k[i] \in AnnounceSteps
  BY CreatorSteps
<1>2. \A i \in DOMAIN w.k : w.k[i] \notin {"endCall", "note", "OnStateChange", "upsert", "drain", "drained"}
  BY <1>1 DEF CreationSteps, CreateSteps, AnnounceSteps
<1>3. ~Pending(w, {"drained", "drain"})
  BY <1>2 DEF Pending
<1>4. w.k \in Announcements => ~Pending(w, {"cap", "createCall", "StartCall", "HandleCallOffer"})
  BY <1>1 DEF Pending, AnnounceSteps
<1> QED
  BY <1>2, <1>3, <1>4 DEF OrderOf

(* The first step tells what is left. *)
LEMMA CreatorShape ==
  ASSUME ServerInv, NEW t \in Threads, ~IsIdle(t), Head(th[t].k) \in CreateSteps \cup AnnounceSteps
  PROVE  /\ th[t].k \in Creating \cup Announcements /\ th[t].c \in Calls /\ th[t].left = {}
         /\ Head(th[t].k) \in CreateSteps => th[t].k \in Creating /\ st[th[t].c] = "none"
         /\ Head(th[t].k) \in AnnounceSteps => th[t].k \in Announcements /\ st[th[t].c] # "none"
         /\ ~Inside(th[t]) /\ \A b : ~Owes(th[t], b)
         /\ t \in Calls => th[t].c = t
<1>1. th[t].k[1] = Head(th[t].k) /\ 1 \in DOMAIN th[t].k
  BY AtFacts DEF At
<1>2. Pending(th[t], CreateSteps) \/ Pending(th[t], AnnounceSteps)
  BY <1>1 DEF Pending
<1>3. th[t].k \in Creating \cup Announcements
  BY <1>2, ThreadTypes DEF OrderOf, CreateSteps, AnnounceSteps
<1>4. Head(th[t].k) \in CreateSteps => th[t].k \in Creating
  BY <1>3, Heads DEF CreateSteps, AnnounceSteps
<1>5. Head(th[t].k) \in AnnounceSteps => th[t].k \in Announcements
  BY <1>3, Heads DEF CreateSteps, AnnounceSteps
<1>6. th[t].c \in Calls
  BY <1>1, ThreadTypes DEF OrderOf, Only, CreateSteps, AnnounceSteps
<1>7. th[t].left = {} /\ ~Pending(th[t], {"drained"})
  BY NotDraining DEF DrainSteps, Draining, CreateSteps, AnnounceSteps
<1>8. th[t].k \in Creating => st[th[t].c] = "none"
  BY DEF ServerInv, Births
<1>9. Head(th[t].k) \in AnnounceSteps => st[th[t].c] # "none"
  <2> SUFFICES ASSUME Head(th[t].k) \in AnnounceSteps PROVE st[th[t].c] # "none"
    OBVIOUS
  <2>1. th[t].k \notin Creating
    BY Heads DEF CreateSteps, AnnounceSteps
  <2>2. ~Only(th[t], Draining)
    BY <1>1 DEF Only, Draining, AnnounceSteps
  <2> QED
    BY <1>6, <2>1, <2>2 DEF ServerInv, Births
<1>10. ~Inside(th[t])
  BY DEF Inside, CreateSteps, AnnounceSteps
<1>11. \A b : ~Owes(th[t], b)
  BY <1>7 DEF Owes, Pending, CreateSteps, AnnounceSteps
<1>12. t \in Calls => th[t].c = t
  <2>1. th[t] # Idle
    BY DEF Idle, IsIdle
  <2> QED
    BY <2>1 DEF ServerInv, RingOnce
<1> QED
  BY <1>3, <1>4, <1>5, <1>6, <1>7, <1>8, <1>9, <1>10, <1>11, <1>12

(* The next step of creating a call. *)
LEMMA CreatorTails ==
  ASSUME ServerInv, NEW t \in Threads, NEW l \in CreateSteps \cup AnnounceSteps, At(t, l)
  PROVE  /\ l = "cap" => /\ Tail(th[t].k) \in Registering /\ th[t].k \in Registering
                          /\ \A i \in DOMAIN Tail(th[t].k) : Pending(th[t], {Tail(th[t].k)[i]})
         /\ l = "createCall" => Tail(th[t].k) \in Beginning /\ th[t].k \in Registering
         /\ l = "StartCall" => Tail(th[t].k) = <<"offer", "record">> /\ th[t].k = <<"StartCall", "offer", "record">>
         /\ l = "HandleCallOffer" => Tail(th[t].k) = <<"OnIncoming", "inbound", "emitState">>
                                     /\ th[t].k \in Beginning
         /\ l = "OnIncoming" => Tail(th[t].k) = <<"inbound", "emitState">>
         /\ l = "inbound" => Tail(th[t].k) = <<"emitState">>
         /\ l = "emitState" => Tail(th[t].k) = <<>>
<1>1. /\ Head(th[t].k) \in CreateSteps => th[t].k \in Creating
      /\ Head(th[t].k) \in AnnounceSteps => th[t].k \in Announcements
      /\ Head(th[t].k) = l
  BY CreatorShape DEF At
<1>2. CASE l = "cap"
  <2>1. th[t].k \in {<<"cap", "createCall", "StartCall", "offer", "record">>,
                     <<"cap", "createCall", "HandleCallOffer", "OnIncoming", "inbound", "emitState">>}
    BY <1>1, <1>2 DEF CreateSteps, Creating, Registering, Beginning
  <2>2. /\ th[t].k \in Registering
        /\ \/ Tail(th[t].k) = <<"createCall", "StartCall", "offer", "record">>
           \/ Tail(th[t].k) = <<"createCall", "HandleCallOffer", "OnIncoming", "inbound", "emitState">>
    <3>1. ASSUME th[t].k = <<"cap", "createCall", "StartCall", "offer", "record">>
          PROVE  Tail(th[t].k) = <<"createCall", "StartCall", "offer", "record">>
      BY <3>1
    <3>2. ASSUME th[t].k = <<"cap", "createCall", "HandleCallOffer", "OnIncoming", "inbound", "emitState">>
          PROVE  Tail(th[t].k) = <<"createCall", "HandleCallOffer", "OnIncoming", "inbound", "emitState">>
      BY <3>2
    <3> QED
      BY <2>1, <3>1, <3>2 DEF Registering
  <2>3. PICK k \in Seq(Steps) : k = th[t].k /\ k # <<>>
    BY <2>1, ThreadTypes
  <2>4. ASSUME NEW i \in DOMAIN Tail(k) PROVE i + 1 \in DOMAIN k /\ k[i + 1] = Tail(k)[i]
    BY <2>3, <2>4
  <2> QED
    BY <1>2, <2>2, <2>3, <2>4 DEF Pending, Registering
<1>3. CASE l = "createCall"
  <2>1. th[t].k \in {<<"createCall", "StartCall", "offer", "record">>,
                     <<"createCall", "HandleCallOffer", "OnIncoming", "inbound", "emitState">>}
    BY <1>1, <1>3 DEF CreateSteps, Creating, Registering, Beginning
  <2>2. ASSUME th[t].k = <<"createCall", "StartCall", "offer", "record">>
        PROVE  Tail(th[t].k) = <<"StartCall", "offer", "record">>
    BY <2>2
  <2>3. ASSUME th[t].k = <<"createCall", "HandleCallOffer", "OnIncoming", "inbound", "emitState">>
        PROVE  Tail(th[t].k) = <<"HandleCallOffer", "OnIncoming", "inbound", "emitState">>
    BY <2>3
  <2> QED
    BY <1>3, <2>1, <2>2, <2>3 DEF Registering, Beginning
<1>4. CASE l = "StartCall"
  <2>1. th[t].k = <<"StartCall", "offer", "record">>
    BY <1>1, <1>4 DEF CreateSteps, Creating, Registering, Beginning
  <2> QED
    BY <1>4, <2>1
<1>5. CASE l = "HandleCallOffer"
  <2>1. th[t].k = <<"HandleCallOffer", "OnIncoming", "inbound", "emitState">>
    BY <1>1, <1>5 DEF CreateSteps, Creating, Registering, Beginning
  <2> QED
    BY <1>5, <2>1 DEF Beginning
<1>6. CASE l = "OnIncoming"
  <2>1. th[t].k = <<"OnIncoming", "inbound", "emitState">>
    BY <1>1, <1>6 DEF AnnounceSteps, Announcements
  <2> QED
    BY <1>6, <2>1
<1>7. CASE l = "inbound"
  <2>1. th[t].k = <<"inbound", "emitState">>
    BY <1>1, <1>7 DEF AnnounceSteps, Announcements
  <2> QED
    BY <1>7, <2>1
<1>8. CASE l = "emitState"
  <2>1. th[t].k = <<"emitState">>
    BY <1>1, <1>8 DEF AnnounceSteps, Announcements
  <2> QED
    BY <1>8, <2>1
<1> QED
  BY <1>2, <1>3, <1>4, <1>5, <1>6, <1>7, <1>8 DEF CreateSteps, AnnounceSteps

(* A goroutine that goes on without pushing anything. *)
LEMMA NextStep ==
  ASSUME ServerInv, NEW t \in Threads, ~IsIdle(t), Then(t, <<>>)
  PROVE  \E w \in Goroutines : /\ w.k = Tail(th[t].k) /\ w.c = th[t].c /\ w.left = th[t].left
                                /\ w.b = th[t].b /\ th' = [th EXCEPT ![t] = w]
<1>1. <<>> \in Pushes
  BY DEF Pushes
<1>2. PICK w : Goes(t, w, <<>>) /\ w.b = th[t].b /\ th' = [th EXCEPT ![t] = w]
  BY <1>1, ThenGoes
<1>3. th[t].k \in Seq(Steps) /\ th[t].k # <<>>
  BY ThreadTypes DEF IsIdle
<1>4. <<>> \o Tail(th[t].k) = Tail(th[t].k)
  BY <1>3
<1> QED
  BY <1>2, <1>4 DEF Goes

LEMMA CapInv ==
  ASSUME ServerInv, NEW t \in Threads, cap(t)
  PROVE  ServerInv'
<1>1. /\ ~IsIdle(t) /\ Head(th[t].k) = "cap" /\ At(t, "cap")
      /\ UNCHANGED <<st, lock, reg, bridge, rec, hist, timer, ofCall, open>>
      /\ isInbound' \subseteq Calls /\ answered' \subseteq Calls /\ missed' \subseteq Calls
      /\ open \in SUBSET Bridges
  BY DEF cap, At, engine, active, broker, bridges, ServerInv, TypeOK
<1>2. /\ th[t].c \in Calls /\ th[t].left = {} /\ st[th[t].c] = "none" /\ ~Inside(th[t])
      /\ \A b : ~Owes(th[t], b)
      /\ t \in Calls => th[t].c = t
  BY <1>1, CreatorShape DEF CreateSteps
<1>3. th[t].k \notin Beginning
  BY <1>1, Heads
<1>4. CASE Return(t)
  <2>1. Quiet(t, Idle, open')
    BY <1>1, <1>2, <1>3, ReturnQuiet DEF Live
  <2> QED
    BY <1>1, <1>4, <2>1, QuietStep DEF Return
<1>5. CASE Then(t, <<>>)
  <2>1. PICK w \in Goroutines : /\ w.k = Tail(th[t].k) /\ w.c = th[t].c /\ w.left = th[t].left
                                /\ th' = [th EXCEPT ![t] = w]
    BY <1>1, <1>5, NextStep
  <2>2. /\ w.k \in Registering /\ th[t].k \in Registering
        /\ \A i \in DOMAIN w.k : Pending(th[t], {w.k[i]})
    BY <1>1, <2>1, CreatorTails DEF CreateSteps
  <2>3. w.k \in Creating /\ w.k \notin Beginning /\ w.k # <<>> /\ Head(w.k) \in {"cap", "createCall"}
    BY <2>2, Heads DEF Creating
  <2>4. OrderOf(t, w, reg)
    BY <1>2, <2>1, <2>3, CreatorOrder
  <2>5. BirthQuiet(t, w)
    BY <1>2, <1>3, <2>1, <2>2, <2>3 DEF BirthQuiet
  <2>6. \A ls : Pending(w, ls) => Pending(th[t], ls)
    BY <2>2 DEF Pending
  <2>7. RingQuiet(t, w)
    <3>1. th[t] # Idle
      BY <1>1 DEF Idle, IsIdle
    <3> QED
      BY <1>2, <2>1, <2>6, <3>1 DEF RingQuiet
  <2>8. AnnounceQuiet(t, w)
    BY <1>2, <2>6 DEF AnnounceQuiet, Announces, Live, ServerInv
  <2>9. LockQuiet(t, w)
    BY <1>2, <2>3, OutsideHolds DEF LockQuiet
  <2>10. BridgeQuiet(t, w, open')
    BY <1>2 DEF BridgeQuiet
  <2>11. Quiet(t, w, open')
    BY <2>1, <2>4, <2>5, <2>7, <2>8, <2>9, <2>10 DEF Quiet
  <2> QED
    BY <1>1, <2>1, <2>11, QuietStep
<1> QED
  BY <1>4, <1>5 DEF cap

LEMMA MarkInboundInv ==
  ASSUME ServerInv, markInbound
  PROVE  ServerInv'
<1>1. PICK t \in Threads : t = EventLoop
  BY DEF Threads
<1>2. ~IsIdle(t) /\ Head(th[t].k) = "inbound" /\ At(t, "inbound") /\ Then(t, <<>>)
  BY <1>1 DEF markInbound, At
<1>3. /\ th[t].c \in Calls /\ th[t].left = {} /\ st[th[t].c] # "none" /\ ~Inside(th[t])
      /\ \A b : ~Owes(th[t], b)
      /\ t \in Calls => th[t].c = t
  BY <1>2, CreatorShape DEF AnnounceSteps, CreateSteps
<1>4. /\ UNCHANGED <<st, lock, reg, bridge, rec, hist, timer, ofCall, open>>
      /\ isInbound' \subseteq Calls /\ answered' \subseteq Calls /\ missed' \subseteq Calls
      /\ open \in SUBSET Bridges
  BY <1>1, <1>3 DEF markInbound, engine, broker, bridges, ServerInv, TypeOK
<1>5. PICK w \in Goroutines : /\ w.k = Tail(th[t].k) /\ w.c = th[t].c /\ w.left = th[t].left
                              /\ th' = [th EXCEPT ![t] = w]
  BY <1>2, NextStep
<1>6. w.k = <<"emitState">>
  BY <1>2, <1>5, CreatorTails DEF AnnounceSteps
<1>7. /\ w.k \in Announcements /\ w.k \notin Creating /\ w.k # <<>> /\ Head(w.k) = "emitState"
      /\ th[t].k \notin Beginning
  <2>1. w.k \in Announcements /\ w.k # <<>> /\ Head(w.k) = "emitState"
    BY <1>6 DEF Announcements
  <2> QED
    BY <1>2, <2>1, Heads DEF CreateSteps
<1>8. OrderOf(t, w, reg)
  BY <1>3, <1>5, <1>7, CreatorOrder
<1>9. BirthQuiet(t, w)
  BY <1>3, <1>5, <1>7 DEF BirthQuiet, Creating
<1>10. ~Pending(w, {"record"}) /\ Announces(w)
  BY <1>6 DEF Pending, Announces
<1>11. RingQuiet(t, w) /\ AnnounceQuiet(t, w)
  <2>1. t \notin Calls
    BY <1>1, RolesAssumption
  <2> QED
    BY <1>1, <1>5, <1>10, <2>1 DEF RingQuiet, AnnounceQuiet
<1>12. LockQuiet(t, w)
  BY <1>3, <1>7, OutsideHolds DEF LockQuiet
<1>13. BridgeQuiet(t, w, open')
  BY <1>3 DEF BridgeQuiet
<1>14. Quiet(t, w, open')
  BY <1>5, <1>8, <1>9, <1>11, <1>12, <1>13 DEF Quiet
<1> QED
  BY <1>4, <1>5, <1>14, QuietStep

-----------------------------------------------------------------------------
(* The actions that enter an engine. *)

LEMMA ApplyType ==
  ASSUME NEW s \in CallStates, NEW e \in TransitionTypes
  PROVE  Apply(s, e) \in CallStates
BY DEF Apply, Target, ValidFrom, CallStates, TransitionTypes

LEMMA EnterParts ==
  ASSUME ServerInv, NEW t \in Threads, NEW w \in Goroutines, th' = [th EXCEPT ![t] = w],
         NEW c \in Calls, st[c] # "none", NEW s \in CallStates, lock[c] = NoThread,
         st' = [st EXCEPT ![c] = s], lock' = [lock EXCEPT ![c] = t],
         UNCHANGED <<active, broker, missed, timer, bridges>>,
         ~Inside(th[t]), w.c = c, w.k # <<>>, Head(w.k) = "OnStateChange",
         OrderOf(t, w, reg), BirthQuiet(t, w), RingQuiet(t, w), BridgeQuiet(t, w, open),
         ~Announces(w), Announces(th[t]) => th[t].c = c
  PROVE  ServerInv'
<1>1. /\ th' \in [Threads -> Goroutines] /\ th'[t] = w
      /\ \A u \in Threads \ {t} : th'[u] = th[u]
  BY ThreadStep
<1>2. UNCHANGED <<reg, isInbound, answered, bridge, rec, hist, missed, timer, ofCall, open>>
  BY DEF active, broker, bridges
<1>3. /\ st'[c] = s /\ lock'[c] = t /\ s # "none" /\ t # NoThread
      /\ \A d \in Calls \ {c} : st'[d] = st[d] /\ lock'[d] = lock[d]
  BY ServerAssumption DEF ServerInv, TypeOK, CallStates
<1>4. TypeOK'
  BY <1>1, <1>2 DEF ServerInv, TypeOK
<1>5. Ordered'
  <2>1. OrderOf(t, th[t], reg)'
    BY <1>1, <1>2 DEF OrderOf, Pending, Only
  <2> QED
    BY <1>1, <1>2, <2>1, OrderKept
<1>6. Births'
  <2>1. \A d \in Calls : st'[d] = "none" <=> st[d] = "none"
    BY <1>3
  <2>2. ASSUME NEW d \in Calls, st[d] = "none" PROVE Unpublished(d)'
    BY <1>2, <1>3, <2>2 DEF ServerInv, Births, Unpublished
  <2>3. \A u \in Threads : th'[u] = th[u] \/ BirthQuiet(u, th'[u])
    BY <1>1
  <2> QED
    BY <1>2, <2>1, <2>2, <2>3, BirthsKept
<1>7. RingOnce'
  <2>1. \A u \in Threads : th'[u] = th[u] \/ RingQuiet(u, th'[u])
    BY <1>1
  <2> QED
    BY <1>2, <2>1, RingKept
<1>8. Locked'
  <2>1. \A d \in Calls \ {c} : lock[d] # t
    BY OutsideHolds
  <2>2. Inside(w)
    BY DEF Inside
  <2> QED
    BY <1>1, <1>3, <2>1, <2>2, LockedMoved
<1>9. \A u \in Threads : Pending(th'[u], {"OnIncoming", "emitState"}) => u = EventLoop
  BY <1>1 DEF ServerInv, Announces
<1>10. ASSUME NEW d \in Calls, d # c, Announcing(d) PROVE Announcing(d)'
  <2>1. th[EventLoop].c = d /\ Announces(th[EventLoop]) /\ EventLoop \in Threads
    BY <1>10 DEF Announcing, Announces, Pending, Threads
  <2>2. EventLoop # t
    BY <1>10, <2>1
  <2>3. th'[EventLoop] = th[EventLoop]
    BY <1>1, <2>1, <2>2
  <2> QED
    BY <1>10, <2>3 DEF Announcing
<1>11. reg \subseteq Calls
  BY DEF ServerInv, TypeOK
<1>12. LiveCallPublished'
  <2>1. ASSUME NEW d \in reg', lock'[d] = NoThread, st'[d] \in Live, ~Announcing(d)'
        PROVE  rec'[d] # NoRecord /\ (d \in Inbound => rec'[d].status = mapStatus(st'[d]))
    <3>1. d # c /\ d \in Calls /\ d \in reg
      BY <1>2, <1>3, <1>11, <2>1
    <3>2. st'[d] = st[d] /\ lock'[d] = lock[d] /\ rec' = rec /\ ~Announcing(d)
      BY <1>2, <1>3, <1>10, <2>1, <3>1
    <3> QED
      BY <2>1, <3>1, <3>2 DEF ServerInv, LiveCallPublished
  <2> QED
    BY <2>1 DEF LiveCallPublished, mapStatus
<1>13. EndedLeavesRegistry'
  BY <1>2, <1>3, <1>11 DEF ServerInv, EndedLeavesRegistry
<1>14. BridgeOwned'
  <2>1. \A u \in Threads : th'[u] = th[u] \/ BridgeQuiet(u, th'[u], open')
    BY <1>1, <1>2
  <2> QED
    BY <1>2, <2>1, BridgesKept
<1>15. \A b \in open' : ofCall'[b] \in Calls
  BY <1>2 DEF ServerInv
<1> QED
  BY <1>4, <1>5, <1>6, <1>7, <1>8, <1>9, <1>12, <1>13, <1>14, <1>15 DEF ServerInv, Pending

LEMMA EnterInv ==
  ASSUME ServerInv, NEW t \in Threads, ~IsIdle(t),
         Head(th[t].k) \in {"offer", "AcceptCall", "RejectCall", "EndCall", "HandleCallAccept", "HandleCallTerminate"},
         NEW c \in Calls, c = th[t].c, st[c] # "none", NEW s \in CallStates,
         NEW ks \in {<<>>, <<"remove", "endCall">>}, Enter(t, c, s, ks),
         UNCHANGED <<active, broker, missed, timer, bridges>>
  PROVE  ServerInv'
<1>1. /\ lock[c] = NoThread /\ st' = [st EXCEPT ![c] = s] /\ lock' = [lock EXCEPT ![c] = t]
  BY DEF Enter
<1>2. PICK q : q = <<"OnStateChange">> \o ks
  OBVIOUS
<1>3. q = <<"OnStateChange">> \/ q = <<"OnStateChange", "remove", "endCall">>
  <2>1. CASE ks = <<>>
    BY <1>2, <2>1
  <2>2. CASE ks = <<"remove", "endCall">>
    <3>1. "OnStateChange" \in Steps
      BY DEF Steps
    <3>2. <<"OnStateChange">> \o <<"remove", "endCall">> = <<"OnStateChange", "remove", "endCall">>
      BY <3>1, ThenEnd
    <3> QED
      BY <1>2, <2>2, <3>2, Zenon
  <2> QED
    BY <2>1, <2>2
<1>4. q \in Pushes /\ q # <<>> /\ q \in Seq(Steps) /\ Head(q) = "OnStateChange" /\ q # <<"note">>
  <2>1. q \in Pushes
    BY <1>3 DEF Pushes
  <2>2. q # <<>> /\ Head(q) = "OnStateChange"
    <3>1. ASSUME q = <<"OnStateChange">> PROVE q # <<>> /\ Head(q) = "OnStateChange"
      BY <3>1
    <3>2. ASSUME q = <<"OnStateChange", "remove", "endCall">> PROVE q # <<>> /\ Head(q) = "OnStateChange"
      BY <3>2
    <3> QED
      BY <1>3, <3>1, <3>2
  <2>3. q # <<"note">>
    BY <2>2
  <2> QED
    BY <2>1, <2>2, <2>3, PushFacts
<1>5. PICK w : Goes(t, w, q) /\ th' = [th EXCEPT ![t] = w]
  BY <1>2, <1>4, ThenGoes DEF Enter
<1>6. w.c = c /\ w.k # <<>> /\ Head(w.k) = "OnStateChange" /\ w \in Goroutines
  <2>1. th[t].k \in Seq(Steps) /\ th[t].k # <<>>
    BY ThreadTypes DEF IsIdle
  <2>2. PICK r : r = q \o Tail(th[t].k)
    OBVIOUS
  <2>3. r # <<>> /\ Head(r) = "OnStateChange"
    BY <1>4, <2>1, <2>2
  <2> QED
    BY <1>5, <2>2, <2>3 DEF Goes
<1>7. ~Inside(th[t])
  BY DEF Inside
<1>8. OrderOf(t, w, reg)
  BY <1>4, <1>5, GoesOrder DEF CreateSteps, AnnounceSteps
<1>9. BirthQuiet(t, w) /\ RingQuiet(t, w)
  BY <1>4, <1>5, GoesQuiet DEF CreateSteps, AnnounceSteps
<1>10. BridgeQuiet(t, w, open)
  <2>1. open \subseteq Bridges
    BY DEF ServerInv, TypeOK
  <2> QED
    BY <1>4, <1>5, <2>1, GoesOwes DEF BridgeQuiet
<1>11. ~Announces(th[t])
  BY PastCreation DEF CreateSteps, AnnounceSteps, Announces, Pending
<1>12. ~Announces(w)
  <2>1. ~Pending(w, {"OnIncoming", "inbound", "emitState"})
    <3>1. w.k \notin Creating \cup Announcements
      BY <1>6, Heads DEF CreateSteps, AnnounceSteps
    <3> QED
      BY <1>8, <3>1 DEF OrderOf
  <2> QED
    BY <2>1 DEF Announces, Pending
<1> QED
  BY <1>1, <1>5, <1>6, <1>7, <1>8, <1>9, <1>10, <1>11, <1>12, EnterParts

LEMMA OfferSentInv ==
  ASSUME ServerInv, NEW t \in Threads, OfferSent(t)
  PROVE  ServerInv'
<1>1. ~IsIdle(t) /\ Head(th[t].k) = "offer"
  BY DEF OfferSent, At
<1>2. PICK c \in Calls : c = th[t].c /\ st[c] # "none"
  BY <1>1, HasEngine DEF CreateSteps, AnnounceSteps, Draining
<1>3. Apply(st[c], "offer_sent") \in CallStates
  BY <1>2, ApplyType DEF ServerInv, TypeOK, TransitionTypes
<1> QED
  BY <1>1, <1>2, <1>3, EnterInv DEF OfferSent

LEMMA RejectCallInv ==
  ASSUME ServerInv, NEW t \in Threads, RejectCall(t)
  PROVE  ServerInv'
<1>1. ~IsIdle(t) /\ Head(th[t].k) = "RejectCall"
  BY DEF RejectCall, At
<1>2. PICK c \in Calls : c = th[t].c /\ st[c] # "none"
  BY <1>1, HasEngine DEF CreateSteps, AnnounceSteps, Draining
<1>3. Apply(st[c], "local_rejected") \in CallStates
  BY <1>2, ApplyType DEF ServerInv, TypeOK, TransitionTypes
<1> QED
  BY <1>1, <1>2, <1>3, EnterInv DEF RejectCall

LEMMA AcceptCallInv ==
  ASSUME ServerInv, NEW t \in Threads, AcceptCall(t)
  PROVE  ServerInv'
<1>1. ~IsIdle(t) /\ Head(th[t].k) = "AcceptCall" /\ UNCHANGED <<active, broker, missed, timer, bridges>>
  BY DEF AcceptCall, At
<1>2. PICK c \in Calls : c = th[t].c /\ st[c] # "none"
  BY <1>1, HasEngine DEF CreateSteps, AnnounceSteps, Draining
<1>3. CASE st[c] = "incoming_ringing"
  <2>1. Apply(st[c], "local_accepted") \in CallStates
    BY <1>2, ApplyType DEF ServerInv, TypeOK, TransitionTypes
  <2> QED
    BY <1>1, <1>2, <1>3, <2>1, EnterInv DEF AcceptCall
<1>4. CASE st[c] # "incoming_ringing"
  <2>1. /\ UNCHANGED <<st, lock, reg, bridge, rec, hist, timer, ofCall, open>> /\ Return(t)
        /\ isInbound' \subseteq Calls /\ answered' \subseteq Calls /\ missed' \subseteq Calls
    BY <1>1, <1>2, <1>4 DEF AcceptCall, engine, active, broker, bridges, ServerInv, TypeOK
  <2>2. Quiet(t, Idle, open')
    BY <1>1, PlainReturn
  <2> QED
    BY <2>1, <2>2, QuietStep DEF Return
<1> QED
  BY <1>3, <1>4

LEMMA EndCallInv ==
  ASSUME ServerInv, NEW t \in Threads, EndCall(t)
  PROVE  ServerInv'
<1>1. ~IsIdle(t) /\ Head(th[t].k) = "EndCall" /\ UNCHANGED <<active, broker, missed, timer, bridges>>
  BY DEF EndCall, At
<1>2. PICK c \in Calls : c = th[t].c
  <2>1. th[t].k[1] = "EndCall" /\ 1 \in DOMAIN th[t].k
    BY <1>1, AtFacts DEF At
  <2> QED
    BY <2>1, ThreadTypes DEF OrderOf, Only
<1>3. CASE st[c] \in {"none", "ended"}
  <2>1. /\ UNCHANGED <<st, lock, reg, bridge, rec, hist, timer, ofCall, open>> /\ Then(t, <<>>)
        /\ isInbound' \subseteq Calls /\ answered' \subseteq Calls /\ missed' \subseteq Calls
        /\ open \in SUBSET Bridges
    BY <1>1, <1>2, <1>3 DEF EndCall, engine, active, broker, bridges, ServerInv, TypeOK
  <2>2. <<>> \in Pushes \ {<<"note">>}
    BY DEF Pushes
  <2>3. PICK w : Goes(t, w, <<>>) /\ th' = [th EXCEPT ![t] = w]
    BY <1>1, <2>1, <2>2, ThenGoes
  <2>4. LockQuiet(t, w)
    BY <1>1, <2>3, OutsideHolds, GoesOutside DEF Inside
  <2>5. BridgeQuiet(t, w, open')
    BY <1>1, <2>1, <2>2, <2>3, GoesOwes DEF BridgeQuiet
  <2> QED
    BY <1>1, <2>1, <2>2, <2>3, <2>4, <2>5, GoesOn DEF CreateSteps, AnnounceSteps
<1>4. CASE st[c] \notin {"none", "ended"}
  <2>1. Apply(st[c], "terminated") \in CallStates
    BY <1>4, ApplyType DEF ServerInv, TypeOK, TransitionTypes
  <2> QED
    BY <1>1, <1>2, <1>4, <2>1, EnterInv DEF EndCall
<1> QED
  BY <1>3, <1>4

LEMMA HandleCallInv ==
  ASSUME ServerInv, HandleCallAccept \/ HandleCallTerminate
  PROVE  ServerInv'
<1>1. PICK t \in Threads : t = EventLoop
  BY DEF Threads
<1>2. ~IsIdle(t) /\ Head(th[t].k) \in {"HandleCallAccept", "HandleCallTerminate"}
  BY <1>1 DEF HandleCallAccept, HandleCallTerminate, At
<1>3. PICK c \in Calls : c = th[t].c /\ st[c] # "none"
  BY <1>2, HasEngine DEF CreateSteps, AnnounceSteps, Draining
<1>4. Apply(st[c], "remote_accepted") \in CallStates /\ Apply(st[c], "terminated") \in CallStates
  BY <1>3, ApplyType DEF ServerInv, TypeOK, TransitionTypes
<1>5. CASE HandleCallAccept
  BY <1>1, <1>2, <1>3, <1>4, <1>5, EnterInv DEF HandleCallAccept
<1>6. CASE HandleCallTerminate
  BY <1>1, <1>2, <1>3, <1>4, <1>6, EnterInv DEF HandleCallTerminate
<1> QED
  BY <1>5, <1>6

LEMMA EmitStateInv ==
  ASSUME ServerInv, emitState
  PROVE  ServerInv'
<1>1. PICK t \in Threads : t = EventLoop
  BY DEF Threads
<1>2. /\ ~IsIdle(t) /\ Head(th[t].k) = "emitState" /\ At(t, "emitState")
      /\ UNCHANGED <<active, broker, missed, timer, bridges>>
  BY <1>1 DEF emitState, At
<1>3. /\ th[t].c \in Calls /\ th[t].left = {} /\ st[th[t].c] # "none" /\ ~Inside(th[t])
      /\ \A b : ~Owes(th[t], b)
  BY <1>2, CreatorShape DEF AnnounceSteps, CreateSteps
<1>4. PICK c \in Calls : c = th[t].c
  BY <1>3
<1>5. /\ lock[c] = NoThread /\ st' = [st EXCEPT ![c] = st[c]] /\ lock' = [lock EXCEPT ![c] = t]
      /\ Then(t, <<"OnStateChange">> \o <<>>) /\ st[c] \in CallStates
  BY <1>1, <1>3, <1>4 DEF emitState, Enter, ServerInv, TypeOK
<1>6. <<"OnStateChange">> \o <<>> = <<"OnStateChange">> /\ <<"OnStateChange">> \in Pushes
  BY DEF Pushes
<1>7. PICK w : Goes(t, w, <<"OnStateChange">>) /\ th' = [th EXCEPT ![t] = w]
  BY <1>2, <1>5, <1>6, ThenGoes
<1>8. Tail(th[t].k) = <<>>
  BY <1>2, CreatorTails DEF AnnounceSteps
<1>9. w.k = <<"OnStateChange">> /\ w.c = c /\ w.left = {} /\ w \in Goroutines
  <2>1. <<"OnStateChange">> \o <<>> = <<"OnStateChange">>
    OBVIOUS
  <2> QED
    BY <1>3, <1>4, <1>7, <1>8, <2>1 DEF Goes
<1>10. w.k \in Requests /\ w.k # <<>> /\ Head(w.k) = "OnStateChange"
  BY <1>9 DEF Requests
<1>11. OrderOf(t, w, reg)
  BY <1>9, <1>10, StartOrder
<1>12. ~Pending(w, {"record"}) /\ ~Announces(w)
  BY <1>9 DEF Pending, Announces
<1>13. w.k \notin Creating /\ th[t].k \notin Creating
  BY <1>2, <1>10, Heads DEF CreateSteps
<1>14. BirthQuiet(t, w)
  BY <1>3, <1>4, <1>9, <1>13 DEF BirthQuiet, Creating
<1>15. RingQuiet(t, w)
  BY <1>1, <1>12, RolesAssumption DEF RingQuiet
<1>16. BridgeQuiet(t, w, open)
  BY <1>3 DEF BridgeQuiet
<1> QED
  BY <1>2, <1>3, <1>4, <1>5, <1>7, <1>9, <1>10, <1>11, <1>12, <1>14, <1>15, <1>16, EnterParts

LEMMA OnRelayConnectedInv ==
  ASSUME ServerInv, NEW c \in Calls, onRelayConnected(c)
  PROVE  ServerInv'
<1>1. PICK t \in Threads : t = RelayLoop /\ t \notin Calls
  BY RolesAssumption DEF Threads
<1>2. /\ IsIdle(t) /\ lock[c] = NoThread /\ st[c] = "connecting"
      /\ st' = [st EXCEPT ![c] = Apply(st[c], "media_connected")] /\ lock' = [lock EXCEPT ![c] = t]
      /\ Start(t, <<"OnStateChange">>, c, NoOwner) /\ UNCHANGED <<active, broker, missed, timer, bridges>>
  BY <1>1 DEF onRelayConnected, ServerInv, TypeOK
<1>3. Apply(st[c], "media_connected") \in CallStates
  BY <1>2, ApplyType DEF CallStates, TransitionTypes
<1>4. <<"OnStateChange">> \in Requests /\ <<"OnStateChange">> \in Seq(Steps)
  BY DEF Requests, Steps
<1>5. PICK w \in Goroutines : w.k = <<"OnStateChange">> /\ w.c = c /\ w.left = {} /\ th' = [th EXCEPT ![t] = w]
  <2>1. PICK k \in Seq(Steps), o \in Operators \cup {NoOwner} : k = <<"OnStateChange">> /\ Start(t, k, c, o)
    BY <1>2, <1>4
  <2>2. \E w \in Goroutines : w.k = k /\ w.c = c /\ w.left = {} /\ th' = [th EXCEPT ![t] = w]
    BY <2>1 DEF Start, Idle, Goroutines
  <2> QED
    BY <2>1, <2>2, Zenon
<1>6. w.k \in Requests /\ w.k # <<>> /\ Head(w.k) = "OnStateChange"
  BY <1>4, <1>5
<1>7. OrderOf(t, w, reg)
  BY <1>5, <1>6, StartOrder
<1>8. BirthQuiet(t, w) /\ RingQuiet(t, w)
  BY <1>1, <1>2, <1>5, <1>6, StartParts
<1>9. ~Inside(th[t]) /\ ~Announces(th[t])
  BY <1>2, IdleFacts DEF Inside, Announces
<1>10. BridgeQuiet(t, w, open)
  BY <1>2, IdleFacts DEF BridgeQuiet, ServerInv, TypeOK
<1>11. ~Announces(w)
  BY <1>5 DEF Pending, Announces
<1>12. st[c] # "none"
  BY <1>2
<1> QED
  BY <1>2, <1>3, <1>5, <1>6, <1>7, <1>8, <1>9, <1>10, <1>11, <1>12, EnterParts

-----------------------------------------------------------------------------
(* The actions that write a record or leave an engine. *)

LEMMA RecordParts ==
  ASSUME ServerInv, NEW t \in Threads, NEW w \in Goroutines, th' = [th EXCEPT ![t] = w],
         UNCHANGED <<st, active, missed, timer, bridges>>,
         rec' \in [Calls -> Records \cup {NoRecord}], hist' \subseteq Calls,
         lock' \in [Calls -> Threads \cup {NoThread}],
         \A d \in Calls : st[d] = "none" => rec'[d] = NoRecord /\ d \notin hist' /\ lock'[d] = NoThread,
         OrderOf(t, w, reg), BirthQuiet(t, w), RingQuiet(t, w), BridgeQuiet(t, w, open),
         Announces(w) => t = EventLoop,
         Locked', LiveCallPublished', EndedLeavesRegistry'
  PROVE  ServerInv'
<1>1. /\ th' \in [Threads -> Goroutines] /\ th'[t] = w
      /\ \A u \in Threads \ {t} : th'[u] = th[u]
  BY ThreadStep
<1>2. UNCHANGED <<reg, isInbound, answered, bridge, ofCall, open>>
  BY DEF active, bridges
<1>3. TypeOK'
  BY <1>1, <1>2 DEF ServerInv, TypeOK
<1>4. Ordered'
  <2>1. OrderOf(t, th[t], reg)'
    BY <1>1, <1>2 DEF OrderOf, Pending, Only
  <2> QED
    BY <1>1, <1>2, <2>1, OrderKept
<1>5. Births'
  <2>1. ASSUME NEW d \in Calls, st[d] = "none" PROVE Unpublished(d)'
    BY <1>2, <2>1 DEF ServerInv, Births, Unpublished
  <2>2. \A u \in Threads : th'[u] = th[u] \/ BirthQuiet(u, th'[u])
    BY <1>1
  <2> QED
    BY <1>2, <2>1, <2>2, BirthsKept
<1>6. RingOnce'
  <2>1. \A u \in Threads : th'[u] = th[u] \/ RingQuiet(u, th'[u])
    BY <1>1
  <2> QED
    BY <2>1, RingKept
<1>7. \A u \in Threads : Pending(th'[u], {"OnIncoming", "emitState"}) => u = EventLoop
  BY <1>1 DEF ServerInv, Announces
<1>8. BridgeOwned'
  <2>1. \A u \in Threads : th'[u] = th[u] \/ BridgeQuiet(u, th'[u], open')
    BY <1>1, <1>2
  <2> QED
    BY <1>2, <2>1, BridgesKept
<1>9. \A b \in open' : ofCall'[b] \in Calls
  BY <1>2 DEF ServerInv
<1> QED
  BY <1>3, <1>4, <1>5, <1>6, <1>7, <1>8, <1>9 DEF ServerInv, Pending

(* All of it but the record, the mutex and the announcement. *)
LEMMA GoesParts ==
  ASSUME ServerInv, NEW t \in Threads, ~IsIdle(t), Then(t, <<>>),
         Head(th[t].k) \in {"claim", "upsert", "endCall"}
  PROVE  \E w \in Goroutines :
           /\ th' = [th EXCEPT ![t] = w] /\ Goes(t, w, <<>>)
           /\ OrderOf(t, w, reg) /\ BirthQuiet(t, w) /\ RingQuiet(t, w) /\ AnnounceQuiet(t, w)
           /\ BridgeQuiet(t, w, open)
           /\ w.k # <<>> => Head(w.k) \notin {"OnStateChange", "upsert"}
<1>1. <<>> \in Pushes /\ <<>> # <<"note">>
  BY DEF Pushes
<1>2. PICK w : Goes(t, w, <<>>) /\ th' = [th EXCEPT ![t] = w]
  BY <1>1, ThenGoes
<1>3. OrderOf(t, w, reg)
  BY <1>1, <1>2, GoesOrder DEF CreateSteps, AnnounceSteps
<1>4. BirthQuiet(t, w) /\ RingQuiet(t, w) /\ AnnounceQuiet(t, w)
  BY <1>1, <1>2, GoesQuiet DEF CreateSteps, AnnounceSteps
<1>5. BridgeQuiet(t, w, open)
  <2>1. open \subseteq Bridges
    BY DEF ServerInv, TypeOK
  <2> QED
    BY <1>1, <1>2, <2>1, GoesOwes DEF BridgeQuiet
<1>6. ASSUME w.k # <<>> PROVE Head(w.k) \notin {"OnStateChange", "upsert"}
  <2>1. PICK k \in Seq(Steps), r \in Seq(Steps), n \in 0 .. 3 : Moved(t, w, <<>>, k, r, n)
    BY <1>1, <1>2, GoesFacts
  <2>2. k = th[t].k /\ r = w.k /\ n = 0
    BY <2>1 DEF Moved
  <2>3. \A i \in 1 .. Len(r) : i > n => i - n + 1 \in 2 .. Len(k) /\ r[i] = k[i - n + 1]
    BY <2>1 DEF Moved
  <2>4. 1 \in 1 .. Len(r) /\ Head(r) = r[1]
    BY <1>6, <2>2
  <2>5. 2 \in DOMAIN k /\ r[1] = k[2]
    BY <2>2, <2>3, <2>4
  <2>6. k[2] \notin {"OnStateChange", "upsert"}
    BY <2>2, <2>5, ThreadTypes DEF OrderOf
  <2> QED
    BY <2>2, <2>4, <2>5, <2>6
<1> QED
  BY <1>2, <1>3, <1>4, <1>5, <1>6 DEF Goes

LEMMA SetOwnerInv ==
  ASSUME ServerInv, NEW t \in Threads, setOwner(t)
  PROVE  ServerInv'
<1>1. ~IsIdle(t) /\ Head(th[t].k) = "claim" /\ UNCHANGED <<engine, active, hist, missed, timer, bridges>>
  BY DEF setOwner, At
<1>2. PICK c \in Calls : c = th[t].c /\ st[c] # "none"
  BY <1>1, HasEngine DEF CreateSteps, AnnounceSteps, Draining
<1>3. /\ UNCHANGED <<st, lock, reg, bridge, hist, timer, ofCall, open>>
      /\ isInbound' \subseteq Calls /\ answered' \subseteq Calls /\ missed' \subseteq Calls
  BY <1>1 DEF engine, active, bridges, ServerInv, TypeOK
<1>4. CASE Return(t) /\ UNCHANGED rec
  <2>1. Quiet(t, Idle, open')
    BY <1>1, PlainReturn
  <2> QED
    BY <1>3, <1>4, <2>1, QuietStep DEF Return
<1>5. ASSUME rec[c] # NoRecord, rec' = [rec EXCEPT ![c].owner = th[t].o], Then(t, <<>>)
      PROVE  ServerInv'
  <2>1. PICK w \in Goroutines :
           /\ th' = [th EXCEPT ![t] = w] /\ Goes(t, w, <<>>)
           /\ OrderOf(t, w, reg) /\ BirthQuiet(t, w) /\ RingQuiet(t, w) /\ AnnounceQuiet(t, w)
           /\ BridgeQuiet(t, w, open)
           /\ w.k # <<>> => Head(w.k) \notin {"OnStateChange", "upsert"}
    BY <1>1, <1>5, GoesParts
  <2>2. /\ rec[c] \in Records /\ rec \in [Calls -> Records \cup {NoRecord}] /\ th[t].o \in Operators \cup {NoOwner}
    BY <1>5, ThreadTypes DEF ServerInv, TypeOK
  <2>3. PICK q : q = [rec[c] EXCEPT !.owner = th[t].o]
    OBVIOUS
  <2>4. q \in Records /\ q.status = rec[c].status
    BY <2>2, <2>3 DEF Records
  <2>5. rec' = [rec EXCEPT ![c] = q]
    BY <1>5, <2>2, <2>3
  <2>6. rec' \in [Calls -> Records \cup {NoRecord}] /\ rec'[c] = q /\ \A d \in Calls \ {c} : rec'[d] = rec[d]
    BY <2>2, <2>4, <2>5
  <2>7. /\ th'[t] = w /\ \A u \in Threads \ {t} : th'[u] = th[u]
    BY <2>1, ThreadStep
  <2>8. \A d \in Calls : st[d] = "none" => rec'[d] = NoRecord /\ d \notin hist' /\ lock'[d] = NoThread
    BY <1>2, <1>3, <2>6 DEF ServerInv, Births, Unpublished
  <2>9. Locked'
    <3>1. LockQuiet(t, w)
      BY <1>1, <2>1, OutsideHolds DEF Inside, LockQuiet
    <3> QED
      BY <1>3, <2>7, <3>1, LockedKept
  <2>10. \A d \in Calls : Announcing(d) => Announcing(d)' \/ st[d] \notin Live
    BY <2>1, <2>7, AnnounceKept
  <2>11. LiveCallPublished'
    <3>1. ASSUME NEW d \in reg', lock'[d] = NoThread, st'[d] \in Live, ~Announcing(d)'
          PROVE  rec'[d] # NoRecord /\ (d \in Inbound => rec'[d].status = mapStatus(st'[d]))
      <4>1. d \in Calls /\ d \in reg /\ ~Announcing(d) /\ lock[d] = NoThread /\ st[d] \in Live /\ st' = st
        BY <1>3, <2>10, <3>1 DEF ServerInv, TypeOK
      <4>2. rec[d] # NoRecord /\ (d \in Inbound => rec[d].status = mapStatus(st[d]))
        BY <4>1 DEF ServerInv, LiveCallPublished
      <4>3. CASE d = c
        BY <2>4, <2>6, <4>1, <4>2, <4>3, ServerAssumption
      <4>4. CASE d # c
        BY <2>6, <4>1, <4>2, <4>4
      <4> QED
        BY <4>3, <4>4
    <3> QED
      BY <3>1 DEF LiveCallPublished, mapStatus
  <2>12. EndedLeavesRegistry'
    BY <1>3 DEF ServerInv, EndedLeavesRegistry
  <2>13. Announces(w) => t = EventLoop
    BY <2>1 DEF AnnounceQuiet
  <2>14. hist' \subseteq Calls /\ lock' \in [Calls -> Threads \cup {NoThread}]
    BY <1>3 DEF ServerInv, TypeOK
  <2>15. UNCHANGED <<st, active, missed, timer, bridges>>
    BY <1>1 DEF engine
  <2> QED
    BY <2>1, <2>6, <2>8, <2>9, <2>11, <2>12, <2>13, <2>14, <2>15, RecordParts
<1> QED
  BY <1>2, <1>4, <1>5 DEF setOwner

(* OnStateChange of a call that goes on publishes it and leaves the engine. *)
LEMMA UpsertInv ==
  ASSUME ServerInv, NEW t \in Threads, upsert(t)
  PROVE  ServerInv'
<1>1. /\ ~IsIdle(t) /\ Head(th[t].k) = "upsert" /\ At(t, "upsert") /\ Then(t, <<>>)
      /\ UNCHANGED <<st, active, hist, missed, timer, bridges>>
  BY DEF upsert, At
<1>2. PICK c \in Calls : c = th[t].c /\ st[c] # "none"
  BY <1>1, HasEngine DEF CreateSteps, AnnounceSteps, Draining
<1>3. lock[c] = t /\ st[c] # "ended" /\ st[c] \in CallStates
  BY <1>1, <1>2 DEF ServerInv, Locked, TypeOK
<1>4. PICK w \in Goroutines :
         /\ th' = [th EXCEPT ![t] = w] /\ Goes(t, w, <<>>)
         /\ OrderOf(t, w, reg) /\ BirthQuiet(t, w) /\ RingQuiet(t, w) /\ AnnounceQuiet(t, w)
         /\ BridgeQuiet(t, w, open)
         /\ w.k # <<>> => Head(w.k) \notin {"OnStateChange", "upsert"}
  BY <1>1, GoesParts
<1>5. PICK q : q = [owner |-> th[t].snap, status |-> mapStatus(st[c])]
  OBVIOUS
<1>6. q \in Records /\ q.status = mapStatus(st[c])
  <2>1. mapStatus(st[c]) \in {"starting", "ringing", "connected"}
    BY <1>3 DEF mapStatus, CallStates
  <2>2. th[t].snap \in Operators \cup {NoOwner}
    BY ThreadTypes
  <2> QED
    BY <1>5, <2>1, <2>2 DEF Records
<1>7. rec' = [rec EXCEPT ![c] = q] /\ lock' = [lock EXCEPT ![c] = NoThread]
  BY <1>2, <1>5 DEF upsert
<1>8. /\ rec' \in [Calls -> Records \cup {NoRecord}] /\ rec'[c] = q
      /\ lock' \in [Calls -> Threads \cup {NoThread}] /\ lock'[c] = NoThread
      /\ \A d \in Calls \ {c} : rec'[d] = rec[d] /\ lock'[d] = lock[d]
  BY <1>6, <1>7 DEF ServerInv, TypeOK
<1>9. /\ th'[t] = w /\ \A u \in Threads \ {t} : th'[u] = th[u]
  BY <1>4, ThreadStep
<1>10. UNCHANGED <<st, reg, hist>> /\ reg \subseteq Calls /\ hist' \subseteq Calls
  BY <1>1 DEF active, ServerInv, TypeOK
<1>11. \A d \in Calls : st[d] = "none" => rec'[d] = NoRecord /\ d \notin hist' /\ lock'[d] = NoThread
  BY <1>2, <1>8, <1>10 DEF ServerInv, Births, Unpublished
<1>12. Locked'
  <2>1. \A d \in Calls \ {c} : lock[d] # t
    BY <1>2, ServerAssumption DEF ServerInv, Locked
  <2>2. lock'[c] # t
    BY <1>8, ServerAssumption
  <2> QED
    BY <1>3, <1>4, <1>8, <1>9, <1>10, <2>1, <2>2, LockedMoved
<1>13. \A d \in Calls : Announcing(d) => Announcing(d)' \/ st[d] \notin Live
  BY <1>4, <1>9, AnnounceKept
<1>14. LiveCallPublished'
  <2>1. ASSUME NEW d \in reg', lock'[d] = NoThread, st'[d] \in Live, ~Announcing(d)'
        PROVE  rec'[d] # NoRecord /\ (d \in Inbound => rec'[d].status = mapStatus(st'[d]))
    <3>1. d \in Calls /\ d \in reg /\ st' = st
      BY <1>10
    <3>2. CASE d = c
      BY <1>6, <1>8, <3>1, <3>2, ServerAssumption
    <3>3. CASE d # c
      BY <1>8, <1>13, <2>1, <3>1, <3>3 DEF ServerInv, LiveCallPublished
    <3> QED
      BY <3>2, <3>3
  <2> QED
    BY <2>1 DEF LiveCallPublished, mapStatus
<1>15. EndedLeavesRegistry'
  BY <1>3, <1>8, <1>10 DEF ServerInv, EndedLeavesRegistry
<1>16. Announces(w) => t = EventLoop
  BY <1>4 DEF AnnounceQuiet
<1>17. UNCHANGED <<st, active, missed, timer, bridges>>
  BY <1>1
<1> QED
  BY <1>4, <1>8, <1>10, <1>11, <1>12, <1>14, <1>15, <1>16, <1>17, RecordParts

(* The record of a call that has left the registry goes to the history. *)
LEMMA EndCallRecordInv ==
  ASSUME ServerInv, NEW t \in Threads, endCall(t)
  PROVE  ServerInv'
<1>1. /\ ~IsIdle(t) /\ Head(th[t].k) = "endCall" /\ At(t, "endCall") /\ Then(t, <<>>)
      /\ UNCHANGED <<st, active, missed, timer, bridges>>
  BY DEF endCall, At
<1>2. PICK c \in Calls : c = th[t].c /\ st[c] # "none"
  BY <1>1, HasEngine DEF CreateSteps, AnnounceSteps, Draining
<1>3. c \notin reg
  BY <1>1, <1>2, AtFacts, ThreadTypes DEF OrderOf
<1>4. PICK w \in Goroutines :
         /\ th' = [th EXCEPT ![t] = w] /\ Goes(t, w, <<>>)
         /\ OrderOf(t, w, reg) /\ BirthQuiet(t, w) /\ RingQuiet(t, w) /\ AnnounceQuiet(t, w)
         /\ BridgeQuiet(t, w, open)
         /\ w.k # <<>> => Head(w.k) \notin {"OnStateChange", "upsert"}
  BY <1>1, GoesParts
<1>5. /\ rec' \in [Calls -> Records \cup {NoRecord}] /\ hist' \subseteq Calls
      /\ \A d \in Calls \ {c} : rec'[d] = rec[d] /\ (d \in hist' <=> d \in hist)
  <2>1. CASE rec[c] = NoRecord
    BY <1>2, <2>1 DEF endCall, broker, ServerInv, TypeOK
  <2>2. CASE rec[c] # NoRecord
    BY <1>2, <2>2 DEF endCall, broker, ServerInv, TypeOK
  <2> QED
    BY <2>1, <2>2
<1>6. /\ lock' \in [Calls -> Threads \cup {NoThread}]
      /\ lock'[c] = (IF lock[c] = t THEN NoThread ELSE lock[c])
      /\ \A d \in Calls \ {c} : lock'[d] = lock[d]
  BY <1>2 DEF endCall, ServerInv, TypeOK
<1>7. /\ th'[t] = w /\ \A u \in Threads \ {t} : th'[u] = th[u]
  BY <1>4, ThreadStep
<1>8. UNCHANGED <<st, reg>> /\ reg \subseteq Calls
  BY <1>1 DEF active, ServerInv, TypeOK
<1>9. \A d \in Calls : st[d] = "none" => rec'[d] = NoRecord /\ d \notin hist' /\ lock'[d] = NoThread
  BY <1>2, <1>5, <1>6 DEF ServerInv, Births, Unpublished
<1>10. Locked'
  <2>1. \A d \in Calls \ {c} : lock[d] # t
    BY <1>2, ServerAssumption DEF ServerInv, Locked
  <2>2. CASE lock[c] = t
    <3>1. lock'[c] = NoThread /\ NoThread # t
      BY <1>6, <2>2, ServerAssumption
    <3> QED
      BY <1>4, <1>6, <1>7, <1>8, <2>1, <2>2, <3>1, LockedMoved
  <2>3. CASE lock[c] # t
    <3>1. lock' = lock
      BY <1>6, <2>3 DEF ServerInv, TypeOK
    <3>2. LockQuiet(t, w)
      BY <1>4, <2>1, <2>3 DEF LockQuiet
    <3> QED
      BY <1>7, <1>8, <3>1, <3>2, LockedKept
  <2> QED
    BY <2>2, <2>3
<1>11. \A d \in Calls : Announcing(d) => Announcing(d)' \/ st[d] \notin Live
  BY <1>4, <1>7, AnnounceKept
<1>12. LiveCallPublished'
  <2>1. ASSUME NEW d \in reg', lock'[d] = NoThread, st'[d] \in Live, ~Announcing(d)'
        PROVE  rec'[d] # NoRecord /\ (d \in Inbound => rec'[d].status = mapStatus(st'[d]))
    <3>1. d \in Calls /\ d \in reg /\ st' = st /\ d # c
      BY <1>3, <1>8
    <3> QED
      BY <1>5, <1>6, <1>11, <2>1, <3>1 DEF ServerInv, LiveCallPublished
  <2> QED
    BY <2>1 DEF LiveCallPublished, mapStatus
<1>13. EndedLeavesRegistry'
  BY <1>3, <1>6, <1>8 DEF ServerInv, EndedLeavesRegistry
<1>14. Announces(w) => t = EventLoop
  BY <1>4 DEF AnnounceQuiet
<1> QED
  BY <1>1, <1>4, <1>5, <1>6, <1>9, <1>10, <1>12, <1>13, <1>14, RecordParts

(* The incoming call gets its record, and nobody else writes it before. *)
LEMMA OnIncomingInv ==
  ASSUME ServerInv, OnIncoming
  PROVE  ServerInv'
<1>1. PICK t \in Threads : t = EventLoop
  BY DEF Threads
<1>2. /\ ~IsIdle(t) /\ Head(th[t].k) = "OnIncoming" /\ At(t, "OnIncoming") /\ Then(t, <<>>)
      /\ UNCHANGED <<engine, active, hist, missed, timer, bridges>>
      /\ rec' = [rec EXCEPT ![th[t].c] = [owner |-> NoOwner, status |-> "ringing"]]
  BY <1>1 DEF OnIncoming, At
<1>3. /\ th[t].c \in Calls /\ th[t].left = {} /\ st[th[t].c] # "none" /\ ~Inside(th[t])
      /\ \A b : ~Owes(th[t], b)
  BY <1>2, CreatorShape DEF AnnounceSteps, CreateSteps
<1>4. PICK c \in Calls : c = th[t].c
  BY <1>3
<1>5. PICK w \in Goroutines : /\ w.k = Tail(th[t].k) /\ w.c = th[t].c /\ w.left = th[t].left
                              /\ th' = [th EXCEPT ![t] = w]
  BY <1>2, NextStep
<1>6. w.k = <<"inbound", "emitState">>
  BY <1>2, <1>5, CreatorTails DEF AnnounceSteps
<1>7. /\ w.k \in Announcements /\ w.k \notin Creating /\ w.k # <<>> /\ Head(w.k) = "inbound"
      /\ th[t].k \notin Beginning
  <2>1. w.k \in Announcements /\ w.k # <<>> /\ Head(w.k) = "inbound"
    BY <1>6 DEF Announcements
  <2> QED
    BY <1>2, <2>1, Heads DEF CreateSteps
<1>8. OrderOf(t, w, reg)
  BY <1>3, <1>5, <1>7, CreatorOrder
<1>9. BirthQuiet(t, w)
  BY <1>3, <1>5, <1>7 DEF BirthQuiet, Creating
<1>10. ~Pending(w, {"record"}) /\ Announces(w)
  <2>1. DOMAIN w.k = {1, 2} /\ w.k[1] = "inbound" /\ w.k[2] = "emitState"
    BY <1>6
  <2> QED
    BY <2>1 DEF Pending, Announces
<1>11. RingQuiet(t, w)
  BY <1>1, <1>10, RolesAssumption DEF RingQuiet
<1>12. BridgeQuiet(t, w, open)
  BY <1>3 DEF BridgeQuiet
<1>13. /\ th'[t] = w /\ \A u \in Threads \ {t} : th'[u] = th[u]
  BY <1>5, ThreadStep
<1>14. UNCHANGED <<st, lock, reg, hist>> /\ reg \subseteq Calls /\ hist' \subseteq Calls
  BY <1>2 DEF engine, active, ServerInv, TypeOK
<1>15. /\ rec' \in [Calls -> Records \cup {NoRecord}] /\ \A d \in Calls \ {c} : rec'[d] = rec[d]
  <2>1. [owner |-> NoOwner, status |-> "ringing"] \in Records
    BY DEF Records
  <2> QED
    BY <1>2, <1>4, <2>1 DEF ServerInv, TypeOK
<1>16. \A d \in Calls : st[d] = "none" => rec'[d] = NoRecord /\ d \notin hist' /\ lock'[d] = NoThread
  BY <1>3, <1>4, <1>14, <1>15 DEF ServerInv, Births, Unpublished
<1>17. Locked'
  <2>1. LockQuiet(t, w)
    BY <1>3, <1>7, OutsideHolds DEF LockQuiet
  <2> QED
    BY <1>13, <1>14, <2>1, LockedKept
<1>18. LiveCallPublished'
  <2>1. ASSUME NEW d \in reg', lock'[d] = NoThread, st'[d] \in Live, ~Announcing(d)'
        PROVE  rec'[d] # NoRecord /\ (d \in Inbound => rec'[d].status = mapStatus(st'[d]))
    <3>1. d # c
      <4>1. Announcing(c)'
        BY <1>1, <1>4, <1>5, <1>10, <1>13 DEF Announcing, Announces, Pending
      <4> QED
        BY <2>1, <4>1
    <3>2. ~Announcing(d)
      BY <1>1, <1>4, <3>1 DEF Announcing
    <3> QED
      BY <1>14, <1>15, <2>1, <3>1, <3>2 DEF ServerInv, LiveCallPublished
  <2> QED
    BY <2>1 DEF LiveCallPublished, mapStatus
<1>19. EndedLeavesRegistry'
  BY <1>14 DEF ServerInv, EndedLeavesRegistry
<1>20. lock' \in [Calls -> Threads \cup {NoThread}] /\ UNCHANGED <<st, active, missed, timer, bridges>>
  BY <1>2, <1>14 DEF ServerInv, TypeOK
<1> QED
  BY <1>1, <1>5, <1>8, <1>9, <1>11, <1>12, <1>14, <1>15, <1>16, <1>17, <1>18, <1>19, <1>20, RecordParts

(* removeCall: the call leaves the registry, its bridge is still owed. *)
LEMMA RemoveInv ==
  ASSUME ServerInv, NEW t \in Threads, remove(t)
  PROVE  ServerInv'
<1>1. /\ ~IsIdle(t) /\ Head(th[t].k) = "remove"
      /\ UNCHANGED <<engine, isInbound, answered, bridge, broker, missed, timer, bridges>>
  BY DEF remove, At
<1>2. PICK c \in Calls : c = th[t].c /\ st[c] # "none"
  BY <1>1, HasEngine DEF CreateSteps, AnnounceSteps, Draining
<1>3. PICK ks : ks = IF c \in reg THEN <<"note">> ELSE <<>>
  OBVIOUS
<1>4. ks \in Pushes /\ ks \in {<<>>, <<"note">>, <<"close">>}
  BY <1>3 DEF Pushes
<1>5. PICK w : Goes(t, w, ks) /\ th' = [th EXCEPT ![t] = w]
  BY <1>1, <1>2, <1>3, <1>4, ThenGoes DEF remove
<1>6. /\ w \in Goroutines /\ w.c = c /\ w.k = ks \o Tail(th[t].k)
  BY <1>2, <1>5 DEF Goes
<1>7. /\ th' \in [Threads -> Goroutines] /\ th'[t] = w /\ \A u \in Threads \ {t} : th'[u] = th[u]
  BY <1>5, <1>6, ThreadStep
<1>8. /\ reg' = reg \ {c} /\ reg \subseteq Calls
      /\ UNCHANGED <<st, lock, isInbound, answered, bridge, rec, hist, missed, timer, ofCall, open>>
  BY <1>1, <1>2 DEF remove, engine, broker, bridges, ServerInv, TypeOK
<1>9. TypeOK'
  BY <1>7, <1>8 DEF ServerInv, TypeOK
<1>10. Ordered'
  <2>1. reg' \subseteq reg /\ th[t].c \notin reg'
    BY <1>2, <1>8
  <2>2. OrderOf(t, w, reg')
    BY <1>1, <1>4, <1>5, <2>1, GoesOrder DEF CreateSteps, AnnounceSteps
  <2>3. OrderOf(t, th[t], reg)'
    BY <1>7, <2>2 DEF OrderOf, Pending, Only
  <2> QED
    BY <1>7, <2>1, <2>3, OrderKept
<1>11. BirthQuiet(t, w) /\ RingQuiet(t, w) /\ AnnounceQuiet(t, w)
  BY <1>1, <1>2, <1>4, <1>5, GoesQuiet DEF CreateSteps, AnnounceSteps
<1>12. Births'
  <2>1. ASSUME NEW d \in Calls, st[d] = "none" PROVE Unpublished(d)'
    BY <1>8, <2>1 DEF ServerInv, Births, Unpublished
  <2>2. \A u \in Threads : th'[u] = th[u] \/ BirthQuiet(u, th'[u])
    BY <1>7, <1>11
  <2> QED
    BY <1>8, <2>1, <2>2, BirthsKept
<1>13. RingOnce'
  <2>1. \A u \in Threads : th'[u] = th[u] \/ RingQuiet(u, th'[u])
    BY <1>7, <1>11
  <2> QED
    BY <1>8, <2>1, RingKept
<1>14. Locked'
  <2>1. LockQuiet(t, w)
    BY <1>1, <1>4, <1>5, GoesInside
  <2> QED
    BY <1>7, <1>8, <2>1, LockedKept
<1>15. /\ \A u \in Threads : Pending(th'[u], {"OnIncoming", "emitState"}) => u = EventLoop
       /\ \A d \in Calls : Announcing(d) => Announcing(d)' \/ st[d] \notin Live
  <2>1. \A u \in Threads : th'[u] = th[u] \/ AnnounceQuiet(u, th'[u])
    BY <1>7, <1>11
  <2> QED
    BY <2>1, AnnounceKept
<1>16. LiveCallPublished' /\ EndedLeavesRegistry'
  <2>1. reg' \subseteq reg
    BY <1>8
  <2> QED
    BY <1>8, <1>15, <2>1, PublishedKept
<1>17. BridgeOwned'
  <2> SUFFICES ASSUME NEW b \in open', ~\E d \in reg' : bridge[d] = b
               PROVE  \E u \in Threads : Owes(th[u], b)'
    BY <1>8 DEF BridgeOwned
  <2>1. b \in open /\ b \in Bridges
    BY <1>8 DEF ServerInv, TypeOK
  <2>2. CASE c \in reg /\ bridge[c] = b
    <3>1. th[t].k \in Seq(Steps) /\ th[t].k # <<>>
      BY <1>1, ThreadTypes DEF IsIdle
    <3>2. PICK r : r = <<"note">> \o Tail(th[t].k)
      OBVIOUS
    <3>3. r # <<>> /\ Head(r) = "note"
      BY <3>1, <3>2
    <3>4. w.k # <<>> /\ Head(w.k) = "note"
      BY <1>3, <1>6, <2>2, <3>2, <3>3
    <3>5. Owes(w, b)
      BY <1>6, <2>2, <3>4 DEF Owes
    <3>6. Owes(th[t], b)'
      BY <1>7, <1>8, <3>5 DEF Owes
    <3> QED
      BY <3>6
  <2>3. CASE ~(c \in reg /\ bridge[c] = b)
    <3>1. PICK u \in Threads : Owes(th[u], b)
      BY <1>8, <2>1, <2>3 DEF ServerInv, BridgeOwned
    <3>2. Owes(th'[u], b)
      <4>1. CASE u = t
        BY <1>1, <1>4, <1>5, <1>7, <2>1, <3>1, <4>1, GoesOwes
      <4>2. CASE u # t
        BY <1>7, <3>1, <4>2
      <4> QED
        BY <4>1, <4>2
    <3>3. Owes(th[u], b)'
      BY <1>8, <3>2 DEF Owes
    <3> QED
      BY <3>3
  <2> QED
    BY <2>2, <2>3
<1>18. \A b \in open' : ofCall'[b] \in Calls
  BY <1>8 DEF ServerInv
<1> QED
  BY <1>9, <1>10, <1>12, <1>13, <1>14, <1>15, <1>16, <1>17, <1>18 DEF ServerInv, Pending

(* The ring timeout of an outgoing call starts, once. *)
LEMMA RecordInv ==
  ASSUME ServerInv, NEW t \in Threads, record(t)
  PROVE  ServerInv'
<1>1. /\ ~IsIdle(t) /\ Head(th[t].k) = "record" /\ At(t, "record") /\ th' = [th EXCEPT ![t] = Idle]
      /\ UNCHANGED <<engine, active, hist, missed, bridges>>
  BY DEF record, At, Return
<1>2. PICK c \in Calls : c = th[t].c /\ st[c] # "none"
  BY <1>1, HasEngine DEF CreateSteps, AnnounceSteps, Draining
<1>3. /\ Quiet(t, Idle, open) /\ Idle \in Goroutines
  BY <1>1, PlainReturn, IdleGoroutine
<1>4. /\ th' \in [Threads -> Goroutines] /\ th'[t] = Idle /\ \A u \in Threads \ {t} : th'[u] = th[u]
  BY <1>1, <1>3, ThreadStep
<1>5. /\ UNCHANGED <<st, lock, reg, isInbound, answered, bridge, hist, missed, ofCall, open>>
      /\ timer' = timer \cup {c}
  BY <1>1, <1>2 DEF record, engine, active, bridges
<1>6. /\ rec' \in [Calls -> Records \cup {NoRecord}] /\ rec'[c] # NoRecord
      /\ \A d \in Calls \ {c} : rec'[d] = rec[d]
  <2>1. PICK q : q = [owner |-> th[t].o, status |-> "ringing"]
    OBVIOUS
  <2>2. q \in Records
    BY <2>1, ThreadTypes DEF Records
  <2>3. rec' = [rec EXCEPT ![c] = q]
    BY <1>2, <2>1 DEF record
  <2> QED
    BY <2>2, <2>3, ServerAssumption DEF ServerInv, TypeOK
<1>7. /\ c \in Outbound /\ th[c] = Idle /\ c # t
      /\ \A u \in Threads \ {t} : Pending(th[u], {"record"}) => th[u].c # c
  <2>1. Pending(th[t], {"record"})
    BY <1>1, AtFacts DEF Pending
  <2>2. /\ c \in Outbound /\ th[c] = Idle
        /\ \A u \in Threads \ {t} : Pending(th[u], {"record"}) => th[u].c # c
    BY <1>2, <2>1 DEF ServerInv, RingOnce
  <2> QED
    BY <1>1, <2>2, IdleGoroutine DEF IsIdle
<1>8. TypeOK'
  BY <1>4, <1>5, <1>6 DEF ServerInv, TypeOK
<1>9. Ordered'
  <2>1. OrderOf(t, Idle, reg)
    BY <1>3 DEF Quiet
  <2>2. OrderOf(t, th[t], reg)'
    BY <1>4, <1>5, <2>1 DEF OrderOf, Pending, Only
  <2> QED
    BY <1>4, <1>5, <2>2, OrderKept
<1>10. Births'
  <2>1. ASSUME NEW d \in Calls, st[d] = "none" PROVE Unpublished(d)'
    BY <1>2, <1>5, <1>6, <2>1 DEF ServerInv, Births, Unpublished
  <2>2. \A u \in Threads : th'[u] = th[u] \/ BirthQuiet(u, th'[u])
    BY <1>3, <1>4 DEF Quiet
  <2> QED
    BY <1>5, <2>1, <2>2, BirthsKept
<1>11. RingOnce'
  <2>1. \A d \in Calls : d \in Threads
    BY DEF Threads
  <2>2. \A d \in Calls : th[d] = Idle => th'[d] = Idle
    BY <1>4, <2>1
  <2>3. \A d \in timer' : th'[d] = Idle
    BY <1>5, <1>7, <2>2 DEF ServerInv, RingOnce, TypeOK
  <2>4. \A d \in Calls : th'[d] = Idle \/ th'[d].c = d
    BY <1>4, <2>1 DEF ServerInv, RingOnce
  <2>5. ASSUME NEW u \in Threads, Pending(th'[u], {"record"})
        PROVE  u # t /\ th'[u] = th[u] /\ Pending(th[u], {"record"})
    <3>1. ~Pending(Idle, {"record"})
      BY IdleGoroutine DEF Pending
    <3> QED
      BY <1>4, <2>5, <3>1
  <2>6. ASSUME NEW u \in Threads, Pending(th'[u], {"record"})
        PROVE  /\ th'[u].c \in Outbound \ timer' /\ th'[th'[u].c] = Idle
               /\ \A v \in Threads \ {u} : Pending(th'[v], {"record"}) => th'[v].c # th'[u].c
    <3>1. /\ th[u].c \in Outbound \ timer /\ th[th[u].c] = Idle
          /\ \A v \in Threads \ {u} : Pending(th[v], {"record"}) => th[v].c # th[u].c
      BY <2>5, <2>6 DEF ServerInv, RingOnce
    <3>2. th[u].c # c /\ th'[u].c = th[u].c /\ th[u].c \in Calls
      BY <1>7, <2>5, <2>6, <3>1 DEF Calls
    <3> QED
      BY <1>5, <2>2, <2>5, <3>1, <3>2
  <2> QED
    BY <2>3, <2>4, <2>6 DEF RingOnce, Pending, Idle
<1>12. Locked'
  <2>1. LockQuiet(t, Idle)
    BY <1>3 DEF Quiet
  <2> QED
    BY <1>4, <1>5, <2>1, LockedKept
<1>13. /\ \A u \in Threads : Pending(th'[u], {"OnIncoming", "emitState"}) => u = EventLoop
       /\ \A d \in Calls : Announcing(d) => Announcing(d)' \/ st[d] \notin Live
  <2>1. \A u \in Threads : th'[u] = th[u] \/ AnnounceQuiet(u, th'[u])
    BY <1>3, <1>4 DEF Quiet
  <2> QED
    BY <2>1, AnnounceKept
<1>14. reg \subseteq Calls
  BY DEF ServerInv, TypeOK
<1>15. LiveCallPublished'
  <2>1. ASSUME NEW d \in reg', lock'[d] = NoThread, st'[d] \in Live, ~Announcing(d)'
        PROVE  rec'[d] # NoRecord /\ (d \in Inbound => rec'[d].status = mapStatus(st'[d]))
    <3>1. CASE d = c
      BY <1>6, <1>7, <3>1, ServerAssumption
    <3>2. CASE d # c
      BY <1>5, <1>6, <1>13, <1>14, <2>1, <3>2 DEF ServerInv, LiveCallPublished
    <3> QED
      BY <3>1, <3>2
  <2> QED
    BY <2>1 DEF LiveCallPublished, mapStatus
<1>16. EndedLeavesRegistry'
  BY <1>5 DEF ServerInv, EndedLeavesRegistry
<1>17. BridgeOwned'
  <2>1. \A u \in Threads : th'[u] = th[u] \/ BridgeQuiet(u, th'[u], open')
    BY <1>3, <1>4, <1>5 DEF Quiet
  <2> QED
    BY <1>5, <2>1, BridgesKept
<1>18. \A b \in open' : ofCall'[b] \in Calls
  BY <1>5 DEF ServerInv
<1> QED
  BY <1>8, <1>9, <1>10, <1>11, <1>12, <1>13, <1>15, <1>16, <1>17, <1>18 DEF ServerInv, Pending

-----------------------------------------------------------------------------
(* The actions that bring a call into being. *)

(* What all of them share: goroutine t becomes w; registry and engines are left to the caller. *)
LEMMA CreateParts ==
  ASSUME ServerInv, NEW t \in Threads, NEW w \in Goroutines, th' = [th EXCEPT ![t] = w],
         UNCHANGED <<lock, isInbound, answered, bridge, broker, missed, timer, bridges>>,
         st' \in [Calls -> CallStates \cup {"none"}], reg' \subseteq Calls, reg \subseteq reg',
         \A u \in Threads \ {t} : th[u].c \in reg' => th[u].c \in reg,
         OrderOf(t, w, reg'), Births', RingOnce', Locked', LiveCallPublished', EndedLeavesRegistry',
         Announces(w) => t = EventLoop, \A b \in open : ~Owes(th[t], b)
  PROVE  ServerInv'
<1>1. /\ th' \in [Threads -> Goroutines] /\ th'[t] = w
      /\ \A u \in Threads \ {t} : th'[u] = th[u]
  BY ThreadStep
<1>2. UNCHANGED <<rec, hist, ofCall, open>>
  BY DEF broker, bridges
<1>3. TypeOK'
  BY <1>1, <1>2 DEF ServerInv, TypeOK
<1>4. Ordered'
  <2> SUFFICES ASSUME NEW u \in Threads PROVE OrderOf(u, th[u], reg)'
    BY DEF Ordered
  <2>1. CASE u = t
    BY <1>1, <2>1 DEF OrderOf, Pending, Only
  <2>2. CASE u # t
    BY <1>1, <2>2, ThreadTypes DEF OrderOf, Pending, Only
  <2> QED
    BY <2>1, <2>2
<1>5. \A u \in Threads : Pending(th'[u], {"OnIncoming", "emitState"}) => u = EventLoop
  BY <1>1 DEF ServerInv, Announces
<1>6. BridgeOwned'
  <2> SUFFICES ASSUME NEW b \in open', ~\E d \in reg' : bridge'[d] = b
               PROVE  \E u \in Threads : Owes(th[u], b)'
    BY DEF BridgeOwned
  <2>1. ~\E d \in reg : bridge[d] = b
    OBVIOUS
  <2>2. PICK u \in Threads : Owes(th[u], b)
    BY <1>2, <2>1 DEF ServerInv, BridgeOwned
  <2>3. th'[u] = th[u]
    BY <1>1, <1>2, <2>2
  <2>4. Owes(th[u], b)'
    BY <2>2, <2>3 DEF Owes
  <2> QED
    BY <2>4
<1>7. \A b \in open' : ofCall'[b] \in Calls
  BY <1>2 DEF ServerInv
<1> QED
  BY <1>3, <1>4, <1>5, <1>6, <1>7 DEF ServerInv, Pending

LEMMA CreateCallInv ==
  ASSUME ServerInv, NEW t \in Threads, createCall(t)
  PROVE  ServerInv'
<1>1. /\ ~IsIdle(t) /\ Head(th[t].k) = "createCall" /\ At(t, "createCall") /\ Then(t, <<>>)
      /\ UNCHANGED <<engine, isInbound, answered, bridge, broker, missed, timer, bridges>>
  BY DEF createCall, At
<1>2. /\ th[t].c \in Calls /\ th[t].left = {} /\ st[th[t].c] = "none" /\ ~Inside(th[t])
      /\ \A b : ~Owes(th[t], b)
      /\ t \in Calls => th[t].c = t
  BY <1>1, CreatorShape DEF CreateSteps
<1>3. PICK c \in Calls : c = th[t].c /\ st[c] = "none" /\ reg' = reg \cup {c}
  BY <1>2 DEF createCall
<1>4. PICK w \in Goroutines : /\ w.k = Tail(th[t].k) /\ w.c = th[t].c /\ w.left = th[t].left
                              /\ th' = [th EXCEPT ![t] = w]
  BY <1>1, NextStep
<1>5. /\ th'[t] = w /\ \A u \in Threads \ {t} : th'[u] = th[u]
  BY <1>4, ThreadStep
<1>6. w.k \in Beginning /\ th[t].k \in Registering
  BY <1>1, <1>4, CreatorTails DEF CreateSteps
<1>7. /\ w.k \in Creating /\ w.k \notin Registering /\ w.k # <<>> /\ Head(w.k) \in {"StartCall", "HandleCallOffer"}
      /\ th[t].k \in Creating /\ th[t].k \notin Beginning
  BY <1>6, Heads DEF Creating
<1>8. /\ UNCHANGED <<st, lock, rec, hist, timer, bridge, ofCall>> /\ reg \subseteq Calls
      /\ st \in [Calls -> CallStates \cup {"none"}]
  BY <1>1 DEF engine, broker, bridges, ServerInv, TypeOK
<1>9. OrderOf(t, w, reg')
  BY <1>2, <1>4, <1>7, CreatorOrder
<1>10. /\ c \notin reg /\ \A u \in Threads : c \notin th[u].left /\ (u # t => th[u].c # c)
  BY <1>3, <1>6 DEF ServerInv, Births
<1>11. Births'
  <2>1. ASSUME NEW d \in Calls, st'[d] = "none" PROVE Unpublished(d)'
    BY <1>8, <2>1 DEF ServerInv, Births, Unpublished
  <2>2. ASSUME NEW d \in Calls, st'[d] = "none", d \in reg' \/ \E u \in Threads : d \in th'[u].left
        PROVE  \E u \in Threads : th'[u].c = d /\ th'[u].k \in Beginning
    <3>1. CASE d = c
      BY <1>3, <1>4, <1>5, <1>6, <3>1
    <3>2. CASE d # c
      <4>1. st[d] = "none" /\ (d \in reg \/ \E u \in Threads : d \in th[u].left)
        BY <1>3, <1>4, <1>5, <1>8, <2>2, <3>2
      <4>2. PICK u \in Threads : th[u].c = d /\ th[u].k \in Beginning
        BY <4>1 DEF ServerInv, Births
      <4> QED
        BY <1>5, <1>7, <4>2
    <3> QED
      BY <3>1, <3>2
  <2>3. ASSUME NEW u \in Threads, th'[u].k \in Creating
        PROVE  st'[th'[u].c] = "none" /\ \A v \in Threads \ {u} : th'[v].c = th'[u].c => Only(th'[v], Draining)
    <3>1. CASE u = t
      BY <1>3, <1>4, <1>5, <1>8, <1>10, <3>1
    <3>2. CASE u # t
      <4>1. th'[u] = th[u] /\ th[u].k \in Creating /\ th[u].c # c
        BY <1>5, <1>10, <2>3, <3>2
      <4>2. st[th[u].c] = "none" /\ \A v \in Threads \ {u} : th[v].c = th[u].c => Only(th[v], Draining)
        BY <4>1 DEF ServerInv, Births
      <4>3. th'[t].c = c
        BY <1>3, <1>4, <1>5
      <4> QED
        BY <1>5, <1>8, <4>1, <4>2, <4>3
    <3> QED
      BY <3>1, <3>2
  <2>4. ASSUME NEW u \in Threads, th'[u].k \in Registering
        PROVE  /\ th'[u].c \notin reg'
               /\ \A v \in Threads : th'[u].c \notin th'[v].left /\ (v # u => th'[v].c # th'[u].c)
    <3>1. u # t /\ th'[u] = th[u] /\ th[u].c # c
      BY <1>5, <1>7, <1>10, <2>4
    <3>2. /\ th[u].c \notin reg
          /\ \A v \in Threads : th[u].c \notin th[v].left /\ (v # u => th[v].c # th[u].c)
      BY <2>4, <3>1 DEF ServerInv, Births
    <3>3. \A v \in Threads : th'[v].left = th[v].left /\ th'[v].c = th[v].c
      BY <1>4, <1>5
    <3> QED
      BY <1>3, <3>1, <3>2, <3>3
  <2>5. ASSUME NEW u \in Threads, th'[u].c \in Calls, st'[th'[u].c] = "none"
        PROVE  th'[u].k \in Creating \/ Only(th'[u], Draining)
    <3>1. CASE u = t
      BY <1>5, <1>7, <3>1
    <3>2. CASE u # t
      BY <1>5, <1>8, <2>5, <3>2 DEF ServerInv, Births
    <3> QED
      BY <3>1, <3>2
  <2> QED
    BY <2>1, <2>2, <2>3, <2>4, <2>5 DEF Births, Only
<1>12. \A ls : Pending(w, ls) => Pending(th[t], ls)
  <2>1. PICK k \in Seq(Steps) : k = th[t].k /\ k # <<>>
    BY <1>1, ThreadTypes DEF IsIdle
  <2>2. ASSUME NEW i \in DOMAIN Tail(k) PROVE i + 1 \in DOMAIN k /\ k[i + 1] = Tail(k)[i]
    BY <2>1, <2>2
  <2> QED
    BY <1>4, <2>1, <2>2 DEF Pending
<1>13. RingOnce'
  <2>1. th[t] # Idle
    BY <1>1 DEF Idle, IsIdle
  <2>2. RingQuiet(t, w)
    BY <1>2, <1>4, <1>12, <2>1 DEF RingQuiet
  <2> QED
    BY <1>5, <1>8, <2>2, RingKept
<1>14. Locked'
  <2>1. LockQuiet(t, w)
    BY <1>2, <1>7, OutsideHolds DEF LockQuiet
  <2> QED
    BY <1>5, <1>8, <2>1, LockedKept
<1>15. AnnounceQuiet(t, w)
  BY <1>2, <1>12 DEF AnnounceQuiet, Announces, Live, ServerInv
<1>16. \A d \in Calls : Announcing(d) => Announcing(d)' \/ st[d] \notin Live
  BY <1>5, <1>15, AnnounceKept
<1>17. LiveCallPublished'
  <2>1. ASSUME NEW d \in reg', lock'[d] = NoThread, st'[d] \in Live, ~Announcing(d)'
        PROVE  rec'[d] # NoRecord /\ (d \in Inbound => rec'[d].status = mapStatus(st'[d]))
    <3>1. d # c
      BY <1>3, <1>8, <2>1 DEF Live
    <3> QED
      BY <1>3, <1>8, <1>16, <2>1, <3>1 DEF ServerInv, LiveCallPublished
  <2> QED
    BY <2>1 DEF LiveCallPublished, mapStatus
<1>18. EndedLeavesRegistry'
  BY <1>3, <1>8 DEF ServerInv, EndedLeavesRegistry
<1>19. Announces(w) => t = EventLoop
  BY <1>15 DEF AnnounceQuiet
<1>20. \A u \in Threads \ {t} : th[u].c \in reg' => th[u].c \in reg
  BY <1>3, <1>10
<1> QED
  BY <1>1, <1>2, <1>3, <1>4, <1>8, <1>9, <1>11, <1>13, <1>14, <1>17, <1>18, <1>19, <1>20, CreateParts

(* The engine of c gets its call: StartCall and HandleCallOffer. *)
LEMMA EngineBegins ==
  ASSUME ServerInv, NEW t \in Threads, NEW l \in {"StartCall", "HandleCallOffer"}, At(t, l), Then(t, <<>>),
         NEW s \in CallStates \ {"ended"}, st' = [st EXCEPT ![th[t].c] = s],
         UNCHANGED <<lock, active, broker, missed, timer, bridges>>,
         s \in Live => l = "HandleCallOffer" /\ t = EventLoop,
         l = "HandleCallOffer" => t = EventLoop
  PROVE  ServerInv'
<1>1. /\ ~IsIdle(t) /\ Head(th[t].k) = l
  BY DEF At
<1>2. /\ th[t].c \in Calls /\ th[t].left = {} /\ st[th[t].c] = "none" /\ ~Inside(th[t])
      /\ \A b : ~Owes(th[t], b)
      /\ t \in Calls => th[t].c = t
      /\ th[t].k \in Creating
  BY <1>1, CreatorShape DEF CreateSteps
<1>3. PICK c \in Calls : c = th[t].c /\ st[c] = "none"
  BY <1>2
<1>4. PICK w \in Goroutines : /\ w.k = Tail(th[t].k) /\ w.c = th[t].c /\ w.left = th[t].left
                              /\ th' = [th EXCEPT ![t] = w]
  BY <1>1, NextStep
<1>5. /\ th'[t] = w /\ \A u \in Threads \ {t} : th'[u] = th[u]
  BY <1>4, ThreadStep
<1>6. /\ l = "StartCall" => w.k = <<"offer", "record">>
      /\ l = "HandleCallOffer" => w.k = <<"OnIncoming", "inbound", "emitState">>
  BY <1>4, CreatorTails DEF CreateSteps
<1>7. /\ w.k # <<>> /\ Head(w.k) \in {"offer", "OnIncoming"} /\ DOMAIN w.k = 1 .. Len(w.k) /\ w.k \in Seq(Steps)
  <2>1. PICK r : r = w.k
    OBVIOUS
  <2>2. r \in Seq(Steps)
    BY <2>1 DEF Goroutines
  <2>3. ASSUME r = <<"offer", "record">> PROVE r # <<>> /\ Head(r) = "offer"
    BY <2>3
  <2>4. ASSUME r = <<"OnIncoming", "inbound", "emitState">> PROVE r # <<>> /\ Head(r) = "OnIncoming"
    BY <2>4
  <2>5. r # <<>> /\ Head(r) \in {"offer", "OnIncoming"}
    BY <1>6, <2>1, <2>3, <2>4
  <2> QED
    BY <2>1, <2>2, <2>5
<1>8. w.k \notin Creating
  BY <1>7, Heads DEF CreateSteps
<1>9. /\ UNCHANGED <<lock, reg, rec, hist, timer, bridge, ofCall>> /\ reg \subseteq Calls
      /\ st \in [Calls -> CallStates \cup {"none"}]
      /\ st'[c] = s /\ s # "none" /\ \A d \in Calls \ {c} : st'[d] = st[d]
      /\ lock[c] = NoThread
  <2>1. lock[c] = NoThread
    BY <1>3 DEF ServerInv, Births, Unpublished
  <2> QED
    BY <1>3, <2>1 DEF active, broker, bridges, ServerInv, TypeOK, CallStates
<1>10. \A u \in Threads \ {t} : th[u].c = c => th[u].k \notin Creating
  <2> SUFFICES ASSUME NEW u \in Threads \ {t}, th[u].c = c, th[u].k \in Creating PROVE FALSE
    OBVIOUS
  <2>1. Only(th[u], Draining)
    BY <1>2, <1>3 DEF ServerInv, Births
  <2>2. Head(th[u].k) \in CreateSteps /\ ~IsIdle(u)
    BY Heads DEF IsIdle
  <2>3. th[u].k[1] \in CreateSteps /\ 1 \in DOMAIN th[u].k
    BY <2>2, AtFacts DEF At
  <2> QED
    BY <2>1, <2>3 DEF Only, CreateSteps, Draining
<1>11. OrderOf(t, w, reg')
  <2>1. CASE l = "StartCall"
    <3>1. w.k = <<"offer", "record">>
      BY <1>6, <2>1
    <3>2. \A i \in DOMAIN w.k : w.k[i] \in {"offer", "record"}
      BY <3>1
    <3>3. \A ls : ls \cap {"offer", "record"} = {} => ~Pending(w, ls)
      BY <3>2 DEF Pending
    <3>4. /\ ~Pending(w, {"drained", "drain"})
          /\ ~Pending(w, {"cap", "createCall", "StartCall", "HandleCallOffer"})
          /\ ~Pending(w, {"OnIncoming", "inbound", "emitState"})
      BY <3>3
    <3> QED
      BY <1>2, <1>4, <3>2, <3>4 DEF OrderOf
  <2>2. CASE l = "HandleCallOffer"
    <3>1. w.k \in Announcements
      BY <1>6, <2>2 DEF Announcements
    <3> QED
      BY <1>2, <1>4, <3>1, CreatorOrder
  <2> QED
    BY <2>1, <2>2
<1>12. Births'
  <2>1. ASSUME NEW d \in Calls, st'[d] = "none" PROVE Unpublished(d)'
    BY <1>9, <2>1 DEF ServerInv, Births, Unpublished
  <2>2. ASSUME NEW d \in Calls, st'[d] = "none", d \in reg' \/ \E u \in Threads : d \in th'[u].left
        PROVE  \E u \in Threads : th'[u].c = d /\ th'[u].k \in Beginning
    <3>1. d # c
      BY <1>9, <2>2
    <3>2. st[d] = "none" /\ (d \in reg \/ \E u \in Threads : d \in th[u].left)
      BY <1>4, <1>5, <1>9, <2>2, <3>1
    <3>3. PICK u \in Threads : th[u].c = d /\ th[u].k \in Beginning
      BY <3>2 DEF ServerInv, Births
    <3>4. u # t
      BY <1>3, <3>1, <3>3
    <3> QED
      BY <1>5, <3>3, <3>4
  <2>3. ASSUME NEW u \in Threads, th'[u].k \in Creating
        PROVE  st'[th'[u].c] = "none" /\ \A v \in Threads \ {u} : th'[v].c = th'[u].c => Only(th'[v], Draining)
    <3>1. u # t /\ th'[u] = th[u] /\ th[u].k \in Creating /\ th[u].c # c
      BY <1>5, <1>8, <1>10, <2>3
    <3>2. st[th[u].c] = "none" /\ \A v \in Threads \ {u} : th[v].c = th[u].c => Only(th[v], Draining)
      BY <3>1 DEF ServerInv, Births
    <3>3. th'[t].c = c /\ th[u].c \in Calls
      BY <1>3, <1>4, <1>5, <3>1, CreatorsCall
    <3> QED
      BY <1>5, <1>9, <3>1, <3>2, <3>3
  <2>4. ASSUME NEW u \in Threads, th'[u].k \in Registering
        PROVE  /\ th'[u].c \notin reg'
               /\ \A v \in Threads : th'[u].c \notin th'[v].left /\ (v # u => th'[v].c # th'[u].c)
    <3>1. u # t /\ th'[u] = th[u]
      BY <1>5, <1>8, <2>4 DEF Creating
    <3>2. /\ th[u].c \notin reg
          /\ \A v \in Threads : th[u].c \notin th[v].left /\ (v # u => th[v].c # th[u].c)
      BY <2>4, <3>1 DEF ServerInv, Births
    <3>3. \A v \in Threads : th'[v].left = th[v].left /\ th'[v].c = th[v].c
      BY <1>4, <1>5
    <3> QED
      BY <1>9, <3>1, <3>2, <3>3
  <2>5. ASSUME NEW u \in Threads, th'[u].c \in Calls, st'[th'[u].c] = "none"
        PROVE  th'[u].k \in Creating \/ Only(th'[u], Draining)
    <3>1. th'[u].c # c
      BY <1>9, <2>5
    <3>2. u # t /\ th'[u] = th[u]
      BY <1>3, <1>4, <1>5, <3>1
    <3> QED
      BY <1>9, <2>5, <3>1, <3>2 DEF ServerInv, Births
  <2> QED
    BY <2>1, <2>2, <2>3, <2>4, <2>5 DEF Births, Only
<1>13. \A ls : Pending(w, ls) => Pending(th[t], ls)
  <2>1. PICK k \in Seq(Steps) : k = th[t].k /\ k # <<>>
    BY <1>1, ThreadTypes DEF IsIdle
  <2>2. ASSUME NEW i \in DOMAIN Tail(k) PROVE i + 1 \in DOMAIN k /\ k[i + 1] = Tail(k)[i]
    BY <2>1, <2>2
  <2> QED
    BY <1>4, <2>1, <2>2 DEF Pending
<1>14. RingOnce'
  <2>1. th[t] # Idle
    BY <1>1 DEF Idle, IsIdle
  <2>2. RingQuiet(t, w)
    BY <1>2, <1>4, <1>13, <2>1 DEF RingQuiet
  <2> QED
    BY <1>5, <1>9, <2>2, RingKept
<1>15. Locked'
  <2>1. \A d \in Calls : lock[d] # t
    BY <1>2, OutsideHolds
  <2>2. Head(w.k) \notin {"OnStateChange", "upsert"}
    BY <1>7
  <2>3. lock'[c] = NoThread /\ NoThread # t /\ \A d \in Calls \ {c} : lock'[d] = lock[d] /\ st'[d] = st[d]
    BY <1>9, ServerAssumption
  <2> QED
    BY <1>5, <1>9, <2>1, <2>2, <2>3, LockedMoved
<1>16. Announces(w) => t = EventLoop
  BY <1>13 DEF Announces, ServerInv
<1>17. LiveCallPublished'
  <2>1. ASSUME NEW d \in reg', lock'[d] = NoThread, st'[d] \in Live, ~Announcing(d)'
        PROVE  rec'[d] # NoRecord /\ (d \in Inbound => rec'[d].status = mapStatus(st'[d]))
    <3>1. d # c
      <4> SUFFICES ASSUME d = c PROVE FALSE
        OBVIOUS
      <4>1. l = "HandleCallOffer" /\ t = EventLoop
        BY <1>9, <2>1
      <4>2. 1 \in DOMAIN w.k /\ w.k[1] = "OnIncoming"
        BY <1>6, <4>1
      <4>3. Announcing(c)'
        BY <1>3, <1>4, <1>5, <4>1, <4>2 DEF Announcing
      <4> QED
        BY <2>1, <4>3
    <3>2. d \in Calls /\ d \in reg /\ st'[d] = st[d]
      BY <1>9, <3>1
    <3>3. ~Announcing(d)
      <4> SUFFICES ASSUME Announcing(d) PROVE FALSE
        OBVIOUS
      <4>1. th[EventLoop].c = d /\ EventLoop \in Threads
        BY DEF Announcing, Threads
      <4>2. EventLoop # t
        BY <1>3, <3>1, <4>1
      <4>3. th'[EventLoop] = th[EventLoop]
        BY <1>5, <4>1, <4>2
      <4> QED
        BY <2>1, <4>3 DEF Announcing
    <3> QED
      BY <1>9, <2>1, <3>2, <3>3 DEF ServerInv, LiveCallPublished
  <2> QED
    BY <2>1 DEF LiveCallPublished, mapStatus
<1>18. EndedLeavesRegistry'
  BY <1>9 DEF ServerInv, EndedLeavesRegistry
<1>19. st' \in [Calls -> CallStates \cup {"none"}]
  BY <1>9
<1>20. UNCHANGED <<lock, isInbound, answered, bridge, broker, missed, timer, bridges>>
  BY DEF active
<1> QED
  BY <1>2, <1>4, <1>9, <1>11, <1>12, <1>14, <1>15, <1>16, <1>17, <1>18, <1>19, <1>20, CreateParts

LEMMA StartCallInv ==
  ASSUME ServerInv, NEW t \in Threads, StartCall(t)
  PROVE  ServerInv'
<1>1. PICK s : s = "initiating"
  OBVIOUS
<1>2. s \in CallStates \ {"ended"} /\ s \notin Live
  BY <1>1 DEF CallStates, Live
<1>3. PICK l : l = "StartCall"
  OBVIOUS
<1>4. /\ At(t, l) /\ Then(t, <<>>) /\ st' = [st EXCEPT ![th[t].c] = s]
      /\ UNCHANGED <<lock, active, broker, missed, timer, bridges>>
      /\ l \in {"StartCall", "HandleCallOffer"} /\ l # "HandleCallOffer"
  BY <1>1, <1>3 DEF StartCall
<1> QED
  BY <1>2, <1>4, EngineBegins

LEMMA HandleCallOfferInv ==
  ASSUME ServerInv, HandleCallOffer
  PROVE  ServerInv'
<1>1. PICK t \in Threads : t = EventLoop
  BY DEF Threads
<1>2. PICK s : s = "incoming_ringing"
  OBVIOUS
<1>3. s \in CallStates \ {"ended"}
  BY <1>2 DEF CallStates
<1>4. PICK l : l = "HandleCallOffer"
  OBVIOUS
<1>5. /\ At(t, l) /\ Then(t, <<>>) /\ st' = [st EXCEPT ![th[t].c] = s]
      /\ UNCHANGED <<lock, active, broker, missed, timer, bridges>>
      /\ l \in {"StartCall", "HandleCallOffer"}
  BY <1>1, <1>2, <1>4 DEF HandleCallOffer
<1> QED
  BY <1>1, <1>3, <1>4, <1>5, EngineBegins

LEMMA FreshCall ==
  ASSUME ServerInv, NEW c \in Calls, Fresh(c)
  PROVE  /\ st[c] = "none" /\ c \notin reg /\ c \notin timer /\ th[c] = Idle
         /\ \A u \in Threads : th[u].c # c /\ c \notin th[u].left
<1>1. st[c] = "none" /\ c \notin reg /\ c \in Threads /\ \A u \in Threads : th[u].c # c
  BY DEF Fresh, Threads
<1>2. c \notin timer
  BY <1>1 DEF ServerInv, Births, Unpublished
<1>3. th[c] = Idle
  BY <1>1 DEF ServerInv, RingOnce
<1>4. \A u \in Threads : c \notin th[u].left
  BY <1>1 DEF ServerInv, Births
<1> QED
  BY <1>1, <1>2, <1>3, <1>4

LEMMA CreationBegins ==
  ASSUME ServerInv, NEW t \in Threads, IsIdle(t), t \notin Calls, NEW c \in Calls, Fresh(c),
         NEW k \in Registering, NEW o \in Operators \cup {NoOwner}, Start(t, k, c, o),
         UNCHANGED <<engine, active, broker, missed, timer, bridges>>,
         \A i \in DOMAIN k : k[i] = "record" => c \in Outbound,
         \A i \in DOMAIN k : k[i] \in {"OnIncoming", "emitState"} => t = EventLoop
  PROVE  ServerInv'
<1>1. k \in Seq(Steps) /\ k # <<>> /\ k \in Creating /\ k \notin Beginning /\ Head(k) \in {"cap", "createCall"}
  BY CreatorSteps, Heads DEF Creating
<1>2. PICK w \in Goroutines : w.k = k /\ w.c = c /\ w.left = {} /\ th' = [th EXCEPT ![t] = w]
  BY <1>1 DEF Start, Idle, Goroutines
<1>3. /\ th'[t] = w /\ \A u \in Threads \ {t} : th'[u] = th[u]
  BY <1>2, ThreadStep
<1>4. /\ st[c] = "none" /\ c \notin reg /\ c \notin timer /\ th[c] = Idle
      /\ \A u \in Threads : th[u].c # c /\ c \notin th[u].left
  BY FreshCall
<1>5. /\ UNCHANGED <<st, lock, reg, isInbound, answered, bridge, rec, hist, missed, timer, ofCall, open>>
      /\ reg \subseteq Calls /\ open \subseteq Bridges /\ st \in [Calls -> CallStates \cup {"none"}]
  BY DEF engine, active, broker, bridges, ServerInv, TypeOK
<1>6. th[t].k \notin Creating /\ th[t].left = {} /\ ~Inside(th[t]) /\ \A b \in Bridges : ~Owes(th[t], b)
  BY IdleFacts DEF Inside
<1>7. OrderOf(t, w, reg')
  BY <1>1, <1>2, CreatorOrder
<1>8. Births'
  <2>1. ASSUME NEW d \in Calls, st'[d] = "none" PROVE Unpublished(d)'
    BY <1>5, <2>1 DEF ServerInv, Births, Unpublished
  <2>2. ASSUME NEW d \in Calls, st'[d] = "none", d \in reg' \/ \E u \in Threads : d \in th'[u].left
        PROVE  \E u \in Threads : th'[u].c = d /\ th'[u].k \in Beginning
    <3>1. st[d] = "none" /\ (d \in reg \/ \E u \in Threads : d \in th[u].left)
      BY <1>2, <1>3, <1>5, <2>2
    <3>2. PICK u \in Threads : th[u].c = d /\ th[u].k \in Beginning
      BY <3>1 DEF ServerInv, Births
    <3> QED
      BY <1>3, <1>6, <3>2 DEF Creating
  <2>3. ASSUME NEW u \in Threads, th'[u].k \in Creating
        PROVE  st'[th'[u].c] = "none" /\ \A v \in Threads \ {u} : th'[v].c = th'[u].c => Only(th'[v], Draining)
    <3>1. CASE u = t
      BY <1>2, <1>3, <1>4, <1>5, <3>1
    <3>2. CASE u # t
      <4>1. th'[u] = th[u] /\ th[u].k \in Creating /\ th[u].c # c
        BY <1>3, <1>4, <2>3, <3>2
      <4>2. st[th[u].c] = "none" /\ \A v \in Threads \ {u} : th[v].c = th[u].c => Only(th[v], Draining)
        BY <4>1 DEF ServerInv, Births
      <4> QED
        BY <1>2, <1>3, <1>5, <4>1, <4>2
    <3> QED
      BY <3>1, <3>2
  <2>4. ASSUME NEW u \in Threads, th'[u].k \in Registering
        PROVE  /\ th'[u].c \notin reg'
               /\ \A v \in Threads : th'[u].c \notin th'[v].left /\ (v # u => th'[v].c # th'[u].c)
    <3>1. CASE u = t
      BY <1>2, <1>3, <1>4, <1>5, <3>1
    <3>2. CASE u # t
      <4>1. th'[u] = th[u] /\ th[u].c # c
        BY <1>3, <1>4, <3>2
      <4>2. /\ th[u].c \notin reg
            /\ \A v \in Threads : th[u].c \notin th[v].left /\ (v # u => th[v].c # th[u].c)
        BY <2>4, <4>1 DEF ServerInv, Births
      <4> QED
        BY <1>2, <1>3, <1>5, <4>1, <4>2
    <3> QED
      BY <3>1, <3>2
  <2>5. ASSUME NEW u \in Threads, th'[u].c \in Calls, st'[th'[u].c] = "none"
        PROVE  th'[u].k \in Creating \/ Only(th'[u], Draining)
    <3>1. CASE u = t
      BY <1>1, <1>2, <1>3, <3>1
    <3>2. CASE u # t
      BY <1>3, <1>5, <2>5, <3>2 DEF ServerInv, Births
    <3> QED
      BY <3>1, <3>2
  <2> QED
    BY <2>1, <2>2, <2>3, <2>4, <2>5 DEF Births, Only
<1>17. Pending(w, {"record"}) => c \in Outbound
  <2> SUFFICES ASSUME NEW i \in DOMAIN k, k[i] = "record" PROVE c \in Outbound
    BY <1>2 DEF Pending
  <2> QED
    OBVIOUS
<1>9. RingOnce'
  <2>1. \A d \in Calls : d \in Threads /\ d # t
    BY DEF Threads
  <2>2. \A d \in Calls : th'[d] = th[d]
    BY <1>3, <2>1
  <2>3. /\ \A d \in timer' : th'[d] = Idle
        /\ \A d \in Calls : th'[d] = Idle \/ th'[d].c = d
    BY <1>5, <2>2 DEF ServerInv, RingOnce, TypeOK
  <2>4. ASSUME NEW u \in Threads, Pending(th'[u], {"record"})
        PROVE  /\ th'[u].c \in Outbound \ timer' /\ th'[th'[u].c] = Idle
               /\ \A v \in Threads \ {u} : Pending(th'[v], {"record"}) => th'[v].c # th'[u].c
    <3>1. CASE u = t
      <4>1. c \in Outbound
        <5>1. Pending(w, {"record"})
          BY <1>3, <2>4, <3>1
        <5> QED
          BY <1>17, <5>1
      <4> QED
        BY <1>2, <1>3, <1>4, <1>5, <2>2, <3>1, <4>1
    <3>2. CASE u # t
      <4>1. th'[u] = th[u] /\ Pending(th[u], {"record"})
        BY <1>3, <2>4, <3>2
      <4>2. /\ th[u].c \in Outbound \ timer /\ th[th[u].c] = Idle
            /\ \A v \in Threads \ {u} : Pending(th[v], {"record"}) => th[v].c # th[u].c
        BY <4>1 DEF ServerInv, RingOnce
      <4>3. th[u].c \in Calls /\ th[u].c # c
        BY <1>4, <4>2 DEF Calls
      <4> QED
        BY <1>2, <1>3, <1>5, <2>2, <4>1, <4>2, <4>3
    <3> QED
      BY <3>1, <3>2
  <2> QED
    BY <2>3, <2>4 DEF RingOnce, Pending, Idle
<1>10. Locked'
  <2>1. Head(w.k) \notin {"OnStateChange", "upsert"}
    BY <1>1, <1>2
  <2>2. LockQuiet(t, w)
    BY <1>6, <2>1, OutsideHolds DEF LockQuiet
  <2> QED
    BY <1>3, <1>5, <2>2, LockedKept
<1>11. Announces(w) => t = EventLoop
  BY <1>2 DEF Announces, Pending
<1>12. \A d \in Calls : Announcing(d) => Announcing(d)' \/ st[d] \notin Live
  <2>1. AnnounceQuiet(t, w)
    BY <1>11, IdleFacts DEF AnnounceQuiet, Announces
  <2> QED
    BY <1>3, <2>1, AnnounceKept
<1>13. LiveCallPublished' /\ EndedLeavesRegistry'
  <2>1. reg' \subseteq reg
    BY <1>5
  <2> QED
    BY <1>5, <1>12, <2>1, PublishedKept
<1>14. \A b \in open : ~Owes(th[t], b)
  BY <1>5, <1>6
<1>15. UNCHANGED <<lock, isInbound, answered, bridge, broker, missed, timer, bridges>>
  BY <1>5 DEF broker, bridges
<1>16. st' \in [Calls -> CallStates \cup {"none"}] /\ reg' \subseteq Calls /\ reg \subseteq reg'
       /\ \A u \in Threads \ {t} : th[u].c \in reg' => th[u].c \in reg
  BY <1>5
<1> QED
  BY <1>2, <1>7, <1>8, <1>9, <1>10, <1>11, <1>13, <1>14, <1>15, <1>16, CreateParts

LEMMA DoStartCallInv ==
  ASSUME ServerInv, NEW t \in Handlers, NEW o \in Operators, NEW c \in Outbound, doStartCall(t, o, c)
  PROVE  ServerInv'
<1>1. t \in Threads /\ t \notin Calls /\ c \in Calls
  BY HandlerFacts DEF Calls
<1>2. PICK k : k = <<"cap", "createCall", "StartCall", "offer", "record">>
  OBVIOUS
<1>3. k \in Registering
  BY <1>2 DEF Registering
<1>4. \A i \in DOMAIN k : k[i] \in {"cap", "createCall", "StartCall", "offer", "record"}
  BY <1>2
<1>5. /\ IsIdle(t) /\ Fresh(c) /\ Start(t, k, c, o)
      /\ UNCHANGED <<engine, active, broker, missed, timer, bridges>>
  BY <1>2 DEF doStartCall
<1> QED
  BY <1>1, <1>3, <1>4, <1>5, CreationBegins

LEMMA OnIncomingOfferInv ==
  ASSUME ServerInv, NEW c \in Inbound, onIncomingOffer(c)
  PROVE  ServerInv'
<1>1. PICK t \in Threads : t = EventLoop /\ t \notin Calls
  BY RolesAssumption DEF Threads
<1>2. PICK k : k = <<"cap", "createCall", "HandleCallOffer", "OnIncoming", "inbound", "emitState">>
  OBVIOUS
<1>3. k \in Registering
  BY <1>2 DEF Registering
<1>4. \A i \in DOMAIN k : k[i] \in {"cap", "createCall", "HandleCallOffer", "OnIncoming", "inbound", "emitState"}
  BY <1>2
<1>5. /\ IsIdle(t) /\ Fresh(c) /\ Start(t, k, c, NoOwner) /\ c \in Calls
      /\ UNCHANGED <<engine, active, broker, missed, timer, bridges>>
  BY <1>1, <1>2 DEF onIncomingOffer, Calls
<1> QED
  BY <1>1, <1>3, <1>4, <1>5, CreationBegins

-----------------------------------------------------------------------------
(* The browser's connection: it is attached, replaced and closed with its call. *)

LEMMA DoWebRTCInv ==
  ASSUME ServerInv, NEW t \in Handlers, NEW c \in Calls, NEW b \in Bridges, doWebRTC(t, c, b)
  PROVE  ServerInv'
<1>1. t \in Threads /\ t \notin Calls
  BY HandlerFacts
<1>2. /\ IsIdle(t) /\ st[c] # "none" /\ ofCall[b] = NoCall
      /\ UNCHANGED <<engine, active, broker, missed, timer>>
  BY KnownCall DEF doWebRTC
<1>3. PICK w : w = [Idle EXCEPT !.k = <<"setBridge">>, !.c = c, !.b = b]
  OBVIOUS
<1>4. w \in Goroutines /\ w.k = <<"setBridge">> /\ w.c = c /\ w.b = b /\ w.left = {}
  <2>1. <<"setBridge">> \in Seq(Steps)
    BY DEF Steps
  <2> QED
    BY <1>3, <2>1 DEF Idle, Goroutines
<1>5. th' = [th EXCEPT ![t] = w]
  BY <1>3 DEF doWebRTC
<1>6. /\ th' \in [Threads -> Goroutines] /\ th'[t] = w /\ \A u \in Threads \ {t} : th'[u] = th[u]
  BY <1>1, <1>4, <1>5, ThreadStep
<1>7. /\ UNCHANGED <<st, lock, reg, isInbound, answered, bridge, rec, hist, missed, timer>>
      /\ open' = open \cup {b} /\ ofCall' = [ofCall EXCEPT ![b] = c]
  BY <1>2 DEF doWebRTC, engine, active, broker
<1>8. /\ b \notin open /\ ofCall'[b] = c /\ \A a \in Bridges \ {b} : ofCall'[a] = ofCall[a]
  BY <1>2, <1>7, ServerAssumption DEF ServerInv, TypeOK
<1>9. w.k \in Requests /\ w.k # <<"OnStateChange">>
  BY <1>4 DEF Requests
<1>10. Quiet(t, w, open)
  BY <1>1, <1>2, <1>4, <1>9, StartQuiet DEF ServerInv, TypeOK
<1>11. TypeOK'
  BY <1>6, <1>7 DEF ServerInv, TypeOK
<1>12. Ordered'
  <2>1. OrderOf(t, w, reg)
    BY <1>10 DEF Quiet
  <2>2. OrderOf(t, th[t], reg)'
    BY <1>6, <1>7, <2>1 DEF OrderOf, Pending, Only
  <2> QED
    BY <1>6, <1>7, <2>2, OrderKept
<1>13. Births'
  <2>1. ASSUME NEW d \in Calls, st[d] = "none" PROVE Unpublished(d)'
    <3>1. Unpublished(d) /\ d # c
      BY <1>2, <2>1 DEF ServerInv, Births
    <3>2. \A a \in Bridges : ofCall'[a] # d
      BY <1>8, <3>1 DEF Unpublished
    <3> QED
      BY <1>7, <3>1, <3>2 DEF Unpublished
  <2>2. \A u \in Threads : th'[u] = th[u] \/ BirthQuiet(u, th'[u])
    BY <1>6, <1>10 DEF Quiet
  <2> QED
    BY <1>7, <2>1, <2>2, BirthsKept
<1>14. RingOnce'
  <2>1. \A u \in Threads : th'[u] = th[u] \/ RingQuiet(u, th'[u])
    BY <1>6, <1>10 DEF Quiet
  <2> QED
    BY <1>7, <2>1, RingKept
<1>15. Locked'
  <2>1. \A u \in Threads : th'[u] = th[u] \/ LockQuiet(u, th'[u])
    BY <1>6, <1>10 DEF Quiet
  <2> QED
    BY <1>7, <2>1, LockedKept
<1>16. /\ \A u \in Threads : Pending(th'[u], {"OnIncoming", "emitState"}) => u = EventLoop
       /\ \A d \in Calls : Announcing(d) => Announcing(d)' \/ st[d] \notin Live
  <2>1. \A u \in Threads : th'[u] = th[u] \/ AnnounceQuiet(u, th'[u])
    BY <1>6, <1>10 DEF Quiet
  <2> QED
    BY <2>1, AnnounceKept
<1>17. LiveCallPublished' /\ EndedLeavesRegistry'
  <2>1. reg' \subseteq reg
    BY <1>7
  <2> QED
    BY <1>7, <1>16, <2>1, PublishedKept
<1>18. BridgeOwned'
  <2> SUFFICES ASSUME NEW a \in open', ~\E d \in reg' : bridge'[d] = a
               PROVE  \E u \in Threads : Owes(th[u], a)'
    BY DEF BridgeOwned
  <2>1. CASE a = b
    <3>1. w.k # <<>> /\ Head(w.k) = "setBridge"
      BY <1>4
    <3>2. Owes(w, a)
      BY <1>4, <2>1, <3>1 DEF Owes
    <3>3. Owes(th[t], a)'
      BY <1>6, <1>7, <3>2 DEF Owes
    <3> QED
      BY <1>1, <3>3
  <2>2. CASE a # b
    <3>1. a \in open
      BY <1>7, <2>2
    <3>2. PICK u \in Threads : Owes(th[u], a)
      BY <1>7, <3>1 DEF ServerInv, BridgeOwned
    <3>3. u # t
      BY <1>1, <1>2, <3>1, <3>2, IdleFacts DEF ServerInv, TypeOK
    <3>4. Owes(th[u], a)'
      BY <1>6, <1>7, <3>2, <3>3 DEF Owes
    <3> QED
      BY <3>4
  <2> QED
    BY <2>1, <2>2
<1>19. \A a \in open' : ofCall'[a] \in Calls
  BY <1>7, <1>8 DEF ServerInv, TypeOK
<1> QED
  BY <1>11, <1>12, <1>13, <1>14, <1>15, <1>16, <1>17, <1>18, <1>19 DEF ServerInv, Pending

(* setBridge: the bridge it takes off the call, or cannot attach, is owed from here on. *)
LEMMA SetBridgeInv ==
  ASSUME ServerInv, NEW t \in Threads, setBridge(t)
  PROVE  ServerInv'
<1>1. /\ ~IsIdle(t) /\ Head(th[t].k) = "setBridge"
      /\ UNCHANGED <<engine, reg, isInbound, answered, broker, missed, timer, bridges>>
  BY DEF setBridge, At
<1>2. PICK c \in Calls : c = th[t].c /\ st[c] # "none"
  BY <1>1, HasEngine DEF CreateSteps, AnnounceSteps, Draining
<1>3. PICK gone : gone = IF c \in reg THEN bridge[c] ELSE th[t].b
  OBVIOUS
<1>4. PICK r : r = IF gone = NoBridge THEN <<>> ELSE <<"close">>
  OBVIOUS
<1>5. PICK w : w = [th[t] EXCEPT !.k = r, !.b = gone]
  OBVIOUS
<1>6. th[t] \in Goroutines /\ th[t].b \in Bridges \cup {NoBridge} /\ th[t].left = {}
      /\ ~Pending(th[t], {"drained"}) /\ ~Inside(th[t])
  BY <1>1, ThreadTypes, NotDraining DEF DrainSteps, Draining, Inside
<1>7. gone \in Bridges \cup {NoBridge}
  BY <1>3, <1>6 DEF ServerInv, TypeOK
<1>8. r \in Seq(Steps)
  <2>1. <<>> \in Seq(Steps) /\ <<"close">> \in Seq(Steps)
    BY DEF Steps
  <2> QED
    BY <1>4, <2>1
<1>9. w \in Goroutines /\ w.k = r /\ w.c = c /\ w.left = {} /\ w.b = gone
  BY <1>2, <1>5, <1>6, <1>7, <1>8 DEF Goroutines
<1>10. th' = [th EXCEPT ![t] = w]
  BY <1>2, <1>3, <1>4, <1>5 DEF setBridge, ServerInv, TypeOK
<1>11. /\ th' \in [Threads -> Goroutines] /\ th'[t] = w /\ \A u \in Threads \ {t} : th'[u] = th[u]
  BY <1>9, <1>10, ThreadStep
<1>12. /\ UNCHANGED <<st, lock, reg, isInbound, answered, rec, hist, missed, timer, ofCall, open>>
       /\ bridge' = IF c \in reg THEN [bridge EXCEPT ![c] = th[t].b] ELSE bridge
  BY <1>1, <1>2 DEF setBridge, engine, broker, bridges
<1>13. /\ bridge' \in [Calls -> Bridges \cup {NoBridge}]
       /\ \A d \in Calls \ {c} : bridge'[d] = bridge[d]
       /\ c \in reg => bridge'[c] = th[t].b
       /\ c \notin reg => bridge'[c] = bridge[c]
  BY <1>6, <1>12 DEF ServerInv, TypeOK
<1>14. \A i \in DOMAIN r : r[i] = "close"
  <2>1. CASE gone = NoBridge
    BY <1>4, <2>1
  <2>2. CASE gone # NoBridge
    BY <1>4, <2>2
  <2> QED
    BY <2>1, <2>2
<1>15. r # <<>> => Head(r) = "close"
  BY <1>8, <1>14
<1>16. \A ls : "close" \notin ls => ~Pending(w, ls)
  BY <1>9, <1>14 DEF Pending
<1>17. OrderOf(t, w, reg)
  BY <1>9, <1>14, <1>16 DEF OrderOf
<1>18. th[t].k \notin Creating /\ r \notin Creating /\ ~Announces(th[t])
  <2>1. r \notin Creating
    BY <1>15, Heads DEF CreateSteps
  <2> QED
    BY <1>1, <2>1, PastCreation DEF CreateSteps, AnnounceSteps, Announces, Pending
<1>19. TypeOK'
  BY <1>11, <1>12, <1>13 DEF ServerInv, TypeOK
<1>20. Ordered'
  <2>1. OrderOf(t, th[t], reg)'
    BY <1>11, <1>12, <1>17 DEF OrderOf, Pending, Only
  <2> QED
    BY <1>11, <1>12, <2>1, OrderKept
<1>21. Births'
  <2>1. ASSUME NEW d \in Calls, st[d] = "none" PROVE Unpublished(d)'
    BY <1>2, <1>12, <1>13, <2>1 DEF ServerInv, Births, Unpublished
  <2>2. BirthQuiet(t, w)
    BY <1>2, <1>6, <1>9, <1>18 DEF BirthQuiet, Creating
  <2>3. \A u \in Threads : th'[u] = th[u] \/ BirthQuiet(u, th'[u])
    BY <1>11, <2>2
  <2> QED
    BY <1>12, <2>1, <2>3, BirthsKept
<1>22. RingOnce'
  <2>1. th[t] # Idle
    BY <1>1, IdleGoroutine DEF IsIdle
  <2>2. t \in Calls => th[t].c = t
    BY <2>1 DEF ServerInv, RingOnce
  <2>3. RingQuiet(t, w)
    BY <1>2, <1>9, <1>16, <2>1, <2>2 DEF RingQuiet
  <2> QED
    BY <1>11, <1>12, <2>3, RingKept
<1>23. Locked'
  <2>1. LockQuiet(t, w)
    BY <1>6, <1>9, <1>15, OutsideHolds DEF LockQuiet
  <2> QED
    BY <1>11, <1>12, <2>1, LockedKept
<1>24. /\ \A u \in Threads : Pending(th'[u], {"OnIncoming", "emitState"}) => u = EventLoop
       /\ \A d \in Calls : Announcing(d) => Announcing(d)' \/ st[d] \notin Live
  <2>1. AnnounceQuiet(t, w)
    BY <1>16, <1>18 DEF AnnounceQuiet, Announces
  <2> QED
    BY <1>11, <2>1, AnnounceKept
<1>25. LiveCallPublished' /\ EndedLeavesRegistry'
  <2>1. reg' \subseteq reg
    BY <1>12
  <2> QED
    BY <1>12, <1>24, <2>1, PublishedKept
<1>26. BridgeOwned'
  <2> SUFFICES ASSUME NEW b \in open', ~\E d \in reg' : bridge'[d] = b
               PROVE  \E u \in Threads : Owes(th[u], b)'
    BY DEF BridgeOwned
  <2>1. b \in open /\ b \in Bridges /\ b # NoBridge /\ reg \subseteq Calls
    BY <1>12, ServerAssumption DEF ServerInv, TypeOK
  <2>2. CASE gone = b
    <3>1. r = <<"close">>
      BY <1>4, <2>1, <2>2
    <3>2. r # <<>> /\ Head(r) = "close"
      BY <3>1
    <3>3. Owes(th[t], b)'
      BY <1>9, <1>11, <2>2, <3>2 DEF Owes
    <3> QED
      BY <3>3
  <2>3. CASE gone # b
    <3>1. ~\E d \in reg : bridge[d] = b
      BY <1>3, <1>12, <1>13, <2>1, <2>3
    <3>2. PICK u \in Threads : Owes(th[u], b)
      BY <2>1, <3>1 DEF ServerInv, BridgeOwned
    <3>3. u # t
      <4> SUFFICES ASSUME u = t PROVE FALSE
        OBVIOUS
      <4>1. th[t].b = b
        BY <1>1, <1>6, <3>2 DEF Owes, Pending
      <4>2. c \in reg
        BY <1>3, <2>3, <4>1
      <4> QED
        BY <1>12, <1>13, <4>1, <4>2
    <3>4. ~(c \in reg /\ bridge[c] = b)
      BY <3>1
    <3>5. \A d \in Calls : bridge[d] = b => bridge'[d] = b
      BY <1>13, <3>4
    <3>6. th'[u] = th[u]
      BY <1>11, <3>3
    <3>7. Owes(th[u], b)'
      BY <3>2, <3>5, <3>6 DEF Owes
    <3> QED
      BY <3>7
  <2> QED
    BY <2>2, <2>3
<1>27. \A b \in open' : ofCall'[b] \in Calls
  BY <1>12 DEF ServerInv
<1> QED
  BY <1>19, <1>20, <1>21, <1>22, <1>23, <1>24, <1>25, <1>26, <1>27 DEF ServerInv, Pending

(* teardownAllCalls: whoever empties the registry owes all of its bridges. *)
LEMMA TeardownInv ==
  ASSUME ServerInv, NEW t \in Handlers, teardownAllCalls(t)
  PROVE  ServerInv'
<1>1. /\ t \in Threads /\ t \notin Calls /\ IsIdle(t) /\ reg' = {}
      /\ UNCHANGED <<engine, isInbound, answered, bridge, broker, missed, timer, bridges>>
  BY HandlerFacts DEF teardownAllCalls
<1>2. PICK w : w = [Idle EXCEPT !.k = <<"drain">>, !.left = reg]
  OBVIOUS
<1>3. w \in Goroutines /\ w.k = <<"drain">> /\ w.c = NoCall /\ w.left = reg /\ reg \subseteq Calls
  <2>1. <<"drain">> \in Seq(Steps)
    BY DEF Steps
  <2>2. reg \subseteq Calls
    BY DEF ServerInv, TypeOK
  <2> QED
    BY <1>2, <2>1, <2>2 DEF Idle, Goroutines
<1>4. th' = [th EXCEPT ![t] = w]
  BY <1>2 DEF teardownAllCalls
<1>5. /\ th' \in [Threads -> Goroutines] /\ th'[t] = w /\ \A u \in Threads \ {t} : th'[u] = th[u]
  BY <1>1, <1>3, <1>4, ThreadStep
<1>6. UNCHANGED <<st, lock, isInbound, answered, bridge, rec, hist, missed, timer, ofCall, open>>
  BY <1>1 DEF engine, broker, bridges
<1>7. \A i \in DOMAIN w.k : w.k[i] = "drain" /\ i = Len(w.k)
  BY <1>3
<1>8. \A ls : "drain" \notin ls => ~Pending(w, ls)
  BY <1>7 DEF Pending
<1>9. Pending(w, {"drain"}) /\ Only(w, {"drain"}) /\ Only(w, Draining) /\ Only(w, DrainSteps)
  <2>1. 1 \in DOMAIN w.k
    BY <1>3
  <2> QED
    BY <1>7, <2>1 DEF Pending, Only, Draining, DrainSteps
<1>10. w.k # <<>> /\ Head(w.k) = "drain"
  BY <1>3
<1>11. w.k \notin Creating
  BY <1>10, Heads DEF CreateSteps
<1>12. OrderOf(t, w, {})
  BY <1>7, <1>8, <1>9 DEF OrderOf
<1>13. TypeOK'
  BY <1>1, <1>5, <1>6 DEF ServerInv, TypeOK
<1>14. Ordered'
  <2>1. OrderOf(t, th[t], reg)'
    BY <1>1, <1>5, <1>12 DEF OrderOf, Pending, Only
  <2> QED
    BY <1>1, <1>5, <2>1, OrderKept
<1>15. Births'
  <2>1. ASSUME NEW d \in Calls, st'[d] = "none" PROVE Unpublished(d)'
    BY <1>6, <2>1 DEF ServerInv, Births, Unpublished
  <2>2. th[t].k \notin Creating
    BY <1>1, IdleFacts
  <2>3. ASSUME NEW d \in Calls, st'[d] = "none", d \in reg' \/ \E u \in Threads : d \in th'[u].left
        PROVE  \E u \in Threads : th'[u].c = d /\ th'[u].k \in Beginning
    <3>1. st[d] = "none" /\ (d \in reg \/ \E u \in Threads : d \in th[u].left)
      BY <1>1, <1>3, <1>5, <1>6, <2>3
    <3>2. PICK u \in Threads : th[u].c = d /\ th[u].k \in Beginning
      BY <3>1 DEF ServerInv, Births
    <3> QED
      BY <1>5, <2>2, <3>2 DEF Creating
  <2>4. ASSUME NEW u \in Threads, th'[u].k \in Creating
        PROVE  /\ u # t /\ th'[u] = th[u] /\ st[th[u].c] = "none" /\ th[u].c \in Calls
               /\ \A v \in Threads \ {u} : th[v].c = th[u].c => Only(th[v], Draining)
    <3>1. u # t /\ th'[u] = th[u]
      BY <1>5, <1>11, <2>4
    <3> QED
      BY <2>4, <3>1, CreatorsCall DEF ServerInv, Births
  <2>5. ASSUME NEW u \in Threads, th'[u].k \in Creating
        PROVE  st'[th'[u].c] = "none" /\ \A v \in Threads \ {u} : th'[v].c = th'[u].c => Only(th'[v], Draining)
    BY <1>5, <1>6, <1>9, <2>4, <2>5
  <2>6. ASSUME NEW u \in Threads, th'[u].k \in Registering
        PROVE  /\ th'[u].c \notin reg'
               /\ \A v \in Threads : th'[u].c \notin th'[v].left /\ (v # u => th'[v].c # th'[u].c)
    <3>1. u # t /\ th'[u] = th[u] /\ th[u].c \in Calls
      BY <2>4, <2>6 DEF Creating
    <3>2. /\ th[u].c \notin reg
          /\ \A v \in Threads : th[u].c \notin th[v].left /\ (v # u => th[v].c # th[u].c)
      BY <2>6, <3>1 DEF ServerInv, Births
    <3>3. th[u].c # NoCall
      BY <3>1, ServerAssumption
    <3> QED
      BY <1>1, <1>3, <1>5, <3>1, <3>2, <3>3
  <2>7. ASSUME NEW u \in Threads, th'[u].c \in Calls, st'[th'[u].c] = "none"
        PROVE  th'[u].k \in Creating \/ Only(th'[u], Draining)
    <3>1. CASE u = t
      BY <1>5, <1>9, <3>1
    <3>2. CASE u # t
      BY <1>5, <1>6, <2>7, <3>2 DEF ServerInv, Births
    <3> QED
      BY <3>1, <3>2
  <2> QED
    BY <2>1, <2>3, <2>5, <2>6, <2>7 DEF Births, Only
<1>16. RingOnce'
  <2>1. RingQuiet(t, w)
    BY <1>1, <1>8 DEF RingQuiet
  <2> QED
    BY <1>5, <1>6, <2>1, RingKept
<1>17. Locked'
  <2>1. LockQuiet(t, w)
    BY <1>1, <1>10, IdleFacts DEF LockQuiet
  <2> QED
    BY <1>5, <1>6, <2>1, LockedKept
<1>18. \A u \in Threads : Pending(th'[u], {"OnIncoming", "emitState"}) => u = EventLoop
  BY <1>5, <1>8 DEF ServerInv
<1>19. LiveCallPublished' /\ EndedLeavesRegistry'
  BY <1>1 DEF LiveCallPublished, EndedLeavesRegistry
<1>20. BridgeOwned'
  <2> SUFFICES ASSUME NEW b \in open PROVE \E u \in Threads : Owes(th[u], b)'
    BY <1>6 DEF BridgeOwned
  <2>1. CASE \E c \in reg : bridge[c] = b
    <3>1. Owes(w, b)
      BY <1>3, <2>1 DEF Owes
    <3>2. Owes(th[t], b)'
      BY <1>5, <1>6, <3>1 DEF Owes
    <3> QED
      BY <1>1, <3>2
  <2>2. CASE ~\E c \in reg : bridge[c] = b
    <3>1. PICK u \in Threads : Owes(th[u], b)
      BY <2>2 DEF ServerInv, BridgeOwned
    <3>2. u # t
      BY <1>1, <3>1, IdleFacts DEF ServerInv, TypeOK
    <3>3. Owes(th[u], b)'
      BY <1>5, <1>6, <3>1, <3>2 DEF Owes
    <3> QED
      BY <3>3
  <2> QED
    BY <2>1, <2>2
<1>21. \A b \in open' : ofCall'[b] \in Calls
  BY <1>6 DEF ServerInv
<1> QED
  BY <1>13, <1>14, <1>15, <1>16, <1>17, <1>18, <1>19, <1>20, <1>21 DEF ServerInv, Pending

(* The ring timeout fires, once. *)
LEMMA CutInv ==
  ASSUME ServerInv, NEW c \in Calls, cutIfStillRinging(c)
  PROVE  ServerInv'
<1>1. /\ c \in timer /\ timer' = timer \ {c} /\ c \in Threads
      /\ UNCHANGED <<st, lock, reg, isInbound, answered, bridge, rec, hist, missed, ofCall, open>>
      /\ open \in SUBSET Bridges
  BY DEF cutIfStillRinging, engine, active, broker, bridges, Threads, ServerInv, TypeOK
<1>2. th[c] = Idle /\ IsIdle(c) /\ st[c] # "none"
  <2>1. th[c] = Idle
    BY <1>1 DEF ServerInv, RingOnce
  <2>2. st[c] # "none"
    BY <1>1 DEF ServerInv, Births, Unpublished
  <2> QED
    BY <2>1, <2>2, IdleGoroutine DEF IsIdle
<1>3. PICK w \in Goroutines : /\ th' = [th EXCEPT ![c] = w]
                              /\ w = Idle \/ (w.k = <<"terminate">> /\ w.c = c /\ w.left = {})
  <2>1. CASE th' = th
    <3>1. th' = [th EXCEPT ![c] = Idle]
      BY <1>1, <1>2, <2>1 DEF ServerInv, TypeOK
    <3> QED
      BY <3>1, IdleGoroutine
  <2>2. CASE Start(c, <<"terminate">>, c, NoOwner)
    <3>1. <<"terminate">> \in Seq(Steps)
      BY DEF Steps
    <3>2. PICK q : q = [Idle EXCEPT !.k = <<"terminate">>, !.c = c, !.o = NoOwner]
      OBVIOUS
    <3>3. q \in Goroutines /\ q.k = <<"terminate">> /\ q.c = c /\ q.left = {}
      BY <3>1, <3>2 DEF Idle, Goroutines
    <3>4. th' = [th EXCEPT ![c] = q]
      BY <2>2, <3>2 DEF Start
    <3> QED
      BY <3>3, <3>4
  <2> QED
    BY <2>1, <2>2 DEF cutIfStillRinging
<1>4. /\ th' \in [Threads -> Goroutines] /\ th'[c] = w /\ \A u \in Threads \ {c} : th'[u] = th[u]
  BY <1>1, <1>3, ThreadStep
<1>5. \A i \in DOMAIN w.k : w.k[i] = "terminate"
  <2>1. CASE w = Idle
    BY <2>1, IdleGoroutine
  <2>2. CASE w.k = <<"terminate">>
    BY <2>2
  <2> QED
    BY <1>3, <2>1, <2>2
<1>6. \A ls : "terminate" \notin ls => ~Pending(w, ls)
  BY <1>5 DEF Pending
<1>7. w.k # <<>> => Head(w.k) = "terminate"
  BY <1>5 DEF Goroutines
<1>8. w.left = {} /\ w.k \notin Creating /\ (w = Idle \/ w.c = c) /\ (w.c \in Calls \/ w.k = <<>>)
  BY <1>3, <1>7, IdleGoroutine, Heads DEF CreateSteps
<1>9. OrderOf(c, w, reg)
  <2>1. w.c \in Calls \/ Only(w, {"drain"})
    BY <1>8 DEF Only
  <2> QED
    BY <1>5, <1>6, <1>8, <2>1 DEF OrderOf
<1>10. TypeOK'
  BY <1>1, <1>4 DEF ServerInv, TypeOK
<1>11. Ordered'
  <2>1. OrderOf(c, th[c], reg)'
    BY <1>1, <1>4, <1>9 DEF OrderOf, Pending, Only
  <2> QED
    BY <1>1, <1>4, <2>1, OrderKept
<1>12. Births'
  <2>1. ASSUME NEW d \in Calls, st[d] = "none" PROVE Unpublished(d)'
    BY <1>1, <2>1 DEF ServerInv, Births, Unpublished
  <2>2. th[c].k \notin Creating
    BY <1>1, <1>2, IdleFacts
  <2>3. \A u \in Threads : th[u].k \in Registering => th[u].c # c
    BY <1>2 DEF ServerInv, Births, Creating
  <2>4. w.c \notin Calls \/ (st[w.c] # "none" /\ \A u \in Threads : th[u].k \in Registering => th[u].c # w.c)
    BY <1>2, <1>8, <2>3, IdleGoroutine, ServerAssumption
  <2>5. BirthQuiet(c, w)
    BY <1>8, <2>2, <2>4 DEF BirthQuiet, Creating
  <2>6. \A u \in Threads : th'[u] = th[u] \/ BirthQuiet(u, th'[u])
    BY <1>4, <2>5
  <2> QED
    BY <1>1, <2>1, <2>6, BirthsKept
<1>13. RingOnce'
  <2>1. \A d \in Calls : d \in Threads
    BY DEF Threads
  <2>2. \A d \in Calls \ {c} : th'[d] = th[d]
    BY <1>4, <2>1
  <2>3. \A d \in timer' : th'[d] = Idle
    BY <1>1, <2>2 DEF ServerInv, RingOnce, TypeOK
  <2>4. \A d \in Calls : th'[d] = Idle \/ th'[d].c = d
    BY <1>4, <1>8, <2>2 DEF ServerInv, RingOnce
  <2>5. ASSUME NEW u \in Threads, Pending(th'[u], {"record"}) PROVE u # c /\ th'[u] = th[u]
    BY <1>4, <1>6, <2>5
  <2>6. ASSUME NEW u \in Threads, Pending(th'[u], {"record"})
        PROVE  /\ th'[u].c \in Outbound \ timer' /\ th'[th'[u].c] = Idle
               /\ \A v \in Threads \ {u} : Pending(th'[v], {"record"}) => th'[v].c # th'[u].c
    <3>1. /\ th[u].c \in Outbound \ timer /\ th[th[u].c] = Idle
          /\ \A v \in Threads \ {u} : Pending(th[v], {"record"}) => th[v].c # th[u].c
      BY <2>5, <2>6 DEF ServerInv, RingOnce
    <3>2. th[u].c # c /\ th[u].c \in Calls
      BY <1>1, <3>1 DEF Calls
    <3> QED
      BY <1>1, <2>2, <2>5, <2>6, <3>1, <3>2
  <2> QED
    BY <2>3, <2>4, <2>6 DEF RingOnce, Pending, Idle
<1>14. Locked'
  <2>1. LockQuiet(c, w)
    BY <1>1, <1>2, <1>7, IdleFacts DEF LockQuiet
  <2> QED
    BY <1>1, <1>4, <2>1, LockedKept
<1>15. /\ \A u \in Threads : Pending(th'[u], {"OnIncoming", "emitState"}) => u = EventLoop
       /\ \A d \in Calls : Announcing(d) => Announcing(d)' \/ st[d] \notin Live
  <2>1. AnnounceQuiet(c, w)
    BY <1>1, <1>2, <1>6, IdleFacts DEF AnnounceQuiet, Announces
  <2> QED
    BY <1>4, <2>1, AnnounceKept
<1>16. LiveCallPublished' /\ EndedLeavesRegistry'
  <2>1. reg' \subseteq reg
    BY <1>1
  <2> QED
    BY <1>1, <1>15, <2>1, PublishedKept
<1>17. BridgeOwned'
  <2>1. BridgeQuiet(c, w, open')
    BY <1>1, <1>2, IdleFacts DEF BridgeQuiet
  <2>2. \A u \in Threads : th'[u] = th[u] \/ BridgeQuiet(u, th'[u], open')
    BY <1>4, <2>1
  <2> QED
    BY <1>1, <2>2, BridgesKept
<1>18. \A b \in open' : ofCall'[b] \in Calls
  BY <1>1 DEF ServerInv
<1> QED
  BY <1>10, <1>11, <1>12, <1>13, <1>14, <1>15, <1>16, <1>17, <1>18 DEF ServerInv, Pending

-----------------------------------------------------------------------------
(* The invariant and what follows from it. *)

LEMMA InitInv == Init => ServerInv
<1> SUFFICES ASSUME Init PROVE ServerInv
  OBVIOUS
<1>1. \A t \in Threads : /\ th[t] = Idle /\ th[t].k = <<>> /\ th[t].left = {} /\ th[t].c = NoCall
                         /\ th[t] \in Goroutines /\ DOMAIN th[t].k = {}
  <2>1. DOMAIN <<>> = {}
    OBVIOUS
  <2> QED
    BY <2>1, IdleGoroutine DEF Init
<1>2. TypeOK
  BY <1>1 DEF Init, TypeOK
<1>3. Ordered
  BY <1>1 DEF Ordered, OrderOf, Only, Pending
<1>4. Births
  <2>1. \A t \in Threads : th[t].k \notin Creating
    <3>1. \A k \in Creating : k # <<>>
      BY CreatorSteps
    <3> QED
      BY <1>1, <3>1
  <2>2. \A c \in Calls : Unpublished(c) /\ c \notin reg /\ \A u \in Threads : c \notin th[u].left
    BY <1>1, ServerAssumption DEF Init, Unpublished
  <2> QED
    BY <1>1, <2>1, <2>2, ServerAssumption DEF Births, Creating
<1>5. RingOnce
  BY <1>1 DEF Init, RingOnce, Pending, Threads
<1>6. Locked
  <2>1. \A t \in Threads : ~At(t, "OnStateChange") /\ ~At(t, "upsert")
    BY <1>1 DEF At, IsIdle
  <2> QED
    BY <2>1 DEF Init, Locked
<1>7. /\ \A b \in open : ofCall[b] \in Calls
      /\ \A t \in Threads : Pending(th[t], {"OnIncoming", "emitState"}) => t = EventLoop
      /\ LiveCallPublished /\ EndedLeavesRegistry /\ BridgeOwned
  BY <1>1 DEF Init, Pending, LiveCallPublished, EndedLeavesRegistry, BridgeOwned
<1> QED
  BY <1>2, <1>3, <1>4, <1>5, <1>6, <1>7 DEF ServerInv

LEMMA StutterInv ==
  ASSUME ServerInv, UNCHANGED vars
  PROVE  ServerInv'
<1>1. UNCHANGED <<st, lock, reg, isInbound, answered, bridge, rec, hist, missed, timer, ofCall, open, th>>
  BY DEF vars, engine, active, broker, bridges
<1>2. TypeOK' /\ Ordered' /\ RingOnce' /\ Locked'
  BY <1>1 DEF ServerInv, TypeOK, Ordered, OrderOf, Only, Pending, RingOnce, Locked, Inside, At, IsIdle
<1>3. Births'
  BY <1>1 DEF ServerInv, Births, Unpublished, Only
<1>4. /\ \A b \in open' : ofCall'[b] \in Calls
      /\ \A t \in Threads : Pending(th'[t], {"OnIncoming", "emitState"}) => t = EventLoop
  BY <1>1 DEF ServerInv
<1>5. LiveCallPublished' /\ EndedLeavesRegistry' /\ BridgeOwned'
  BY <1>1 DEF ServerInv, LiveCallPublished, Announcing, EndedLeavesRegistry, BridgeOwned, Owes
<1> QED
  BY <1>2, <1>3, <1>4, <1>5 DEF ServerInv, Pending

LEMMA ContinueInv ==
  ASSUME ServerInv, NEW t \in Threads, Continue(t)
  PROVE  ServerInv'
<1>1. CASE cap(t) \/ createCall(t) \/ StartCall(t) \/ OfferFails(t) \/ OfferSent(t) \/ record(t)
  BY <1>1, CapInv, CreateCallInv, StartCallInv, OfferFailsInv, OfferSentInv, RecordInv
<1>2. CASE check(t) \/ setOwner(t) \/ AcceptCall(t) \/ RejectCall(t) \/ EndCall(t) \/ terminateCall(t)
  BY <1>2, CheckInv, SetOwnerInv, AcceptCallInv, RejectCallInv, EndCallInv, TerminateCallInv
<1>3. CASE OnStateChange(t) \/ upsert(t) \/ remove(t) \/ note(t) \/ endCall(t)
  BY <1>3, OnStateChangeInv, UpsertInv, RemoveInv, NoteInv, EndCallRecordInv
<1>4. CASE setBridge(t) \/ close(t) \/ drain(t) \/ drained(t)
  BY <1>4, SetBridgeInv, CloseInv, DrainInv, DrainedInv
<1> QED
  BY <1>1, <1>2, <1>3, <1>4 DEF Continue

LEMMA NextInv == ServerInv /\ [Next]_vars => ServerInv'
<1> SUFFICES ASSUME ServerInv, [Next]_vars PROVE ServerInv'
  OBVIOUS
<1>1. CASE \E t \in Handlers : Request(t)
  BY <1>1, DoStartCallInv, BeginInv, DoWebRTCInv, TeardownInv DEF Request
<1>2. CASE \E t \in Threads : Continue(t)
  BY <1>2, ContinueInv
<1>3. CASE ContinueEvent
  BY <1>3, HandleCallOfferInv, OnIncomingInv, MarkInboundInv, EmitStateInv, HandleCallInv DEF ContinueEvent
<1>4. CASE \E c \in Calls : cutIfStillRinging(c) \/ onRelayConnected(c)
  BY <1>4, CutInv, OnRelayConnectedInv
<1>5. CASE \E b \in Bridges : OnTerminalICE(b)
  BY <1>5, OnTerminalICEInv
<1>6. CASE \E c \in Inbound : onIncomingOffer(c)
  BY <1>6, OnIncomingOfferInv
<1>7. CASE \E c \in Calls, h \in {"HandleCallAccept", "HandleCallTerminate"} : handleEvent(c, h)
  BY <1>7, HandleEventInv
<1>8. CASE UNCHANGED vars
  BY <1>8, StutterInv
<1> QED
  BY <1>1, <1>2, <1>3, <1>4, <1>5, <1>6, <1>7, <1>8 DEF Next

(* ServerInv holds throughout: the goroutines of a session do their steps in an
   order in which nobody meets a call half made or half removed. *)
THEOREM ServerInductive == Spec => []ServerInv
<1> QED
  BY InitInv, NextInv, PTL DEF Spec

(* OnStateChange publishes every transition before the engine is released: a
   registered call that rings or is in progress has a record in the broker, and
   an incoming one's record shows its state. *)
THEOREM LivePublished == Spec => []LiveCallPublished
<1>1. ServerInv => LiveCallPublished
  BY DEF ServerInv
<1> QED
  BY <1>1, ServerInductive, PTL

(* removeCall comes before m.mu is released: an ended call holds no slot of the
   registry once its engine is free; and registry, broker, bridges and
   goroutines keep their types: a step never works on a call, an owner or a
   bridge that it was not given. *)
THEOREM EndedCallsLeave == Spec => []RegistrySound
<1>1. ServerInv => RegistrySound
  BY DEF ServerInv, RegistrySound
<1> QED
  BY <1>1, ServerInductive, PTL

(* setBridge, removeCall and teardownAllCalls never lose a browser's peer
   connection: an open one is held by a registered call or a goroutine has yet to
   attach or close it. *)
THEOREM BridgesOwned == Spec => []BridgeOwned
<1>1. ServerInv => BridgeOwned
  BY DEF ServerInv
<1> QED
  BY <1>1, ServerInductive, PTL
=============================================================================
