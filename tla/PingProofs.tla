----------------------------- MODULE PingProofs -----------------------------
(* Proofs that julius-init keeps account of the PINGs it is sent, for any   *)
(* number of clients, messages and places in a queue.  What init has done   *)
(* by the time it serves is JuliusSystemProofs' matter (IInv).              *)
EXTENDS JuliusSystemProofs, FiniteSetTheorems

\* Where in a queue client c's answerable PINGs are.
Asking(q, c) == {i \in DOMAIN q : Answerable(q[i], c)}

\* The three places of InFlight.
Queued(c) == Cardinality(Asking(queue[Boot], c))
InHand(c) == IF pc \in {"dispatch", "reply"} THEN Carrying(msg, c) ELSE 0
InOutbox(c) == IF cstate[c] = "sending" THEN Carrying(outbox[c], c) ELSE 0

-----------------------------------------------------------------------------
(* Counting the messages of a queue.                                        *)

LEMMA CountFinite ==
  ASSUME NEW q \in Seq(Message), NEW c
  PROVE  IsFiniteSet(Asking(q, c)) /\ Cardinality(Asking(q, c)) \in Nat
<1>1. DOMAIN q = 1 .. Len(q) /\ Len(q) \in Nat
  OBVIOUS
<1>2. IsFiniteSet(1 .. Len(q))
  BY <1>1, FS_Interval
<1>3. Asking(q, c) \in SUBSET (1 .. Len(q))
  BY <1>1 DEF Asking
<1> QED
  BY <1>2, <1>3, FS_Subset, FS_CardinalityType

LEMMA CountAppend ==
  ASSUME NEW q \in Seq(Message), NEW m \in Message, NEW c
  PROVE  Cardinality(Asking(Append(q, m), c)) = Cardinality(Asking(q, c)) + Carrying(m, c)
<1> DEFINE k == Len(q) + 1
           S == Asking(q, c)
<1>1. /\ Len(q) \in Nat /\ DOMAIN q = 1 .. Len(q)
      /\ DOMAIN Append(q, m) = 1 .. k
      /\ \A i \in 1 .. Len(q) : Append(q, m)[i] = q[i]
      /\ Append(q, m)[k] = m
  OBVIOUS
<1>2. k \notin S /\ IsFiniteSet(S) /\ Cardinality(S) \in Nat
  <2>1. k \notin S
    BY <1>1 DEF Asking
  <2>2. IsFiniteSet(S) /\ Cardinality(S) \in Nat
    BY CountFinite
  <2> QED
    BY <2>1, <2>2
<1>3. CASE Answerable(m, c)
  <2>1. Asking(Append(q, m), c) = S \cup {k}
    BY <1>1, <1>3 DEF Asking
  <2>2. Cardinality(S \cup {k}) = Cardinality(S) + 1
    BY <1>2, FS_AddElement
  <2> QED
    BY <1>3, <2>1, <2>2 DEF Carrying
<1>4. CASE ~Answerable(m, c)
  <2>1. Asking(Append(q, m), c) = S
    BY <1>1, <1>4 DEF Asking
  <2> QED
    BY <1>2, <1>4, <2>1 DEF Carrying
<1> QED
  BY <1>3, <1>4

LEMMA CountTail ==
  ASSUME NEW q \in Seq(Message), q # <<>>, NEW c
  PROVE  Cardinality(Asking(q, c)) = Cardinality(Asking(Tail(q), c)) + Carrying(Head(q), c)
<1> DEFINE T == Asking(Tail(q), c)
           S == Asking(q, c) \ {1}
           shift == [i \in T |-> i + 1]
<1>1. /\ Len(q) \in Nat \ {0} /\ DOMAIN q = 1 .. Len(q)
      /\ Tail(q) \in Seq(Message) /\ DOMAIN Tail(q) = 1 .. Len(q) - 1
      /\ \A i \in 1 .. Len(q) - 1 : Tail(q)[i] = q[i + 1]
      /\ Head(q) = q[1]
  OBVIOUS
<1>2. IsFiniteSet(T) /\ IsFiniteSet(Asking(q, c)) /\ Cardinality(Asking(q, c)) \in Nat
  BY <1>1, CountFinite
<1>3. \A i \in T : i \in 1 .. Len(q) - 1 /\ i + 1 \in S
  BY <1>1 DEF Asking
<1>4. \A i \in S : i - 1 \in T /\ i - 1 + 1 = i
  BY <1>1 DEF Asking
<1>5. shift \in [T -> S]
  BY <1>3
<1>6. \A i, j \in T : shift[i] = shift[j] => i = j
  BY <1>3
<1>7. \A i \in S : \E j \in T : shift[j] = i
  BY <1>4
<1>8. ExistsBijection(T, S)
  <2> HIDE DEF shift, T, S
  <2>1. shift \in Bijection(T, S)
    BY <1>5, <1>6, <1>7 DEF Bijection, Injection, IsInjective, Surjection
  <2> QED
    BY <2>1 DEF ExistsBijection
<1>9. Cardinality(S) = Cardinality(T)
  BY <1>2, <1>8, FS_Bijection
<1>10. Cardinality(S) = IF 1 \in Asking(q, c) THEN Cardinality(Asking(q, c)) - 1
                                              ELSE Cardinality(Asking(q, c))
  BY <1>2, FS_RemoveElement
<1>11. 1 \in Asking(q, c) <=> Answerable(Head(q), c)
  BY <1>1 DEF Asking
<1> HIDE DEF S, T
<1> QED
  BY <1>2, <1>9, <1>10, <1>11 DEF Carrying, T

LEMMA CarryingType ==
  ASSUME NEW m, NEW c
  PROVE  Carrying(m, c) \in {0, 1} /\ (Carrying(m, c) = 1 <=> Answerable(m, c))
BY DEF Carrying

-----------------------------------------------------------------------------
(* The invariant.                                                           *)

\* A message that init can get hold of names nobody as its sender, or a client
\* that exists or has existed.
Sane(m) == m.reply = NoPort \/ \E c \in Clients : m.reply = c /\ cstate[c] # "unborn"

\* Where messages come from, and whose reply ports there are.
Traced ==
  /\ \A c \in Clients : c \in live <=> cstate[c] \in {"idle", "sending"}
  /\ \A i \in DOMAIN queue[Boot] : Sane(queue[Boot][i])
  /\ Sane(msg)
  /\ \A c \in Clients : outbox[c].reply \in {c, NoPort}
  /\ pc = "reply" => msg.id = "PING" /\ msg.reply # NoPort

\* No client lets more PONGs come than its window.
Windowed == \A c \in Clients : cstate[c] # "dead" => Coming(c) <= Window

Ledger == Traced /\ PingsAccounted /\ Windowed

LEMMA InFlightParts ==
  ASSUME NEW c \in Clients
  PROVE  InFlight(c) = Queued(c) + InHand(c) + InOutbox(c)
BY DEF InFlight, Queued, InHand, InOutbox, Asking

LEMMA PartTypes ==
  ASSUME TypeOK, NEW c \in Clients
  PROVE  /\ Queued(c) \in Nat /\ InHand(c) \in {0, 1} /\ InOutbox(c) \in {0, 1}
         /\ asked[c] \in Nat /\ answered[c] \in Nat /\ Len(queue[c]) \in Nat
         /\ Window \in Nat /\ c \in Ports /\ c # Boot /\ c # NoPort
<1>1. c \in Ports /\ c # Boot /\ c # NoPort /\ Boot \in Ports
  BY InitAssumption DEF Clients
<1>2. queue[Boot] \in Seq(Message) /\ queue[c] \in Seq(Message)
  BY <1>1 DEF TypeOK
<1>3. Queued(c) \in Nat
  BY <1>2, CountFinite DEF Queued
<1>4. InHand(c) \in {0, 1} /\ InOutbox(c) \in {0, 1}
  BY CarryingType DEF InHand, InOutbox
<1>5. asked[c] \in Nat /\ answered[c] \in Nat /\ Len(queue[c]) \in Nat /\ Window \in Nat
  BY <1>2, SystemAssumption DEF TypeOK
<1> QED
  BY <1>1, <1>3, <1>4, <1>5

\* A message stays sane while no client is unborn.
LEMMA SaneStays ==
  ASSUME NEW m, Sane(m), \A c \in Clients : cstate[c] # "unborn" => cstate'[c] # "unborn"
  PROVE  Sane(m)'
BY DEF Sane

\* One client's account, when a step moves its PINGs between the places, or
\* answers one, or adds one.
LEMMA Balanced ==
  ASSUME TypeOK, NEW c \in Clients, PingsAccounted, cstate[c] # "dead",
         NEW d \in {0, 1}, NEW e \in {0, 1},
         asked'[c] = asked[c] + d, answered'[c] = answered[c] + e,
         Queued(c)' + InHand(c)' + InOutbox(c)' = Queued(c) + InHand(c) + InOutbox(c) + d - e
  PROVE  (asked[c] - answered[c] = InFlight(c))'
<1>1. asked[c] - answered[c] = Queued(c) + InHand(c) + InOutbox(c)
  BY InFlightParts DEF PingsAccounted
<1>2. InFlight(c)' = Queued(c)' + InHand(c)' + InOutbox(c)'
  BY DEF InFlight, Queued, InHand, InOutbox, Asking
<1>3. /\ Queued(c) \in Nat /\ InHand(c) \in {0, 1} /\ InOutbox(c) \in {0, 1}
      /\ asked[c] \in Nat /\ answered[c] \in Nat
  BY PartTypes
<1> QED
  BY <1>1, <1>2, <1>3

-----------------------------------------------------------------------------
(* Steps of init.                                                           *)

\* The history of a client grows as its reply queue does.
LEMMA AnswersCounted ==
  ASSUME TypeOK, InitStep, NEW c \in Clients, NEW k \in Nat,
         Len(queue'[c]) = Len(queue[c]) + k
  PROVE  answered'[c] = answered[c] + k
<1>1. answered'[c] = answered[c] + Len(queue'[c]) - Len(queue[c])
  BY DEF InitStep
<1>2. answered[c] \in Nat /\ Len(queue[c]) \in Nat
  BY PartTypes
<1>3. \A a, x \in Nat : a + (x + k) - x = a + k
  OBVIOUS
<1> QED
  BY <1>1, <1>2, <1>3

LEMMA InitLedger == Init => Ledger
<1> SUFFICES ASSUME Init PROVE Ledger
  OBVIOUS
<1> USE DEF Init, InitInit
<1>1. Traced
  <2>1. \A c \in Clients : outbox[c] = PongMsg /\ cstate[c] = "unborn" /\ c \notin live
    OBVIOUS
  <2>2. DOMAIN queue[Boot] = {}
    BY InitAssumption
  <2>3. Sane(msg) /\ PongMsg.reply = NoPort
    BY DEF Sane, PongMsg
  <2> QED
    BY <2>1, <2>2, <2>3 DEF Traced
<1>2. \A c \in Clients : c \in Ports /\ Boot \in Ports /\ cstate[c] = "unborn"
                         /\ asked[c] = 0 /\ answered[c] = 0 /\ queue[c] = <<>>
  BY InitAssumption DEF Clients
<1>3. ASSUME NEW c \in Clients
      PROVE  InFlight(c) = 0
  <2>1. Asking(queue[Boot], c) = {}
    BY <1>2 DEF Asking
  <2>2. Queued(c) = 0
    BY <2>1, FS_EmptySet DEF Queued
  <2>3. InHand(c) = 0 /\ InOutbox(c) = 0
    BY <1>2 DEF InHand, InOutbox
  <2> QED
    BY <2>2, <2>3, InFlightParts
<1>4. PingsAccounted
  BY <1>2, <1>3 DEF PingsAccounted
<1>5. Windowed
  BY <1>2, SystemAssumption DEF Windowed, Coming
<1> QED
  BY <1>1, <1>4, <1>5 DEF Ledger

\* A step of init that moves no PING.
LEMMA SameAccounts ==
  ASSUME TypeOK, PingsAccounted, Windowed,
         UNCHANGED <<queue, cstate, outbox, asked, answered>>,
         \A c \in Clients : InHand(c)' = InHand(c)
  PROVE  PingsAccounted' /\ Windowed'
<1>1. ASSUME NEW c \in Clients, cstate[c] # "dead"
      PROVE  (asked[c] - answered[c] = InFlight(c))'
  <2>1. InFlight(c)' = Queued(c)' + InHand(c)' + InOutbox(c)'
    BY DEF InFlight, Queued, InHand, InOutbox, Asking
  <2>2. Queued(c)' = Queued(c) /\ InOutbox(c)' = InOutbox(c) /\ InHand(c)' = InHand(c)
    BY DEF Queued, InOutbox
  <2>3. InFlight(c)' = InFlight(c)
    BY <2>1, <2>2, InFlightParts
  <2> QED
    BY <1>1, <2>3 DEF PingsAccounted
<1> QED
  BY <1>1 DEF PingsAccounted, Windowed, Coming

LEMMA BootLedger ==
  ASSUME IInv, Ledger, InitStep, Boots
  PROVE  Ledger'
<1>0. TypeOK /\ Traced /\ PingsAccounted /\ Windowed
  BY DEF IInv, Ledger
<1>1. UNCHANGED <<queue, msg, cstate, outbox, asked>>
  BY DEF InitStep, Boots, MemInit, PortAllocate, InsertRight, SetBootstrapPort, Publish,
         SelfTest, SelfCheck, loopVars
<1>2. answered' = answered
  BY <1>0, <1>1, QuietStep
<1>3. pc \notin {"dispatch", "reply"} /\ pc' \notin {"dispatch", "reply"}
  BY DEF Boots, MemInit, PortAllocate, InsertRight, SetBootstrapPort, Publish,
         SelfTest, SelfCheck, Goto
<1>4. \A c \in Clients : c \in live' <=> c \in live
  BY DEF Boots, MemInit, PortAllocate, InsertRight, SetBootstrapPort, Publish,
         SelfTest, SelfCheck, portVars, Clients
<1>5. Traced'
  BY <1>0, <1>1, <1>3, <1>4 DEF Traced, Sane
<1>6. \A c \in Clients : InHand(c)' = InHand(c)
  BY <1>3 DEF InHand
<1> QED
  BY <1>0, <1>1, <1>2, <1>5, <1>6, SameAccounts DEF Ledger

LEMMA RecvLedger ==
  ASSUME IInv, Ledger, InitStep, Recv
  PROVE  Ledger'
<1>0. /\ TypeOK /\ Traced /\ PingsAccounted /\ Windowed
      /\ bootPort = Boot /\ Boot \in Ports
  BY InitAssumption DEF IInv, Ledger, Progress, Recv, Serving
<1> DEFINE q == queue[Boot]
           m == Head(q)
<1>1. /\ q # <<>> /\ q \in Seq(Message) /\ queue' = [queue EXCEPT ![Boot] = Tail(q)]
      /\ pc = "recv" /\ UNCHANGED <<live, cstate, outbox, asked>>
      /\ \/ m.id = "OVERSIZED" /\ pc' = "recv" /\ msg' = msg
         \/ m.id # "OVERSIZED" /\ pc' = "dispatch" /\ msg' = m
  BY <1>0 DEF Recv, Mach!RecvSimple, InitStep, portVars, TypeOK
<1>2. queue'[Boot] = Tail(q) /\ \A c \in Clients : queue'[c] = queue[c] /\ Len(queue[c]) \in Nat
  BY <1>0, <1>1, PartTypes DEF TypeOK, Clients
<1>3. \A c \in Clients : answered'[c] = answered[c]
  <2>1. ASSUME NEW c \in Clients
        PROVE  answered'[c] = answered[c] + 0
    <3>1. Len(queue'[c]) = Len(queue[c]) + 0
      BY <1>2
    <3> QED
      BY <1>0, <3>1, AnswersCounted
  <2>2. \A c \in Clients : answered[c] \in Nat
    BY <1>0, PartTypes
  <2> QED
    BY <2>1, <2>2
<1>4. ASSUME NEW c \in Clients, cstate[c] # "dead"
      PROVE  (asked[c] - answered[c] = InFlight(c))'
  <2>1. Queued(c) = Queued(c)' + Carrying(m, c)
    BY <1>1, <1>2, CountTail DEF Queued
  <2>2. InHand(c) = 0 /\ InOutbox(c)' = InOutbox(c)
    BY <1>1 DEF InHand, InOutbox
  <2>3. InHand(c)' = Carrying(m, c)
    BY <1>1 DEF InHand, Carrying, Answerable
  <2>4. Queued(c)' \in Nat /\ Carrying(m, c) \in {0, 1} /\ InOutbox(c) \in {0, 1}
    <3>1. Tail(q) \in Seq(Message)
      BY <1>1
    <3> QED
      BY <1>0, <1>2, <3>1, PartTypes, CarryingType, CountFinite DEF Queued
  <2>5. asked'[c] = asked[c] + 0 /\ answered'[c] = answered[c] + 0
    BY <1>0, <1>1, <1>3, PartTypes
  <2>6. Queued(c)' + InHand(c)' + InOutbox(c)' = Queued(c) + InHand(c) + InOutbox(c) + 0 - 0
    BY <2>1, <2>2, <2>3, <2>4
  <2> QED
    BY <1>0, <1>4, <2>5, <2>6, Balanced
<1>5. Traced'
  <2>1. /\ Len(q) \in Nat \ {0} /\ DOMAIN q = 1 .. Len(q) /\ DOMAIN Tail(q) = 1 .. Len(q) - 1
        /\ m = q[1] /\ \A i \in 1 .. Len(q) - 1 : Tail(q)[i] = q[i + 1]
    BY <1>1
  <2>2. \A i \in DOMAIN q : Sane(q[i])
    BY <1>0 DEF Traced
  <2>4. Sane(m) /\ \A i \in DOMAIN Tail(q) : Sane(Tail(q)[i])
    BY <2>1, <2>2
  <2>5. (\A i \in DOMAIN queue[Boot] : Sane(queue[Boot][i]))'
    <3>1. queue'[Boot] = Tail(q) /\ cstate' = cstate
      BY <1>1, <1>2
    <3> QED
      BY <2>4, <3>1 DEF Sane
  <2>6. Sane(msg)'
    <3>1. Sane(msg) /\ msg' \in {msg, m}
      BY <1>0, <1>1 DEF Traced
    <3> QED
      BY <1>1, <2>4, <3>1 DEF Sane
  <2> QED
    BY <1>0, <1>1, <2>5, <2>6 DEF Traced, Sane
<1>6. PingsAccounted' /\ Windowed'
  BY <1>0, <1>1, <1>2, <1>3, <1>4 DEF PingsAccounted, Windowed, Coming
<1> QED
  BY <1>5, <1>6 DEF Ledger

LEMMA DispatchLedger ==
  ASSUME IInv, Ledger, InitStep, Dispatch
  PROVE  Ledger'
<1>0. TypeOK /\ Traced /\ PingsAccounted /\ Windowed
  BY DEF IInv, Ledger
<1>1. UNCHANGED <<queue, msg, live, cstate, outbox, asked>> /\ pc = "dispatch"
  BY DEF InitStep, Dispatch, loopVars, portVars
<1>2. answered' = answered
  BY <1>0, <1>1, QuietStep
<1>3. \A c \in Clients : InHand(c)' = InHand(c)
  <2>1. ASSUME NEW c \in Clients, Answerable(msg, c)
        PROVE  pc' = "reply"
    BY <1>0, <2>1, PartTypes DEF Answerable, Dispatch
  <2>2. pc' \in {"reply", "recv"}
    BY DEF Dispatch
  <2> QED
    BY <1>1, <2>1, <2>2 DEF InHand, Carrying
<1>4. Traced'
  BY <1>0, <1>1 DEF Traced, Sane, Dispatch
<1> QED
  BY <1>0, <1>1, <1>2, <1>3, <1>4, SameAccounts DEF Ledger

\* A PING init is about to answer comes from a client, which is alive or has
\* died meanwhile.
LEMMA ReplyTo ==
  ASSUME TypeOK, Traced, pc = "reply"
  PROVE  /\ msg.reply \in Clients /\ cstate[msg.reply] # "unborn" /\ msg.id = "PING"
         /\ \A c \in Clients : Answerable(msg, c) <=> c = msg.reply /\ msg.right = "send"
BY DEF Traced, Sane, Answerable

LEMMA ReplyLedger ==
  ASSUME IInv, Ledger, InitStep, Reply
  PROVE  Ledger'
<1>0. TypeOK /\ Traced /\ PingsAccounted /\ Windowed
  BY DEF IInv, Ledger
<1> DEFINE r == msg.reply
<1>1. /\ pc = "reply" /\ pc' = "recv" /\ UNCHANGED <<msg, live, cstate, outbox, asked>>
      /\ r \in Clients /\ cstate[r] # "unborn" /\ msg.id = "PING"
      /\ \A c \in Clients : Answerable(msg, c) <=> c = r /\ msg.right = "send"
  BY <1>0, ReplyTo DEF Reply, InitStep, portVars
<1>2. r \in live <=> cstate[r] \in {"idle", "sending"}
  BY <1>0, <1>1 DEF Traced
<1>3. \A c \in Clients : InHand(c)' = 0 /\ InHand(c) = Carrying(msg, c)
                         /\ InOutbox(c)' = InOutbox(c)
  BY <1>1 DEF InHand, InOutbox
<1>4. CASE queue' = queue /\ (r \notin live \/ msg.right # "send")
  <2>1. answered' = answered
    BY <1>0, <1>4, QuietStep
  <2>2. ASSUME NEW c \in Clients, cstate[c] # "dead"
        PROVE  (asked[c] - answered[c] = InFlight(c))'
    <3>1. cstate[r] \in {"unborn", "idle", "sending", "dead"}
      BY <1>0, <1>1 DEF TypeOK
    <3>2. ~Answerable(msg, c)
      BY <1>1, <1>2, <1>4, <2>2, <3>1
    <3>3. InHand(c) = 0 /\ Queued(c)' = Queued(c)
      BY <1>3, <1>4, <3>2 DEF Carrying, Queued
    <3>4. asked'[c] = asked[c] + 0 /\ answered'[c] = answered[c] + 0
      BY <1>0, <1>1, <2>1, PartTypes
    <3>5. Queued(c)' + InHand(c)' + InOutbox(c)' = Queued(c) + InHand(c) + InOutbox(c) + 0 - 0
      BY <1>0, <1>3, <3>3, PartTypes
    <3> QED
      BY <1>0, <2>2, <3>4, <3>5, Balanced
  <2>3. Traced'
    BY <1>0, <1>1, <1>4 DEF Traced, Sane
  <2> QED
    BY <1>0, <1>1, <1>4, <2>1, <2>2, <2>3 DEF Ledger, PingsAccounted, Windowed, Coming
<1>5. CASE /\ r \in live /\ msg.right = "send"
           /\ queue' = [queue EXCEPT ![r] = Append(@, PongMsg)]
  <2>1. /\ queue'[Boot] = queue[Boot] /\ Len(queue'[r]) = Len(queue[r]) + 1
        /\ \A c \in Clients \ {r} : queue'[c] = queue[c]
    <3>1. r \in Ports /\ r # Boot /\ queue[r] \in Seq(Message)
      BY <1>0, <1>1, PartTypes DEF TypeOK
    <3>2. Boot \in Ports /\ queue'[r] = Append(queue[r], PongMsg)
      BY <1>0, <1>5, <3>1, InitAssumption DEF TypeOK
    <3> QED
      BY <1>0, <1>5, <3>1, <3>2 DEF TypeOK, Clients
  <2>2. /\ answered'[r] = answered[r] + 1
        /\ \A c \in Clients \ {r} : answered'[c] = answered[c] + 0
    <3>1. answered'[r] = answered[r] + 1
      BY <1>0, <1>1, <2>1, AnswersCounted
    <3>2. ASSUME NEW c \in Clients \ {r}
          PROVE  answered'[c] = answered[c] + 0
      <4>1. Len(queue'[c]) = Len(queue[c]) + 0
        BY <1>0, <2>1, PartTypes
      <4> QED
        BY <1>0, <4>1, AnswersCounted
    <3> QED
      BY <3>1, <3>2
  <2>3. ASSUME NEW c \in Clients, cstate[c] # "dead"
        PROVE  (asked[c] - answered[c] = InFlight(c))'
    <3>1. /\ Queued(c)' = Queued(c) /\ Queued(c) \in Nat /\ InOutbox(c) \in {0, 1}
          /\ asked'[c] = asked[c] + 0
      BY <1>0, <1>1, <2>1, PartTypes DEF Queued
    <3>2. CASE c = r
      <4>1. InHand(c) = 1 /\ answered'[c] = answered[c] + 1
        BY <1>1, <1>3, <1>5, <2>2, <3>2 DEF Carrying
      <4>2. Queued(c)' + InHand(c)' + InOutbox(c)' = Queued(c) + InHand(c) + InOutbox(c) + 0 - 1
        BY <1>3, <3>1, <4>1
      <4> QED
        BY <1>0, <2>3, <3>1, <4>1, <4>2, Balanced
    <3>3. CASE c # r
      <4>1. InHand(c) = 0 /\ answered'[c] = answered[c] + 0
        BY <1>1, <1>3, <2>2, <3>3 DEF Carrying
      <4>2. Queued(c)' + InHand(c)' + InOutbox(c)' = Queued(c) + InHand(c) + InOutbox(c) + 0 - 0
        BY <1>3, <3>1, <4>1
      <4> QED
        BY <1>0, <2>3, <3>1, <4>1, <4>2, Balanced
    <3> QED
      BY <3>2, <3>3
  <2>4. ASSUME NEW c \in Clients, cstate[c] # "dead"
        PROVE  Coming(c)' <= Window
    <3>1. Coming(c) <= Window /\ asked'[c] = asked[c]
      BY <1>0, <1>1, <2>4 DEF Windowed
    <3>2. asked[c] \in Nat /\ answered[c] \in Nat /\ Len(queue[c]) \in Nat
      BY <1>0, PartTypes
    <3>3. \E k \in {0, 1} : answered'[c] = answered[c] + k /\ Len(queue'[c]) = Len(queue[c]) + k
      <4>1. CASE c = r
        BY <2>1, <2>2, <4>1
      <4>2. CASE c # r
        <5>1. c \in Clients \ {r}
          BY <4>2
        <5>2. queue'[c] = queue[c] /\ answered'[c] = answered[c] + 0
          BY <2>1, <2>2, <5>1, Zenon
        <5> QED
          BY <3>2, <5>2
      <4> QED
        BY <4>1, <4>2
    <3>4. Coming(c) = asked[c] - answered[c] + Len(queue[c])
      BY Zenon DEF Coming
    <3>5. Coming(c)' = asked'[c] - answered'[c] + Len(queue'[c])
      BY DEF Coming
    <3>6. PICK k \in {0, 1} : answered'[c] = answered[c] + k /\ Len(queue'[c]) = Len(queue[c]) + k
      BY <3>3
    <3>7. Coming(c)' = asked[c] - (answered[c] + k) + (Len(queue[c]) + k)
      BY <3>1, <3>5, <3>6, Zenon
    <3>8. Coming(c)' = Coming(c)
      BY <3>2, <3>4, <3>7
    <3> QED
      BY <3>1, <3>8, Zenon
  <2>5. Traced'
    BY <1>0, <1>1, <2>1 DEF Traced, Sane
  <2> QED
    BY <1>1, <2>3, <2>4, <2>5 DEF Ledger, PingsAccounted, Windowed
<1> QED
  BY <1>1, <1>4, <1>5 DEF Reply, Mach!SendSimple, Mach!Enqueue

-----------------------------------------------------------------------------
(* Steps of clients.                                                        *)

\* The accounts of the clients that do not take this step.
LEMMA OthersSame ==
  ASSUME TypeOK, PingsAccounted, Windowed, NEW c \in Clients, NEW d \in Clients \ {c},
         cstate'[d] = cstate[d], outbox'[d] = outbox[d], asked'[d] = asked[d],
         answered' = answered, queue'[d] = queue[d], pc' = pc, msg' = msg,
         Queued(d)' = Queued(d), cstate[d] # "dead"
  PROVE  (asked[d] - answered[d] = InFlight(d))' /\ Coming(d)' <= Window
<1>1. InHand(d)' = InHand(d) /\ InOutbox(d)' = InOutbox(d)
  BY DEF InHand, InOutbox
<1>2. asked'[d] = asked[d] + 0 /\ answered'[d] = answered[d] + 0
  BY PartTypes
<1>3. Queued(d)' + InHand(d)' + InOutbox(d)' = Queued(d) + InHand(d) + InOutbox(d) + 0 - 0
  BY <1>1, PartTypes
<1>4. (asked[d] - answered[d] = InFlight(d))'
  BY <1>2, <1>3, Balanced
<1>5. Coming(d)' <= Window
  BY DEF Windowed, Coming
<1> QED
  BY <1>4, <1>5

\* What holds of a step of c that leaves the bootstrap queue alone.
LEMMA QuietClient ==
  ASSUME IInv, Ledger, NEW c \in Clients, pc' = pc, msg' = msg, queue'[Boot] = queue[Boot],
         answered' = answered,
         \A d \in Clients \ {c} :
           cstate'[d] = cstate[d] /\ outbox'[d] = outbox[d] /\ asked'[d] = asked[d]
             /\ queue'[d] = queue[d],
         cstate'[c] # "dead" =>
           (asked[c] - answered[c] = InFlight(c))' /\ Coming(c)' <= Window
  PROVE  PingsAccounted' /\ Windowed'
<1>1. TypeOK /\ PingsAccounted /\ Windowed
  BY DEF IInv, Ledger
<1>2. ASSUME NEW d \in Clients, cstate'[d] # "dead"
      PROVE  (asked[d] - answered[d] = InFlight(d))' /\ Coming(d)' <= Window
  <2>1. CASE d = c
    BY <1>2, <2>1
  <2>2. CASE d # c
    <3>1. Queued(d)' = Queued(d)
      BY DEF Queued
    <3>2. d \in Clients \ {c} /\ cstate[d] # "dead"
      BY <1>2, <2>2
    <3> QED
      BY <1>1, <3>1, <3>2, OthersSame
  <2> QED
    BY <2>1, <2>2
<1> QED
  BY <1>2 DEF PingsAccounted, Windowed

LEMMA SpawnLedger ==
  ASSUME IInv, Ledger, NEW c \in Clients, ClientStep(c), Spawn(c)
  PROVE  Ledger'
<1>0. TypeOK /\ Traced /\ PingsAccounted /\ Windowed
  BY DEF IInv, Ledger
<1>1. /\ UNCHANGED <<pc, msg, queue, outbox, asked, answered>>
      /\ cstate[c] = "unborn" /\ cstate' = [cstate EXCEPT ![c] = "idle"]
      /\ live' = live \cup {c}
  BY DEF ClientStep, Spawn
<1>2. cstate'[c] = "idle" /\ \A d \in Clients \ {c} : cstate'[d] = cstate[d]
  BY <1>0, <1>1 DEF TypeOK
<1>3. (asked[c] - answered[c] = InFlight(c))'
  <2>1. Queued(c)' = Queued(c) /\ InHand(c)' = InHand(c) /\ InOutbox(c)' = 0 /\ InOutbox(c) = 0
    BY <1>1, <1>2 DEF Queued, InHand, InOutbox
  <2>2. asked'[c] = asked[c] + 0 /\ answered'[c] = answered[c] + 0
    BY <1>0, <1>1, PartTypes
  <2>3. Queued(c)' + InHand(c)' + InOutbox(c)' = Queued(c) + InHand(c) + InOutbox(c) + 0 - 0
    BY <1>0, <2>1, PartTypes
  <2> QED
    BY <1>0, <1>1, <2>2, <2>3, Balanced
<1>4. Coming(c)' <= Window
  BY <1>0, <1>1 DEF Windowed, Coming
<1>5. PingsAccounted' /\ Windowed'
  BY <1>1, <1>2, <1>3, <1>4, QuietClient
<1>6. Traced'
  BY <1>0, <1>1, <1>2 DEF Traced, Sane
<1> QED
  BY <1>5, <1>6 DEF Ledger

LEMMA ComposeLedger ==
  ASSUME IInv, Ledger, NEW c \in Clients, ClientStep(c), Compose(c)
  PROVE  Ledger'
<1>0. TypeOK /\ Traced /\ PingsAccounted /\ Windowed
  BY DEF IInv, Ledger
<1>1. PICK m \in Requests(c) :
        /\ Answerable(m, c) => Coming(c) < Window
        /\ outbox' = [outbox EXCEPT ![c] = m]
        /\ asked' = [asked EXCEPT ![c] = IF Answerable(m, c) THEN @ + 1 ELSE @]
  BY DEF Compose
<1>2. /\ UNCHANGED <<pc, msg, queue, live, answered>>
      /\ cstate[c] = "idle" /\ cstate' = [cstate EXCEPT ![c] = "sending"]
  BY DEF ClientStep, Compose
<1>3. /\ cstate'[c] = "sending" /\ outbox'[c] = m
      /\ asked'[c] = asked[c] + Carrying(m, c)
      /\ \A d \in Clients \ {c} :
           cstate'[d] = cstate[d] /\ outbox'[d] = outbox[d] /\ asked'[d] = asked[d]
  <2>1. asked[c] \in Nat
    BY <1>0, PartTypes
  <2>2. asked'[c] = asked[c] + Carrying(m, c)
    BY <1>0, <1>1, <2>1 DEF TypeOK, Carrying
  <2> QED
    BY <1>0, <1>1, <1>2, <2>2 DEF TypeOK
<1>4. (asked[c] - answered[c] = InFlight(c))'
  <2>1. /\ Queued(c)' = Queued(c) /\ InHand(c)' = InHand(c)
        /\ InOutbox(c)' = Carrying(m, c) /\ InOutbox(c) = 0
    BY <1>2, <1>3 DEF Queued, InHand, InOutbox
  <2>2. Carrying(m, c) \in {0, 1} /\ answered'[c] = answered[c] + 0
    BY <1>0, <1>2, PartTypes, CarryingType
  <2>3. Queued(c)' + InHand(c)' + InOutbox(c)'
          = Queued(c) + InHand(c) + InOutbox(c) + Carrying(m, c) - 0
    BY <1>0, <2>1, <2>2, PartTypes
  <2> QED
    BY <1>0, <1>2, <1>3, <2>2, <2>3, Balanced
<1>5. Coming(c)' <= Window
  <2>1. /\ Coming(c) <= Window /\ asked[c] \in Nat /\ answered[c] \in Nat
        /\ Len(queue[c]) \in Nat /\ Window \in Nat
    BY <1>0, <1>2, PartTypes DEF Windowed
  <2>2. Coming(c)' = asked'[c] - answered[c] + Len(queue[c])
    BY <1>2 DEF Coming
  <2>3. CASE Answerable(m, c)
    BY <1>1, <1>3, <2>1, <2>2, <2>3 DEF Coming, Carrying
  <2>4. CASE ~Answerable(m, c)
    BY <1>3, <2>1, <2>2, <2>4 DEF Coming, Carrying
  <2> QED
    BY <2>3, <2>4
<1>6. PingsAccounted' /\ Windowed'
  BY <1>2, <1>3, <1>4, <1>5, QuietClient
<1>7. Traced'
  <2>1. m.reply \in {c, NoPort}
    BY DEF Requests
  <2> QED
    BY <1>0, <1>2, <1>3, <2>1 DEF Traced, Sane
<1> QED
  BY <1>6, <1>7 DEF Ledger

LEMMA DeliverLedger ==
  ASSUME IInv, Ledger, NEW c \in Clients, ClientStep(c), Deliver(c)
  PROVE  Ledger'
<1>0. TypeOK /\ Traced /\ PingsAccounted /\ Windowed /\ Boot \in Ports
  BY InitAssumption DEF IInv, Ledger
<1> DEFINE q == queue[Boot]
           m == outbox[c]
<1>1. /\ UNCHANGED <<pc, msg, live, outbox, asked, answered>>
      /\ cstate[c] = "sending" /\ cstate' = [cstate EXCEPT ![c] = "idle"]
      /\ queue' = [queue EXCEPT ![Boot] = Append(q, m)]
      /\ q \in Seq(Message) /\ m \in Message
  BY <1>0 DEF ClientStep, Deliver, Mach!Enqueue, TypeOK
<1>2. /\ cstate'[c] = "idle" /\ \A d \in Clients \ {c} : cstate'[d] = cstate[d]
      /\ queue'[Boot] = Append(q, m) /\ \A d \in Clients : queue'[d] = queue[d]
  BY <1>0, <1>1 DEF TypeOK, Clients
<1>3. ASSUME NEW d \in Clients
      PROVE  Queued(d)' = Queued(d) + Carrying(m, d)
  BY <1>1, <1>2, CountAppend DEF Queued
<1>4. ASSUME NEW d \in Clients, cstate'[d] # "dead"
      PROVE  (asked[d] - answered[d] = InFlight(d))' /\ Coming(d)' <= Window
  <2>1. CASE d = c
    <3>1. InHand(d)' = InHand(d) /\ InOutbox(d)' = 0 /\ InOutbox(d) = Carrying(m, d)
      BY <1>1, <1>2, <2>1 DEF InHand, InOutbox
    <3>2. asked'[d] = asked[d] + 0 /\ answered'[d] = answered[d] + 0
      BY <1>0, <1>1, PartTypes
    <3>3. Queued(d)' + InHand(d)' + InOutbox(d)' = Queued(d) + InHand(d) + InOutbox(d) + 0 - 0
      BY <1>0, <1>3, <3>1, PartTypes
    <3>4. cstate[d] # "dead"
      BY <1>1, <2>1
    <3>5. (asked[d] - answered[d] = InFlight(d))'
      BY <1>0, <3>2, <3>3, <3>4, Balanced
    <3>6. Coming(d)' <= Window
      BY <1>0, <1>1, <1>2, <3>4 DEF Windowed, Coming
    <3> QED
      BY <3>5, <3>6
  <2>2. CASE d # c
    <3>1. m.reply \in {c, NoPort} /\ d # NoPort
      BY <1>0, PartTypes DEF Traced
    <3>2. Carrying(m, d) = 0
      BY <2>2, <3>1 DEF Carrying, Answerable
    <3>3. Queued(d)' = Queued(d)
      BY <1>0, <1>3, <3>2, PartTypes
    <3>4. d \in Clients \ {c} /\ cstate[d] # "dead" /\ cstate'[d] = cstate[d]
      BY <1>2, <1>4, <2>2
    <3> QED
      BY <1>0, <1>1, <1>2, <3>3, <3>4, OthersSame
  <2> QED
    BY <2>1, <2>2
<1>5. Traced'
  <2>1. /\ Len(q) \in Nat /\ DOMAIN q = 1 .. Len(q) /\ DOMAIN Append(q, m) = 1 .. Len(q) + 1
        /\ Append(q, m)[Len(q) + 1] = m /\ \A i \in 1 .. Len(q) : Append(q, m)[i] = q[i]
    BY <1>1
  <2>2. \A i \in DOMAIN q : Sane(q[i])
    BY <1>0 DEF Traced
  <2>3. Sane(m)
    BY <1>0, <1>1 DEF Traced, Sane
  <2>4. \A i \in DOMAIN Append(q, m) : Sane(Append(q, m)[i])
    BY <2>1, <2>2, <2>3
  <2>5. (\A i \in DOMAIN queue[Boot] : Sane(queue[Boot][i]))'
    BY <1>1, <1>2, <2>4 DEF Sane
  <2> QED
    BY <1>0, <1>1, <1>2, <2>5 DEF Traced, Sane
<1>6. PingsAccounted' /\ Windowed'
  BY <1>4 DEF PingsAccounted, Windowed
<1> QED
  BY <1>5, <1>6 DEF Ledger

LEMMA CollectLedger ==
  ASSUME IInv, Ledger, NEW c \in Clients, ClientStep(c), Collect(c)
  PROVE  Ledger'
<1>0. TypeOK /\ Traced /\ PingsAccounted /\ Windowed /\ Boot \in Ports /\ c \in Ports /\ c # Boot
  BY InitAssumption, PartTypes DEF IInv, Ledger
<1>1. /\ UNCHANGED <<pc, msg, live, cstate, outbox, asked, answered>>
      /\ cstate[c] = "idle" /\ queue[c] # <<>> /\ queue[c] \in Seq(Message)
      /\ queue' = [queue EXCEPT ![c] = Tail(@)]
  BY <1>0 DEF ClientStep, Collect, Mach!RecvSimple, clientVars, TypeOK
<1>2. /\ queue'[Boot] = queue[Boot] /\ queue'[c] = Tail(queue[c])
      /\ \A d \in Clients \ {c} : queue'[d] = queue[d]
  BY <1>0, <1>1 DEF TypeOK, Clients
<1>3. (asked[c] - answered[c] = InFlight(c))'
  <2>1. Queued(c)' = Queued(c) /\ InHand(c)' = InHand(c) /\ InOutbox(c)' = InOutbox(c)
    BY <1>1, <1>2 DEF Queued, InHand, InOutbox
  <2>2. asked'[c] = asked[c] + 0 /\ answered'[c] = answered[c] + 0
    BY <1>0, <1>1, PartTypes
  <2>3. Queued(c)' + InHand(c)' + InOutbox(c)' = Queued(c) + InHand(c) + InOutbox(c) + 0 - 0
    BY <1>0, <2>1, PartTypes
  <2> QED
    BY <1>0, <1>1, <2>2, <2>3, Balanced
<1>4. Coming(c)' <= Window
  <2>1. Len(Tail(queue[c])) = Len(queue[c]) - 1 /\ Coming(c) <= Window
    BY <1>0, <1>1 DEF Windowed
  <2>2. /\ asked[c] \in Nat /\ answered[c] \in Nat /\ Len(queue[c]) \in Nat /\ Window \in Nat
    BY <1>0, PartTypes
  <2>3. Coming(c)' = asked[c] - answered[c] + (Len(queue[c]) - 1)
    BY <1>1, <1>2, <2>1 DEF Coming
  <2> QED
    BY <2>1, <2>2, <2>3 DEF Coming
<1>5. PingsAccounted' /\ Windowed'
  BY <1>1, <1>2, <1>3, <1>4, QuietClient
<1>6. Traced'
  BY <1>0, <1>1, <1>2 DEF Traced, Sane
<1> QED
  BY <1>5, <1>6 DEF Ledger

LEMMA DieLedger ==
  ASSUME IInv, Ledger, NEW c \in Clients, ClientStep(c), Die(c)
  PROVE  Ledger'
<1>0. TypeOK /\ Traced /\ PingsAccounted /\ Windowed /\ Boot \in Ports /\ c \in Ports /\ c # Boot
  BY InitAssumption, PartTypes DEF IInv, Ledger
<1>1. /\ UNCHANGED <<pc, msg, outbox, asked, answered>>
      /\ cstate[c] \in {"idle", "sending"} /\ cstate' = [cstate EXCEPT ![c] = "dead"]
      /\ live' = live \ {c} /\ queue' = [queue EXCEPT ![c] = <<>>]
  BY DEF ClientStep, Die, Mach!Destroy
<1>2. /\ cstate'[c] = "dead" /\ queue'[Boot] = queue[Boot]
      /\ \A d \in Clients \ {c} : cstate'[d] = cstate[d] /\ queue'[d] = queue[d]
  BY <1>0, <1>1 DEF TypeOK, Clients
<1>3. PingsAccounted' /\ Windowed'
  BY <1>1, <1>2, QuietClient
<1>4. Traced'
  BY <1>0, <1>1, <1>2 DEF Traced, Sane
<1> QED
  BY <1>3, <1>4 DEF Ledger

-----------------------------------------------------------------------------
LEMMA StepLedger ==
  ASSUME IInv, Ledger, [Next]_vars
  PROVE  Ledger'
<1>1. CASE InitStep
  <2>1. Boots \/ Recv \/ Dispatch \/ Reply
    BY <1>1 DEF InitStep, InitNext, Serves
  <2> QED
    BY <1>1, <2>1, BootLedger, RecvLedger, DispatchLedger, ReplyLedger
<1>2. ASSUME NEW c \in Clients, ClientStep(c)
      PROVE  Ledger'
  <2>1. Spawn(c) \/ Compose(c) \/ Deliver(c) \/ Collect(c) \/ Die(c)
    BY <1>2 DEF ClientStep
  <2> QED
    BY <1>2, <2>1, SpawnLedger, ComposeLedger, DeliverLedger, CollectLedger, DieLedger
<1>3. CASE UNCHANGED vars
  <2>1. UNCHANGED <<pc, msg, queue, live, cstate, outbox, asked, answered>>
    BY <1>3 DEF vars, portVars, loopVars, clientVars
  <2>2. TypeOK /\ Traced /\ PingsAccounted /\ Windowed
    BY DEF IInv, Ledger
  <2>3. \A c \in Clients : InHand(c)' = InHand(c)
    BY <2>1 DEF InHand
  <2>4. Traced'
    BY <2>1, <2>2 DEF Traced, Sane
  <2> QED
    BY <2>1, <2>2, <2>3, <2>4, SameAccounts DEF Ledger
<1> QED
  BY <1>1, <1>2, <1>3 DEF Next

THEOREM LedgerHolds == Spec => [](IInv /\ Ledger)
<1>1. IInv /\ Ledger /\ [Next]_vars => Ledger'
  BY StepLedger
<1> QED
  BY <1>1, InitLedger, Invariance, PTL DEF Spec

\* main.c:114-139: a PING is neither lost on its way through the system nor
\* answered twice, whatever else is sent and whoever dies meanwhile.
THEOREM NoPingLost == Spec => []PingsAccounted
<1>1. Ledger => PingsAccounted
  BY DEF Ledger
<1> QED
  BY <1>1, LedgerHolds, PTL

\* main.c:136: as long as no client lets more PONGs come than its reply port
\* holds, init's reply never waits.
THEOREM RepliesNeverBlock ==
  ASSUME Window <= QLimit
  PROVE  Spec => []ReplyNeverBlocks
<1>1. ASSUME IInv, Ledger, pc = "reply", msg.reply \in live, msg.right = "send"
      PROVE  Mach!HasRoom(msg.reply)
  <2> DEFINE c == msg.reply
  <2>1. TypeOK /\ Traced /\ PingsAccounted /\ Windowed
    BY <1>1 DEF IInv, Ledger
  <2>2. c \in Clients /\ Answerable(msg, c)
    BY <1>1, <2>1, ReplyTo
  <2>3. cstate[c] # "dead"
    BY <1>1, <2>1, <2>2 DEF Traced
  <2>4. InHand(c) = 1
    BY <1>1, <2>2 DEF InHand, Carrying
  <2>5. /\ Queued(c) \in Nat /\ InOutbox(c) \in {0, 1} /\ asked[c] \in Nat /\ answered[c] \in Nat
        /\ Len(queue[c]) \in Nat /\ Window \in Nat /\ QLimit \in Nat
    BY <2>1, <2>2, PartTypes, InitAssumption
  <2>6. asked[c] - answered[c] = Queued(c) + InHand(c) + InOutbox(c)
    BY <2>1, <2>2, <2>3, InFlightParts DEF PingsAccounted
  <2>7. asked[c] - answered[c] + Len(queue[c]) <= Window
    BY <2>1, <2>2, <2>3 DEF Windowed, Coming
  <2> HIDE DEF c
  <2>8. Len(queue[c]) < QLimit
    BY <2>4, <2>5, <2>6, <2>7
  <2> QED
    BY <2>8 DEF Mach!HasRoom, c
<1>2. IInv /\ Ledger => ReplyNeverBlocks
  BY <1>1 DEF ReplyNeverBlocks
<1> QED
  BY <1>2, LedgerHolds, PTL

-----------------------------------------------------------------------------
(* Refinement: each step of the system is one of PingService, or none.      *)

Due(c) == IF cstate[c] = "dead" THEN 0 ELSE asked[c] - answered[c]
pendingOf == [c \in Clients |-> Due(c)]
pongsOf == [c \in Clients |-> Len(queue[c])]
goneOf == {c \in Clients : cstate[c] = "dead"}

\* A step that changes nothing a client can see.
LEMMA ServiceStutters ==
  ASSUME \A c \in Clients : Due(c)' = Due(c) /\ Len(queue'[c]) = Len(queue[c])
                            /\ (cstate'[c] = "dead" <=> cstate[c] = "dead")
  PROVE  UNCHANGED Service!vars
<1>1. pendingOf' = pendingOf /\ pongsOf' = pongsOf /\ goneOf' = goneOf
  BY DEF pendingOf, pongsOf, goneOf
<1> QED
  BY <1>1 DEF Service!vars, pendingOf, pongsOf, goneOf, Due

LEMMA ServiceAsks ==
  ASSUME NEW c \in Clients, cstate[c] # "dead", UNCHANGED <<queue, answered>>,
         asked'[c] = asked[c] + 1, asked[c] \in Nat, answered[c] \in Nat, cstate'[c] # "dead",
         \A d \in Clients \ {c} : cstate'[d] = cstate[d] /\ asked'[d] = asked[d]
  PROVE  Service!Ask(c)
<1>1. Due(c)' = Due(c) + 1 /\ \A d \in Clients \ {c} : Due(d)' = Due(d)
  BY DEF Due
<1> HIDE DEF Due
<1>2. pendingOf' = [pendingOf EXCEPT ![c] = @ + 1]
  BY <1>1 DEF pendingOf
<1>3. pongsOf' = pongsOf /\ goneOf' = goneOf /\ c \notin goneOf
  BY DEF pongsOf, goneOf
<1> QED
  BY <1>2, <1>3 DEF Service!Ask, pendingOf, pongsOf, goneOf, Due

LEMMA ServiceAnswers ==
  ASSUME TypeOK, NEW c \in Clients, cstate[c] # "dead", UNCHANGED <<cstate, asked>>,
         asked[c] - answered[c] > 0, answered'[c] = answered[c] + 1,
         Len(queue'[c]) = Len(queue[c]) + 1,
         \A d \in Clients \ {c} : answered'[d] = answered[d] /\ queue'[d] = queue[d]
  PROVE  Service!Answer(c)
<1>1. asked[c] \in Nat /\ answered[c] \in Nat
  BY PartTypes
<1>2. Due(c) > 0 /\ Due(c)' = Due(c) - 1 /\ \A d \in Clients \ {c} : Due(d)' = Due(d)
  BY <1>1 DEF Due
<1>3. pendingOf' = [pendingOf EXCEPT ![c] = @ - 1] /\ pendingOf[c] > 0
  BY <1>2 DEF pendingOf
<1>4. pongsOf' = [pongsOf EXCEPT ![c] = @ + 1] /\ goneOf' = goneOf
  BY DEF pongsOf, goneOf
<1> QED
  BY <1>3, <1>4 DEF Service!Answer, pendingOf, pongsOf, goneOf, Due

LEMMA ServiceCollects ==
  ASSUME TypeOK, NEW c \in Clients, UNCHANGED <<cstate, asked, answered>>,
         Len(queue[c]) > 0, Len(queue'[c]) = Len(queue[c]) - 1,
         \A d \in Clients \ {c} : queue'[d] = queue[d]
  PROVE  Service!Collect(c)
<1>1. pendingOf' = pendingOf /\ goneOf' = goneOf
  BY DEF pendingOf, goneOf, Due
<1>2. pongsOf' = [pongsOf EXCEPT ![c] = @ - 1] /\ pongsOf[c] > 0
  BY DEF pongsOf
<1> QED
  BY <1>1, <1>2 DEF Service!Collect, pendingOf, pongsOf, goneOf, Due

LEMMA ServiceLeaves ==
  ASSUME NEW c \in Clients, cstate'[c] = "dead", Len(queue'[c]) = 0, UNCHANGED <<asked, answered>>,
         \A d \in Clients \ {c} : cstate'[d] = cstate[d] /\ queue'[d] = queue[d]
  PROVE  Service!Leave(c)
<1>1. Due(c)' = 0 /\ \A d \in Clients \ {c} : Due(d)' = Due(d)
  BY DEF Due
<1>2. pendingOf' = [pendingOf EXCEPT ![c] = 0]
  BY <1>1 DEF pendingOf
<1>3. pongsOf' = [pongsOf EXCEPT ![c] = 0] /\ goneOf' = goneOf \cup {c}
  BY DEF pongsOf, goneOf
<1> QED
  BY <1>2, <1>3 DEF Service!Leave, pendingOf, pongsOf, goneOf, Due

LEMMA InitServes ==
  ASSUME IInv, Ledger, InitStep
  PROVE  [Service!Next]_(Service!vars)
<1>0. TypeOK /\ Traced /\ PingsAccounted /\ UNCHANGED <<cstate, asked>> /\ Boot \in Ports
  BY InitAssumption DEF InitStep, IInv, Ledger
<1>1. ASSUME \A c \in Clients : queue'[c] = queue[c]
      PROVE  UNCHANGED Service!vars
  <2>1. ASSUME NEW c \in Clients
        PROVE  answered'[c] = answered[c] + 0
    <3>1. Len(queue'[c]) = Len(queue[c]) + 0
      BY <1>0, <1>1, PartTypes
    <3> QED
      BY <1>0, <3>1, AnswersCounted
  <2>2. \A c \in Clients : answered[c] \in Nat
    BY <1>0, PartTypes
  <2>3. \A c \in Clients : Due(c)' = Due(c)
    BY <1>0, <2>1, <2>2 DEF Due
  <2> QED
    BY <1>0, <1>1, <2>3, ServiceStutters
<1>2. CASE Boots \/ Dispatch
  <2>1. queue' = queue
    BY <1>2 DEF Boots, MemInit, PortAllocate, InsertRight, SetBootstrapPort, Publish,
           SelfTest, SelfCheck, Dispatch, loopVars
  <2> QED
    BY <1>1, <2>1
<1>3. CASE Recv
  <2>1. bootPort = Boot /\ queue' = [queue EXCEPT ![bootPort] = Tail(@)]
    BY <1>3 DEF IInv, Progress, Serving, Recv, Mach!RecvSimple
  <2>2. \A c \in Clients : queue'[c] = queue[c]
    BY <1>0, <2>1 DEF TypeOK, Clients
  <2> QED
    BY <1>1, <2>2
<1>4. CASE Reply
  <2>0. /\ pc = "reply" /\ msg.reply \in Clients /\ cstate[msg.reply] # "unborn"
        /\ Answerable(msg, msg.reply) <=> msg.right = "send"
    BY <1>0, <1>4, ReplyTo DEF Reply
  <2>1. PICK r \in Clients :
          /\ r = msg.reply /\ pc = "reply" /\ cstate[r] # "unborn"
          /\ Answerable(msg, r) <=> msg.right = "send"
    BY <2>0
  <2>2. CASE queue' = queue
    BY <1>1, <2>2
  <2>3. CASE /\ r \in live /\ msg.right = "send"
             /\ queue' = [queue EXCEPT ![r] = Append(@, PongMsg)]
    <3>1. r \in Ports /\ queue[r] \in Seq(Message)
      BY <1>0, <2>1, PartTypes DEF TypeOK
    <3>2. /\ Len(queue'[r]) = Len(queue[r]) + 1
          /\ \A c \in Clients \ {r} : queue'[c] = queue[c]
      BY <1>0, <2>3, <3>1 DEF TypeOK, Clients
    <3>3. answered'[r] = answered[r] + 1
      BY <1>0, <2>1, <3>2, AnswersCounted
    <3>4. \A c \in Clients \ {r} : answered'[c] = answered[c]
      <4>1. ASSUME NEW c \in Clients \ {r}
            PROVE  answered'[c] = answered[c] + 0
        <5>1. Len(queue'[c]) = Len(queue[c]) + 0
          BY <1>0, <3>2, PartTypes
        <5> QED
          BY <1>0, <5>1, AnswersCounted
      <4>2. \A c \in Clients : answered[c] \in Nat
        BY <1>0, PartTypes
      <4> QED
        BY <4>1, <4>2
    <3>5. cstate[r] # "dead"
      BY <1>0, <2>1, <2>3 DEF Traced
    <3>6. asked[r] - answered[r] > 0
      <4>1. InHand(r) = 1
        BY <2>1, <2>3 DEF InHand, Carrying
      <4>2. asked[r] - answered[r] = Queued(r) + InHand(r) + InOutbox(r)
        BY <1>0, <2>1, <3>5, InFlightParts DEF PingsAccounted
      <4>3. /\ Queued(r) \in Nat /\ InOutbox(r) \in {0, 1}
        BY <1>0, <2>1, PartTypes
      <4> QED
        BY <4>1, <4>2, <4>3
    <3>7. Service!Answer(r)
      BY <1>0, <2>1, <3>2, <3>3, <3>4, <3>5, <3>6, ServiceAnswers
    <3> QED
      BY <2>1, <3>7 DEF Service!Next
  <2> QED
    BY <1>4, <2>1, <2>2, <2>3 DEF Reply, Mach!SendSimple, Mach!Enqueue
<1> QED
  BY <1>2, <1>3, <1>4 DEF InitStep, InitNext, Serves

LEMMA ClientServes ==
  ASSUME IInv, Ledger, NEW c \in Clients, ClientStep(c)
  PROVE  [Service!Next]_(Service!vars)
<1>0. TypeOK /\ c \in Ports /\ c # Boot /\ Boot \in Ports
      /\ asked[c] \in Nat /\ answered[c] \in Nat
  BY InitAssumption, PartTypes DEF IInv
<1>1. CASE Spawn(c)
  <2>1. UNCHANGED <<queue, asked, answered>>
    BY <1>1 DEF Spawn
  <2>2. \A d \in Clients : cstate'[d] = "dead" <=> cstate[d] = "dead"
    BY <1>0, <1>1 DEF Spawn, TypeOK
  <2> QED
    BY <2>1, <2>2, ServiceStutters DEF Due
<1>2. CASE Compose(c)
  <2>1. PICK m \in Requests(c) :
          asked' = [asked EXCEPT ![c] = IF Answerable(m, c) THEN @ + 1 ELSE @]
    BY <1>2 DEF Compose
  <2>2. UNCHANGED <<queue, answered>> /\ cstate[c] = "idle"
        /\ cstate' = [cstate EXCEPT ![c] = "sending"]
    BY <1>2 DEF Compose
  <2>3. cstate'[c] = "sending" /\ \A d \in Clients \ {c} : cstate'[d] = cstate[d]
    BY <1>0, <2>2 DEF TypeOK
  <2>4. CASE Answerable(m, c)
    <3>1. asked'[c] = asked[c] + 1 /\ \A d \in Clients \ {c} : asked'[d] = asked[d]
      BY <1>0, <2>1, <2>4 DEF TypeOK
    <3>2. Service!Ask(c)
      BY <1>0, <2>2, <2>3, <3>1, ServiceAsks
    <3> QED
      BY <3>2 DEF Service!Next
  <2>5. CASE ~Answerable(m, c)
    <3>1. asked' = asked
      BY <1>0, <2>1, <2>5 DEF TypeOK
    <3>2. \A d \in Clients : cstate'[d] = "dead" <=> cstate[d] = "dead"
      BY <2>2, <2>3
    <3> QED
      BY <2>2, <3>1, <3>2, ServiceStutters DEF Due
  <2> QED
    BY <2>4, <2>5
<1>3. CASE Deliver(c)
  <2>1. /\ queue' = [queue EXCEPT ![Boot] = Append(@, outbox[c])]
        /\ cstate[c] = "sending" /\ cstate' = [cstate EXCEPT ![c] = "idle"]
        /\ UNCHANGED <<asked, answered>>
    BY <1>3 DEF Deliver, Mach!Enqueue
  <2>2. \A d \in Clients : queue'[d] = queue[d] /\ (cstate'[d] = "dead" <=> cstate[d] = "dead")
    BY <1>0, <2>1 DEF TypeOK, Clients
  <2> QED
    BY <2>1, <2>2, ServiceStutters DEF Due
<1>4. CASE Collect(c)
  <2>1. /\ UNCHANGED <<cstate, asked, answered>> /\ queue[c] # <<>>
        /\ queue' = [queue EXCEPT ![c] = Tail(@)] /\ queue[c] \in Seq(Message)
    BY <1>0, <1>4 DEF Collect, Mach!RecvSimple, clientVars, TypeOK
  <2>2. /\ Len(queue[c]) > 0 /\ Len(queue'[c]) = Len(queue[c]) - 1
        /\ \A d \in Clients \ {c} : queue'[d] = queue[d]
    BY <1>0, <2>1 DEF TypeOK, Clients
  <2>3. Service!Collect(c)
    BY <1>0, <2>1, <2>2, ServiceCollects
  <2> QED
    BY <2>3 DEF Service!Next
<1>5. CASE Die(c)
  <2>1. /\ UNCHANGED <<asked, answered>> /\ cstate' = [cstate EXCEPT ![c] = "dead"]
        /\ queue' = [queue EXCEPT ![c] = <<>>]
    BY <1>5 DEF Die, Mach!Destroy
  <2>2. /\ cstate'[c] = "dead" /\ Len(queue'[c]) = 0
        /\ \A d \in Clients \ {c} : cstate'[d] = cstate[d] /\ queue'[d] = queue[d]
    BY <1>0, <2>1 DEF TypeOK, Clients
  <2>3. Service!Leave(c)
    BY <2>1, <2>2, ServiceLeaves
  <2> QED
    BY <2>3 DEF Service!Next
<1> QED
  BY <1>1, <1>2, <1>3, <1>4, <1>5 DEF ClientStep

\* A client that talks to julius-init sees a PingService: each PONG answers one
\* PING of its own, and a PONG it has not asked for never comes.
THEOREM ServesPings == Spec => PingsServed
<1>1. ASSUME Init PROVE Service!Init
  <2>1. \A c \in Clients : c \in Ports /\ Due(c) = 0 /\ Len(queue[c]) = 0 /\ cstate[c] # "dead"
    BY <1>1 DEF Init, InitInit, Due, Clients
  <2>2. pendingOf = [c \in Clients |-> 0] /\ pongsOf = [c \in Clients |-> 0] /\ goneOf = {}
    BY <2>1 DEF pendingOf, pongsOf, goneOf
  <2> QED
    BY <2>2 DEF Service!Init, pendingOf, pongsOf, goneOf, Due
<1>2. ASSUME IInv, Ledger, [Next]_vars
      PROVE  [Service!Next]_(Service!vars)
  <2>1. CASE UNCHANGED vars
    <3>1. UNCHANGED <<queue, cstate, asked, answered>>
      BY <2>1 DEF vars, loopVars, clientVars
    <3> QED
      BY <3>1, ServiceStutters DEF Due
  <2> QED
    BY <1>2, <2>1, InitServes, ClientServes DEF Next
<1>3. IInv /\ Ledger /\ [Next]_vars => [Service!Next]_(Service!vars)
  BY <1>2
<1> QED
  BY <1>1, <1>3, LedgerHolds, PTL DEF Spec, PingsServed, Service!Spec
=============================================================================
