------------------------- MODULE JuliusSystemProofs -------------------------
(* Proofs about JuliusSystem for any number of clients, any queue limit and *)
(* any heap that is large enough for the self-test.                         *)
EXTENDS JuliusSystem, TLAPS

Booting == {"mem_init", "port_allocate", "insert_right"}
Serving == {"recv", "dispatch", "reply"}

\* The heap julius_mem_init leaves has room for the self-test.
RoomForSelfTest ==
  /\ heap.base # 0 /\ heap.ptr \in Nat \ {0} /\ heap.end \in Nat
  /\ heap.end <= AddrTop
  /\ heap.ptr + Heap!RoundUp(SelfTestSize) <= heap.end

\* What julius_start has done by the time it is at pc.
Progress ==
  /\ pc \in {"port_allocate", "insert_right", "set_bootstrap", "publish", "self_test"}
       => RoomForSelfTest
  /\ pc = "self_check" => ret # 0
  /\ pc = "insert_right" => "receive" \in held /\ Boot \in live
  /\ pc \notin Booting => held = {"receive", "send"} /\ Boot \in live
  /\ pc \in {"self_test", "self_check"} \cup Serving => bootPort = Boot
  /\ registered => pc \notin Booting \cup {"set_bootstrap"}
  /\ \A c \in Clients : cstate[c] # "unborn" => registered
  /\ panicked => pc \in Booting

IInv == TypeOK /\ panicked \in BOOLEAN /\ Progress

-----------------------------------------------------------------------------
LEMMA SelfTestRounded ==
  /\ Heap!RoundUp(SelfTestSize) \in Nat
  /\ Heap!RoundUp(SelfTestSize) <= HeapInitialSize
<1> DEFINE s == SelfTestSize + HeapAlign - 1
<1>1. s \in Nat /\ s < WordMod /\ s < HeapInitialSize
  BY InitAssumption
<1>2. Heap!RoundUp(SelfTestSize) = s - (s % HeapAlign)
  BY <1>1, InitAssumption DEF Heap!RoundUp, Heap!Wrap
<1>3. s % HeapAlign \in 0 .. HeapAlign - 1 /\ s % HeapAlign <= s
  BY <1>1, InitAssumption
<1> QED
  BY <1>1, <1>2, <1>3, InitAssumption

\* julius_mem_init either panics or leaves room for the self-test.
LEMMA MemInitRoom ==
  ASSUME Heap!MemInit, panicked \in BOOLEAN
  PROVE  /\ panicked' \in BOOLEAN
         /\ panicked' \/ (RoomForSelfTest' /\ UNCHANGED panicked)
<1>1. CASE Heap!Panic
  BY <1>1 DEF Heap!Panic
<1>2. ASSUME NEW lo \in Heap!VmChoices(regions, HeapInitialSize),
             heap' = Heap!FreshHeap(lo), UNCHANGED <<blocks, panicked, ret>>
      PROVE  RoomForSelfTest' /\ UNCHANGED panicked
  <2>1. lo \in Nat \ {0} /\ lo + HeapInitialSize <= AddrTop
    BY InitAssumption DEF Heap!VmChoices, Heap!Pages
  <2>2. heap' = [base |-> lo, ptr |-> lo, end |-> lo + HeapInitialSize]
    BY <1>2 DEF Heap!FreshHeap
  <2>3. heap'.base = lo /\ heap'.ptr = lo /\ heap'.end = lo + HeapInitialSize
    BY <2>2
  <2> QED
    BY <1>2, <2>1, <2>3, SelfTestRounded, InitAssumption DEF RoomForSelfTest
<1> QED
  BY <1>1, <1>2 DEF Heap!MemInit

\* malloc(64) right after that cannot fail.
LEMMA SelfTestMalloc ==
  ASSUME RoomForSelfTest, Heap!Malloc(SelfTestSize)
  PROVE  ret' # 0 /\ UNCHANGED panicked
<1> DEFINE n == Heap!RoundUp(SelfTestSize)
<1>1. n \in Nat
  BY SelfTestRounded
<1>2. heap.ptr + n < WordMod /\ ~(heap.ptr + n > heap.end)
  BY <1>1, InitAssumption DEF RoomForSelfTest
<1>3. \A over \in Heap!Overruns(heap, n) : ~over
  BY <1>2, Zenon DEF Heap!Overruns
<1> HIDE DEF n
<1>4. /\ Heap!Carve(heap, regions, n, SelfTestSize, 0, "malloc")
      /\ UNCHANGED panicked
  BY DEF Heap!Malloc, Heap!Allocate, RoomForSelfTest, Heap!Null, n
<1>5. Heap!Bump(heap, regions, n, SelfTestSize, 0, "malloc")
  BY <1>3, <1>4 DEF Heap!Carve
<1> QED
  BY <1>4, <1>5 DEF Heap!Bump, RoomForSelfTest

-----------------------------------------------------------------------------
(* One step of julius-init. *)

LEMMA InitInvHolds == Init => IInv
<1> SUFFICES ASSUME Init PROVE IInv
  OBVIOUS
<1> USE DEF Init, InitInit
<1>1. PongMsg \in Message /\ msg \in Message
  BY DEF PongMsg, Message
<1>2. queue \in [Ports -> Seq(Message)] /\ \A p \in Ports : Len(queue[p]) <= QLimit
  BY InitAssumption
<1>3. panicked \in BOOLEAN /\ ~panicked
  BY DEF Heap!Init
<1>4. TypeOK
  BY <1>1, <1>2, InitAssumption DEF TypeOK
<1>5. Progress
  BY <1>3 DEF Progress, Booting, Serving
<1> QED
  BY <1>3, <1>4, <1>5 DEF IInv

\* The reply queues keep their length, so that the history does too.
LEMMA QuietStep ==
  ASSUME TypeOK, InitStep, UNCHANGED queue
  PROVE  answered' = answered
<1>1. \A c \in Clients : Len(queue[c]) \in Nat /\ answered[c] \in Nat
  BY DEF TypeOK, Clients
<1>2. answered' = [c \in Clients |-> answered[c] + Len(queue[c]) - Len(queue[c])]
  BY DEF InitStep
<1>3. answered' = [c \in Clients |-> answered[c]]
  BY <1>1, <1>2
<1> QED
  BY <1>3 DEF TypeOK

LEMMA BootPreserves ==
  ASSUME IInv, InitStep, Boots
  PROVE  IInv'
<1> USE DEF Goto, Halt, portVars, loopVars
<1>0. /\ ~panicked /\ UNCHANGED <<cstate, outbox, sends, asked>>
      /\ TypeOK /\ Progress
  BY DEF InitStep, InitNext, IInv
<1>1. UNCHANGED <<queue, msg>> /\ answered' = answered
  <2>1. UNCHANGED <<queue, msg>>
    BY DEF Boots, MemInit, PortAllocate, InsertRight, SetBootstrapPort, Publish,
           SelfTest, SelfCheck
  <2> QED
    BY <2>1, <1>0, QuietStep
<1>2. CASE MemInit
  <2>1. panicked' \in BOOLEAN /\ (panicked' \/ (RoomForSelfTest' /\ UNCHANGED panicked))
    BY <1>2, MemInitRoom DEF MemInit, IInv
  <2>2. UNCHANGED portVars /\ pc = "mem_init"
        /\ pc' = IF panicked' THEN pc ELSE "port_allocate"
    BY <1>2 DEF MemInit
  <2>3. TypeOK'
    BY <1>0, <1>1, <2>2 DEF TypeOK
  <2>4. Progress'
    BY <1>0, <2>1, <2>2 DEF Progress, Booting, Serving
  <2> QED
    BY <2>1, <2>3, <2>4 DEF IInv
<1>3. CASE PortAllocate
  <2>1. panicked' \in BOOLEAN
    BY <1>3 DEF PortAllocate, Heap!Panic, heapVars, IInv
  <2>2. UNCHANGED heap /\ pc = "port_allocate" /\ UNCHANGED <<registered, bootPort>>
        /\ pc' = IF panicked' THEN pc ELSE "insert_right"
    BY <1>3 DEF PortAllocate, Heap!Panic, heapVars
  <2>3. panicked' \/ (held' = held \cup {"receive"} /\ live' = live \cup {Boot})
    BY <1>3 DEF PortAllocate, Heap!Panic
  <2>4. held' \subseteq {"receive", "send"} /\ live' \subseteq Ports
    BY <1>0, <1>3, InitAssumption DEF PortAllocate, TypeOK
  <2>5. TypeOK'
    BY <1>0, <1>1, <2>2, <2>4 DEF TypeOK
  <2>6. Progress'
    BY <1>0, <2>2, <2>3, <2>1 DEF Progress, Booting, Serving, RoomForSelfTest
  <2> QED
    BY <2>1, <2>5, <2>6 DEF IInv
<1>4. CASE InsertRight
  <2>1. panicked' \in BOOLEAN
    BY <1>4 DEF InsertRight, Heap!Panic, heapVars, IInv
  <2>2. UNCHANGED heap /\ pc = "insert_right" /\ UNCHANGED <<registered, bootPort, live>>
        /\ pc' = IF panicked' THEN pc ELSE "set_bootstrap"
    BY <1>4 DEF InsertRight, Heap!Panic, heapVars
  <2>3. held' \in {held, held \cup {"send"}} /\ (panicked' \/ held' = held \cup {"send"})
    BY <1>4 DEF InsertRight, Heap!Panic
  <2>4. TypeOK'
    BY <1>0, <1>1, <2>2, <2>3 DEF TypeOK
  <2>5. "receive" \in held /\ held \subseteq {"receive", "send"} /\ Boot \in live
    BY <1>0, <2>2 DEF Progress, TypeOK
  <2>6. Progress'
    BY <1>0, <2>2, <2>3, <2>5 DEF Progress, Booting, Serving, RoomForSelfTest
  <2> QED
    BY <2>1, <2>4, <2>6 DEF IInv
<1>5. CASE SetBootstrapPort
  <2>1. UNCHANGED <<heap, panicked, held, bootPort, live>> /\ pc = "set_bootstrap"
        /\ pc' = "publish" /\ registered' \in BOOLEAN
    BY <1>0, <1>5 DEF SetBootstrapPort, heapVars
  <2>2. TypeOK'
    BY <1>0, <1>1, <2>1 DEF TypeOK
  <2>3. Progress'
    BY <1>0, <2>1 DEF Progress, Booting, Serving, RoomForSelfTest
  <2> QED
    BY <2>1, <2>2, <2>3 DEF IInv
<1>6. CASE Publish
  <2>1. UNCHANGED <<heap, panicked, held, registered, live>> /\ pc = "publish"
        /\ pc' = "self_test" /\ bootPort' = Boot
    BY <1>0, <1>6 DEF Publish, heapVars
  <2>2. TypeOK'
    BY <1>0, <1>1, <2>1 DEF TypeOK
  <2>3. Progress'
    BY <1>0, <2>1 DEF Progress, Booting, Serving, RoomForSelfTest
  <2> QED
    BY <2>1, <2>2, <2>3 DEF IInv
<1>7. CASE SelfTest
  <2>1. RoomForSelfTest
    BY <1>0, <1>7 DEF SelfTest, Progress
  <2>2. ret' # 0 /\ UNCHANGED panicked
    BY <1>7, <2>1, SelfTestMalloc DEF SelfTest
  <2>3. UNCHANGED portVars /\ pc = "self_test" /\ pc' = "self_check"
    BY <1>0, <1>7, <2>2 DEF SelfTest
  <2>4. TypeOK'
    BY <1>0, <1>1, <2>3 DEF TypeOK
  <2>5. Progress'
    BY <1>0, <2>2, <2>3 DEF Progress, Booting, Serving
  <2> QED
    BY <2>2, <2>4, <2>5 DEF IInv
<1>8. CASE SelfCheck
  <2>1. ret # 0
    BY <1>0, <1>8 DEF SelfCheck, Progress
  <2>2. UNCHANGED panicked
    BY <1>8, <2>1 DEF SelfCheck, Heap!Write, Heap!Null
  <2>3. UNCHANGED portVars /\ pc = "self_check" /\ pc' = "recv"
    BY <1>0, <1>8, <2>2 DEF SelfCheck
  <2>4. TypeOK'
    BY <1>0, <1>1, <2>3 DEF TypeOK
  <2>5. Progress'
    BY <1>0, <2>2, <2>3 DEF Progress, Booting, Serving
  <2> QED
    BY <2>2, <2>4, <2>5 DEF IInv
<1> QED
  BY <1>2, <1>3, <1>4, <1>5, <1>6, <1>7, <1>8 DEF Boots

\* Queues after a message is added or taken off.
LEMMA EnqueueTyped ==
  ASSUME NEW q \in [Ports -> Seq(Message)], NEW p \in Ports, NEW m \in Message,
         \A r \in Ports : Len(q[r]) <= QLimit, Len(q[p]) < QLimit,
         NEW q1, q1 = [q EXCEPT ![p] = Append(@, m)]
  PROVE  /\ q1 \in [Ports -> Seq(Message)]
         /\ \A r \in Ports : Len(q1[r]) <= QLimit /\ Len(q[r]) <= Len(q1[r])
<1>1. q[p] \in Seq(Message) /\ Append(q[p], m) \in Seq(Message)
      /\ Len(Append(q[p], m)) = Len(q[p]) + 1 /\ Len(q[p]) \in Nat
  OBVIOUS
<1>2. q1 \in [Ports -> Seq(Message)]
  BY <1>1
<1>3. ASSUME NEW r \in Ports
      PROVE  Len(q1[r]) <= QLimit /\ Len(q[r]) <= Len(q1[r])
  <2>1. q[r] \in Seq(Message) /\ Len(q[r]) \in Nat
    OBVIOUS
  <2> QED
    BY <1>1, <2>1, InitAssumption
<1> QED
  BY <1>2, <1>3

LEMMA DequeueTyped ==
  ASSUME NEW q \in [Ports -> Seq(Message)], NEW p \in Ports, q[p] # <<>>,
         \A r \in Ports : Len(q[r]) <= QLimit,
         NEW q1, q1 = [q EXCEPT ![p] = Tail(@)]
  PROVE  /\ q1 \in [Ports -> Seq(Message)] /\ Head(q[p]) \in Message
         /\ \A r \in Ports : Len(q1[r]) <= QLimit /\ (r # p => q1[r] = q[r])
<1>1. /\ q[p] \in Seq(Message) /\ Tail(q[p]) \in Seq(Message)
      /\ Head(q[p]) \in Message /\ Len(Tail(q[p])) = Len(q[p]) - 1
      /\ Len(q[p]) \in Nat
  OBVIOUS
<1>2. q1 \in [Ports -> Seq(Message)]
  BY <1>1
<1>3. ASSUME NEW r \in Ports PROVE Len(q1[r]) <= QLimit
  <2>1. q[r] \in Seq(Message) /\ Len(q[r]) \in Nat
    OBVIOUS
  <2> QED
    BY <1>1, <2>1, InitAssumption
<1> QED
  BY <1>1, <1>2, <1>3

LEMMA ServePreserves ==
  ASSUME IInv, InitStep, Serves
  PROVE  IInv'
<1>0. /\ ~panicked /\ UNCHANGED <<cstate, outbox, sends, asked>>
      /\ answered' = [c \in Clients |-> answered[c] + Len(queue'[c]) - Len(queue[c])]
      /\ TypeOK /\ Progress
  BY DEF InitStep, InitNext, IInv
<1>1. UNCHANGED <<panicked, portVars>> /\ pc \in Serving /\ pc' \in Serving
  BY DEF Serves, Recv, Dispatch, Reply, heapVars, Serving
<1>2. bootPort = Boot /\ Boot \in Ports /\ Boot \notin Clients /\ Clients \subseteq Ports
  BY <1>0, <1>1, InitAssumption DEF Progress, Clients
<1>3. Progress'
  BY <1>0, <1>1 DEF Progress, Booting, Serving, portVars
<1>4. /\ msg' \in Message /\ queue' \in [Ports -> Seq(Message)]
      /\ \A p \in Ports : Len(queue'[p]) <= QLimit
      /\ \A c \in Clients : Len(queue[c]) <= Len(queue'[c])
  <2>1. CASE Recv
    <3>1. /\ queue[Boot] # <<>>
          /\ queue' = [queue EXCEPT ![Boot] = Tail(@)]
          /\ msg' \in {msg, Head(queue[Boot])}
      BY <2>1, <1>2 DEF Recv, Mach!RecvSimple
    <3>2. /\ queue' \in [Ports -> Seq(Message)] /\ Head(queue[Boot]) \in Message
          /\ \A r \in Ports : Len(queue'[r]) <= QLimit /\ (r # Boot => queue'[r] = queue[r])
      BY <3>1, <1>0, <1>2, DequeueTyped DEF TypeOK
    <3>3. \A c \in Clients : Len(queue[c]) \in Nat /\ queue'[c] = queue[c]
      BY <3>2, <1>0, <1>2 DEF TypeOK
    <3>4. \A c \in Clients : Len(queue[c]) <= Len(queue'[c])
      BY <3>3
    <3>5. \A p \in Ports : Len(queue'[p]) <= QLimit
      BY <3>2
    <3>6. msg' \in Message
      BY <1>0, <3>1, <3>2 DEF TypeOK
    <3> QED
      BY <3>2, <3>4, <3>5, <3>6
  <2>2. CASE UNCHANGED <<msg, queue>>
    <3>1. queue' = queue /\ msg' = msg
      BY <2>2
    <3>2. \A c \in Clients : Len(queue[c]) \in Nat
      BY <1>0, <1>2 DEF TypeOK
    <3>3. \A c \in Clients : Len(queue[c]) <= Len(queue'[c])
      BY <3>1, <3>2
    <3> QED
      BY <3>1, <3>3, <1>0 DEF TypeOK
  <2>3. CASE /\ msg' = msg /\ Mach!HasRoom(msg.reply) /\ msg.reply \in live
             /\ Mach!Enqueue(msg.reply, PongMsg)
    <3>1. /\ msg.reply \in Ports /\ PongMsg \in Message
          /\ Len(queue[msg.reply]) < QLimit
          /\ queue' = [queue EXCEPT ![msg.reply] = Append(@, PongMsg)]
      BY <1>0, <2>3 DEF Mach!HasRoom, Mach!Enqueue, TypeOK, PongMsg, Message
    <3>2. /\ queue' \in [Ports -> Seq(Message)]
          /\ \A r \in Ports : Len(queue'[r]) <= QLimit /\ Len(queue[r]) <= Len(queue'[r])
      BY <3>1, <1>0, EnqueueTyped DEF TypeOK
    <3> QED
      BY <1>0, <1>2, <2>3, <3>2 DEF TypeOK
  <2> QED
    BY <2>1, <2>2, <2>3 DEF Serves, Dispatch, Reply, Mach!SendSimple, loopVars
<1>5. answered' \in [Clients -> Nat]
  <2>1. \A c \in Clients : /\ answered[c] \in Nat
                           /\ Len(queue[c]) \in Nat /\ Len(queue'[c]) \in Nat
    BY <1>0, <1>2, <1>4 DEF TypeOK
  <2>2. ASSUME NEW c \in Clients
        PROVE  answered[c] + Len(queue'[c]) - Len(queue[c]) \in Nat
    <3>1. Len(queue[c]) <= Len(queue'[c])
      BY <1>4
    <3>2. \A a, x, y \in Nat : x <= y => a + y - x \in Nat
      OBVIOUS
    <3> QED
      BY <2>1, <3>1, <3>2
  <2> QED
    BY <1>0, <2>2
<1>6. TypeOK'
  BY <1>0, <1>1, <1>4, <1>5 DEF TypeOK, Serving, portVars
<1> QED
  BY <1>1, <1>3, <1>6 DEF IInv

-----------------------------------------------------------------------------
(* One step of a client. *)

LEMMA RequestTyped ==
  ASSUME NEW c \in Clients, NEW m \in Requests(c)
  PROVE  m \in Message
  BY DEF Requests, Message, Clients

LEMMA ClientPreserves ==
  ASSUME IInv, NEW c \in Clients, ClientStep(c)
  PROVE  IInv'
<1>0. /\ UNCHANGED <<pc, held, registered, bootPort, msg, heap, ret, panicked>>
      /\ TypeOK /\ Progress /\ ~panicked
      /\ c \in Ports /\ c # Boot
  BY DEF ClientStep, IInv, heapVars, Clients
<1> DEFINE Typed == /\ queue' \in [Ports -> Seq(Message)]
                    /\ \A p \in Ports : Len(queue'[p]) <= QLimit
           Standing == /\ live' \subseteq Ports /\ (Boot \in live => Boot \in live')
                       /\ \A d \in Clients : cstate'[d] # "unborn" => registered
           History == /\ outbox' \in [Clients -> Message]
                      /\ cstate' \in [Clients -> {"unborn", "idle", "sending", "dead"}]
                      /\ sends' \in [Clients -> Nat]
                      /\ asked' \in [Clients -> Nat] /\ answered' \in [Clients -> Nat]
<1>1. ASSUME Spawn(c) PROVE Typed /\ Standing /\ History
  <2>1. Typed
    BY <1>0, <1>1 DEF Spawn, TypeOK
  <2>2. Standing
    BY <1>0, <1>1 DEF Spawn, TypeOK, Progress
  <2>3. History
    BY <1>0, <1>1 DEF Spawn, TypeOK
  <2> QED
    BY <2>1, <2>2, <2>3
<1>2. ASSUME Compose(c) PROVE Typed /\ Standing /\ History
  <2>1. Typed
    BY <1>0, <1>2 DEF Compose, TypeOK
  <2>2. Standing
    BY <1>0, <1>2 DEF Compose, TypeOK, Progress
  <2>3. PICK m \in Requests(c) :
          /\ outbox' = [outbox EXCEPT ![c] = m]
          /\ asked' = [asked EXCEPT ![c] = IF Answerable(m, c) THEN @ + 1 ELSE @]
    BY <1>2 DEF Compose
  <2>4. m \in Message
    BY RequestTyped
  <2>5. /\ cstate' = [cstate EXCEPT ![c] = "sending"]
        /\ sends' = [sends EXCEPT ![c] = @ + 1] /\ answered' = answered
    BY <1>2 DEF Compose
  <2>6. History
    BY <1>0, <2>3, <2>4, <2>5 DEF TypeOK
  <2> QED
    BY <2>1, <2>2, <2>6
<1>3. ASSUME Deliver(c) PROVE Typed /\ Standing /\ History
  <2>1. /\ outbox[c] \in Message /\ Boot \in Ports /\ Len(queue[Boot]) < QLimit
        /\ queue' = [queue EXCEPT ![Boot] = Append(@, outbox[c])]
    BY <1>0, <1>3, InitAssumption DEF Deliver, TypeOK, Mach!HasRoom, Mach!Enqueue
  <2>2. Typed
    BY <1>0, <2>1, EnqueueTyped DEF TypeOK
  <2>3. Standing
    BY <1>0, <1>3 DEF Deliver, TypeOK, Progress
  <2>4. History
    BY <1>0, <1>3 DEF Deliver, TypeOK
  <2> QED
    BY <2>2, <2>3, <2>4
<1>4. ASSUME Collect(c) PROVE Typed /\ Standing /\ History
  <2>1. queue[c] # <<>> /\ queue' = [queue EXCEPT ![c] = Tail(@)]
    BY <1>4 DEF Collect, Mach!RecvSimple
  <2>2. Typed
    BY <1>0, <2>1, DequeueTyped DEF TypeOK
  <2>3. Standing
    BY <1>0, <1>4 DEF Collect, TypeOK, Progress, clientVars
  <2>4. History
    BY <1>0, <1>4 DEF Collect, TypeOK, clientVars
  <2> QED
    BY <2>2, <2>3, <2>4
<1>5. ASSUME Die(c) PROVE Typed /\ Standing /\ History
  <2>1. /\ queue' = [queue EXCEPT ![c] = <<>>] /\ live' = live \ {c}
        /\ cstate[c] # "unborn" /\ cstate' = [cstate EXCEPT ![c] = "dead"]
        /\ UNCHANGED <<outbox, sends, asked, answered>>
    BY <1>5 DEF Die, Mach!Destroy
  <2>2. Typed
    <3>1. <<>> \in Seq(Message) /\ Len(<<>>) <= QLimit
      BY InitAssumption
    <3> QED
      BY <1>0, <2>1, <3>1 DEF TypeOK
  <2>3. Standing
    BY <1>0, <2>1 DEF TypeOK, Progress
  <2>4. History
    BY <1>0, <2>1 DEF TypeOK
  <2> QED
    BY <2>2, <2>3, <2>4
<1>6. Typed /\ Standing /\ History
  BY <1>1, <1>2, <1>3, <1>4, <1>5 DEF ClientStep
<1>7. TypeOK'
  BY <1>0, <1>6 DEF TypeOK
<1>8. Progress'
  <2>1. RoomForSelfTest => RoomForSelfTest'
    BY <1>0 DEF RoomForSelfTest
  <2> QED
    BY <1>0, <1>6, <2>1 DEF Progress
<1> QED
  BY <1>0, <1>7, <1>8 DEF IInv

LEMMA StepPreserves ==
  ASSUME IInv, [Next]_vars
  PROVE  IInv'
<1>1. CASE InitStep
  BY <1>1, BootPreserves, ServePreserves DEF InitStep, InitNext
<1>2. CASE \E c \in Clients : ClientStep(c)
  BY <1>2, ClientPreserves
<1>3. CASE UNCHANGED vars
  <2>1. UNCHANGED <<pc, held, registered, bootPort, live, msg, queue, heap, ret,
                    panicked, cstate, outbox, sends, asked, answered>>
    BY <1>3 DEF vars, heapVars, portVars, loopVars, clientVars
  <2> QED
    BY <2>1 DEF IInv, TypeOK, Progress, RoomForSelfTest
<1> QED
  BY <1>1, <1>2, <1>3 DEF Next

\* julius-init has done, at each point of its boot, what the next point needs.
THEOREM Invariance == Spec => []IInv
<1>1. IInv /\ [Next]_vars => IInv'
  BY StepPreserves
<1> QED
  BY <1>1, InitInvHolds, PTL DEF Spec

\* Whatever the kernel refuses and whatever clients do, every variable keeps
\* its type; in particular no port's queue passes its limit.
THEOREM TypeCorrect == Spec => []TypeOK
<1>1. IInv => TypeOK
  BY DEF IInv
<1> QED
  BY <1>1, Invariance, PTL

\* julius_panic is out of reach once a child can have the bootstrap port: the
\* self-test that follows the registration always finds room in the heap.
THEOREM NoLatePanic == Spec => []PanicsOnlyEarly
<1>1. IInv => PanicsOnlyEarly
  BY DEF IInv, Progress, PanicsOnlyEarly, Booting, TypeOK
<1> QED
  BY <1>1, Invariance, PTL

\* A port is handed to children only after both rights on it were obtained,
\* and it is the port service_loop receives from.
THEOREM PortBacked == Spec => []BootstrapBacked
<1>1. IInv => BootstrapBacked
  BY DEF IInv, Progress, BootstrapBacked, Booting, Serving, TypeOK
<1> QED
  BY <1>1, Invariance, PTL
=============================================================================
