----------------------------- MODULE JuliusInit -----------------------------
(***************************************************************************)
(* julius-init, the first user process (init/src/main.c): julius_start      *)
(* brings up the heap, creates the bootstrap port, tests malloc, and enters *)
(* a loop that receives messages on the port and answers PINGs.             *)
(*                                                                          *)
(* pc names the call about to be made.  A kernel call the code checks may   *)
(* fail.  julius_panic stops the process, and with it (PID 1) the machine.  *)
(***************************************************************************)
EXTENDS Integers, Sequences, FiniteSets

CONSTANTS
  Ports, Boot, NoPort,  \* all ports, the bootstrap port, MACH_PORT_NULL
  QLimit,               \* queue limit of a port
  WordMod, HeapAlign, HeapInitialSize, PageSize, AddrTop,  \* see JuliusHeap
  SelfTestSize          \* bytes the self-test allocates: 64

VARIABLES
  pc,          \* where julius_start is
  held,        \* rights init holds on the bootstrap port
  registered,  \* the kernel hands Boot to init's children
  bootPort,    \* g_bootstrap_port
  msg,         \* the receive buffer of service_loop
  queue, live,                                  \* see MachIPC
  heap, regions, blocks, dirty, panicked, ret   \* see JuliusHeap

heapVars == <<heap, regions, blocks, dirty, panicked, ret>>
portVars == <<held, registered, bootPort, live>>
loopVars == <<msg, queue>>

Mach == INSTANCE MachIPC

Heap == INSTANCE JuliusHeap WITH
  Requests <- {SelfTestSize}, Counts <- {}, MaxCalls <- 1, inits <- 0, calls <- 0

ASSUME InitAssumption ==
  /\ Boot \in Ports /\ NoPort \notin Ports
  /\ QLimit \in Nat \ {0}
  /\ WordMod \in Nat /\ AddrTop \in Nat /\ AddrTop < WordMod
  /\ HeapAlign \in Nat \ {0}
  /\ HeapInitialSize \in Nat \ {0}
  /\ PageSize \in Nat \ {0} /\ PageSize % HeapAlign = 0
  /\ SelfTestSize \in Nat \ {0}
  /\ SelfTestSize + HeapAlign <= HeapInitialSize
  /\ AddrTop + HeapInitialSize < WordMod

-----------------------------------------------------------------------------
(* Messages.  "LOOKUP" stands for every id service_loop has no case for,    *)
(* "OVERSIZED" for every message longer than julius_simple_msg_t.           *)

Message == [id    : {"PING", "PONG", "LOOKUP", "OVERSIZED"},
            reply : Ports \cup {NoPort},  \* msgh_remote_port, once received
            right : {"send", "once"}]     \* the right the reply port came with

PongMsg == [id |-> "PONG", reply |-> NoPort, right |-> "send"]

\* Continue at l, unless this step ended in julius_panic.
Goto(l) == pc' = IF panicked' THEN pc ELSE l

Halt == Heap!Panic

-----------------------------------------------------------------------------
(* julius_start *)

\* Faulty variant: the heap is left for the first malloc to set up.
LazyMemInit ==
  /\ pc = "mem_init"
  /\ UNCHANGED <<heapVars, portVars, loopVars>>
  /\ Goto("port_allocate")

MemInit ==
  /\ pc = "mem_init" /\ Heap!MemInit
  /\ UNCHANGED <<portVars, loopVars>>
  /\ Goto("port_allocate")

PortAllocate ==
  /\ pc = "port_allocate"
  /\ \/ held' = held \cup {"receive"} /\ live' = live \cup {Boot} /\ UNCHANGED heapVars
     \/ Halt /\ UNCHANGED <<held, live>>
  /\ UNCHANGED <<registered, bootPort, loopVars>>
  /\ Goto("insert_right")

\* Faulty variant: a failed insertion is a warning, as in the step after it.
InsertRightUnchecked ==
  /\ pc = "insert_right"
  /\ held' \in {held, held \cup {"send"}}
  /\ UNCHANGED <<live, registered, bootPort, heapVars, loopVars>>
  /\ Goto("set_bootstrap")

InsertRight ==
  /\ pc = "insert_right"
  /\ \/ held' = held \cup {"send"} /\ UNCHANGED heapVars
     \/ Halt /\ UNCHANGED held
  /\ UNCHANGED <<live, registered, bootPort, loopVars>>
  /\ Goto("set_bootstrap")

\* "Non-fatal - we still run, just without the formal bootstrap port".
SetBootstrapPort ==
  /\ pc = "set_bootstrap"
  /\ registered' \in BOOLEAN
  /\ UNCHANGED <<held, bootPort, live, heapVars, loopVars>>
  /\ Goto("publish")

Publish ==
  /\ pc = "publish"
  /\ bootPort' = Boot
  /\ UNCHANGED <<held, registered, live, heapVars, loopVars>>
  /\ Goto("self_test")

SelfTest ==
  /\ pc = "self_test" /\ Heap!Malloc(SelfTestSize)
  /\ UNCHANGED <<portVars, loopVars>>
  /\ Goto("self_check")

\* The NULL test, then memset and the final store, over the whole block.
SelfCheck ==
  /\ pc = "self_check"
  /\ \/ ret = Heap!Null /\ Halt
     \/ \E b \in blocks : ret # Heap!Null /\ b.addr = ret /\ Heap!Write(b)
  /\ UNCHANGED <<portVars, loopVars>>
  /\ Goto("recv")

-----------------------------------------------------------------------------
(* service_loop.  A receive that fails without taking a message leaves the  *)
(* loop where it was, which is a stuttering step.                           *)

\* Faulty variants: no continue after a failed receive, so that the previous
\* message is dispatched again; the loop is left instead of continued.
RecvFallsThrough ==
  /\ pc = "recv" /\ Mach!RecvSimple(bootPort)
  /\ LET m == Head(queue[bootPort])
     IN msg' = IF m.id = "OVERSIZED" THEN msg ELSE m
  /\ UNCHANGED <<heapVars, portVars>>
  /\ pc' = "dispatch"

RecvLeavesLoop ==
  /\ pc = "recv" /\ Mach!RecvSimple(bootPort)
  /\ LET m == Head(queue[bootPort])
     IN \/ m.id = "OVERSIZED" /\ pc' = "returned" /\ UNCHANGED msg
        \/ m.id # "OVERSIZED" /\ pc' = "dispatch" /\ msg' = m
  /\ UNCHANGED <<heapVars, portVars>>

\* julius_recv_simple and the test of its result.  A message too long for the
\* buffer is consumed and reported as an error.
Recv ==
  /\ pc = "recv" /\ Mach!RecvSimple(bootPort)
  /\ LET m == Head(queue[bootPort])
     IN \/ m.id = "OVERSIZED" /\ pc' = "recv" /\ UNCHANGED msg
        \/ m.id # "OVERSIZED" /\ pc' = "dispatch" /\ msg' = m
  /\ UNCHANGED <<heapVars, portVars>>

\* Faulty variant: the reply port is tested the wrong way round.
DispatchInverted ==
  /\ pc = "dispatch"
  /\ pc' = IF msg.id = "PING" /\ msg.reply = NoPort THEN "reply" ELSE "recv"
  /\ UNCHANGED <<heapVars, portVars, loopVars>>

Dispatch ==
  /\ pc = "dispatch"
  /\ \/ msg.id = "PING" /\ msg.reply # NoPort /\ pc' = "reply"
     \/ ~(msg.id = "PING" /\ msg.reply # NoPort) /\ pc' = "recv"
  /\ UNCHANGED <<heapVars, portVars, loopVars>>

\* julius_send_simple, whose result is not looked at.
Reply ==
  /\ pc = "reply"
  /\ Mach!SendSimple(msg.reply, msg.right, PongMsg)
  /\ UNCHANGED <<heapVars, portVars, msg>>
  /\ pc' = "recv"

-----------------------------------------------------------------------------
InitInit ==
  /\ pc = "mem_init" /\ held = {} /\ registered = FALSE /\ bootPort = NoPort
  /\ msg = [id |-> "LOOKUP", reply |-> NoPort, right |-> "send"]
  /\ queue = [p \in Ports |-> <<>>] /\ live = {}
  /\ Heap!Init

Boots == \/ MemInit \/ PortAllocate \/ InsertRight \/ SetBootstrapPort \/ Publish
         \/ SelfTest \/ SelfCheck

Serves == Recv \/ Dispatch \/ Reply

InitNext == ~panicked /\ (Boots \/ Serves)
=============================================================================
