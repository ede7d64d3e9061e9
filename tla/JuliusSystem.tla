---------------------------- MODULE JuliusSystem ----------------------------
(***************************************************************************)
(* julius-init together with the tasks that inherit its bootstrap port.     *)
(* The repository has no such task yet; what main.c expects of one (lines   *)
(* 81 and 98) is that it sends messages to the bootstrap port and may ask   *)
(* for a reply.  A client here is one thread with one reply port, which has *)
(* the client's name: while it waits to send, it collects no replies.       *)
(***************************************************************************)
EXTENDS JuliusInit

CONSTANTS Window,   \* PONGs a client may have coming before it sends on
          MaxSends  \* bound: messages one client sends

VARIABLES
  cstate,    \* client -> what its thread is doing
  outbox,    \* client -> the message it is sending
  sends,     \* client -> how many it has sent, for the bound MaxSends
  asked,     \* client -> history: PINGs it has asked to have answered
  answered   \* client -> history: PONGs put on its reply port

clientVars == <<cstate, outbox, sends, asked, answered>>
vars == <<pc, heapVars, portVars, loopVars, clientVars>>

Clients == Ports \ {Boot}

ASSUME SystemAssumption == Window \in Nat /\ MaxSends \in Nat

Answerable(m, c) == m.id = "PING" /\ m.reply = c /\ m.right = "send"

\* What a client sends: a PING with a send right, with a send-once right or
\* with no reply port; an id init has no case for; a message with a body.
Requests(c) ==
  {[id |-> "PING", reply |-> c, right |-> r] : r \in {"send", "once"}} \cup
  {[id |-> i, reply |-> c, right |-> "send"] : i \in {"LOOKUP", "OVERSIZED"}} \cup
  {[id |-> "PING", reply |-> NoPort, right |-> "send"]}

\* PONGs client c has asked for and not yet collected.
Coming(c) == asked[c] - answered[c] + Len(queue[c])

-----------------------------------------------------------------------------
(* Clients *)

\* fork gives the child a send right to the registered bootstrap port.
Spawn(c) ==
  /\ cstate[c] = "unborn" /\ registered
  /\ cstate' = [cstate EXCEPT ![c] = "idle"]
  /\ live' = live \cup {c}
  /\ UNCHANGED <<outbox, sends, asked, answered, queue>>

Compose(c) ==
  /\ cstate[c] = "idle" /\ sends[c] < MaxSends
  /\ \E m \in Requests(c) :
       /\ Answerable(m, c) => Coming(c) < Window
       /\ outbox' = [outbox EXCEPT ![c] = m]
       /\ asked' = [asked EXCEPT ![c] = IF Answerable(m, c) THEN @ + 1 ELSE @]
  /\ cstate' = [cstate EXCEPT ![c] = "sending"]
  /\ sends' = [sends EXCEPT ![c] = @ + 1]
  /\ UNCHANGED <<answered, queue, live>>

\* The client's mach_msg completes once the bootstrap port has room.
Deliver(c) ==
  /\ cstate[c] = "sending"
  /\ Mach!HasRoom(Boot) /\ Mach!Enqueue(Boot, outbox[c])
  /\ cstate' = [cstate EXCEPT ![c] = "idle"]
  /\ UNCHANGED <<outbox, sends, asked, answered, live>>

Collect(c) ==
  /\ cstate[c] = "idle" /\ Mach!RecvSimple(c)
  /\ UNCHANGED <<clientVars, live>>

Die(c) ==
  /\ cstate[c] \in {"idle", "sending"}
  /\ cstate' = [cstate EXCEPT ![c] = "dead"]
  /\ Mach!Destroy(c)
  /\ UNCHANGED <<outbox, sends, asked, answered>>

ClientStep(c) ==
  /\ ~panicked
  /\ Spawn(c) \/ Compose(c) \/ Deliver(c) \/ Collect(c) \/ Die(c)
  /\ UNCHANGED <<pc, held, registered, bootPort, msg, heapVars>>

-----------------------------------------------------------------------------
Init ==
  /\ InitInit
  /\ cstate = [c \in Clients |-> "unborn"]
  /\ outbox = [c \in Clients |-> PongMsg]
  /\ sends = [c \in Clients |-> 0]
  /\ asked = [c \in Clients |-> 0] /\ answered = [c \in Clients |-> 0]

\* A reply port's queue grows only when init answers.
InitStep ==
  /\ InitNext
  /\ answered' = [c \in Clients |-> answered[c] + Len(queue'[c]) - Len(queue[c])]
  /\ UNCHANGED <<cstate, outbox, sends, asked>>

Next == InitStep \/ \E c \in Clients : ClientStep(c)

Spec == Init /\ [][Next]_vars

\* init and the kernel keep running, a waiting send completes when there is
\* room, and a client that is not sending collects its replies.
Fairness ==
  /\ WF_vars(InitStep)
  /\ \A c \in Clients :
       /\ WF_vars(ClientStep(c) /\ Deliver(c))
       /\ WF_vars(ClientStep(c) /\ Collect(c))

FairSpec == Spec /\ Fairness

-----------------------------------------------------------------------------
TypeOK ==
  /\ pc \in {"mem_init", "port_allocate", "insert_right", "set_bootstrap",
             "publish", "self_test", "self_check", "recv", "dispatch", "reply"}
  /\ held \subseteq {"receive", "send"} /\ registered \in BOOLEAN
  /\ bootPort \in {Boot, NoPort} /\ live \subseteq Ports
  /\ msg \in Message /\ outbox \in [Clients -> Message]
  /\ queue \in [Ports -> Seq(Message)]
  /\ \A p \in Ports : Len(queue[p]) <= QLimit
  /\ cstate \in [Clients -> {"unborn", "idle", "sending", "dead"}]
  /\ sends \in [Clients -> Nat] /\ asked \in [Clients -> Nat]
  /\ answered \in [Clients -> Nat]

\* julius_panic takes the machine down with it.  It can only do so before a
\* child could have been given the bootstrap port: the self-test, which runs
\* after the port is registered, never finds malloc out of memory (main.c
\* lines 15, 83 and 181).
PanicsOnlyEarly ==
  panicked => /\ pc \in {"mem_init", "port_allocate", "insert_right"}
              /\ \A c \in Clients : cstate[c] = "unborn"

\* Whoever can reach the bootstrap port reaches one init receives from and
\* holds both rights on, and service_loop receives from that same port.
BootstrapBacked ==
  /\ (registered \/ \E c \in Clients : cstate[c] # "unborn") =>
       held = {"receive", "send"} /\ Boot \in live
  /\ pc \in {"recv", "dispatch", "reply"} =>
       bootPort = Boot /\ held = {"receive", "send"}

\* The event loop never waits for a client: when init sends a PONG there is
\* room for it, or the send fails at once.  It holds as long as each client
\* has at most Window <= QLimit PONGs coming.
ReplyNeverBlocks ==
  pc = "reply" /\ msg.reply \in live /\ msg.right = "send"
    => Mach!HasRoom(msg.reply)

\* A PING that asks for an answer, and is not answered yet, is in exactly one
\* place: with its sender, in the bootstrap queue or in init's hands.  None is
\* lost on the way, and none is taken up twice (main.c lines 114 to 139).
Carrying(m, c) == IF Answerable(m, c) THEN 1 ELSE 0

InFlight(c) ==
  Cardinality({i \in DOMAIN queue[Boot] : Answerable(queue[Boot][i], c)})
    + (IF pc \in {"dispatch", "reply"} THEN Carrying(msg, c) ELSE 0)
    + (IF cstate[c] = "sending" THEN Carrying(outbox[c], c) ELSE 0)

PingsAccounted ==
  \A c \in Clients : cstate[c] # "dead" => asked[c] - answered[c] = InFlight(c)

\* Every PING that asks for an answer gets at most one PONG, on its own reply
\* port, and a client gets no PONG it did not ask for.
Service ==
  INSTANCE PingService WITH
    pending <- [c \in Clients |-> IF cstate[c] = "dead" THEN 0 ELSE asked[c] - answered[c]],
    pongs   <- [c \in Clients |-> Len(queue[c])],
    gone    <- {c \in Clients : cstate[c] = "dead"}

PingsServed == Service!Spec

\* A client that stays receives the PONG for each of its PINGs in the end,
\* whatever the other clients send and even when they die.
PingAnswered ==
  \A c \in Clients : \A n \in 1 .. MaxSends :
    asked[c] = n ~> answered[c] >= n \/ cstate[c] = "dead"

-----------------------------------------------------------------------------
(* What main.c says of the loop, and the code does not do. *)

\* Line 98: "The init service loop receives Mach messages on the bootstrap
\* port and dispatches them."  A client with more PONGs coming than its queue
\* holds stops the loop in julius_send_simple.
KeepsServing == queue[Boot] # <<>> ~> pc = "recv"
=============================================================================
