------------------------------- MODULE MachIPC -------------------------------
(***************************************************************************)
(* The part of Mach messaging that libc/src/mach.c reaches: ports with a    *)
(* bounded queue each, header-only messages, and no timeouts.  The queues  *)
(* themselves live in the kernel, which is not part of the repository; what *)
(* is said of them here is what mach.c and main.c rely on.                 *)
(***************************************************************************)
EXTENDS Naturals, Sequences

CONSTANTS Ports,   \* every port of the system
          QLimit   \* messages a port's queue holds before a sender waits

VARIABLES queue,   \* port -> the messages waiting in it
          live     \* ports whose receive right still exists

HasRoom(p) == Len(queue[p]) < QLimit

Enqueue(p, m) == queue' = [queue EXCEPT ![p] = Append(@, m)]

\* julius_send_simple: MACH_SEND_MSG with MACH_MSG_TYPE_COPY_SEND and no
\* timeout.  A dead port, or a right that cannot be copied (send-once), is an
\* error and sends nothing; a full queue makes the sender wait.
SendSimple(p, right, m) ==
  \/ /\ p \notin live \/ right # "send"
     /\ UNCHANGED queue
  \/ /\ p \in live /\ right = "send" /\ HasRoom(p)
     /\ Enqueue(p, m)

\* julius_recv_simple: waits for a message and takes it off the queue,
\* whether or not the buffer given can hold it.
RecvSimple(p) ==
  /\ queue[p] # <<>>
  /\ queue' = [queue EXCEPT ![p] = Tail(@)]

\* The holder of the receive right is gone: its port dies with what is queued.
Destroy(p) ==
  /\ live' = live \ {p}
  /\ queue' = [queue EXCEPT ![p] = <<>>]
=============================================================================
