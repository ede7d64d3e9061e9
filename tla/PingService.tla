----------------------------- MODULE PingService -----------------------------
(***************************************************************************)
(* What a client of julius-init may rely on: each PING it asks to have     *)
(* answered brings exactly one PONG, unless the client leaves first.  How  *)
(* messages travel, and what else init is sent, does not show.             *)
(***************************************************************************)
EXTENDS Naturals

CONSTANT Clients

VARIABLES pending,  \* client -> its PINGs that await an answer
          pongs,    \* client -> PONGs it has yet to collect
          gone      \* clients that have left

vars == <<pending, pongs, gone>>

Init ==
  /\ pending = [c \in Clients |-> 0] /\ pongs = [c \in Clients |-> 0]
  /\ gone = {}

Ask(c) ==
  /\ c \notin gone
  /\ pending' = [pending EXCEPT ![c] = @ + 1]
  /\ UNCHANGED <<pongs, gone>>

Answer(c) ==
  /\ pending[c] > 0
  /\ pending' = [pending EXCEPT ![c] = @ - 1]
  /\ pongs' = [pongs EXCEPT ![c] = @ + 1]
  /\ UNCHANGED gone

Collect(c) ==
  /\ pongs[c] > 0
  /\ pongs' = [pongs EXCEPT ![c] = @ - 1]
  /\ UNCHANGED <<pending, gone>>

Leave(c) ==
  /\ gone' = gone \cup {c}
  /\ pending' = [pending EXCEPT ![c] = 0]
  /\ pongs' = [pongs EXCEPT ![c] = 0]

Next == \E c \in Clients : Ask(c) \/ Answer(c) \/ Collect(c) \/ Leave(c)

Spec == Init /\ [][Next]_vars
=============================================================================
