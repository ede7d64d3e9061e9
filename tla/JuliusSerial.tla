----------------------------- MODULE JuliusSerial -----------------------------
(***************************************************************************)
(* The UART driver kext (kexts/JuliusSerial).  I/O Kit calls start and      *)
(* stop on one thread; once the service is registered, other kexts call     *)
(* putString, getChar and setBaud.  The driver takes no lock, so the        *)
(* register accesses of these threads interleave.                           *)
(*                                                                          *)
(* A step is one register access or one use of _regs.  The 100000 waits of  *)
(* one microsecond each of a polling loop are Polls rounds of Round         *)
(* microseconds.  Every round that finds the UART busy counts, whether the  *)
(* transmitter is sending or not; and a character is out after as many      *)
(* rounds as the divisors in use make it take.                              *)
(***************************************************************************)
EXTENDS PL011, FiniteSets

CONSTANTS
  Callers, Kit,  \* threads of other kexts; the I/O Kit thread
  Polls, Round,  \* rounds of a polling loop, and their microseconds: 100000 and 1
  Clock,         \* JULIUS_UART_CLOCK_HZ
  StartBaud,     \* JULIUS_UART_BAUD
  Bauds,         \* rates setBaud is called with
  Lengths,       \* characters putString puts, a newline counting twice
  Serialised,    \* callers make one call at a time, and none around stop
  MaxCalls       \* bound: calls of one caller

ASSUME SerialAssumption ==
  /\ Kit \notin Callers /\ IsFiniteSet(Callers)
  /\ FifoDepth \in Nat \ {0} /\ Polls \in Nat \ {0} /\ Round \in Nat \ {0}
  /\ Clock \in Nat /\ Clock >= 1000000
  /\ StartBaud \in Nat \ {0} /\ Bauds \subseteq Nat \ {0}
  /\ Lengths \subseteq Nat \ {0} /\ MaxCalls \in Nat /\ Serialised \in BOOLEAN

\* The timeout is 100000 microseconds, but for a part of a round.
ASSUME TimeoutAssumption == Polls * Round <= 100000 /\ 100000 < (Polls + 1) * Round

VARIABLES
  pc, todo, spins, baud, after,  \* per thread: place, characters left, timeout,
                                 \* argument of hw_init, where to go after it
  waited,      \* per thread: the rounds it has waited for a transmitter that had
               \* something to send, since this last took up a character
  mapped,      \* the MMIO mapping exists
  regs,        \* _regs is not NULL
  registered,  \* registerService was called
  fault,       \* a register was accessed without a mapping
  made         \* per caller: calls made, for the bound MaxCalls

device   == <<working, enabled, tx, rx, shift, ibrd, fbrd, line>>
places   == <<pc, todo, spins, baud, after, made>>
threads  == <<places, waited>>
kext     == <<mapped, regs, registered>>
vars     == <<device, threads, kext, fault>>

Threads == Callers \cup {Kit}

\* Places where the thread is in no function of the driver.
Resting == {"idle", "unstarted", "absent", "started", "stopped"}

Busy(t) == pc[t] \notin Resting

-----------------------------------------------------------------------------
(* Steps of a thread *)

At(t, p) == pc[t] = p
GoTo(t, p) == pc' = [pc EXCEPT ![t] = p]

\* A step that accesses a register while it is mapped.
Reaches(t, p) == At(t, p) /\ mapped /\ UNCHANGED <<kext, fault, made>>
Accesses(t, p) == Reaches(t, p) /\ UNCHANGED waited

\* Rounds in which a character of 10 bits is out at divisors d, a part of a
\* round counting as one: each bit takes 16 * (d[1] + d[2] / 64) clocks.
CharRounds(d) == (160 * (64 * d[1] + d[2])) \div (64 * (Clock \div 1000000) * Round) + 1

\* t has waited for as long as the transmitter can take.
Overdue(t) == CanMove /\ waited[t] >= CharRounds(line)

\* IODelay
Delay(t) == waited' = IF CanMove THEN [waited EXCEPT ![t] = @ + 1] ELSE waited

RegisterPlaces == {"poll", "write", "rx_poll", "rx_read", "hw_cr", "hw_busy",
                   "hw_drain", "hw_ibrd", "hw_fbrd", "hw_lcrh", "hw_enable", "disable"}

\* The same access through a stale or NULL _regs: the kernel takes a fault.
Fault(t) ==
  /\ pc[t] \in RegisterPlaces /\ ~mapped
  /\ fault' = TRUE /\ UNCHANGED <<device, threads, kext>>

\* Faulty variants of hw_init: the flags of the two waiting loops are read the
\* wrong way round, or not at all; the timeout runs past zero; FBRD is written
\* after LCRH.
NoBusyWait(t) ==
  /\ Accesses(t, "hw_busy") /\ GoTo(t, "hw_drain")
  /\ UNCHANGED <<device, spins, todo, baud, after>>

WaitPastZero(t) ==
  /\ Reaches(t, "hw_busy")
  /\ \/ ~FrBusy /\ GoTo(t, "hw_drain") /\ UNCHANGED <<spins, waited>>
     \/ /\ FrBusy /\ ~Overdue(t) /\ Delay(t)
        /\ spins' = [spins EXCEPT ![t] = @ - 1] /\ UNCHANGED pc
  /\ UNCHANGED <<device, todo, baud, after>>

DrainInverted(t) ==
  /\ Accesses(t, "hw_drain")
  /\ \/ ~FrRxEmpty /\ GoTo(t, "hw_ibrd") /\ UNCHANGED device
     \/ FrRxEmpty /\ ReadDR /\ UNCHANGED pc
  /\ UNCHANGED <<spins, todo, baud, after>>

\* hw_init
HwDisable(t) ==
  /\ Accesses(t, "hw_cr") /\ WriteCR(FALSE)
  /\ GoTo(t, "hw_busy") /\ spins' = [spins EXCEPT ![t] = Polls]
  /\ UNCHANGED <<todo, baud, after>>

HwWait(t) ==
  /\ Reaches(t, "hw_busy")
  /\ \/ ~FrBusy /\ GoTo(t, "hw_drain") /\ UNCHANGED <<spins, waited>>
     \/ /\ FrBusy /\ ~Overdue(t)
        /\ spins' = [spins EXCEPT ![t] = @ - 1]
        /\ IF spins[t] > 0 THEN Delay(t) /\ UNCHANGED pc
           ELSE GoTo(t, "hw_drain") /\ UNCHANGED waited
  /\ UNCHANGED <<device, todo, baud, after>>

HwDrain(t) ==
  /\ Accesses(t, "hw_drain")
  /\ \/ FrRxEmpty /\ GoTo(t, "hw_ibrd") /\ UNCHANGED device
     \/ ~FrRxEmpty /\ ReadDR /\ UNCHANGED pc
  /\ UNCHANGED <<spins, todo, baud, after>>

Ibrd(b) == Clock \div (16 * b)
Fbrd(b) == ((Clock % (16 * b)) * 64 + b \div 2) \div b

HwIbrd(t) ==
  /\ Accesses(t, "hw_ibrd") /\ WriteIBRD(Ibrd(baud[t])) /\ GoTo(t, "hw_fbrd")
  /\ UNCHANGED <<spins, todo, baud, after>>

FbrdAfterLine(t) ==
  /\ Accesses(t, "hw_fbrd") /\ GoTo(t, "hw_enable")
  /\ line' = <<ibrd, fbrd>> /\ fbrd' = Fbrd(baud[t]) % 64
  /\ UNCHANGED <<working, enabled, tx, rx, shift, ibrd, spins, todo, baud, after>>

HwFbrd(t) ==
  /\ Accesses(t, "hw_fbrd") /\ WriteFBRD(Fbrd(baud[t])) /\ GoTo(t, "hw_lcrh")
  /\ UNCHANGED <<spins, todo, baud, after>>

HwLine(t) ==
  /\ Accesses(t, "hw_lcrh") /\ WriteLCRH /\ GoTo(t, "hw_enable")
  /\ UNCHANGED <<spins, todo, baud, after>>

HwEnable(t) ==
  /\ Accesses(t, "hw_enable") /\ WriteCR(TRUE) /\ GoTo(t, after[t])
  /\ UNCHANGED <<spins, todo, baud, after>>

HwInit(t) == \/ HwDisable(t) \/ HwWait(t) \/ HwDrain(t) \/ HwIbrd(t) \/ HwFbrd(t)
             \/ HwLine(t) \/ HwEnable(t)

\* putString: the next character, or back to the caller.
NextChar(t) ==
  /\ todo' = [todo EXCEPT ![t] = @ - 1]
  /\ GoTo(t, IF todo[t] > 1 THEN "check" ELSE after[t])

\* Faulty variant: the timeout is as short as a character at the first rate.
CheckHasty(t) ==
  /\ At(t, "check")
  /\ \/ ~regs /\ NextChar(t) /\ UNCHANGED spins
     \/ /\ regs /\ GoTo(t, "poll") /\ UNCHANGED todo
        /\ spins' = [spins EXCEPT ![t] = CharRounds(<<Ibrd(StartBaud), 0>>)]
  /\ UNCHANGED <<device, baud, after, kext, fault, made, waited>>

\* putChar
Check(t) ==
  /\ At(t, "check")
  /\ \/ ~regs /\ NextChar(t) /\ UNCHANGED spins
     \/ regs /\ GoTo(t, "poll") /\ spins' = [spins EXCEPT ![t] = Polls] /\ UNCHANGED todo
  /\ UNCHANGED <<device, baud, after, kext, fault, made, waited>>

\* Faulty variants: the loop never counts down; the flag is not looked at.
PollForever(t) ==
  /\ Accesses(t, "poll")
  /\ ~FrTxFull /\ GoTo(t, "write") /\ UNCHANGED <<spins, todo>>
  /\ UNCHANGED <<device, baud, after>>

PollSkipped(t) ==
  /\ Accesses(t, "poll") /\ GoTo(t, "write")
  /\ UNCHANGED <<device, spins, todo, baud, after>>

\* while (!tx_ready() && timeout-- > 0), then the test of timeout.
Poll(t) ==
  /\ Reaches(t, "poll")
  /\ \/ ~FrTxFull /\ spins[t] > 0 /\ GoTo(t, "write") /\ UNCHANGED <<spins, todo, waited>>
     \/ ~FrTxFull /\ spins[t] <= 0 /\ NextChar(t) /\ UNCHANGED <<spins, waited>>
     \/ /\ FrTxFull /\ ~Overdue(t)
        /\ spins' = [spins EXCEPT ![t] = @ - 1]
        /\ IF spins[t] > 0 THEN Delay(t) /\ UNCHANGED <<pc, todo>>
           ELSE NextChar(t) /\ UNCHANGED waited
  /\ UNCHANGED <<device, baud, after>>

PutData(t) ==
  /\ Accesses(t, "write") /\ WriteDR /\ NextChar(t)
  /\ UNCHANGED <<spins, baud, after>>

PutChar(t) == Check(t) \/ Poll(t) \/ PutData(t)

\* Faulty variant: rx_ready is not asked.
GetCharBlind(t) ==
  \/ /\ At(t, "rx_check") /\ GoTo(t, IF regs THEN "rx_read" ELSE "idle")
     /\ UNCHANGED <<device, spins, todo, baud, after, kext, fault, made, waited>>
  \/ /\ Accesses(t, "rx_read") /\ ReadDR /\ GoTo(t, "idle")
     /\ UNCHANGED <<spins, todo, baud, after>>

\* getChar: _regs, then the flag, then the data register.
GetChar(t) ==
  \/ /\ At(t, "rx_check") /\ GoTo(t, IF regs THEN "rx_poll" ELSE "idle")
     /\ UNCHANGED <<device, spins, todo, baud, after, kext, fault, made, waited>>
  \/ /\ Accesses(t, "rx_poll") /\ GoTo(t, IF FrRxEmpty THEN "idle" ELSE "rx_read")
     /\ UNCHANGED <<device, spins, todo, baud, after>>
  \/ /\ Accesses(t, "rx_read") /\ ReadDR /\ GoTo(t, "idle")
     /\ UNCHANGED <<spins, todo, baud, after>>

-----------------------------------------------------------------------------
(* Threads *)

\* Enter putString, hw_init or getChar, to continue at `next` afterwards.
BeginPut(t, n, next) ==
  /\ GoTo(t, "check") /\ todo' = [todo EXCEPT ![t] = n]
  /\ after' = [after EXCEPT ![t] = next] /\ UNCHANGED <<spins, baud>>
BeginInit(t, b, next) ==
  /\ GoTo(t, "hw_cr") /\ baud' = [baud EXCEPT ![t] = b]
  /\ after' = [after EXCEPT ![t] = next] /\ UNCHANGED <<spins, todo>>
BeginGet(t) == GoTo(t, "rx_check") /\ UNCHANGED <<todo, spins, baud, after>>

CallerCall(t) ==
  /\ At(t, "idle") /\ registered /\ made[t] < MaxCalls
  /\ Serialised => At(Kit, "started") /\ \A u \in Callers : ~Busy(u)
  /\ made' = [made EXCEPT ![t] = @ + 1]
  /\ \/ \E n \in Lengths : BeginPut(t, n, "idle")
     \/ \E b \in Bauds : BeginInit(t, b, "idle")
     \/ BeginGet(t)
  /\ UNCHANGED <<device, kext, fault, waited>>

\* start: fails, or maps the registers and initialises the UART.
StartMap ==
  /\ At(Kit, "unstarted")
  /\ \/ /\ GoTo(Kit, "absent") /\ UNCHANGED <<todo, spins, baud, after, mapped, regs>>
     \/ mapped' = TRUE /\ regs' = TRUE /\ BeginInit(Kit, StartBaud, "banner")
  /\ UNCHANGED <<device, registered, fault, made, waited>>

StartBanner ==
  /\ At(Kit, "banner") /\ BeginPut(Kit, 1, "register")
  /\ UNCHANGED <<device, kext, fault, made, waited>>

Register ==
  /\ At(Kit, "register") /\ GoTo(Kit, "started") /\ registered' = TRUE
  /\ UNCHANGED <<device, todo, spins, baud, after, mapped, regs, fault, made, waited>>

\* Faulty variant: the mapping is released before the UART is switched off.
StopUnmapsFirst ==
  /\ At(Kit, "started") /\ (Serialised => \A u \in Callers : ~Busy(u))
  /\ BeginPut(Kit, 1, "disable") /\ mapped' = FALSE
  /\ UNCHANGED <<device, regs, registered, fault, made, waited>>

\* stop: a last message, then the UART is switched off and unmapped.
Stop ==
  /\ At(Kit, "started") /\ (Serialised => \A u \in Callers : ~Busy(u))
  /\ BeginPut(Kit, 1, "disable")
  /\ UNCHANGED <<device, kext, fault, made, waited>>

StopDisable ==
  /\ Accesses(Kit, "disable") /\ WriteCR(FALSE) /\ GoTo(Kit, "release")
  /\ UNCHANGED <<todo, spins, baud, after>>

StopRelease ==
  \/ /\ At(Kit, "release") /\ mapped' = FALSE /\ GoTo(Kit, "forget")
     /\ UNCHANGED <<device, todo, spins, baud, after, regs, registered, fault, made, waited>>
  \/ /\ At(Kit, "forget") /\ regs' = FALSE /\ GoTo(Kit, "stopped")
     /\ UNCHANGED <<device, todo, spins, baud, after, mapped, registered, fault, made, waited>>

Lifecycle == \/ StartMap \/ StartBanner \/ Register
             \/ Stop \/ StopDisable \/ StopRelease

-----------------------------------------------------------------------------
Init ==
  /\ PL011Init
  /\ pc = [t \in Threads |-> IF t = Kit THEN "unstarted" ELSE "idle"]
  /\ todo = [t \in Threads |-> 0] /\ spins = [t \in Threads |-> 0]
  /\ baud = [t \in Threads |-> StartBaud] /\ after = [t \in Threads |-> "idle"]
  /\ mapped = FALSE /\ regs = FALSE /\ registered = FALSE /\ fault = FALSE
  /\ made = [t \in Callers |-> 0] /\ waited = [t \in Threads |-> 0]

Inside(t) == ~fault /\ (HwInit(t) \/ PutChar(t) \/ GetChar(t) \/ Fault(t))

DeviceStep ==
  /\ ~fault
  /\ \/ Load /\ waited' = [t \in Threads |-> 0]
     \/ (Finish \/ Arrive \/ Break) /\ UNCHANGED waited
  /\ UNCHANGED <<places, kext, fault>>

Next ==
  \/ \E t \in Threads : Inside(t)
  \/ \E t \in Callers : ~fault /\ CallerCall(t)
  \/ ~fault /\ Lifecycle
  \/ DeviceStep

Spec == Init /\ [][Next]_vars

\* A thread inside the driver keeps running, and the UART keeps sending until
\* it breaks.
Fairness ==
  /\ \A t \in Threads : WF_vars(Inside(t))
  /\ WF_vars(~fault /\ (StartBanner \/ Register \/ StopDisable \/ StopRelease))
  /\ WF_vars(DeviceStep /\ (Load \/ Finish))

FairSpec == Spec /\ Fairness

-----------------------------------------------------------------------------
DeviceOK ==
  /\ working \in BOOLEAN /\ enabled \in BOOLEAN /\ shift \in BOOLEAN
  /\ tx \in 0 .. FifoDepth /\ rx \in 0 .. FifoDepth
  /\ ibrd \in Nat /\ fbrd \in Nat /\ line \in Nat \X Nat

ThreadsOK ==
  /\ pc \in [Threads -> Resting \cup RegisterPlaces \cup
               {"check", "rx_check", "banner", "register", "release", "forget"}]
  /\ todo \in [Threads -> Nat] /\ spins \in [Threads -> -1 .. Polls]
  /\ baud \in [Threads -> Nat \ {0}] /\ waited \in [Threads -> Nat]
  /\ after \in [Threads -> {"idle", "banner", "register", "disable"}]

KextOK ==
  /\ mapped \in BOOLEAN /\ regs \in BOOLEAN /\ registered \in BOOLEAN
  /\ fault \in BOOLEAN /\ made \in [Callers -> 0 .. MaxCalls]

TypeOK == DeviceOK /\ ThreadsOK /\ KextOK

\* No access through _regs before start has mapped the registers or after
\* stop has released them (lines 109, 133 and 136).
NoFault == ~fault

\* putChar writes the data register only with room in the transmit FIFO, so
\* no character is lost (line 164: "Busy-wait for TX FIFO to have space").
NoOverrun == \A t \in Threads : At(t, "write") /\ mapped => ~FrTxFull

\* No character is cut by a change of rate: the settings change only while the
\* UART is off (line 37), and whatever was being shifted out when setBaud was
\* called is out before the new divisors take effect, unless the transmitter has
\* stopped for good (line 42: the wait is bounded).
CharactersIntact ==
  [][/\ <<ibrd, fbrd, line>>' # <<ibrd, fbrd, line>> => ~enabled
     /\ line' # line => ~(working /\ shift)]_vars

\* The running UART never mixes the divisors of two rates.  (Which divisors
\* those are is another matter: Fbrd divides by b where 16 * b was meant.)
OneRate ==
  registered /\ enabled /\ mapped =>
    \E b \in Bauds \cup {StartBaud} : line = <<Ibrd(b) % 65536, Fbrd(b) % 64>>

\* getChar reads the data register only if a character is there.
NoEmptyRead == \A t \in Threads : At(t, "rx_read") => ~FrRxEmpty

\* At every rate in use a character is out before the timeout of a polling loop
\* is over: 10 bits take less than 100000 microseconds above 100 baud.
Quick == \A b \in Bauds \cup {StartBaud} : CharRounds(<<Ibrd(b) % 65536, Fbrd(b) % 64>>) < Polls

\* Line 164: "Busy-wait for TX FIFO to have space (with a timeout to avoid
\* lock-up)".  While callers take turns and rates are quick, a character is given
\* up only if the transmitter has stopped for good: the driver never leaves the
\* UART off with callers about, and though every round counts, those that a full
\* FIFO takes to send one character never use up the timeout, nor does the last
\* of them, which line 168 holds against a FIFO that has room by then.
GivenUpOnlyWhenBroken ==
  [][\A t \in Threads : At(t, "poll") /\ todo'[t] < todo[t] => ~working]_vars

\* Every call into the driver returns, and start and stop complete, even on a
\* UART whose transmitter has stopped (lines 42 and 166: the timeouts).
CallsReturn == \A t \in Threads : Busy(t) ~> ~Busy(t) \/ fault

\* putChar waits "with a timeout to avoid lock-up" (line 164): putString
\* returns even if the transmitter stops for good, and whatever other threads
\* do to the UART meanwhile.
PutStringReturns ==
  \A t \in Callers : pc[t] \in {"check", "poll", "write"} ~> ~Busy(t) \/ fault

-----------------------------------------------------------------------------
(* What the comments of the driver and the documents say, and it does not do. *)

\* Line 40: "Wait for any in-progress transmission to complete".  The UART is
\* already disabled, so that characters in the FIFO never go out.
SettingsWhenIdle == \A t \in Threads : At(t, "hw_ibrd") /\ mapped /\ working => ~FrBusy
=============================================================================
