-------------------------- MODULE JuliusSerialProofs --------------------------
(***************************************************************************)
(* Proofs about JuliusSerial for any number of callers, any FIFO depth and  *)
(* any timeout.                                                             *)
(***************************************************************************)
EXTENDS JuliusSerial, TLAPS

PutPlaces == {"check", "poll", "write"}
HwPlaces  == {"hw_cr", "hw_busy", "hw_drain", "hw_ibrd", "hw_fbrd", "hw_lcrh", "hw_enable"}
RxPlaces  == {"rx_check", "rx_poll", "rx_read"}

\* Where a thread may be, and where it goes from there.
KitPlaces == {"unstarted", "absent", "banner", "register", "started",
              "disable", "release", "forget", "stopped"}

PlaceOK(t) ==
  /\ pc[t] \in PutPlaces \cup HwPlaces \cup (IF t = Kit THEN KitPlaces ELSE RxPlaces \cup {"idle"})
  /\ pc[t] \in PutPlaces => todo[t] > 0
  /\ pc[t] \in {"poll", "hw_busy"} => spins[t] >= 0
  /\ pc[t] \in PutPlaces => after[t] \in IF t = Kit THEN {"register", "disable"} ELSE {"idle"}
  /\ pc[t] \in HwPlaces => after[t] = IF t = Kit THEN "banner" ELSE "idle"

\* Every variable has its type, and every thread is where it may be.
TInv == TypeOK /\ \A t \in Threads : PlaceOK(t)

\* While callers take turns and keep away from start and stop, the registers
\* are mapped whenever a thread is in the driver, and there is one at most.
Mapping ==
  /\ mapped <=> pc[Kit] \notin {"unstarted", "absent", "forget", "stopped"}
  /\ registered => pc[Kit] \notin {"unstarted", "absent"} \cup HwPlaces

Turns ==
  \A t \in Threads : Busy(t) =>
    /\ t # Kit => pc[Kit] = "started"
    /\ \A u \in Threads : Busy(u) => u = t

\* What the thread in the driver has read of the device, or done to it, still
\* holds.  The divisors on their way to the UART belong to one rate.
Rates == {<<Ibrd(b) % 65536, Fbrd(b) % 64>> : b \in Bauds \cup {StartBaud}}

Remembered(t) ==
  /\ pc[t] = "write" => ~FrTxFull
  /\ pc[t] = "rx_read" => ~FrRxEmpty
  /\ pc[t] \in HwPlaces \ {"hw_cr"} => ~enabled
  /\ pc[t] \in HwPlaces => baud[t] \in Bauds \cup {StartBaud}
  /\ pc[t] \in {"hw_fbrd", "hw_lcrh"} => ibrd = Ibrd(baud[t]) % 65536
  /\ pc[t] = "hw_lcrh" => fbrd = Fbrd(baud[t]) % 64
  /\ pc[t] = "hw_enable" => line \in Rates

Settled ==
  /\ pc[Kit] \notin {"unstarted", "absent"} \cup HwPlaces
  /\ \A t \in Threads : pc[t] \notin HwPlaces \ {"hw_cr"}

SInv ==
  /\ TInv /\ Mapping /\ Turns /\ ~fault
  /\ \A t \in Threads : Remembered(t)
  /\ Settled => line \in Rates

-----------------------------------------------------------------------------
(* Type correctness, whether callers take turns or not *)

\* What the divisor registers are written with are numbers.
LEMMA Divisors ==
  ASSUME NEW b \in Nat \ {0}
  PROVE  Ibrd(b) % 65536 \in Nat /\ Fbrd(b) % 64 \in Nat
<1>1. Clock \in Nat /\ 16 * b \in Nat \ {0}
  BY SerialAssumption
<1>2. Ibrd(b) \in Int
  BY <1>1 DEF Ibrd
<1>3. Clock % (16 * b) \in Int /\ b \div 2 \in Int
  BY <1>1
<1>4. Fbrd(b) \in Int
  BY <1>3 DEF Fbrd
<1>5. \A n \in Int : n % 65536 \in Nat /\ n % 64 \in Nat
  OBVIOUS
<1> QED
  BY <1>2, <1>4, <1>5

\* A step of thread t leaves the places of the other threads alone.
Local(t) ==
  /\ pc' = [pc EXCEPT ![t] = pc'[t]]
  /\ todo' = [todo EXCEPT ![t] = todo'[t]]
  /\ spins' = [spins EXCEPT ![t] = spins'[t]]
  /\ baud' = [baud EXCEPT ![t] = baud'[t]]
  /\ after' = [after EXCEPT ![t] = after'[t]]
  /\ waited' = [waited EXCEPT ![t] = waited'[t]]

\* What t needs of its own places for ThreadsOK and PlaceOK.
ThreadOK(t) ==
  /\ todo[t] \in Nat /\ spins[t] \in -1 .. Polls /\ baud[t] \in Nat \ {0}
  /\ after[t] \in {"idle", "banner", "register", "disable"} /\ waited[t] \in Nat
  /\ PlaceOK(t)

LEMMA Unmoved ==
  ASSUME NEW t \in Threads, NEW S, NEW f \in [Threads -> S]
  PROVE  f = [f EXCEPT ![t] = f[t]]
  OBVIOUS

LEMMA LocalFrame ==
  ASSUME TInv, NEW t \in Threads, Local(t)
  PROVE  \A u \in Threads \ {t} :
           /\ pc'[u] = pc[u] /\ todo'[u] = todo[u] /\ spins'[u] = spins[u]
           /\ baud'[u] = baud[u] /\ after'[u] = after[u] /\ waited'[u] = waited[u]
  BY DEF TInv, TypeOK, ThreadsOK, Local

LEMMA LocalTyped ==
  ASSUME TInv, NEW t \in Threads, Local(t), ThreadOK(t)'
  PROVE  ThreadsOK' /\ \A u \in Threads : PlaceOK(u)'
<1>1. ThreadsOK
  BY DEF TInv, TypeOK
<1>2. pc'[t] \in Resting \cup RegisterPlaces \cup
               {"check", "rx_check", "banner", "register", "release", "forget"}
  BY
    DEF ThreadOK, PlaceOK, PutPlaces, HwPlaces, RxPlaces, KitPlaces, Resting,
        RegisterPlaces
<1>3. ThreadsOK'
  BY <1>1, <1>2 DEF ThreadsOK, Local, ThreadOK
<1>4. \A u \in Threads \ {t} : PlaceOK(u)'
  BY LocalFrame DEF PlaceOK, TInv
<1> QED
  BY <1>3, <1>4 DEF ThreadOK

LEMMA InsideIsLocal ==
  ASSUME TInv, NEW t \in Threads, HwInit(t) \/ PutChar(t) \/ GetChar(t)
  PROVE  Local(t) /\ ThreadOK(t)' /\ DeviceOK' /\ UNCHANGED <<kext, fault, made>>
<1> USE DEF Accesses, Reaches, At, GoTo, device
<1>0. /\ ThreadsOK /\ DeviceOK /\ PlaceOK(t)
      /\ todo[t] \in Nat /\ spins[t] \in -1 .. Polls /\ baud[t] \in Nat \ {0}
      /\ after[t] \in {"idle", "banner", "register", "disable"} /\ waited[t] \in Nat
  BY DEF TInv, TypeOK, ThreadsOK
<1>a. /\ pc = [pc EXCEPT ![t] = pc[t]] /\ todo = [todo EXCEPT ![t] = todo[t]]
      /\ spins = [spins EXCEPT ![t] = spins[t]] /\ baud = [baud EXCEPT ![t] = baud[t]]
      /\ after = [after EXCEPT ![t] = after[t]] /\ waited = [waited EXCEPT ![t] = waited[t]]
  BY <1>0, Unmoved DEF ThreadsOK
<1>b. Polls \in Nat /\ FifoDepth \in Nat
  BY SerialAssumption
<1>1. CASE HwDisable(t)
  <2>1. Local(t)
    BY <1>1, <1>0, <1>a DEF HwDisable, Local, ThreadsOK, WriteCR
  <2>2. ThreadOK(t)'
    BY <1>1, <1>0, <1>b
      DEF HwDisable, ThreadOK, PlaceOK, ThreadsOK, PutPlaces, HwPlaces, RxPlaces,
          KitPlaces
  <2>3. DeviceOK'
    <3>1. enabled' \in BOOLEAN
      BY <1>1, Zenon DEF HwDisable, WriteCR
    <3> QED
      BY <1>1, <1>0, <3>1 DEF HwDisable, DeviceOK, WriteCR
  <2> QED
    BY <1>1, <2>1, <2>2, <2>3 DEF HwDisable, kext
<1>2. CASE HwWait(t)
  <2>1. Local(t)
    BY <1>2, <1>0, <1>a DEF HwWait, Delay, Local, ThreadsOK
  <2>2. ThreadOK(t)'
    BY <1>2, <1>0, <1>b
      DEF HwWait, Delay, ThreadOK, PlaceOK, ThreadsOK, PutPlaces, HwPlaces, RxPlaces, KitPlaces
  <2>3. DeviceOK'
    BY <1>2, <1>0 DEF HwWait, DeviceOK
  <2> QED
    BY <1>2, <2>1, <2>2, <2>3 DEF HwWait, kext
<1>3. CASE HwDrain(t)
  <2>1. Local(t)
    BY <1>3, <1>0, <1>a DEF HwDrain, Local, ThreadsOK, ReadDR
  <2>2. ThreadOK(t)'
    BY <1>3, <1>0, <1>b
      DEF HwDrain, ThreadOK, PlaceOK, ThreadsOK, PutPlaces, HwPlaces, RxPlaces,
          KitPlaces
  <2>3. DeviceOK'
    BY <1>3, <1>0, <1>b DEF HwDrain, DeviceOK, ReadDR, FrRxEmpty
  <2> QED
    BY <1>3, <2>1, <2>2, <2>3 DEF HwDrain, kext
<1>4. CASE HwIbrd(t)
  <2>1. Local(t)
    BY <1>4, <1>0, <1>a DEF HwIbrd, Local, ThreadsOK, WriteIBRD
  <2>2. ThreadOK(t)'
    BY <1>4, <1>0, <1>b
      DEF HwIbrd, ThreadOK, PlaceOK, ThreadsOK, PutPlaces, HwPlaces, RxPlaces, KitPlaces
  <2>3. DeviceOK'
    BY <1>4, <1>0, Divisors DEF HwIbrd, DeviceOK, WriteIBRD
  <2> QED
    BY <1>4, <2>1, <2>2, <2>3 DEF HwIbrd, kext
<1>5. CASE HwFbrd(t)
  <2>1. Local(t)
    BY <1>5, <1>0, <1>a DEF HwFbrd, Local, ThreadsOK, WriteFBRD
  <2>2. ThreadOK(t)'
    BY <1>5, <1>0, <1>b
      DEF HwFbrd, ThreadOK, PlaceOK, ThreadsOK, PutPlaces, HwPlaces, RxPlaces, KitPlaces
  <2>3. DeviceOK'
    BY <1>5, <1>0, Divisors DEF HwFbrd, DeviceOK, WriteFBRD
  <2> QED
    BY <1>5, <2>1, <2>2, <2>3 DEF HwFbrd, kext
<1>6. CASE HwLine(t)
  <2>1. Local(t)
    BY <1>6, <1>0, <1>a DEF HwLine, Local, ThreadsOK, WriteLCRH
  <2>2. ThreadOK(t)'
    BY <1>6, <1>0, <1>b
      DEF HwLine, ThreadOK, PlaceOK, ThreadsOK, PutPlaces, HwPlaces, RxPlaces, KitPlaces
  <2>3. DeviceOK'
    BY <1>6, <1>0 DEF HwLine, DeviceOK, WriteLCRH
  <2> QED
    BY <1>6, <2>1, <2>2, <2>3 DEF HwLine, kext
<1>7. CASE HwEnable(t)
  <2>1. Local(t)
    BY <1>7, <1>0, <1>a DEF HwEnable, Local, ThreadsOK, WriteCR
  <2>2. ThreadOK(t)'
    BY <1>7, <1>0, <1>b
      DEF HwEnable, ThreadOK, PlaceOK, ThreadsOK, PutPlaces, HwPlaces, RxPlaces,
          KitPlaces
  <2>3. DeviceOK'
    BY <1>7, <1>0 DEF HwEnable, DeviceOK, WriteCR
  <2> QED
    BY <1>7, <2>1, <2>2, <2>3 DEF HwEnable, kext
<1>8. CASE Check(t)
  <2>1. Local(t)
    BY <1>8, <1>0, <1>a DEF Check, Local, ThreadsOK, NextChar
  <2>2. ThreadOK(t)'
    BY <1>8, <1>0, <1>b
      DEF Check, ThreadOK, PlaceOK, ThreadsOK, PutPlaces, HwPlaces, RxPlaces, KitPlaces,
          NextChar
  <2>3. DeviceOK'
    BY <1>8, <1>0 DEF Check, DeviceOK
  <2> QED
    BY <1>8, <2>1, <2>2, <2>3 DEF Check, kext
<1>9. CASE Poll(t)
  <2>1. Local(t)
    BY <1>9, <1>0, <1>a DEF Poll, Delay, Local, ThreadsOK, NextChar
  <2>2. ThreadOK(t)'
    BY <1>9, <1>0, <1>b
      DEF Poll, Delay, ThreadOK, PlaceOK, ThreadsOK, PutPlaces, HwPlaces, RxPlaces, KitPlaces,
          NextChar
  <2>3. DeviceOK'
    BY <1>9, <1>0 DEF Poll, DeviceOK
  <2> QED
    BY <1>9, <2>1, <2>2, <2>3 DEF Poll, kext
<1>10. CASE PutData(t)
  <2>1. Local(t)
    BY <1>10, <1>0, <1>a DEF PutData, Local, ThreadsOK, NextChar
  <2>2. ThreadOK(t)'
    BY <1>10, <1>0, <1>b
      DEF PutData, ThreadOK, PlaceOK, ThreadsOK, PutPlaces, HwPlaces, RxPlaces,
          KitPlaces, NextChar
  <2>3. DeviceOK'
    BY <1>10, <1>0, <1>b DEF PutData, DeviceOK, WriteDR, FrTxFull
  <2> QED
    BY <1>10, <2>1, <2>2, <2>3 DEF PutData, kext
<1>11. CASE GetChar(t)
  <2>1. Local(t)
    BY <1>11, <1>0, <1>a DEF GetChar, Local, ThreadsOK, ReadDR
  <2>2. ThreadOK(t)'
    BY <1>11, <1>0, <1>b
      DEF GetChar, ThreadOK, PlaceOK, ThreadsOK, PutPlaces, HwPlaces, RxPlaces,
          KitPlaces
  <2>3. DeviceOK'
    BY <1>11, <1>0, <1>b DEF GetChar, DeviceOK, ReadDR, FrRxEmpty
  <2> QED
    BY <1>11, <2>1, <2>2, <2>3 DEF GetChar, kext
<1> QED
  BY <1>1, <1>2, <1>3, <1>4, <1>5, <1>6, <1>7, <1>8, <1>9, <1>10, <1>11 DEF HwInit, PutChar

LEMMA FaultTyped ==
  ASSUME TInv, NEW t \in Threads, Fault(t)
  PROVE  TInv'
<1>1. fault' = TRUE /\ UNCHANGED <<working, enabled, tx, rx, shift, ibrd, fbrd, line, pc, todo, spins,
                                   baud, after, waited, made, mapped, regs, registered>>
  BY Zenon DEF Fault, device, threads, places, kext
<1>2. fault' \in BOOLEAN
  BY <1>1, Zenon
<1> QED
  BY <1>1, <1>2 DEF TInv, TypeOK, DeviceOK, ThreadsOK, KextOK, PlaceOK

LEMMA CallTyped ==
  ASSUME TInv, NEW t \in Callers, CallerCall(t)
  PROVE  Local(t) /\ TInv'
<1> USE DEF At, GoTo
<1>0. /\ ThreadsOK /\ DeviceOK /\ KextOK /\ PlaceOK(t) /\ t \in Threads /\ t # Kit
      /\ todo[t] \in Nat /\ spins[t] \in -1 .. Polls /\ baud[t] \in Nat \ {0}
      /\ after[t] \in {"idle", "banner", "register", "disable"} /\ waited[t] \in Nat
  BY SerialAssumption DEF TInv, TypeOK, ThreadsOK, Threads
<1>1. /\ pc = [pc EXCEPT ![t] = pc[t]] /\ todo = [todo EXCEPT ![t] = todo[t]]
      /\ spins = [spins EXCEPT ![t] = spins[t]] /\ baud = [baud EXCEPT ![t] = baud[t]]
      /\ after = [after EXCEPT ![t] = after[t]] /\ waited = [waited EXCEPT ![t] = waited[t]]
  BY <1>0, Unmoved DEF ThreadsOK
<1>2. \/ \E n \in Lengths : BeginPut(t, n, "idle")
      \/ \E b \in Bauds : BeginInit(t, b, "idle")
      \/ BeginGet(t)
  BY DEF CallerCall
<1>w. waited' = waited
  BY DEF CallerCall
<1>3. Local(t) /\ ThreadOK(t)'
  <2>1. CASE \E n \in Lengths : BeginPut(t, n, "idle")
    BY <2>1, <1>0, <1>1, <1>w, SerialAssumption
      DEF BeginPut, Local, ThreadsOK, ThreadOK, PlaceOK, PutPlaces, HwPlaces, RxPlaces
  <2>2. CASE \E b \in Bauds : BeginInit(t, b, "idle")
    BY <2>2, <1>0, <1>1, <1>w, SerialAssumption
      DEF BeginInit, Local, ThreadsOK, ThreadOK, PlaceOK, PutPlaces, HwPlaces, RxPlaces
  <2>3. CASE BeginGet(t)
    BY <2>3, <1>0, <1>1, <1>w
      DEF BeginGet, Local, ThreadsOK, ThreadOK, PlaceOK, PutPlaces, HwPlaces, RxPlaces
  <2> QED
    BY <1>2, <2>1, <2>2, <2>3
<1>4. made' \in [Callers -> 0 .. MaxCalls]
  BY <1>0, SerialAssumption DEF CallerCall, KextOK
<1>5. DeviceOK' /\ KextOK'
  BY <1>0, <1>4 DEF CallerCall, DeviceOK, KextOK, device, kext
<1> QED
  BY <1>0, <1>3, <1>5, LocalTyped DEF TInv, TypeOK

LEMMA KitTyped ==
  ASSUME TInv, Lifecycle
  PROVE  Local(Kit) /\ TInv'
<1> USE DEF At, GoTo
<1>0. /\ ThreadsOK /\ DeviceOK /\ KextOK /\ PlaceOK(Kit) /\ Kit \in Threads
      /\ todo[Kit] \in Nat /\ spins[Kit] \in -1 .. Polls /\ baud[Kit] \in Nat \ {0}
      /\ after[Kit] \in {"idle", "banner", "register", "disable"} /\ waited[Kit] \in Nat
  BY DEF TInv, TypeOK, ThreadsOK, Threads
<1>1. /\ pc = [pc EXCEPT ![Kit] = pc[Kit]] /\ todo = [todo EXCEPT ![Kit] = todo[Kit]]
      /\ spins = [spins EXCEPT ![Kit] = spins[Kit]] /\ baud = [baud EXCEPT ![Kit] = baud[Kit]]
      /\ after = [after EXCEPT ![Kit] = after[Kit]] /\ waited = [waited EXCEPT ![Kit] = waited[Kit]]
  BY <1>0, Unmoved DEF ThreadsOK
<1>2. CASE StartMap
  <2>1. Local(Kit) /\ ThreadOK(Kit)'
    BY <1>0, <1>1, <1>2, SerialAssumption
      DEF StartMap, BeginInit, Local, ThreadsOK, ThreadOK, PlaceOK, PutPlaces, HwPlaces,
          KitPlaces
  <2>2. mapped' \in BOOLEAN /\ regs' \in BOOLEAN
    BY <1>0, <1>2, Zenon DEF StartMap, KextOK
  <2>3. UNCHANGED <<device, registered, fault, made>>
    BY <1>2 DEF StartMap
  <2>4. DeviceOK' /\ KextOK'
    BY <1>0, <2>2, <2>3 DEF DeviceOK, KextOK, device
  <2> QED
    BY <1>0, <2>1, <2>4, LocalTyped DEF TInv, TypeOK
<1>3. CASE StartBanner \/ Stop
  <2>1. Local(Kit) /\ ThreadOK(Kit)'
    BY <1>0, <1>1, <1>3
      DEF StartBanner, Stop, BeginPut, Local, ThreadsOK, ThreadOK, PlaceOK, PutPlaces,
          HwPlaces, KitPlaces
  <2>2. DeviceOK' /\ KextOK'
    BY <1>0, <1>3 DEF StartBanner, Stop, DeviceOK, KextOK, device, kext
  <2> QED
    BY <1>0, <2>1, <2>2, LocalTyped DEF TInv, TypeOK
<1>4. CASE Register
  <2>1. Local(Kit) /\ ThreadOK(Kit)'
    BY <1>0, <1>1, <1>4
      DEF Register, Local, ThreadsOK, ThreadOK, PlaceOK, PutPlaces, HwPlaces, KitPlaces
  <2>2. registered' \in BOOLEAN
    BY <1>4, Zenon DEF Register
  <2>3. DeviceOK' /\ KextOK'
    BY <1>0, <1>4, <2>2 DEF Register, DeviceOK, KextOK, device
  <2> QED
    BY <1>0, <2>1, <2>3, LocalTyped DEF TInv, TypeOK
<1>5. CASE StopDisable
  <2>1. Local(Kit) /\ ThreadOK(Kit)'
    BY <1>0, <1>1, <1>5
      DEF StopDisable, Accesses, Local, ThreadsOK, ThreadOK, PlaceOK, PutPlaces, HwPlaces, KitPlaces
  <2>2. enabled' \in BOOLEAN
    BY <1>5, Zenon DEF StopDisable, WriteCR
  <2>3. DeviceOK' /\ KextOK'
    BY <1>0, <1>5, <2>2 DEF StopDisable, Accesses, Reaches, WriteCR, DeviceOK, KextOK, kext
  <2> QED
    BY <1>0, <2>1, <2>3, LocalTyped DEF TInv, TypeOK
<1>6. CASE StopRelease
  <2>1. Local(Kit) /\ ThreadOK(Kit)'
    BY <1>0, <1>1, <1>6
      DEF StopRelease, Local, ThreadsOK, ThreadOK, PlaceOK, PutPlaces, HwPlaces, KitPlaces
  <2>2. mapped' \in BOOLEAN /\ regs' \in BOOLEAN
    BY <1>0, <1>6, Zenon DEF StopRelease, KextOK
  <2>3. UNCHANGED <<device, registered, fault, made>>
    BY <1>6 DEF StopRelease
  <2>4. DeviceOK' /\ KextOK'
    BY <1>0, <2>2, <2>3 DEF DeviceOK, KextOK, device
  <2> QED
    BY <1>0, <2>1, <2>4, LocalTyped DEF TInv, TypeOK
<1> QED
  BY <1>2, <1>3, <1>4, <1>5, <1>6 DEF Lifecycle

LEMMA DeviceTyped ==
  ASSUME TInv, DeviceStep
  PROVE  TInv'
<1>1. UNCHANGED <<pc, todo, spins, baud, after, made, mapped, regs, registered, fault>>
  BY DEF DeviceStep, threads, places, kext
<1>2. DeviceOK /\ FifoDepth \in Nat
  BY SerialAssumption DEF TInv, TypeOK
<1>3. working' \in BOOLEAN /\ shift' \in BOOLEAN
  BY <1>2, Zenon DEF DeviceStep, Load, Finish, Arrive, Break, DeviceOK
<1>4. tx' \in 0 .. FifoDepth /\ rx' \in 0 .. FifoDepth
      /\ UNCHANGED <<enabled, ibrd, fbrd, line>>
  BY <1>2 DEF DeviceStep, Load, Finish, Arrive, Break, DeviceOK
<1>5. DeviceOK'
  BY <1>2, <1>3, <1>4 DEF DeviceOK
<1>6. waited' \in [Threads -> Nat]
  BY DEF DeviceStep, TInv, TypeOK, ThreadsOK
<1> QED
  BY <1>1, <1>5, <1>6 DEF TInv, TypeOK, ThreadsOK, KextOK, PlaceOK

LEMMA TInvHolds == Init => TInv
<1> SUFFICES ASSUME Init PROVE TInv
  OBVIOUS
<1>1. /\ FifoDepth \in Nat /\ Polls \in Nat /\ StartBaud \in Nat \ {0} /\ MaxCalls \in Nat
      /\ Kit \in Threads
  BY SerialAssumption DEF Threads
<1>2. shift = FALSE /\ mapped = FALSE /\ regs = FALSE /\ registered = FALSE /\ fault = FALSE
  BY Zenon DEF Init, PL011Init
<1>3. /\ shift \in BOOLEAN /\ mapped \in BOOLEAN /\ regs \in BOOLEAN
      /\ registered \in BOOLEAN /\ fault \in BOOLEAN
  BY <1>2, Zenon
<1>4. DeviceOK
  BY <1>1, <1>3 DEF Init, PL011Init, DeviceOK
<1>5. ThreadsOK
  BY <1>1 DEF Init, ThreadsOK, Resting
<1>6. KextOK
  BY <1>1, <1>3 DEF Init, KextOK
<1>7. \A t \in Threads : PlaceOK(t)
  BY DEF Init, PlaceOK, PutPlaces, HwPlaces, KitPlaces
<1> QED
  BY <1>4, <1>5, <1>6, <1>7 DEF TInv, TypeOK

LEMMA TInvStep ==
  ASSUME TInv, [Next]_vars
  PROVE  TInv'
<1>1. ASSUME NEW t \in Threads, Inside(t) PROVE TInv'
  <2>1. CASE Fault(t)
    BY <2>1, FaultTyped
  <2>2. CASE HwInit(t) \/ PutChar(t) \/ GetChar(t)
    <3>1. Local(t) /\ ThreadOK(t)' /\ DeviceOK' /\ UNCHANGED <<kext, fault, made>>
      BY <2>2, InsideIsLocal
    <3>2. KextOK'
      BY <3>1 DEF TInv, TypeOK, KextOK, kext
    <3> QED
      BY <3>1, <3>2, LocalTyped DEF TInv, TypeOK
  <2> QED
    BY <1>1, <2>1, <2>2 DEF Inside
<1>2. ASSUME NEW t \in Callers, CallerCall(t) PROVE TInv'
  BY <1>2, CallTyped
<1>3. CASE Lifecycle
  BY <1>3, KitTyped
<1>4. CASE DeviceStep
  BY <1>4, DeviceTyped
<1>5. CASE UNCHANGED vars
  BY <1>5
    DEF vars, device, threads, places, kext, TInv, TypeOK, DeviceOK, ThreadsOK, KextOK, PlaceOK
<1> QED
  BY <1>1, <1>2, <1>3, <1>4, <1>5 DEF Next

\* Whatever the callers, the I/O Kit thread and the UART do at the same time,
\* every variable keeps its type; the timeout of a polling loop, for one,
\* never counts below -1, and the FIFOs never hold more than their depth.
THEOREM SerialTypes == Spec => []TypeOK
<1>1. TInv /\ [Next]_vars => TInv'
  BY TInvStep
<1>2. TInv => TypeOK
  BY DEF TInv
<1> QED
  BY <1>1, <1>2, TInvHolds, PTL DEF Spec

-----------------------------------------------------------------------------
(* Callers that take turns *)

LEMMA SInvHolds == Init => SInv
<1> SUFFICES ASSUME Init PROVE SInv
  OBVIOUS
<1>1. /\ \A t \in Threads : pc[t] = IF t = Kit THEN "unstarted" ELSE "idle"
      /\ Kit \in Threads
  BY DEF Init, Threads
<1>2. ~mapped /\ ~registered /\ ~fault
  BY DEF Init
<1>3. Mapping /\ Turns /\ \A t \in Threads : Remembered(t)
  BY <1>1, <1>2 DEF Mapping, Turns, Busy, Resting, Remembered, HwPlaces
<1>4. ~Settled
  BY <1>1 DEF Settled
<1> QED
  BY <1>2, <1>3, <1>4, TInvHolds DEF SInv

\* Nobody but the thread inside is anywhere the invariant speaks of.
LEMMA OthersRest ==
  ASSUME SInv, NEW t \in Threads, Local(t),
         \A u \in Threads \ {t} : pc[u] \in Resting
  PROVE  \A u \in Threads \ {t} : pc'[u] = pc[u] /\ pc'[u] \in Resting /\ Remembered(u)'
<1>1. \A u \in Threads \ {t} : pc'[u] = pc[u] /\ pc'[u] \in Resting
  BY LocalFrame DEF SInv
<1> QED
  BY <1>1 DEF Remembered, Resting, HwPlaces

\* The parts of SInv that a step of the only busy thread can disturb.
LEMMA StepOfOne ==
  ASSUME SInv, NEW t \in Threads, Local(t), TInv', ~fault',
         \A u \in Threads \ {t} : pc[u] \in Resting,
         t # Kit => pc[Kit] = "started" \/ pc'[t] \in Resting,
         Mapping', Remembered(t)', Settled' => line' \in Rates
  PROVE  SInv'
<1>1. \A u \in Threads \ {t} : pc'[u] = pc[u] /\ pc'[u] \in Resting /\ Remembered(u)'
  BY OthersRest
<1>2. Kit \in Threads
  BY DEF Threads
<1>3. Turns'
  BY <1>1, <1>2 DEF Turns, Busy
<1>4. Rates' = Rates
  BY DEF Rates, Ibrd, Fbrd
<1> QED
  BY <1>1, <1>3, <1>4 DEF SInv

\* Where a step inside the driver leads, and what it leaves behind there.
LEMMA InsidePlaces ==
  ASSUME SInv, NEW t \in Threads, HwInit(t) \/ PutChar(t) \/ GetChar(t)
  PROVE  /\ pc[t] \in PutPlaces \cup HwPlaces \cup RxPlaces
         /\ pc'[t] \in PutPlaces \cup HwPlaces \cup RxPlaces
                         \cup (IF t = Kit THEN {"banner", "register", "disable"} ELSE {"idle"})
         /\ pc'[t] \in HwPlaces => pc[t] \in HwPlaces
         /\ Remembered(t)'
         /\ \/ pc'[t] \in HwPlaces \ {"hw_cr"}
            \/ pc[t] = "hw_enable" /\ line' \in Rates
            \/ pc[t] \notin HwPlaces /\ pc'[t] \notin HwPlaces /\ UNCHANGED line
<1> USE DEF Accesses, Reaches, At, GoTo
<1>0. /\ ThreadsOK /\ DeviceOK /\ PlaceOK(t) /\ Remembered(t)
      /\ Rates' = Rates
  BY DEF SInv, TInv, TypeOK, Rates, Ibrd, Fbrd
<1>1. \A b : Ibrd(b)' = Ibrd(b) /\ Fbrd(b)' = Fbrd(b)
  BY DEF Ibrd, Fbrd
<1>2. CASE HwDisable(t)
  BY <1>0, <1>1, <1>2
    DEF HwDisable, WriteCR, ThreadsOK, DeviceOK, PlaceOK, Remembered, PutPlaces,
        HwPlaces, RxPlaces
<1>3. CASE HwWait(t)
  BY <1>0, <1>1, <1>3
    DEF HwWait, FrBusy, CanMove, device, ThreadsOK, DeviceOK, PlaceOK, Remembered,
        PutPlaces, HwPlaces, RxPlaces
<1>4. CASE HwDrain(t)
  BY <1>0, <1>1, <1>4
    DEF HwDrain, ReadDR, device, ThreadsOK, DeviceOK, PlaceOK, Remembered, PutPlaces,
        HwPlaces, RxPlaces
<1>5. CASE HwIbrd(t)
  BY <1>0, <1>1, <1>5
    DEF HwIbrd, WriteIBRD, ThreadsOK, DeviceOK, PlaceOK, Remembered, PutPlaces,
        HwPlaces, RxPlaces
<1>6. CASE HwFbrd(t)
  BY <1>0, <1>1, <1>6
    DEF HwFbrd, WriteFBRD, ThreadsOK, DeviceOK, PlaceOK, Remembered, PutPlaces,
        HwPlaces, RxPlaces
<1>7. CASE HwLine(t)
  <2>1. /\ pc[t] = "hw_lcrh" /\ pc'[t] = "hw_enable" /\ line' = <<ibrd, fbrd>>
        /\ UNCHANGED <<working, enabled, shift, baud>>
    BY <1>0, <1>7 DEF HwLine, WriteLCRH, ThreadsOK
  <2>2. line' \in Rates
    BY <1>0, <2>1 DEF Remembered, Rates, HwPlaces
  <2> QED
    BY <1>0, <2>1, <2>2 DEF Remembered, PutPlaces, HwPlaces, RxPlaces
<1>8. CASE HwEnable(t)
  BY <1>0, <1>1, <1>8
    DEF HwEnable, WriteCR, ThreadsOK, DeviceOK, PlaceOK, Remembered, PutPlaces,
        HwPlaces, RxPlaces
<1>9. CASE Check(t)
  BY <1>0, <1>1, <1>9
    DEF Check, NextChar, device, ThreadsOK, DeviceOK, PlaceOK, Remembered, PutPlaces,
        HwPlaces, RxPlaces
<1>10. CASE Poll(t)
  BY <1>0, <1>1, <1>10
    DEF Poll, NextChar, FrTxFull, device, ThreadsOK, DeviceOK, PlaceOK, Remembered,
        PutPlaces, HwPlaces, RxPlaces
<1>11. CASE PutData(t)
  BY <1>0, <1>1, <1>11
    DEF PutData, WriteDR, NextChar, ThreadsOK, DeviceOK, PlaceOK, Remembered, PutPlaces,
        HwPlaces, RxPlaces
<1>12. CASE GetChar(t)
  <2>1. /\ pc[t] \in RxPlaces /\ pc'[t] \in {"rx_poll", "rx_read", "idle"}
        /\ UNCHANGED <<line, baud>> /\ (pc'[t] = "rx_read" => ~FrRxEmpty /\ UNCHANGED rx)
    BY <1>0, <1>12 DEF GetChar, ReadDR, device, ThreadsOK, RxPlaces
  <2>2. t # Kit
    BY <1>0, <2>1 DEF PlaceOK, PutPlaces, HwPlaces, RxPlaces, KitPlaces
  <2> QED
    BY <1>0, <2>1, <2>2 DEF Remembered, FrRxEmpty, PutPlaces, HwPlaces, RxPlaces
<1> QED
  BY <1>2, <1>3, <1>4, <1>5, <1>6, <1>7, <1>8, <1>9, <1>10, <1>11, <1>12 DEF HwInit, PutChar

LEMMA InsideTurn ==
  ASSUME SInv, NEW t \in Threads, HwInit(t) \/ PutChar(t) \/ GetChar(t)
  PROVE  SInv'
<1>0. /\ TInv /\ Mapping /\ Turns /\ ~fault /\ Kit \in Threads
      /\ Settled => line \in Rates
  BY DEF SInv, Threads
<1>1. Local(t) /\ ThreadOK(t)' /\ DeviceOK' /\ UNCHANGED <<kext, fault, made>>
  BY <1>0, InsideIsLocal
<1>2. TInv' /\ ~fault'
  <2>1. KextOK'
    BY <1>0, <1>1 DEF TInv, TypeOK, KextOK, kext
  <2> QED
    BY <1>0, <1>1, <2>1, LocalTyped DEF TInv, TypeOK
<1>3. /\ pc[t] \in PutPlaces \cup HwPlaces \cup RxPlaces
      /\ pc'[t] \in PutPlaces \cup HwPlaces \cup RxPlaces
                      \cup (IF t = Kit THEN {"banner", "register", "disable"} ELSE {"idle"})
      /\ pc'[t] \in HwPlaces => pc[t] \in HwPlaces
      /\ Remembered(t)'
  BY InsidePlaces
<1>4. /\ \A u \in Threads \ {t} : pc[u] \in Resting
      /\ t # Kit => pc[Kit] = "started"
  BY <1>0, <1>3 DEF Turns, Busy, Resting, PutPlaces, HwPlaces, RxPlaces
<1>5. \A u \in Threads \ {t} : pc'[u] = pc[u]
  BY <1>0, <1>1, LocalFrame
<1>6. Mapping'
  BY <1>0, <1>1, <1>3, <1>4, <1>5 DEF Mapping, kext, PutPlaces, HwPlaces, RxPlaces
<1>7. Settled' => line' \in Rates
  <2>1. CASE pc'[t] \in HwPlaces \ {"hw_cr"}
    BY <2>1 DEF Settled
  <2>2. CASE pc[t] \notin HwPlaces /\ pc'[t] \notin HwPlaces /\ UNCHANGED line
    <3>1. pc[Kit] \notin {"unstarted", "absent"} \cup HwPlaces
      BY <1>3, <1>4, <2>2 DEF PutPlaces, HwPlaces, RxPlaces
    <3>2. Settled
      BY <1>4, <2>2, <3>1 DEF Settled, Resting, HwPlaces
    <3> QED
      BY <1>0, <2>2, <3>2
  <2> QED
    BY <2>1, <2>2, InsidePlaces
<1> QED
  BY <1>1, <1>2, <1>3, <1>4, <1>6, <1>7, StepOfOne

LEMMA CallTurn ==
  ASSUME SInv, Serialised = TRUE, NEW t \in Callers, CallerCall(t)
  PROVE  SInv'
<1>0. /\ TInv /\ Mapping /\ ~fault /\ Remembered(t) /\ t \in Threads /\ t # Kit
      /\ Settled => line \in Rates
  BY SerialAssumption DEF SInv, Threads
<1>1. Local(t) /\ TInv'
  BY <1>0, CallTyped
<1>2. /\ pc[Kit] = "started" /\ \A u \in Threads : pc[u] \in Resting
      /\ UNCHANGED <<device, kext, fault>>
  BY DEF CallerCall, Busy, At, Resting, Threads
<1>3. /\ pc'[t] \in {"check", "hw_cr", "rx_check"}
      /\ pc'[t] = "hw_cr" => baud'[t] \in Bauds
  <2>1. pc \in [Threads -> Resting \cup RegisterPlaces \cup
                  {"check", "rx_check", "banner", "register", "release", "forget"}]
        /\ baud \in [Threads -> Nat \ {0}]
    BY <1>0 DEF TInv, TypeOK, ThreadsOK
  <2> QED
    BY <1>0, <2>1 DEF CallerCall, BeginPut, BeginInit, BeginGet, GoTo
<1>4. \A u \in Threads \ {t} : pc'[u] = pc[u]
  BY <1>0, <1>1, LocalFrame
<1>5. Kit \in Threads /\ pc'[Kit] = "started"
  BY <1>0, <1>2, <1>4 DEF Threads
<1>6. Mapping' /\ Remembered(t)'
  BY <1>0, <1>2, <1>3, <1>5 DEF Mapping, Remembered, kext, HwPlaces
<1>7. Settled /\ UNCHANGED line
  BY <1>2 DEF Settled, Resting, HwPlaces, device
<1> QED
  BY <1>0, <1>1, <1>2, <1>6, <1>7, StepOfOne

LEMMA KitTurn ==
  ASSUME SInv, Serialised = TRUE, Lifecycle
  PROVE  SInv'
<1> USE DEF At, GoTo
<1>0. /\ TInv /\ Mapping /\ Turns /\ ~fault /\ Remembered(Kit) /\ Kit \in Threads
      /\ Settled => line \in Rates
      /\ pc \in [Threads -> Resting \cup RegisterPlaces \cup
                   {"check", "rx_check", "banner", "register", "release", "forget"}]
      /\ baud \in [Threads -> Nat \ {0}]
      /\ \A u \in Threads : PlaceOK(u)
  BY DEF SInv, TInv, TypeOK, ThreadsOK, Threads
<1>1. Local(Kit) /\ TInv'
  BY <1>0, KitTyped
<1>2. ~fault' /\ UNCHANGED fault
  <2>1. fault' = fault
    BY Zenon DEF Lifecycle, StartMap, StartBanner, Register, Stop, StopDisable, StopRelease,
         Accesses, Reaches
  <2> QED
    BY <1>0, <2>1
<1>3. \A u \in Threads \ {Kit} : pc'[u] = pc[u]
  BY <1>0, <1>1, LocalFrame
<1>4. \A u \in Threads \ {Kit} : pc[u] \in Resting
  <2>1. pc[Kit] # "started" => \A u \in Threads \ {Kit} : ~Busy(u)
    BY <1>0 DEF Turns
  <2>2. pc[Kit] = "started" => \A u \in Callers : ~Busy(u)
    BY
      DEF Lifecycle, StartMap, StartBanner, Register, Stop, StopDisable, StopRelease,
          Accesses, Reaches
  <2> QED
    BY <2>1, <2>2 DEF Busy, Threads
<1>5. /\ Mapping' /\ Remembered(Kit)'
      /\ pc'[Kit] \in {"absent", "hw_cr"}
           \/ (pc[Kit] \notin {"unstarted", "absent"} \cup HwPlaces /\ UNCHANGED line)
  <2>1. CASE StartMap
    BY <1>0, <2>1 DEF StartMap, BeginInit, Mapping, Remembered, HwPlaces
  <2>2. CASE StartBanner \/ Stop
    BY <1>0, <2>2
      DEF StartBanner, Stop, BeginPut, Mapping, Remembered, HwPlaces, kext, device
  <2>3. CASE Register
    BY <1>0, <2>3 DEF Register, Mapping, Remembered, HwPlaces, device
  <2>4. CASE StopDisable
    BY <1>0, <2>4 DEF StopDisable, Accesses, Reaches, WriteCR, Mapping, Remembered, HwPlaces, kext
  <2>5. CASE StopRelease
    BY <1>0, <2>5 DEF StopRelease, Mapping, Remembered, HwPlaces, device
  <2> QED
    BY <2>1, <2>2, <2>3, <2>4, <2>5 DEF Lifecycle
<1>6. Settled' => line' \in Rates
  <2>1. CASE pc'[Kit] \in {"absent", "hw_cr"}
    BY <2>1 DEF Settled, HwPlaces
  <2>2. CASE pc[Kit] \notin {"unstarted", "absent"} \cup HwPlaces /\ UNCHANGED line
    <3>1. Settled
      BY <1>0, <1>4, <2>2 DEF Settled, Resting, HwPlaces
    <3> QED
      BY <1>0, <2>2, <3>1
  <2> QED
    BY <1>5, <2>1, <2>2
<1> QED
  BY <1>0, <1>1, <1>2, <1>4, <1>5, <1>6, StepOfOne

\* The UART makes room and characters; it takes neither away.
LEMMA DeviceTurn ==
  ASSUME SInv, DeviceStep
  PROVE  SInv'
<1>0. /\ TInv /\ Mapping /\ Turns /\ ~fault /\ DeviceOK
      /\ \A t \in Threads : Remembered(t)
      /\ Settled => line \in Rates
      /\ FifoDepth \in Nat
  BY SerialAssumption DEF SInv, TInv, TypeOK
<1>1. UNCHANGED <<pc, baud, mapped, regs, registered, fault, enabled, ibrd, fbrd, line>>
  BY DEF DeviceStep, Load, Finish, Arrive, Break, threads, places, kext
<1>2. /\ ~FrTxFull => ~FrTxFull'
      /\ ~FrRxEmpty => ~FrRxEmpty'
  BY <1>0 DEF DeviceStep, Load, Finish, Arrive, Break, FrTxFull, FrRxEmpty, DeviceOK
<1>3. Rates' = Rates /\ \A b : Ibrd(b)' = Ibrd(b) /\ Fbrd(b)' = Fbrd(b)
  BY DEF Rates, Ibrd, Fbrd
<1>4. ASSUME NEW t \in Threads PROVE Remembered(t)'
  BY <1>0, <1>1, <1>2, <1>3 DEF Remembered, HwPlaces
<1>5. Mapping' /\ Turns' /\ (Settled' => line' \in Rates')
  BY <1>0, <1>1, <1>3 DEF Mapping, Turns, Busy, Settled
<1> QED
  BY <1>0, <1>1, <1>4, <1>5, DeviceTyped DEF SInv

LEMMA SInvStep ==
  ASSUME SInv, Serialised = TRUE, [Next]_vars
  PROVE  SInv'
<1>1. ASSUME NEW t \in Threads, Inside(t) PROVE SInv'
  <2>1. ~Fault(t)
    <3>1. Mapping /\ Turns /\ PlaceOK(t) /\ (t # Kit => pc[t] \notin KitPlaces \ {"disable"})
      BY DEF SInv, TInv, PlaceOK, KitPlaces, PutPlaces, HwPlaces, RxPlaces
    <3>2. pc[t] \in RegisterPlaces => Busy(t) /\ (t # Kit => pc[Kit] = "started")
      BY <3>1 DEF Turns, Busy, Resting, RegisterPlaces
    <3>3. pc[t] \in RegisterPlaces => mapped
      BY <3>1, <3>2 DEF Mapping, RegisterPlaces
    <3> QED
      BY <3>3 DEF Fault
  <2> QED
    BY <1>1, <2>1, InsideTurn DEF Inside
<1>2. ASSUME NEW t \in Callers, CallerCall(t) PROVE SInv'
  BY <1>2, CallTurn
<1>3. CASE Lifecycle
  BY <1>3, KitTurn
<1>4. CASE DeviceStep
  BY <1>4, DeviceTurn
<1>5. CASE UNCHANGED vars
  <2>1. UNCHANGED <<pc, todo, spins, baud, after, waited, made, mapped, regs, registered, fault,
                    working, enabled, tx, rx, shift, ibrd, fbrd, line>>
    BY <1>5 DEF vars, device, threads, places, kext
  <2>2. TInv'
    BY <1>5, TInvStep DEF SInv
  <2>3. Rates' = Rates /\ \A b : Ibrd(b)' = Ibrd(b) /\ Fbrd(b)' = Fbrd(b)
    BY DEF Rates, Ibrd, Fbrd
  <2>4. \A t \in Threads : Remembered(t)'
    BY <2>1, <2>3 DEF SInv, Remembered, FrTxFull, FrRxEmpty
  <2> QED
    BY <2>1, <2>2, <2>3, <2>4 DEF SInv, Mapping, Turns, Busy, Settled
<1> QED
  BY <1>1, <1>2, <1>3, <1>4, <1>5 DEF Next

LEMMA TurnsKept ==
  ASSUME Serialised = TRUE
  PROVE  Spec => []SInv
<1>1. SInv /\ [Next]_vars => SInv'
  BY SInvStep
<1> QED
  BY <1>1, SInvHolds, PTL DEF Spec

\* With callers that take turns and keep away from stop, no register is
\* accessed before start has mapped it or after stop has unmapped it.
THEOREM MappedWhenUsed ==
  ASSUME Serialised = TRUE
  PROVE  Spec => []NoFault
<1>1. SInv => NoFault
  BY DEF SInv, NoFault
<1> QED
  BY <1>1, TurnsKept, PTL

\* With callers that take turns, putChar never writes to a full FIFO, whatever
\* the transmitter does between the poll and the write.
THEOREM NoCharacterLost ==
  ASSUME Serialised = TRUE
  PROVE  Spec => []NoOverrun
<1>1. SInv => NoOverrun
  BY DEF SInv, Remembered, NoOverrun, At
<1> QED
  BY <1>1, TurnsKept, PTL

\* With callers that take turns, getChar never reads an empty FIFO.
THEOREM NoPhantomCharacter ==
  ASSUME Serialised = TRUE
  PROVE  Spec => []NoEmptyRead
<1>1. SInv => NoEmptyRead
  BY DEF SInv, Remembered, NoEmptyRead, At
<1> QED
  BY <1>1, TurnsKept, PTL

\* With callers that take turns, a UART that runs after start runs on both
\* divisors of one rate: nobody sees it between two rates.
THEOREM RateNeverMixed ==
  ASSUME Serialised = TRUE
  PROVE  Spec => []OneRate
<1>1. ASSUME SInv PROVE OneRate
  <2>1. SUFFICES ASSUME registered, enabled, mapped
                 PROVE  line \in Rates
    BY DEF OneRate, Rates
  <2>2. \A t \in Threads : pc[t] \notin HwPlaces \ {"hw_cr"}
    BY <1>1, <2>1 DEF SInv, Remembered
  <2>3. pc[Kit] \notin {"unstarted", "absent"} \cup HwPlaces
    BY <1>1, <2>1, <2>2 DEF SInv, Mapping
  <2> QED
    BY <1>1, <2>2, <2>3 DEF SInv, Settled
<1> QED
  BY <1>1, TurnsKept, PTL

-----------------------------------------------------------------------------
(* Characters cut or given up *)

\* From here on a character is out before a timeout is over, at every rate.

\* The UART runs on the divisors of a rate, or on none before start.
Lined == line \in Rates \cup {<<0, 0>>}

\* Outside hw_init the UART of a service that runs is on.
Powered == Settled /\ pc[Kit] \notin {"release", "forget", "stopped"} => enabled

\* The rounds t has spent of its timeout are rounds it has waited for one and the
\* same character to leave a transmitter that works; those left are enough.
Patient(t) ==
  /\ pc[t] = "poll" /\ working =>
       spins[t] > 0 /\ (FrTxFull => waited[t] + spins[t] >= Polls)
  /\ pc[t] = "hw_busy" /\ working /\ shift => waited[t] + spins[t] >= Polls
  /\ pc[t] \in {"hw_drain", "hw_ibrd", "hw_fbrd", "hw_lcrh"} => ~(working /\ shift)

GInv == SInv /\ Lined /\ Powered /\ \A t \in Threads : Patient(t)

\* The divisors in use let a character out in less than the rounds of a timeout.
LEMMA QuickLine ==
  ASSUME Quick, Lined
  PROVE  CharRounds(line) \in Int /\ CharRounds(line) < Polls /\ Polls > 1
<1>1. /\ Clock \div 1000000 \in Nat \ {0} /\ Round \in Nat \ {0}
      /\ StartBaud \in Nat \ {0} /\ Bauds \subseteq Nat \ {0} /\ Polls \in Nat
  BY SerialAssumption
<1> DEFINE d == 64 * (Clock \div 1000000) * Round
<1>2. d \in Nat \ {0}
  <2>1. (Clock \div 1000000) * Round \in Nat \ {0}
    BY <1>1
  <2>2. d = 64 * ((Clock \div 1000000) * Round)
    BY <1>1
  <2> QED
    BY <2>1, <2>2
<1>3. \A n \in Nat : n \div d \in Nat
  BY <1>2
<1>4. 0 \div d = 0
  BY <1>2
<1>5. \A i, j \in Nat : 160 * (64 * i + j) \in Nat
  OBVIOUS
<1>6. \A i, j \in Nat : CharRounds(<<i, j>>) = (160 * (64 * i + j)) \div d + 1
  BY DEF CharRounds
<1> HIDE DEF d
<1>7. ASSUME NEW i \in Nat, NEW j \in Nat
      PROVE  CharRounds(<<i, j>>) \in Nat \ {0}
  <2> DEFINE n == 160 * (64 * i + j)
  <2>1. n \in Nat
    BY <1>5
  <2>2. CharRounds(<<i, j>>) = n \div d + 1
    BY <1>6
  <2> HIDE DEF n
  <2>3. n \div d \in Nat
    BY <1>3, <2>1
  <2> QED
    BY <2>2, <2>3
<1>8. CharRounds(<<0, 0>>) = 1
  <2>1. CharRounds(<<0, 0>>) = (160 * (64 * 0 + 0)) \div d + 1
    BY <1>6
  <2>2. 160 * (64 * 0 + 0) = 0
    OBVIOUS
  <2>3. CharRounds(<<0, 0>>) = 0 + 1
    BY <1>4, <2>1, <2>2, Zenon
  <2> QED
    BY <2>3
<1>9. \A r \in Rates : CharRounds(r) \in Nat \ {0} /\ CharRounds(r) < Polls
  BY <1>1, <1>7, Divisors DEF Rates, Quick
<1>10. Polls > 1
  <2>1. <<Ibrd(StartBaud) % 65536, Fbrd(StartBaud) % 64>> \in Rates
    BY DEF Rates
  <2> QED
    BY <1>1, <1>9, <2>1
<1> QED
  BY <1>8, <1>9, <1>10 DEF Lined

\* The end of hw_init switches the UART on; outside hw_init no step of the
\* driver switches it, and none repairs it.
LEMMA InsideSwitch ==
  ASSUME TInv, NEW t \in Threads, HwInit(t) \/ PutChar(t) \/ GetChar(t)
  PROVE  /\ pc[t] = "hw_enable" => enabled'
         /\ pc[t] \notin HwPlaces => enabled' = enabled
         /\ working' = working
<1> USE DEF HwInit, HwDisable, HwWait, HwDrain, HwIbrd, HwFbrd, HwLine, HwEnable, PutChar,
            Check, Poll, PutData, GetChar, Accesses, Reaches, At, HwPlaces, device
<1>1. pc[t] = "hw_enable" => enabled' = TRUE
  BY DEF WriteCR
<1>2. pc[t] \notin HwPlaces => enabled' = enabled
  BY DEF ReadDR, WriteDR
<1>3. working' = working
  BY DEF ReadDR, WriteDR, WriteCR, WriteIBRD, WriteFBRD, WriteLCRH
<1> QED
  BY <1>1, <1>2, <1>3, Zenon

\* While t waits in hw_init, a character that is still going out has the time.
LEMMA InitPatient ==
  ASSUME GInv, Quick, NEW t \in Threads, HwInit(t)
  PROVE  Patient(t)'
<1> USE DEF Accesses, Reaches, At, GoTo
<1>0. /\ ThreadsOK /\ DeviceOK /\ Patient(t) /\ PlaceOK(t)
      /\ Polls \in Nat /\ spins[t] \in -1 .. Polls /\ waited[t] \in Nat
  BY SerialAssumption DEF GInv, SInv, TInv, TypeOK, ThreadsOK
<1>1. CharRounds(line) \in Int /\ CharRounds(line) < Polls
  BY QuickLine DEF GInv
<1>2. CASE HwDisable(t)
  <2>1. pc'[t] = "hw_busy" /\ spins'[t] = Polls /\ waited' = waited
    BY <1>0, <1>2 DEF HwDisable, ThreadsOK
  <2> QED
    BY <1>0, <2>1 DEF Patient
<1>3. CASE HwWait(t)
  <2>1. pc[t] = "hw_busy" /\ UNCHANGED <<working, shift, enabled, tx>>
    BY <1>3 DEF HwWait, device
  <2>2. CASE ~FrBusy /\ pc' = [pc EXCEPT ![t] = "hw_drain"]
    <3>1. pc'[t] = "hw_drain" /\ ~shift'
      BY <1>0, <2>1, <2>2 DEF ThreadsOK, FrBusy
    <3> QED
      BY <3>1 DEF Patient
  <2>3. CASE FrBusy /\ ~Overdue(t) /\ spins[t] > 0
    <3>1. pc'[t] = "hw_busy" /\ spins'[t] = spins[t] - 1
      BY <1>0, <1>3, <2>1, <2>3 DEF HwWait, ThreadsOK
    <3>2. working /\ shift => waited'[t] = waited[t] + 1
      BY <1>0, <1>3, <2>3 DEF HwWait, Delay, CanMove, ThreadsOK
    <3> QED
      BY <1>0, <2>1, <3>1, <3>2 DEF Patient
  <2>4. CASE FrBusy /\ ~Overdue(t) /\ ~(spins[t] > 0)
    <3>1. pc'[t] = "hw_drain"
      BY <1>0, <1>3, <2>1, <2>4 DEF HwWait, ThreadsOK
    <3>2. working /\ shift => waited[t] < CharRounds(line)
      BY <1>0, <1>1, <2>4 DEF Overdue, CanMove
    <3>3. ~(working /\ shift)
      BY <1>0, <1>1, <2>1, <2>4, <3>2 DEF Patient
    <3> QED
      BY <2>1, <3>1, <3>3 DEF Patient
  <2> QED
    BY <1>3, <2>2, <2>3, <2>4 DEF HwWait
<1>4. CASE HwDrain(t) \/ HwIbrd(t) \/ HwFbrd(t)
  <2>1. /\ pc[t] \in {"hw_drain", "hw_ibrd", "hw_fbrd"}
        /\ pc'[t] \in {"hw_drain", "hw_ibrd", "hw_fbrd", "hw_lcrh"}
        /\ UNCHANGED <<working, shift>>
    BY <1>0, <1>4 DEF HwDrain, HwIbrd, HwFbrd, ReadDR, WriteIBRD, WriteFBRD, device, ThreadsOK
  <2> QED
    BY <1>0, <2>1 DEF Patient
<1>5. CASE HwLine(t) \/ HwEnable(t)
  <2>1. pc'[t] \in {"hw_enable", "banner", "idle"}
    BY <1>0, <1>5 DEF HwLine, HwEnable, ThreadsOK, PlaceOK, HwPlaces
  <2> QED
    BY <2>1 DEF Patient
<1> QED
  BY <1>2, <1>3, <1>4, <1>5 DEF HwInit

\* While t waits for room in the FIFO of a UART that works, it never comes to
\* the last round of its timeout.
LEMMA PollPatient ==
  ASSUME GInv, Quick, NEW t \in Threads, Poll(t)
  PROVE  Patient(t)'
<1> USE DEF Accesses, Reaches, At, GoTo
<1>0. /\ Mapping /\ Turns /\ ThreadsOK /\ DeviceOK /\ Powered /\ Patient(t) /\ PlaceOK(t)
      /\ FifoDepth \in Nat \ {0} /\ Polls \in Nat \ {0}
      /\ spins[t] \in -1 .. Polls /\ waited[t] \in Nat
  BY SerialAssumption DEF GInv, SInv, TInv, TypeOK, ThreadsOK
<1>1. CharRounds(line) \in Int /\ CharRounds(line) < Polls
  BY QuickLine DEF GInv
<1>2. pc[t] = "poll" /\ UNCHANGED <<working, shift, enabled, tx>>
  BY DEF Poll, device
<1>a. pc'[t] \in {"poll", "write", "check", "idle", "register", "disable"}
  BY <1>0, <1>2 DEF Poll, NextChar, ThreadsOK, PlaceOK, PutPlaces
<1>3. SUFFICES ASSUME pc'[t] = "poll", working
               PROVE  spins'[t] > 0 /\ waited'[t] + spins'[t] >= Polls
  BY <1>2, <1>a DEF Patient
<1>4. /\ FrTxFull /\ ~Overdue(t) /\ spins'[t] = spins[t] - 1
      /\ Delay(t)
  BY <1>0, <1>2, <1>3 DEF Poll, NextChar, ThreadsOK, PlaceOK, PutPlaces
<1>5. CanMove
  <2>1. \A u \in Threads \ {t} : pc[u] \in Resting
    BY <1>0, <1>2 DEF Turns, Busy, Resting
  <2>2. pc[Kit] \in {"started", "poll"}
    BY <1>0, <1>2 DEF Turns, Busy, Resting
  <2>3. Settled
    BY <1>2, <2>1, <2>2 DEF Settled, HwPlaces, Resting
  <2>4. enabled /\ tx > 0
    BY <1>0, <1>4, <2>2, <2>3 DEF Powered, FrTxFull
  <2> QED
    BY <1>3, <2>4 DEF CanMove
<1>6. waited[t] < CharRounds(line) /\ waited'[t] = waited[t] + 1
  BY <1>0, <1>1, <1>4, <1>5 DEF Overdue, Delay, ThreadsOK
<1>7. spins[t] > 0 /\ waited[t] + spins[t] >= Polls
  BY <1>0, <1>2, <1>3, <1>4 DEF Patient
<1> QED
  BY <1>0, <1>1, <1>4, <1>6, <1>7

LEMMA InsidePatient ==
  ASSUME GInv, Quick, NEW t \in Threads, HwInit(t) \/ PutChar(t) \/ GetChar(t)
  PROVE  Patient(t)'
<1> USE DEF Accesses, Reaches, At, GoTo
<1>0. /\ ThreadsOK /\ PlaceOK(t) /\ Polls \in Nat \ {0} /\ waited[t] \in Nat
  BY SerialAssumption DEF GInv, SInv, TInv, TypeOK, ThreadsOK
<1>1. CASE Check(t)
  <2>1. \/ pc'[t] = "poll" /\ spins'[t] = Polls /\ waited' = waited
        \/ pc'[t] \in {"check", "idle", "register", "disable"}
    BY <1>0, <1>1 DEF Check, NextChar, ThreadsOK, PlaceOK, PutPlaces
  <2> QED
    BY <1>0, <2>1 DEF Patient
<1>2. CASE PutData(t)
  <2>1. pc'[t] \in {"check", "idle", "register", "disable"}
    BY <1>0, <1>2 DEF PutData, NextChar, ThreadsOK, PlaceOK, PutPlaces
  <2> QED
    BY <2>1 DEF Patient
<1>3. CASE GetChar(t)
  <2>1. pc'[t] \in {"rx_poll", "rx_read", "idle"}
    BY <1>0, <1>3 DEF GetChar, ThreadsOK
  <2> QED
    BY <2>1 DEF Patient
<1> QED
  BY <1>1, <1>2, <1>3, PollPatient, InitPatient DEF PutChar

LEMMA LinedStep ==
  ASSUME SInv, Lined, NEW t \in Threads, HwInit(t) \/ PutChar(t) \/ GetChar(t)
  PROVE  Lined'
<1>1. Rates' = Rates
  BY DEF Rates, Ibrd, Fbrd
<1>2. CASE HwLine(t)
  <2>1. pc[t] = "hw_lcrh" /\ line' = <<ibrd, fbrd>>
    BY <1>2 DEF HwLine, WriteLCRH, Accesses, Reaches, At
  <2>2. line' \in Rates
    BY <2>1 DEF SInv, Remembered, Rates, HwPlaces
  <2> QED
    BY <1>1, <2>2 DEF Lined
<1>3. CASE ~HwLine(t)
  <2>1. line' = line
    BY <1>3
      DEF HwInit, HwDisable, HwWait, HwDrain, HwIbrd, HwFbrd, HwEnable, PutChar, Check, Poll,
          PutData, GetChar, Accesses, Reaches, device, WriteCR, ReadDR, WriteDR, WriteIBRD,
          WriteFBRD
  <2> QED
    BY <1>1, <2>1 DEF Lined
<1> QED
  BY <1>2, <1>3

LEMMA InsidePowered ==
  ASSUME GInv, Quick, NEW t \in Threads, HwInit(t) \/ PutChar(t) \/ GetChar(t)
  PROVE  GInv'
<1>0. /\ SInv /\ TInv /\ Mapping /\ Turns /\ Powered /\ Kit \in Threads
  BY DEF GInv, SInv, Threads
<1>1. SInv' /\ Local(t)
  BY <1>0, InsideTurn, InsideIsLocal
<1>2. /\ pc[t] \in PutPlaces \cup HwPlaces \cup RxPlaces
      /\ \/ pc'[t] \in HwPlaces \ {"hw_cr"}
         \/ pc[t] = "hw_enable"
         \/ pc[t] \notin HwPlaces /\ pc'[t] \notin HwPlaces
  BY <1>0, InsidePlaces
<1>3. /\ \A u \in Threads \ {t} : pc[u] \in Resting
      /\ t # Kit => pc[Kit] = "started"
  BY <1>0, <1>2 DEF Turns, Busy, Resting, PutPlaces, HwPlaces, RxPlaces
<1>4. \A u \in Threads \ {t} : pc'[u] = pc[u]
  BY <1>0, <1>1, LocalFrame
<1>5. Powered'
  <2>1. CASE pc'[t] \in HwPlaces \ {"hw_cr"}
    BY <2>1 DEF Powered, Settled
  <2>2. CASE pc[t] = "hw_enable"
    BY <1>0, <2>2, InsideSwitch DEF Powered
  <2>3. CASE pc[t] \notin HwPlaces /\ pc'[t] \notin HwPlaces
    <3>1. pc[Kit] \notin {"unstarted", "absent", "release", "forget", "stopped"} \cup HwPlaces
      BY <1>2, <1>3, <2>3 DEF PutPlaces, HwPlaces, RxPlaces
    <3>2. Settled
      BY <1>3, <2>3, <3>1 DEF Settled, Resting, HwPlaces
    <3>3. enabled /\ enabled' = enabled
      BY <1>0, <2>3, <3>1, <3>2, InsideSwitch DEF Powered
    <3> QED
      BY <3>3 DEF Powered
  <2> QED
    BY <1>2, <2>1, <2>2, <2>3
<1>6. \A u \in Threads \ {t} : Patient(u)'
  BY <1>3, <1>4 DEF Patient, Resting
<1>7. Patient(t)'
  BY InsidePatient
<1>8. Lined'
  BY LinedStep DEF GInv
<1> QED
  BY <1>1, <1>5, <1>6, <1>7, <1>8 DEF GInv

LEMMA CallPowered ==
  ASSUME GInv, Serialised = TRUE, NEW t \in Callers, CallerCall(t)
  PROVE  GInv'
<1>0. SInv /\ TInv /\ Powered /\ t \in Threads /\ t # Kit /\ Kit \in Threads
  BY SerialAssumption DEF GInv, SInv, Threads
<1>1. SInv' /\ Local(t)
  BY <1>0, CallTurn, CallTyped
<1>2. /\ pc[Kit] = "started" /\ \A u \in Threads : pc[u] \in Resting
      /\ UNCHANGED <<device, kext, fault>>
  BY DEF CallerCall, Busy, At, Resting, Threads
<1>3. pc'[t] \notin {"poll", "hw_busy", "hw_drain", "hw_ibrd", "hw_fbrd", "hw_lcrh"}
  <2>1. pc \in [Threads -> Resting \cup RegisterPlaces \cup
                  {"check", "rx_check", "banner", "register", "release", "forget"}]
    BY <1>0 DEF TInv, TypeOK, ThreadsOK
  <2> QED
    BY <1>0, <2>1 DEF CallerCall, BeginPut, BeginInit, BeginGet, GoTo
<1>4. \A u \in Threads \ {t} : pc'[u] = pc[u]
  BY <1>0, <1>1, LocalFrame
<1>5. enabled'
  BY <1>0, <1>2 DEF Powered, Settled, Resting, HwPlaces, device
<1>6. \A u \in Threads : Patient(u)'
  BY <1>2, <1>3, <1>4 DEF Patient, Resting
<1>7. Lined'
  BY <1>2 DEF GInv, Lined, Rates, Ibrd, Fbrd, device
<1> QED
  BY <1>1, <1>5, <1>6, <1>7 DEF GInv, Powered

LEMMA KitPowered ==
  ASSUME GInv, Serialised = TRUE, Lifecycle
  PROVE  GInv'
<1> USE DEF At, GoTo
<1>0. /\ SInv /\ TInv /\ Mapping /\ Turns /\ Powered /\ Kit \in Threads
      /\ pc \in [Threads -> Resting \cup RegisterPlaces \cup
                   {"check", "rx_check", "banner", "register", "release", "forget"}]
  BY DEF GInv, SInv, TInv, TypeOK, ThreadsOK, Threads
<1>1. SInv' /\ Local(Kit)
  BY <1>0, KitTurn, KitTyped
<1>2. \A u \in Threads \ {Kit} : pc'[u] = pc[u]
  BY <1>0, <1>1, LocalFrame
<1>3. \A u \in Threads \ {Kit} : pc[u] \in Resting
  <2>1. pc[Kit] # "started" => \A u \in Threads \ {Kit} : ~Busy(u)
    BY <1>0 DEF Turns, Busy, Lifecycle, StartMap, StartBanner, Register, Stop, StopDisable,
          StopRelease, Accesses, Reaches, Resting
  <2>2. pc[Kit] = "started" => \A u \in Callers : ~Busy(u)
    BY
      DEF Lifecycle, StartMap, StartBanner, Register, Stop, StopDisable, StopRelease,
          Accesses, Reaches
  <2> QED
    BY <2>1, <2>2 DEF Busy, Threads
<1>4. /\ pc'[Kit] \notin {"poll", "hw_busy", "hw_drain", "hw_ibrd", "hw_fbrd", "hw_lcrh"}
      /\ line' = line
      /\ \/ pc'[Kit] \in {"absent", "hw_cr", "release", "forget", "stopped"}
         \/ pc[Kit] \in {"banner", "register", "started"} /\ enabled' = enabled
  BY <1>0
    DEF Lifecycle, StartMap, StartBanner, Register, Stop, StopDisable, StopRelease, BeginPut,
        BeginInit, Accesses, Reaches, WriteCR, device
<1>5. Powered'
  <2>1. CASE pc'[Kit] \in {"absent", "hw_cr", "release", "forget", "stopped"}
    BY <2>1 DEF Powered, Settled, HwPlaces
  <2>2. CASE pc[Kit] \in {"banner", "register", "started"} /\ enabled' = enabled
    <3>1. Settled
      BY <1>3, <2>2 DEF Settled, HwPlaces, Resting
    <3>2. enabled
      BY <1>0, <2>2, <3>1 DEF Powered
    <3> QED
      BY <2>2, <3>2 DEF Powered
  <2> QED
    BY <1>4, <2>1, <2>2
<1>6. \A u \in Threads : Patient(u)'
  BY <1>2, <1>3, <1>4 DEF Patient, Resting
<1>7. Lined'
  BY <1>4 DEF GInv, Lined, Rates, Ibrd, Fbrd
<1> QED
  BY <1>1, <1>5, <1>6, <1>7 DEF GInv

LEMMA DevicePowered ==
  ASSUME GInv, DeviceStep
  PROVE  GInv'
<1>0. /\ DeviceOK /\ FifoDepth \in Nat \ {0}
      /\ \A t \in Threads : Remembered(t) /\ Patient(t)
  BY SerialAssumption DEF GInv, SInv, TInv, TypeOK
<1>1. UNCHANGED <<pc, spins, enabled, line>> /\ (working' => working)
  BY DEF DeviceStep, Load, Finish, Arrive, Break, threads, places
<1>2. Powered' /\ Lined'
  BY <1>1 DEF GInv, Powered, Settled, Lined, Rates, Ibrd, Fbrd
<1>3. ASSUME NEW t \in Threads PROVE Patient(t)'
  <2>1. CASE Load
    <3>1. enabled /\ (FrTxFull' => FALSE)
      BY <1>0, <2>1 DEF Load, FrTxFull, DeviceOK
    <3>2. pc[t] \notin HwPlaces \ {"hw_cr"}
      BY <1>0, <3>1 DEF Remembered
    <3> QED
      BY <1>0, <1>1, <3>1, <3>2 DEF Patient, HwPlaces
  <2>2. CASE ~Load
    <3>1. waited' = waited /\ tx' = tx /\ (shift' => shift)
      BY <2>2 DEF DeviceStep, Finish, Arrive, Break
    <3> QED
      BY <1>0, <1>1, <3>1 DEF Patient, FrTxFull
  <2> QED
    BY <2>1, <2>2
<1> QED
  BY <1>2, <1>3, DeviceTurn DEF GInv

LEMMA GInvHolds == Init => GInv
<1> SUFFICES ASSUME Init PROVE GInv
  OBVIOUS
<1>1. /\ \A t \in Threads : pc[t] = IF t = Kit THEN "unstarted" ELSE "idle"
      /\ Kit \in Threads
  BY DEF Init, Threads
<1>2. Powered /\ \A t \in Threads : Patient(t)
  BY <1>1 DEF Powered, Settled, Patient
<1>3. Lined
  BY DEF Init, PL011Init, Lined
<1> QED
  BY <1>2, <1>3, SInvHolds DEF GInv

LEMMA GInvStep ==
  ASSUME GInv, Quick, Serialised = TRUE, [Next]_vars
  PROVE  GInv'
<1>1. ASSUME NEW t \in Threads, Inside(t) PROVE GInv'
  <2>1. CASE Fault(t)
    <3>1. fault' = TRUE /\ SInv'
      BY <2>1, SInvStep, Zenon DEF Fault, GInv
    <3> QED
      BY <3>1 DEF SInv
  <2> QED
    BY <1>1, <2>1, InsidePowered DEF Inside
<1>2. ASSUME NEW t \in Callers, CallerCall(t) PROVE GInv'
  BY <1>2, CallPowered
<1>3. CASE Lifecycle
  BY <1>3, KitPowered
<1>4. CASE DeviceStep
  BY <1>4, DevicePowered
<1>5. CASE UNCHANGED vars
  <2>1. UNCHANGED <<pc, spins, waited, enabled, working, shift, tx, line>>
    BY <1>5 DEF vars, device, threads, places
  <2>2. SInv'
    BY <1>5, SInvStep DEF GInv
  <2> QED
    BY <2>1, <2>2 DEF GInv, Lined, Rates, Ibrd, Fbrd, Powered, Settled, Patient, FrTxFull
<1> QED
  BY <1>1, <1>2, <1>3, <1>4, <1>5 DEF Next

\* With callers that take turns, divisors change only while the UART is off
\* and no character is on its way out, if the wait of hw_init outlasts a
\* character at every rate in use: no character is cut.
THEOREM RateChangesAtRest ==
  ASSUME Serialised = TRUE, Quick
  PROVE  Spec => CharactersIntact
<1>1. ASSUME GInv, [Next]_vars
      PROVE  /\ <<ibrd, fbrd, line>>' # <<ibrd, fbrd, line>> => ~enabled
             /\ line' # line => ~(working /\ shift)
  <2>1. ASSUME NEW t \in Threads, Inside(t)
        PROVE  \/ UNCHANGED <<ibrd, fbrd, line>>
               \/ pc[t] \in {"hw_ibrd", "hw_fbrd", "hw_lcrh"}
    BY <2>1
      DEF Inside, HwInit, HwDisable, HwWait, HwDrain, HwIbrd, HwFbrd, HwLine, HwEnable,
        PutChar, Check, Poll, PutData, GetChar, Fault, Accesses, Reaches, At, device,
        WriteCR, ReadDR, WriteDR
  <2>2. ASSUME ~ \E t \in Threads : Inside(t)
        PROVE  UNCHANGED <<ibrd, fbrd, line>>
    BY <1>1, <2>2
      DEF Next, vars, device, CallerCall, Lifecycle, StartMap, StartBanner, Register,
        Stop, StopDisable, StopRelease, Accesses, Reaches, WriteCR, DeviceStep, Load, Finish,
        Arrive, Break
  <2>3. \A t \in Threads : Remembered(t) /\ Patient(t)
    BY <1>1 DEF GInv, SInv
  <2> QED
    BY <2>1, <2>2, <2>3 DEF Remembered, Patient, HwPlaces
<1>2. GInv /\ [Next]_vars =>
        [/\ <<ibrd, fbrd, line>>' # <<ibrd, fbrd, line>> => ~enabled
         /\ line' # line => ~(working /\ shift)]_vars
  BY <1>1
<1>3. GInv /\ [Next]_vars => GInv'
  BY GInvStep
<1> QED
  BY <1>2, <1>3, GInvHolds, PTL DEF Spec, CharactersIntact

\* With callers that take turns, putChar gives a character up only on a UART
\* whose transmitter has stopped for good, if the timeout outlasts a character at
\* every rate in use: the driver never leaves the UART off before somebody
\* writes, and no character takes up the rounds of another.
THEOREM GivenUpForCause ==
  ASSUME Serialised = TRUE, Quick
  PROVE  Spec => GivenUpOnlyWhenBroken
<1>1. ASSUME GInv, [Next]_vars, NEW t \in Threads, At(t, "poll"), todo'[t] < todo[t]
      PROVE  ~working
  <2> USE DEF At
  <2>0. /\ TInv /\ Turns /\ Patient(t) /\ Kit \in Threads /\ ThreadsOK
        /\ todo[t] \in Nat /\ spins[t] \in -1 .. Polls /\ Polls \in Nat \ {0}
    BY <1>1, SerialAssumption DEF GInv, SInv, TInv, TypeOK, ThreadsOK, Threads
  <2>1. /\ \A u \in Threads \ {t} : pc[u] \in Resting
        /\ pc[Kit] \in {"started", "poll"} /\ Busy(t) /\ pc[t] = "poll"
    BY <1>1, <2>0 DEF Turns, Busy, Resting
  <2>2. todo' # todo
    BY <1>1, <2>0
  <2>3. PICK u \in Threads : Inside(u) \/ CallerCall(u) \/ Lifecycle
    BY <1>1, <2>0, <2>2 DEF Next, vars, threads, places, DeviceStep, Threads
  <2>4. CASE Inside(u)
    <3>1. pc[u] \notin Resting
      BY <2>2, <2>4
        DEF Inside, HwInit, HwDisable, HwWait, HwDrain, HwIbrd, HwFbrd, HwLine, HwEnable, PutChar,
            Check, Poll, PutData, GetChar, Fault, Accesses, Reaches, Resting, threads, places
    <3>2. u = t
      BY <2>1, <3>1
    <3>3. Poll(t)
      BY <2>1, <2>2, <2>4, <3>2
        DEF Inside, HwInit, HwDisable, HwWait, HwDrain, HwIbrd, HwFbrd, HwLine, HwEnable, PutChar,
            Check, PutData, GetChar, Fault, Accesses, Reaches, threads, places
    <3>4. spins[t] <= 0
      BY <2>0, <2>2, <3>3 DEF Poll
    <3> QED
      BY <2>0, <2>1, <3>4 DEF Patient
  <2>5. CASE CallerCall(u)
    BY <1>1, <2>1, <2>5 DEF CallerCall, Busy, Threads
  <2>6. CASE Lifecycle
    <3>1. pc[Kit] # "poll"
      BY <2>6
        DEF Lifecycle, StartMap, StartBanner, Register, Stop, StopDisable, StopRelease, Accesses, Reaches
    <3>2. Local(Kit) /\ t # Kit
      BY <2>0, <2>1, <2>6, <3>1, KitTyped
    <3>3. todo'[t] = todo[t]
      BY <2>0, <3>2, LocalFrame
    <3> QED
      BY <1>1, <2>0, <3>3
  <2> QED
    BY <2>3, <2>4, <2>5, <2>6
<1>2. GInv /\ [Next]_vars =>
        [\A t \in Threads : At(t, "poll") /\ todo'[t] < todo[t] => ~working]_vars
  BY <1>1
<1>3. GInv /\ [Next]_vars => GInv'
  BY GInvStep
<1> QED
  BY <1>2, <1>3, GInvHolds, PTL DEF Spec, GivenUpOnlyWhenBroken

-----------------------------------------------------------------------------
(* Every call is short                                                      *)

CallPlaces == PutPlaces \cup HwPlaces \cup RxPlaces

\* The steps a call can still take at l, with d characters to go, its timeout at
\* s and r characters in the receive FIFO.
StepsFrom(l, d, s, r) ==
  CASE l = "check" -> d * (Polls + 4)
    [] l = "poll" -> (d - 1) * (Polls + 4) + s + 2
    [] l = "write" -> (d - 1) * (Polls + 4) + 1
    [] l = "hw_cr" -> Polls + FifoDepth + 7
    [] l = "hw_busy" -> s + FifoDepth + 6
    [] l = "hw_drain" -> r + 5
    [] l = "hw_ibrd" -> 4
    [] l = "hw_fbrd" -> 3
    [] l = "hw_lcrh" -> 2
    [] l = "hw_enable" -> 1
    [] l = "rx_check" -> 3
    [] l = "rx_poll" -> 2
    [] l = "rx_read" -> 1
    [] OTHER -> 0

StepsLeft(t) == StepsFrom(pc[t], todo[t], spins[t], rx)

\* A step of its own brings a call nearer to its end, and nobody sets it back.
Advances(t) ==
  /\ StepsLeft(t) \in Nat /\ StepsLeft(t)' <= StepsLeft(t)
  /\ Inside(t) /\ ~fault' => StepsLeft(t)' < StepsLeft(t)

CallsAdvance == [][\A t \in Threads : pc[t] \in CallPlaces => Advances(t)]_vars

\* Of putString that holds without turns as well.
PutsAdvance == [][\A t \in Threads : pc[t] \in PutPlaces => Advances(t)]_vars

\* What t brings to a step inside the driver.
LEMMA Brings ==
  ASSUME TInv, NEW t \in Threads
  PROVE  /\ t \in DOMAIN pc /\ t \in DOMAIN todo /\ t \in DOMAIN spins
         /\ todo[t] \in Nat /\ spins[t] \in -1 .. Polls /\ rx \in 0 .. FifoDepth /\ PlaceOK(t)
         /\ Polls \in Nat \ {0} /\ FifoDepth \in Nat \ {0}
  BY SerialAssumption DEF TInv, TypeOK, ThreadsOK, DeviceOK

\* The steps of d characters.
LEMMA PerCharacter ==
  ASSUME NEW d \in Nat \ {0}, NEW c \in Nat
  PROVE  d * c = (d - 1) * c + c /\ (d - 1) * c \in Nat
<1>1. PICK e \in Nat : d = e + 1
  <2>1. d - 1 \in Nat /\ d = (d - 1) + 1
    OBVIOUS
  <2> QED
    BY <2>1
<1>2. d - 1 = e /\ e * c \in Nat
  BY <1>1
<1> QED
  BY <1>1, <1>2

LEMMA StepsInteger ==
  ASSUME NEW l, NEW d \in Int, NEW s \in Int, NEW r \in Int
  PROVE  StepsFrom(l, d, s, r) \in Int
<1>1. Polls + 4 \in Int /\ FifoDepth \in Int
  BY SerialAssumption
<1>2. d * (Polls + 4) \in Int /\ (d - 1) * (Polls + 4) \in Int
  BY <1>1
<1> QED
  BY <1>1, <1>2, SerialAssumption DEF StepsFrom

LEMMA StepsNatural ==
  ASSUME TInv, NEW t \in Threads
  PROVE  StepsLeft(t) \in Nat
<1>1. /\ todo[t] \in Nat /\ spins[t] \in -1 .. Polls /\ rx \in 0 .. FifoDepth
      /\ Polls \in Nat \ {0} /\ FifoDepth \in Nat \ {0} /\ PlaceOK(t)
  BY Brings
<1>2. CASE pc[t] \in PutPlaces
  <2>1. todo[t] \in Nat \ {0} /\ Polls + 4 \in Nat
    BY <1>1, <1>2 DEF PlaceOK
  <2>2. todo[t] * (Polls + 4) \in Nat /\ (todo[t] - 1) * (Polls + 4) \in Nat
    BY <2>1, PerCharacter
  <2> QED
    BY <1>1, <1>2, <2>2 DEF StepsLeft, StepsFrom, PutPlaces
<1>3. CASE pc[t] \notin PutPlaces
  BY <1>1, <1>3 DEF StepsLeft, StepsFrom, PutPlaces
<1> QED
  BY <1>2, <1>3

\* A character has been put or given up: those that follow are left.
LEMMA CharDone ==
  ASSUME TInv, NEW t \in Threads, pc[t] \in PutPlaces, NextChar(t)
  PROVE  StepsLeft(t)' <= (todo[t] - 1) * (Polls + 4)
<1>1. /\ t \in DOMAIN pc /\ t \in DOMAIN todo /\ todo[t] \in Nat \ {0} /\ Polls + 4 \in Nat
      /\ after[t] \in {"register", "disable", "idle"}
  BY Brings DEF PlaceOK
<1>2. (todo[t] - 1) * (Polls + 4) \in Nat
  BY <1>1, PerCharacter
<1>3. todo'[t] = todo[t] - 1 /\ pc'[t] = IF todo[t] > 1 THEN "check" ELSE after[t]
  BY <1>1 DEF NextChar, GoTo
<1>4. CASE todo[t] > 1
  <2>1. StepsLeft(t)' = (todo[t] - 1) * (Polls + 4)
    BY <1>3, <1>4 DEF StepsLeft, StepsFrom
  <2> QED
    BY <1>2, <2>1
<1>5. CASE ~(todo[t] > 1)
  <2>1. StepsLeft(t)' = 0
    BY <1>1, <1>3, <1>5 DEF StepsLeft, StepsFrom
  <2> QED
    BY <1>2, <2>1
<1> QED
  BY <1>4, <1>5

LEMMA PutAdvances ==
  ASSUME TInv, NEW t \in Threads, PutChar(t)
  PROVE  pc[t] \in PutPlaces /\ StepsLeft(t)' < StepsLeft(t)
<1> USE DEF At, GoTo, Accesses, Reaches
<1>1. pc[t] \in PutPlaces
  BY DEF PutChar, Check, Poll, PutData, PutPlaces
<1>2. /\ t \in DOMAIN pc /\ t \in DOMAIN spins /\ todo[t] \in Nat \ {0}
      /\ spins[t] \in -1 .. Polls /\ Polls \in Nat \ {0}
      /\ pc[t] = "poll" => spins[t] >= 0
  BY <1>1, Brings DEF PlaceOK
<1>3. StepsLeft(t)' \in Int
  <2>1. ThreadOK(t)' /\ DeviceOK'
    BY InsideIsLocal
  <2>2. todo'[t] \in Int /\ spins'[t] \in Int /\ rx' \in Int
    BY <2>1 DEF ThreadOK, DeviceOK
  <2> QED
    BY <2>2, StepsInteger DEF StepsLeft
<1> DEFINE rest == (todo[t] - 1) * (Polls + 4)
           all == todo[t] * (Polls + 4)
<1>4. rest \in Nat /\ all = rest + (Polls + 4)
  <2>1. Polls + 4 \in Nat
    BY <1>2
  <2> QED
    BY <1>2, <2>1, PerCharacter
<1>5. NextChar(t) => StepsLeft(t)' <= rest
  BY <1>1, CharDone
<1>6. CASE Check(t)
  <2>1. StepsLeft(t) = all
    BY <1>6 DEF Check, StepsLeft, StepsFrom
  <2>2. NextChar(t) \/ (pc'[t] = "poll" /\ spins'[t] = Polls /\ todo'[t] = todo[t])
    BY <1>2, <1>6 DEF Check
  <2>3. NextChar(t) \/ StepsLeft(t)' = rest + Polls + 2
    BY <2>2 DEF StepsLeft, StepsFrom
  <2> HIDE DEF rest, all
  <2> QED
    BY <1>1, <1>2, <1>3, <1>4, <1>5, <2>1, <2>3
<1>7. CASE Poll(t)
  <2>1. StepsLeft(t) = rest + spins[t] + 2 /\ spins[t] >= 0
    BY <1>2, <1>7 DEF Poll, StepsLeft, StepsFrom
  <2>2. \/ NextChar(t)
        \/ todo'[t] = todo[t] /\ \/ pc'[t] = "write"
                                 \/ pc'[t] = "poll" /\ spins'[t] = spins[t] - 1
    BY <1>2, <1>7 DEF Poll
  <2>3. \/ NextChar(t)
        \/ StepsLeft(t)' = rest + 1 \/ StepsLeft(t)' = rest + (spins[t] - 1) + 2
    BY <2>2 DEF StepsLeft, StepsFrom
  <2> HIDE DEF rest, all
  <2> QED
    BY <1>1, <1>2, <1>3, <1>4, <1>5, <2>1, <2>3
<1>8. CASE PutData(t)
  <2>1. StepsLeft(t) = rest + 1 /\ NextChar(t)
    BY <1>8 DEF PutData, StepsLeft, StepsFrom
  <2> HIDE DEF rest, all
  <2> QED
    BY <1>1, <1>3, <1>4, <1>5, <2>1
<1> QED
  BY <1>6, <1>7, <1>8 DEF PutChar

LEMMA InitAdvances ==
  ASSUME TInv, NEW t \in Threads, HwInit(t)
  PROVE  pc[t] \in HwPlaces /\ StepsLeft(t)' < StepsLeft(t)
<1> USE DEF At, GoTo, Accesses, Reaches
<1>1. pc[t] \in HwPlaces
  BY DEF HwInit, HwDisable, HwWait, HwDrain, HwIbrd, HwFbrd, HwLine, HwEnable, HwPlaces
<1>2. /\ t \in DOMAIN pc /\ t \in DOMAIN spins
      /\ spins[t] \in -1 .. Polls /\ Polls \in Nat \ {0} /\ FifoDepth \in Nat \ {0}
      /\ pc[t] = "hw_busy" => spins[t] >= 0
      /\ rx \in 0 .. FifoDepth /\ after[t] \in {"banner", "idle"}
  BY <1>1, Brings DEF PlaceOK
<1>3. CASE HwDisable(t)
  <2>1. pc'[t] = "hw_busy" /\ spins'[t] = Polls
    BY <1>2, <1>3 DEF HwDisable
  <2> QED
    BY <1>1, <1>2, <1>3, <2>1 DEF HwDisable, StepsLeft, StepsFrom
<1>4. CASE HwWait(t)
  <2>1. /\ pc[t] = "hw_busy" /\ rx' = rx
        /\ pc'[t] = "hw_drain" \/ (pc'[t] = "hw_busy" /\ spins'[t] = spins[t] - 1)
    BY <1>2, <1>4 DEF HwWait, device
  <2> QED
    BY <1>1, <1>2, <2>1 DEF StepsLeft, StepsFrom
<1>5. CASE HwDrain(t)
  <2>1. /\ pc[t] = "hw_drain"
        /\ \/ pc'[t] = "hw_ibrd"
           \/ pc'[t] = "hw_drain" /\ rx > 0 /\ rx' = rx - 1
    BY <1>2, <1>5 DEF HwDrain, ReadDR, FrRxEmpty
  <2> QED
    BY <1>1, <1>2, <2>1 DEF StepsLeft, StepsFrom
<1>6. CASE HwIbrd(t) \/ HwFbrd(t) \/ HwLine(t) \/ HwEnable(t)
  <2>1. \/ pc[t] = "hw_ibrd" /\ pc'[t] = "hw_fbrd"
        \/ pc[t] = "hw_fbrd" /\ pc'[t] = "hw_lcrh"
        \/ pc[t] = "hw_lcrh" /\ pc'[t] = "hw_enable"
        \/ pc[t] = "hw_enable" /\ pc'[t] \in {"banner", "idle"}
    BY <1>2, <1>6 DEF HwIbrd, HwFbrd, HwLine, HwEnable
  <2>2. \/ StepsLeft(t) = 4 /\ StepsLeft(t)' = 3
        \/ StepsLeft(t) = 3 /\ StepsLeft(t)' = 2
        \/ StepsLeft(t) = 2 /\ StepsLeft(t)' = 1
        \/ StepsLeft(t) = 1 /\ StepsLeft(t)' = 0
    BY <2>1 DEF StepsLeft, StepsFrom
  <2> QED
    BY <1>1, <2>2
<1> QED
  BY <1>1, <1>3, <1>4, <1>5, <1>6 DEF HwInit

LEMMA GetAdvances ==
  ASSUME TInv, NEW t \in Threads, GetChar(t)
  PROVE  pc[t] \in RxPlaces /\ StepsLeft(t)' < StepsLeft(t)
<1> USE DEF At, GoTo, Accesses, Reaches
<1>1. t \in DOMAIN pc
  BY Brings
<1>2. \/ pc[t] = "rx_check" /\ pc'[t] \in {"rx_poll", "idle"}
      \/ pc[t] = "rx_poll" /\ pc'[t] \in {"rx_read", "idle"}
      \/ pc[t] = "rx_read" /\ pc'[t] = "idle"
  BY <1>1 DEF GetChar
<1> QED
  BY <1>2 DEF RxPlaces, StepsLeft, StepsFrom

LEMMA OwnStep ==
  ASSUME TInv, NEW t \in Threads, HwInit(t) \/ PutChar(t) \/ GetChar(t)
  PROVE  pc[t] \in CallPlaces /\ StepsLeft(t)' < StepsLeft(t)
  BY PutAdvances, InitAdvances, GetAdvances DEF CallPlaces

\* A step that is not its own leaves a thread its place, and what it counts.
LEMMA NotItsStep ==
  ASSUME TInv, NEW t \in Threads, pc'[t] = pc[t], todo'[t] = todo[t], spins'[t] = spins[t],
         pc[t] = "hw_drain" => rx' = rx
  PROVE  StepsLeft(t)' = StepsLeft(t)
  BY DEF StepsLeft, StepsFrom

\* Only a thread that empties the receive FIFO needs the others to stay away.
LEMMA NeverBack ==
  ASSUME TInv, [Next]_vars, NEW t \in Threads, pc[t] \in CallPlaces, pc[t] = "hw_drain" => SInv
  PROVE  StepsLeft(t)' <= StepsLeft(t)
<1>0. StepsLeft(t) \in Nat /\ StepsLeft(t)' \in Int
  <2>1. TInv'
    BY TInvStep
  <2>2. todo'[t] \in Int /\ spins'[t] \in Int /\ rx' \in Int
    BY <2>1 DEF TInv, TypeOK, ThreadsOK, DeviceOK
  <2>3. StepsLeft(t)' \in Int
    BY <2>2, StepsInteger DEF StepsLeft
  <2> QED
    BY <2>3, StepsNatural
<1>1. SUFFICES \/ StepsLeft(t)' < StepsLeft(t)
               \/ /\ pc'[t] = pc[t] /\ todo'[t] = todo[t] /\ spins'[t] = spins[t]
                  /\ pc[t] = "hw_drain" => rx' = rx
  BY <1>0, NotItsStep
<1>2. ASSUME NEW u \in Threads, Inside(u)
      PROVE  \/ StepsLeft(t)' < StepsLeft(t)
             \/ /\ pc'[t] = pc[t] /\ todo'[t] = todo[t] /\ spins'[t] = spins[t]
                /\ pc[t] = "hw_drain" => rx' = rx
  <2>1. CASE Fault(u)
    BY <2>1 DEF Fault, device, threads, places
  <2>2. CASE HwInit(u) \/ PutChar(u) \/ GetChar(u)
    <3>1. pc[u] \in CallPlaces /\ StepsLeft(u)' < StepsLeft(u) /\ Local(u)
      BY <2>2, OwnStep, InsideIsLocal
    <3>2. CASE u = t
      BY <3>1, <3>2
    <3>3. CASE u # t
      <4>1. pc'[t] = pc[t] /\ todo'[t] = todo[t] /\ spins'[t] = spins[t]
        BY <3>1, <3>3, LocalFrame
      <4>2. pc[t] # "hw_drain"
        <5>1. Busy(u) /\ Busy(t)
          BY <3>1 DEF Busy, CallPlaces, PutPlaces, HwPlaces, RxPlaces, Resting
        <5>2. pc[t] = "hw_drain" => Turns
          BY DEF SInv
        <5> QED
          BY <3>3, <5>1, <5>2 DEF Turns
      <4> QED
        BY <4>1, <4>2
    <3> QED
      BY <3>2, <3>3
  <2> QED
    BY <1>2, <2>1, <2>2 DEF Inside
<1>3. ASSUME NEW u \in Callers, CallerCall(u)
      PROVE  /\ pc'[t] = pc[t] /\ todo'[t] = todo[t] /\ spins'[t] = spins[t]
             /\ pc[t] = "hw_drain" => rx' = rx
  <2>1. u \in Threads /\ u # t /\ rx' = rx
    BY <1>3 DEF Threads, CallerCall, At, device, CallPlaces, PutPlaces, HwPlaces, RxPlaces
  <2>2. Local(u)
    BY <1>3, CallTyped
  <2> QED
    BY <2>1, <2>2, LocalFrame
<1>4. CASE Lifecycle
  <2>1. Kit \in Threads /\ Local(Kit)
    BY <1>4, KitTyped DEF Threads
  <2>2. pc[Kit] \in KitPlaces
    BY <1>4
      DEF Lifecycle, StartMap, StartBanner, Register, Stop, StopDisable, StopRelease, At, Accesses, Reaches,
          KitPlaces
  <2>3. t # Kit
    BY <2>2 DEF KitPlaces, CallPlaces, PutPlaces, HwPlaces, RxPlaces
  <2>4. rx' = rx
    BY <1>4
      DEF Lifecycle, StartMap, StartBanner, Register, Stop, StopDisable, StopRelease, WriteCR, device
  <2>5. pc'[t] = pc[t] /\ todo'[t] = todo[t] /\ spins'[t] = spins[t]
    BY <2>1, <2>3, LocalFrame
  <2> QED
    BY <2>4, <2>5
<1>5. CASE DeviceStep
  <2>1. UNCHANGED <<pc, todo, spins>>
    BY <1>5 DEF DeviceStep, threads, places
  <2>2. pc[t] = "hw_drain" => ~enabled
    BY DEF SInv, Remembered, HwPlaces
  <2>3. enabled \/ rx' = rx
    BY <1>5 DEF DeviceStep, Load, Finish, Arrive, Break
  <2> QED
    BY <2>1, <2>2, <2>3
<1>6. CASE UNCHANGED vars
  BY <1>6 DEF vars, device, threads, places
<1> QED
  BY <1>2, <1>3, <1>4, <1>5, <1>6 DEF Next

LEMMA CallAdvances ==
  ASSUME TInv, [Next]_vars, NEW t \in Threads, pc[t] \in CallPlaces, pc[t] = "hw_drain" => SInv
  PROVE  Advances(t)
<1>1. StepsLeft(t) \in Nat /\ StepsLeft(t)' <= StepsLeft(t)
  BY StepsNatural, NeverBack
<1>2. ASSUME Inside(t), ~fault'
      PROVE  StepsLeft(t)' < StepsLeft(t)
  <2>1. ~Fault(t)
    BY <1>2 DEF Fault
  <2> QED
    BY <1>2, <2>1, OwnStep DEF Inside
<1> QED
  BY <1>1, <1>2 DEF Advances

\* Every putString is over after at most Polls + 4 steps a character of its own,
\* whatever other threads and the UART do meanwhile: the part of
\* PutStringReturns that is no matter of fairness (lines 162-174, 181-186).
THEOREM EveryPutAdvances == Spec => PutsAdvance
<1>1. TInv /\ [Next]_vars => TInv'
  BY TInvStep
<1>2. TInv /\ [Next]_vars => [\A t \in Threads : pc[t] \in PutPlaces => Advances(t)]_vars
  BY CallAdvances DEF CallPlaces, PutPlaces
<1> QED
  BY <1>1, <1>2, TInvHolds, PTL DEF Spec, PutsAdvance

\* With callers that take turns the same holds of every call, start and stop
\* included: the wait for the transmitter is counted, and the UART is off while
\* the receive FIFO is emptied, so that no new character keeps hw_init there
\* (lines 38-47).
THEOREM EveryCallAdvances ==
  ASSUME Serialised = TRUE
  PROVE  Spec => CallsAdvance
<1>1. SInv /\ [Next]_vars => [\A t \in Threads : pc[t] \in CallPlaces => Advances(t)]_vars
  <2>1. SInv => TInv
    BY DEF SInv
  <2> QED
    BY <2>1, CallAdvances
<1> QED
  BY <1>1, TurnsKept, PTL DEF Spec, CallsAdvance
=============================================================================
