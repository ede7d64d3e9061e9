-------------------------------- MODULE PL011 --------------------------------
(***************************************************************************)
(* The UART JuliusSerial drives, as far as the driver can tell its states   *)
(* apart: how full its FIFOs are, whether a character is being shifted out, *)
(* and which baud divisors it runs on.  The device is not part of the       *)
(* repository; its behaviour is that of the Arm PL011.                      *)
(***************************************************************************)
EXTENDS Integers

CONSTANT FifoDepth

VARIABLES working,     \* the transmitter has not stopped for good
          enabled,     \* CR: UARTEN, TXE and RXE, which the driver sets together
          tx, rx,      \* characters in the transmit and the receive FIFO
          shift,       \* a character is on its way out
          ibrd, fbrd,  \* the divisor registers
          line         \* the divisors in use, taken over by a write to LCRH

FrTxFull  == tx = FifoDepth
FrRxEmpty == rx = 0
\* BUSY stays set while the transmit FIFO holds data, enabled or not.
FrBusy    == tx > 0 \/ shift

CanMove == working /\ (shift \/ (enabled /\ tx > 0))

PL011Init ==
  /\ working = TRUE
  /\ enabled \in BOOLEAN   \* as the firmware left it
  /\ tx = 0 /\ rx = 0 /\ shift = FALSE
  /\ ibrd = 0 /\ fbrd = 0 /\ line = <<0, 0>>

\* A character leaves the FIFO; it is finished even if the UART is disabled.
Load ==
  /\ working /\ enabled /\ tx > 0 /\ ~shift
  /\ tx' = tx - 1 /\ shift' = TRUE
  /\ UNCHANGED <<working, enabled, rx, ibrd, fbrd, line>>

Finish ==
  /\ working /\ shift /\ shift' = FALSE
  /\ UNCHANGED <<working, enabled, tx, rx, ibrd, fbrd, line>>

Arrive ==
  /\ enabled /\ rx < FifoDepth /\ rx' = rx + 1
  /\ UNCHANGED <<working, enabled, tx, shift, ibrd, fbrd, line>>

\* The hardware locks up: the transmitter loses its clock, say.
Break ==
  /\ working' = FALSE
  /\ UNCHANGED <<enabled, tx, rx, shift, ibrd, fbrd, line>>

WriteCR(on) == enabled' = on /\ UNCHANGED <<working, tx, rx, shift, ibrd, fbrd, line>>

\* A write to a full FIFO is lost.
WriteDR ==
  /\ tx' = IF FrTxFull THEN tx ELSE tx + 1
  /\ UNCHANGED <<working, enabled, rx, shift, ibrd, fbrd, line>>

ReadDR ==
  /\ rx' = IF FrRxEmpty THEN 0 ELSE rx - 1
  /\ UNCHANGED <<working, enabled, tx, shift, ibrd, fbrd, line>>

WriteIBRD(v) == ibrd' = v % 65536 /\ UNCHANGED <<working, enabled, tx, rx, shift, fbrd, line>>
WriteFBRD(v) == fbrd' = v % 64 /\ UNCHANGED <<working, enabled, tx, rx, shift, ibrd, line>>

WriteLCRH == line' = <<ibrd, fbrd>> /\ UNCHANGED <<working, enabled, tx, rx, shift, ibrd, fbrd>>
=============================================================================
