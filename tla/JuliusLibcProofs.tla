-------------------------- MODULE JuliusLibcProofs --------------------------
(***************************************************************************)
(* Proofs about JuliusLibc, for memories of any size and contents, strings  *)
(* and areas anywhere in them, and numbers of any width.                   *)
(***************************************************************************)
EXTENDS JuliusLibc, SumTheorems, TLAPS

-----------------------------------------------------------------------------
(* The inductive invariant: where a loop is, what it has done so far, and   *)
(* that what it has still to read is what was there when it began.         *)

Bytes == mem \in [Addr -> 0 .. 255] /\ before \in [Addr -> 0 .. 255]

Printers == {"puts", "put_hex", "put_dec", "panic"}

\* Which function each place in the code belongs to.
Places ==
  /\ pc = "idle" => call.op = "none" /\ mem = before
  /\ \A l \in {"strlen", "memcpy", "memset", "memcmp", "strcmp", "strcpy", "read",
               "put_hex", "put_dec"} : pc = l => call.op = l
  /\ pc \in {"puts", "str_len", "write"} => call.op \in Printers
  /\ pc = "hex_digits" => call.op = "put_hex"
  /\ pc = "dec_digits" => call.op = "put_dec"
  /\ pc \in {"panic", "panic_msg", "panic_newline", "ud2", "halted"} => call.op = "panic"
  /\ pc = "trap" => call.op \in Traps
  /\ back \in {"returned", "panic_msg", "panic_newline", "ud2"}
  /\ back # "returned" => call.op = "panic"

\* The arguments of the call in progress are ones the caller may pass.
Arguments ==
  /\ call.op = "memcpy" => Area(Arg(1), Arg(3)) /\ Area(Arg(2), Arg(3))
  /\ call.op = "memset" => Area(Arg(1), Arg(3)) /\ Arg(2) \in Int
  /\ call.op = "read" => Area(Arg(2), Arg(3))
  /\ call.op = "strcpy" =>
       /\ Arg(1) \in User /\ Arg(2) \in User
       /\ \E e \in Arg(2) .. UserTop : before[e] = 0
       /\ \A k \in 0 .. Top : InString(before, Arg(2), k) =>
            Arg(1) + k <= UserTop /\ (k = 0 \/ Arg(1) # Arg(2) + k)
  /\ call.op = "put_hex" => Arg(1) \in 0 .. Sixteens[HexDigits] - 1
  /\ call.op = "put_dec" => Arg(1) \in (-IntMax - 1) .. IntMax

\* Only the first k bytes at d have been stored.
StoredUpTo(d, k) == \A a \in Addr \ (d .. d + k - 1) : mem[a] = before[a]

MemcpyLoop ==
  pc = "memcpy" =>
    /\ n \in 0 .. Arg(3)
    /\ p = Arg(1) + (Arg(3) - n) /\ q = Arg(2) + (Arg(3) - n)
    /\ StoredUpTo(Arg(1), Arg(3) - n)
    /\ Arg(1) \notin Arg(2) + 1 .. Arg(2) + Arg(3) - 1 =>
         \A k \in 0 .. Arg(3) - n - 1 : mem[Arg(1) + k] = before[Arg(2) + k]

MemsetLoop ==
  pc = "memset" =>
    /\ n \in 0 .. Arg(3) /\ p = Arg(1) + (Arg(3) - n)
    /\ StoredUpTo(Arg(1), Arg(3) - n)
    /\ \A k \in 0 .. Arg(3) - n - 1 : mem[Arg(1) + k] = Arg(2) % 256

StrcpyLoop ==
  pc = "strcpy" =>
    /\ p - Arg(1) \in 0 .. Top /\ p \in Addr /\ q = Arg(2) + (p - Arg(1))
    /\ InString(before, Arg(2), p - Arg(1))
    /\ StoredUpTo(Arg(1), p - Arg(1))
    /\ \A k \in 0 .. p - Arg(1) - 1 : mem[Arg(1) + k] = before[Arg(2) + k]

ReadCall == pc = "read" => p = Arg(2) /\ n = Arg(3) /\ mem = before

\* The digits of put_hex still to come fit into what is left of the buffer, and
\* the prefix with them if the number is not of full width.
HexLoop ==
  /\ pc = "put_hex" => v = Arg(1) /\ mem = before
  /\ pc = "hex_digits" =>
       LET k == Buf + HexBuf - 1 - p
       IN /\ p \in Int /\ k \in 0 .. HexDigits /\ v \in Nat
          /\ ~FullWidth => k <= HexDigits - 1 /\ v < Sixteens[HexDigits - 1 - k]

DecLoop ==
  /\ pc = "put_dec" => v = Arg(1) /\ mem = before
  /\ pc = "dec_digits" =>
       LET k == Buf + DecBuf - 1 - p
       IN /\ p \in Int /\ k \in 0 .. DecDigits /\ v \in Int
          /\ v < Tens[DecDigits - k] /\ -v < Tens[DecDigits - k]

LoopInv ==
  /\ Bytes /\ Places /\ Arguments
  /\ MemcpyLoop /\ MemsetLoop /\ StrcpyLoop /\ ReadCall /\ HexLoop /\ DecLoop
  /\ StaysInBounds /\ CopiesExact

-----------------------------------------------------------------------------
(* The layout of memory *)

LEMMA Layout ==
  /\ UserTop \in Nat /\ UserTop >= 1 /\ Top \in Nat /\ Top > UserTop + 12
  /\ Buf = UserTop + 12 /\ HexBuf = HexDigits + 2 /\ DecBuf = DecDigits + 3
  /\ Top = Buf + HexBuf + DecBuf
  /\ HexDigits \in Nat /\ HexDigits >= 1 /\ DecDigits \in Nat /\ DecDigits >= 1
  /\ User \subseteq Addr
BY LibcAssumption DEF User, Addr, Top, Buf, HexBuf, DecBuf

\* The powers of the two bases, one step at a time.
LEMMA Powers ==
  /\ \A k \in 0 .. HexDigits : Sixteens[k] \in Nat
  /\ \A k \in 0 .. DecDigits : Tens[k] \in Nat
  /\ Sixteens[0] = 1 /\ Tens[0] = 1
  /\ \A k \in 0 .. HexDigits - 1 : Sixteens[k + 1] = 16 * Sixteens[k]
  /\ \A k \in 0 .. DecDigits - 1 : Tens[k + 1] = 10 * Tens[k]
  /\ IntMax \in Nat /\ IntMax + 1 < Tens[DecDigits]
BY LibcAssumption

\* A number below the next power is below this one after the division.
LEMMA HexQuotient ==
  ASSUME NEW x \in Nat, NEW k \in 0 .. HexDigits - 1, x < Sixteens[k + 1]
  PROVE  x \div 16 \in Nat /\ x \div 16 < Sixteens[k]
<1> DEFINE X == Sixteens[k]
<1>1. X \in Nat /\ x < 16 * X
  <2>1. k \in 0 .. HexDigits
    BY Layout
  <2> QED BY <2>1, Powers
<1>2. x \div 16 \in Nat /\ x \div 16 < X
  <2> HIDE DEF X
  <2> QED BY <1>1
<1> QED BY <1>2

LEMMA DecQuotient ==
  ASSUME NEW x \in Int, NEW k \in 0 .. DecDigits - 1,
         x < Tens[k + 1], -x < Tens[k + 1]
  PROVE  /\ Quot(x) \in Int /\ Quot(x) < Tens[k] /\ -Quot(x) < Tens[k]
         /\ 48 + Rem(x) \in 39 .. 57
<1> DEFINE X == Tens[k]
<1>1. X \in Nat /\ x < 10 * X /\ -x < 10 * X
  <2>1. k \in 0 .. DecDigits
    BY Layout
  <2> QED BY <2>1, Powers
<1> HIDE DEF X
<1>2. /\ Quot(x) \in Int /\ Quot(x) < X /\ -Quot(x) < X
      /\ 48 + Rem(x) \in 39 .. 57
  <2>1. CASE x >= 0
    BY <1>1, <2>1 DEF Quot, Rem
  <2>2. CASE x < 0
    BY <1>1, <2>2 DEF Quot, Rem
  <2> QED BY <2>1, <2>2
<1> QED BY <1>2 DEF X

-----------------------------------------------------------------------------
(* Entering the kernel *)

\* Every argument is in a register of its own.
LEMMA StubLoads ==
  ASSUME NEW nr, NEW args, DOMAIN args \subseteq 1 .. 6, NEW k \in DOMAIN args
  PROVE  Stub(nr, args)[ArgOrder[k]] = args[k]
<1>1. \A j \in 1 .. 6 : ArgOrder[j] = ArgOrder[k] => j = k
  BY DEF ArgOrder
<1>2. ArgOrder[k] \in Registers /\ ArgOrder[k] # "rax"
  BY DEF ArgOrder, Registers
<1>3. (CHOOSE j \in DOMAIN args : ArgOrder[j] = ArgOrder[k]) = k
  BY <1>1
<1> QED BY <1>2, <1>3 DEF Stub

LEMMA StubNumber ==
  ASSUME NEW nr, NEW args
  PROVE  Stub(nr, args)["rax"] = nr
BY DEF Stub, Registers

\* The kernel reads the registers the stub loads.
LEMMA Entry ==
  ASSUME NEW entry \in KernelTable, NEW args, DOMAIN args \subseteq 1 .. 6
  PROVE  LET s == KernelSees(Stub(entry[1], args))
         IN /\ s.name = entry[2]
            /\ s.args = [k \in 1 .. entry[3] |->
                           IF k <= 6 THEN Clobbered(Stub(entry[1], args))[KernelOrder[k]] ELSE Junk]
<1>1. \A e \in KernelTable : e[1] = entry[1] => e = entry
  BY DEF KernelTable
<1>2. (CHOOSE e \in {e \in KernelTable : e[1] = entry[1]} : TRUE) = entry
  BY <1>1
<1>3. {e \in KernelTable : e[1] = entry[1]} # {}
  OBVIOUS
<1>4. Stub(entry[1], args)["rax"] = entry[1]
  BY StubNumber
<1> QED BY <1>2, <1>3, <1>4, Zenon DEF KernelSees

\* and so sees every argument the stub was given, in its place.
Loaded(entry, args, len) ==
  len \in 0 .. 6 /\ DOMAIN args = 1 .. len /\ len <= entry[3] /\ entry[3] \in Nat

Arrives(entry, args, len) ==
  LET s == KernelSees(Stub(entry[1], args))
  IN /\ s.name = entry[2]
     /\ DOMAIN s.args = 1 .. entry[3]
     /\ \A k \in 1 .. len : s.args[k] = args[k]

LEMMA Passed ==
  ASSUME NEW entry \in KernelTable, NEW args, NEW len, Loaded(entry, args, len)
  PROVE  Arrives(entry, args, len)
<1> DEFINE s == KernelSees(Stub(entry[1], args))
<1>0. len \in 0 .. 6 /\ DOMAIN args = 1 .. len /\ len <= entry[3] /\ entry[3] \in Nat
  BY DEF Loaded
<1>1. /\ s.name = entry[2]
      /\ s.args = [k \in 1 .. entry[3] |->
                     IF k <= 6 THEN Clobbered(Stub(entry[1], args))[KernelOrder[k]] ELSE Junk]
  <2>1. DOMAIN args \subseteq 1 .. 6
    BY <1>0
  <2> QED BY <2>1, Entry
<1>2. ASSUME NEW k \in 1 .. len
      PROVE  Clobbered(Stub(entry[1], args))[KernelOrder[k]] = args[k]
  <2>1. KernelOrder[k] = ArgOrder[k] /\ ArgOrder[k] \in Registers
        /\ ArgOrder[k] # "rcx" /\ ArgOrder[k] # "r11"
    BY <1>0 DEF KernelOrder, ArgOrder, Registers
  <2>2. DOMAIN Stub(entry[1], args) = Registers
    BY DEF Stub
  <2>3. Stub(entry[1], args)[ArgOrder[k]] = args[k]
    BY <1>0, StubLoads
  <2> QED BY <2>1, <2>2, <2>3 DEF Clobbered
<1> HIDE DEF s
<1>3. \A k \in 1 .. len : s.args[k] = args[k]
  BY <1>0, <1>1, <1>2
<1> QED BY <1>1, <1>3 DEF s, Arrives

\* The same for the calls the model makes.
LEMMA ReadPassed ==
  ASSUME NEW a, NEW b, NEW c
  PROVE  LET s == KernelSees(SysRead(a, b, c))
         IN /\ s.name = "read" /\ DOMAIN s.args = 1 .. 3
            /\ s.args[1] = a /\ s.args[2] = b /\ s.args[3] = c
<1> DEFINE e == <<33554435, "read", 3>>
<1>1. e \in KernelTable /\ SysRead(a, b, c) = Stub(e[1], <<a, b, c>>) /\ DOMAIN <<a, b, c>> = 1 .. 3
  BY DEF KernelTable, SysRead, BSD_SYSCALL
<1>2. Arrives(e, <<a, b, c>>, 3)
  <2>1. Loaded(e, <<a, b, c>>, 3)
    BY <1>1 DEF Loaded
  <2> QED BY <1>1, <2>1, Passed
<1> QED BY <1>1, <1>2 DEF Arrives

\* The wrapper of op hands its arguments, given, to the stub as they are, and
\* entry is the kernel's line for it.
Fits(op, args, entry, given) ==
  /\ entry[2] = op /\ entry[3] \in Nat /\ Arity(op) \in 0 .. 6 /\ Arity(op) <= entry[3]
  /\ DOMAIN given = 1 .. Arity(op) /\ \A k \in 1 .. Arity(op) : given[k] = args[k]
  /\ Regs(op, args) = Stub(entry[1], given)

\* The kernel sees op with the arguments args.
SeenAs(op, args) ==
  /\ KernelSees(Regs(op, args)).name = op
  /\ \A k \in 1 .. Arity(op) : /\ k \in DOMAIN KernelSees(Regs(op, args)).args
                               /\ KernelSees(Regs(op, args)).args[k] = args[k]

LEMMA Seen ==
  ASSUME NEW op, NEW args, NEW entry \in KernelTable, NEW given, Fits(op, args, entry, given)
  PROVE  SeenAs(op, args)
<1> DEFINE len == Arity(op)
<1>1. len \in 0 .. 6 /\ len <= entry[3] /\ entry[3] \in Nat /\ DOMAIN given = 1 .. len
  BY DEF Fits
<1> HIDE DEF len
<1>2. /\ KernelSees(Stub(entry[1], given)).name = entry[2]
      /\ DOMAIN KernelSees(Stub(entry[1], given)).args = 1 .. entry[3]
      /\ \A k \in 1 .. len : KernelSees(Stub(entry[1], given)).args[k] = given[k]
  <2>1. Loaded(entry, given, len)
    BY <1>1 DEF Loaded
  <2> QED BY <2>1, Passed DEF Arrives
<1>3. \A k \in 1 .. len : k \in 1 .. entry[3]
  BY <1>1
<1> QED BY <1>1, <1>2, <1>3 DEF len, Fits, SeenAs

LEMMA TrapPassed ==
  ASSUME NEW op \in Traps, NEW args \in [1 .. Arity(op) -> TrapArgs]
  PROVE  SeenAs(op, args)
<1> SUFFICES \E entry \in KernelTable : \E given : Fits(op, args, entry, given)
  BY Seen
<1>1. CASE op = "task_self"
  <2>1. <<-28, "task_self", 0>> \in KernelTable
    BY DEF KernelTable
  <2>2. Fits(op, args, <<-28, "task_self", 0>>, <<>>)
    BY <1>1 DEF Fits, Arity, Regs, MachTaskSelf, MACH_TRAP
  <2> QED BY <2>1, <2>2
<1>2. CASE op = "host_self"
  <2>1. <<-20, "host_self", 0>> \in KernelTable
    BY DEF KernelTable
  <2>2. Fits(op, args, <<-20, "host_self", 0>>, <<>>)
    BY <1>2 DEF Fits, Arity, Regs, MachHostSelf, MACH_TRAP
  <2> QED BY <2>1, <2>2
<1>3. CASE op = "reply_port"
  <2>1. <<-26, "reply_port", 0>> \in KernelTable
    BY DEF KernelTable
  <2>2. Fits(op, args, <<-26, "reply_port", 0>>, <<>>)
    BY <1>3 DEF Fits, Arity, Regs, MachReplyPort, MACH_TRAP
  <2> QED BY <2>1, <2>2
<1>4. CASE op = "set_bootstrap_port"
  <2>1. <<-88, "set_bootstrap_port", 2>> \in KernelTable
    BY DEF KernelTable
  <2>2. Fits(op, args, <<-88, "set_bootstrap_port", 2>>, <<args[1], args[2]>>)
    BY <1>4 DEF Fits, Arity, Regs, TaskSetBootstrapPort, MACH_TRAP
  <2> QED BY <2>1, <2>2
<1>5. CASE op = "vm_deallocate"
  <2>1. <<-12, "vm_deallocate", 3>> \in KernelTable
    BY DEF KernelTable
  <2>2. Fits(op, args, <<-12, "vm_deallocate", 3>>, <<args[1], args[2], args[3]>>)
    BY <1>5 DEF Fits, Arity, Regs, VmDeallocate, MACH_TRAP
  <2> QED BY <2>1, <2>2
<1>6. CASE op = "port_allocate"
  <2>1. <<-16, "port_allocate", 3>> \in KernelTable
    BY DEF KernelTable
  <2>2. Fits(op, args, <<-16, "port_allocate", 3>>, <<args[1], args[2], args[3]>>)
    BY <1>6 DEF Fits, Arity, Regs, PortAllocate, MACH_TRAP
  <2> QED BY <2>1, <2>2
<1>7. CASE op = "vm_allocate"
  <2>1. <<-10, "vm_allocate", 4>> \in KernelTable
    BY DEF KernelTable
  <2>2. Fits(op, args, <<-10, "vm_allocate", 4>>, <<args[1], args[2], args[3], args[4]>>)
    BY <1>7 DEF Fits, Arity, Regs, VmAllocate, MACH_TRAP
  <2> QED BY <2>1, <2>2
<1>8. CASE op = "port_insert_right"
  <2>1. <<33554968, "port_insert_right", 4>> \in KernelTable
    BY DEF KernelTable
  <2>2. Fits(op, args, <<33554968, "port_insert_right", 4>>, <<args[1], args[2], args[3], args[4]>>)
    BY <1>8 DEF Fits, Arity, Regs, PortInsertRight, BSD_SYSCALL
  <2> QED BY <2>1, <2>2
<1>9. CASE op = "mach_msg"
  <2>1. <<-31, "mach_msg", 7>> \in KernelTable
    BY DEF KernelTable
  <2>2. Fits(op, args, <<-31, "mach_msg", 7>>, <<args[1], args[2], args[3], args[4], args[5], args[6]>>)
    BY <1>9 DEF Fits, Arity, Regs, MachMsg, MACH_TRAP
  <2> QED BY <2>1, <2>2
<1> QED BY <1>1, <1>2, <1>3, <1>4, <1>5, <1>6, <1>7, <1>8, <1>9 DEF Traps

-----------------------------------------------------------------------------
(* Steps that store nothing *)

Looping == {"memcpy", "memset", "strcpy", "read", "put_hex", "hex_digits", "put_dec",
            "dec_digits"}
Copying == {"memcpy", "memset", "strcpy"}

\* A step that stores nothing and enters none of the loops that do.
LEMMA Quiet ==
  ASSUME LoopInv, UNCHANGED <<mem, before, call>>, Places', pc' \notin Looping,
         pc' = "returned" => call.op \notin Copying
  PROVE  LoopInv'
<1>1. Bytes' /\ Arguments'
  BY DEF LoopInv, Bytes, Arguments, Arg
<1>2. /\ MemcpyLoop' /\ MemsetLoop' /\ StrcpyLoop' /\ ReadCall' /\ HexLoop' /\ DecLoop'
  BY DEF LoopInv, MemcpyLoop, MemsetLoop, StrcpyLoop, ReadCall, HexLoop, DecLoop, Looping
<1>3. StaysInBounds' /\ CopiesExact'
  BY DEF LoopInv, StaysInBounds, CopiesExact, Copying, Arg, FullWidth, Destination, InString
<1> QED BY <1>1, <1>2, <1>3 DEF LoopInv

LEMMA QuietSteps ==
  ASSUME LoopInv, Strlen \/ Memcmp \/ Strcmp \/ Puts \/ StrLen \/ Write \/ Panic \/ Trap
  PROVE  LoopInv'
<1>1. UNCHANGED <<mem, before, call>>
  BY DEF Strlen, Memcmp, Strcmp, Puts, StrLen, Write, Panic, Trap, Inside
<1>2. /\ Places' /\ pc' \notin Looping
      /\ pc' = "returned" => call.op \notin Copying
  BY <1>1 DEF LoopInv, Places, Strlen, Memcmp, Strcmp, Puts, StrLen, Write, Panic, Trap, Inside,
         Return, Loop, Printers, Traps, Looping, Copying, Locals
<1> QED BY <1>1, <1>2, Quiet

-----------------------------------------------------------------------------
(* A call begins: nothing is stored yet *)

LEMMA Entered ==
  ASSUME LoopInv, NEW op, NEW args, NEW l, Enter(op, args, l)
  PROVE  /\ UNCHANGED <<mem, before, back>> /\ mem = before /\ pc' = l /\ back = "returned"
         /\ call'.op = op /\ call'.args = args
BY DEF Enter, LoopInv, Places

\* What is left to show of a call: its arguments, and its loop as it begins.
LEMMA Begins ==
  ASSUME LoopInv, NEW op, NEW args, NEW l, Enter(op, args, l), l # "idle", l # "returned",
         Places', Arguments', MemcpyLoop', MemsetLoop', StrcpyLoop', ReadCall', HexLoop', DecLoop'
  PROVE  LoopInv'
BY Entered DEF LoopInv, Bytes, StaysInBounds, CopiesExact

\* Calls of functions without a loop that stores.
LEMMA CallQuiet ==
  ASSUME LoopInv,
         CallStrlen \/ CallMemcmp \/ CallStrcmp \/ CallPuts \/ CallPanic \/ CallTrap
  PROVE  LoopInv'
<1>1. PICK op, args, l :
        /\ op \in {"strlen", "memcmp", "strcmp", "puts", "panic"} \cup Traps
        /\ Enter(op, args, l)
        /\ l = IF op \in Traps THEN "trap" ELSE op
  BY DEF CallStrlen, CallMemcmp, CallStrcmp, CallPuts, CallPanic, CallTrap, Traps
<1>2. /\ Places' /\ Arguments' /\ pc' \notin Looping /\ l # "idle" /\ l # "returned"
  BY <1>1, Entered DEF Places, Arguments, Looping, Traps, Printers
<1> QED BY <1>1, <1>2, Begins
        DEF MemcpyLoop, MemsetLoop, StrcpyLoop, ReadCall, HexLoop, DecLoop, Looping

LEMMA CallMemcpyStep ==
  ASSUME LoopInv, CallMemcpy
  PROVE  LoopInv'
<1>1. PICK d, s \in User, len \in 0 .. UserTop :
        /\ Area(d, len) /\ Area(s, len)
        /\ Enter("memcpy", <<d, s, len>>, "memcpy") /\ Locals(d, s, len, 0)
  BY DEF CallMemcpy
<1>2. Places' /\ Arguments'
  BY <1>1, Entered DEF Places, Arguments, Arg, Area, Traps, Printers
<1>3. MemcpyLoop'
  BY <1>1, Entered, Layout DEF MemcpyLoop, Arg, Locals, StoredUpTo, Addr, User
<1> QED BY <1>1, <1>2, <1>3, Entered, Begins
        DEF MemsetLoop, StrcpyLoop, ReadCall, HexLoop, DecLoop

LEMMA CallMemsetStep ==
  ASSUME LoopInv, CallMemset
  PROVE  LoopInv'
<1>1. PICK d \in User, len \in 0 .. UserTop, c \in FillArgs :
        Area(d, len) /\ Enter("memset", <<d, c, len>>, "memset") /\ Locals(d, 0, len, 0)
  BY DEF CallMemset
<1>2. Places' /\ Arguments'
  <2>1. c \in Int
    BY LibcAssumption
  <2> QED BY <1>1, <2>1, Entered DEF Places, Arguments, Arg, Area, Traps, Printers
<1>3. MemsetLoop'
  BY <1>1, Entered, Layout DEF MemsetLoop, Arg, Locals, StoredUpTo, Addr, User
<1> QED BY <1>1, <1>2, <1>3, Entered, Begins
        DEF MemcpyLoop, StrcpyLoop, ReadCall, HexLoop, DecLoop

LEMMA CallStrcpyStep ==
  ASSUME LoopInv, CallStrcpy
  PROVE  LoopInv'
<1>1. PICK d \in User, s \in Strings :
        /\ \A k \in 0 .. Top : InString(mem, s, k) => d + k <= UserTop /\ (k = 0 \/ d # s + k)
        /\ Enter("strcpy", <<d, s>>, "strcpy") /\ Locals(d, s, 0, 0)
  BY DEF CallStrcpy
<1>2. Places'
  BY <1>1, Entered DEF Places, Traps, Printers
<1>3. s \in User /\ \E e \in s .. UserTop : before[e] = 0
  BY <1>1, Entered DEF Strings
<1>4. Arguments'
  BY <1>1, <1>3, Entered DEF Arguments, Arg
<1>5. StrcpyLoop'
  BY <1>1, <1>3, Entered, Layout DEF StrcpyLoop, Arg, Locals, StoredUpTo, InString, Addr, User
<1> QED BY <1>1, <1>2, <1>4, <1>5, Entered, Begins
        DEF MemcpyLoop, MemsetLoop, ReadCall, HexLoop, DecLoop

LEMMA CallReadStep ==
  ASSUME LoopInv, CallRead
  PROVE  LoopInv'
<1>1. PICK d \in User, len \in 0 .. UserTop :
        Area(d, len) /\ Enter("read", <<0, d, len>>, "read") /\ Locals(d, 0, len, 0)
  BY DEF CallRead
<1>2. Places' /\ Arguments' /\ ReadCall'
  BY <1>1, Entered DEF Places, Arguments, ReadCall, Arg, Area, Traps, Printers, Locals
<1> QED BY <1>1, <1>2, Entered, Begins
        DEF MemcpyLoop, MemsetLoop, StrcpyLoop, HexLoop, DecLoop

LEMMA CallPrinters ==
  ASSUME LoopInv, CallPutHex \/ CallPutDec
  PROVE  LoopInv'
<1>1. CASE CallPutHex
  <2>1. PICK x \in HexArgs : Enter("put_hex", <<x>>, "put_hex") /\ Locals(0, 0, 0, x)
    BY <1>1 DEF CallPutHex
  <2>2. Places' /\ Arguments' /\ HexLoop' /\ DecLoop'
    <3>1. x \in 0 .. Sixteens[HexDigits] - 1
      BY LibcAssumption
    <3>2. Places' /\ HexLoop' /\ DecLoop'
      BY <2>1, Entered DEF Places, HexLoop, DecLoop, Arg, Traps, Printers, Locals
    <3>3. Arguments'
      BY <2>1, <3>1, Entered DEF Arguments, Arg
    <3> QED BY <3>2, <3>3
  <2> QED BY <2>1, <2>2, Entered, Begins DEF MemcpyLoop, MemsetLoop, StrcpyLoop, ReadCall
<1>2. CASE CallPutDec
  <2>1. PICK x \in DecArgs : Enter("put_dec", <<x>>, "put_dec") /\ Locals(0, 0, 0, x)
    BY <1>2 DEF CallPutDec
  <2>2. Places' /\ Arguments' /\ HexLoop' /\ DecLoop'
    <3>1. x \in (-IntMax - 1) .. IntMax
      BY LibcAssumption
    <3>2. Places' /\ HexLoop' /\ DecLoop'
      BY <2>1, Entered DEF Places, HexLoop, DecLoop, Arg, Traps, Printers, Locals
    <3>3. Arguments'
      BY <2>1, <3>1, Entered DEF Arguments, Arg
    <3> QED BY <3>2, <3>3
  <2> QED BY <2>1, <2>2, Entered, Begins DEF MemcpyLoop, MemsetLoop, StrcpyLoop, ReadCall
<1> QED BY <1>1, <1>2

-----------------------------------------------------------------------------
(* The loops that store *)

LEMMA MemcpyStep ==
  ASSUME LoopInv, Memcpy
  PROVE  LoopInv'
<1> USE DEF Inside
<1>1. /\ call' = call /\ before' = before /\ back' = back /\ pc = "memcpy" /\ call.op = "memcpy"
      /\ Area(Arg(1), Arg(3)) /\ Area(Arg(2), Arg(3)) /\ Bytes
  BY DEF Memcpy, LoopInv, Places, Arguments
<1>2. CASE n = 0
  <2>1. mem' = mem /\ pc' = "returned"
    BY <1>2 DEF Memcpy, Return, LoopInv, MemcpyLoop
  <2>2. Places' /\ Arguments' /\ Bytes'
    BY <1>1, <2>1 DEF LoopInv, Places, Arguments, Bytes, Arg, InString
  <2>3. StaysInBounds' /\ CopiesExact'
    BY <1>1, <1>2, <2>1
    DEF LoopInv, MemcpyLoop, StaysInBounds, CopiesExact, Destination, StoredUpTo, Area, Arg
  <2> QED BY <2>1, <2>2, <2>3
          DEF LoopInv, MemcpyLoop, MemsetLoop, StrcpyLoop, ReadCall, HexLoop, DecLoop
<1>3. CASE n > 0
  <2> DEFINE k == Arg(3) - n
  <2>1. /\ pc' = pc /\ p' = p + 1 /\ q' = q + 1 /\ n' = n - 1
        /\ mem' = [mem EXCEPT ![p] = mem[q]]
    BY <1>3 DEF Memcpy, Loop, Locals
  <2>2. /\ k \in 0 .. Arg(3) - 1 /\ p = Arg(1) + k /\ q = Arg(2) + k
        /\ p \in Addr /\ q \in Addr /\ n \in 1 .. Arg(3) /\ Arg(3) \in Nat
        /\ Arg(1) \in User /\ Arg(2) \in User
    BY <1>1, <1>3, Layout DEF LoopInv, MemcpyLoop, Area, Addr, User
  <2>3. Places' /\ Arguments' /\ Bytes'
    BY <1>1, <2>1, <2>2 DEF LoopInv, Places, Arguments, Bytes, Arg, InString
  <2>4. MemcpyLoop'
    <3>1. StoredUpTo(Arg(1), k)
      BY <1>1 DEF LoopInv, MemcpyLoop
    <3>2. ASSUME NEW a \in Addr, a \notin Arg(1) .. Arg(1) + k
          PROVE  mem'[a] = before[a]
      <4>1. a # p /\ a \notin Arg(1) .. Arg(1) + k - 1
        BY <2>2, <3>2 DEF User, Addr
      <4> QED BY <1>1, <2>1, <3>1, <4>1 DEF StoredUpTo, Bytes
    <3>3. ASSUME Arg(1) \notin Arg(2) + 1 .. Arg(2) + Arg(3) - 1, NEW j \in 0 .. k
          PROVE  mem'[Arg(1) + j] = before[Arg(2) + j]
      <4>1. mem[q] = before[q]
        BY <2>2, <3>1, <3>3 DEF StoredUpTo, User
      <4>2. \A i \in 0 .. k - 1 : mem[Arg(1) + i] = before[Arg(2) + i]
        BY <1>1, <3>3 DEF LoopInv, MemcpyLoop
      <4>3. CASE j = k
        BY <1>1, <2>1, <2>2, <4>1, <4>3 DEF Bytes
      <4>4. CASE j # k
        BY <1>1, <2>1, <2>2, <4>2, <4>4 DEF Bytes, User
      <4> QED BY <4>3, <4>4
    <3>4. Arg(3)' - n' = k + 1 /\ Arg(1) + (k + 1) - 1 = Arg(1) + k
      BY <1>1, <2>1, <2>2 DEF Arg, User
    <3>5. StoredUpTo(Arg(1), Arg(3) - n)'
      BY <1>1, <3>2, <3>4 DEF StoredUpTo, Arg
    <3>6. /\ n' \in 0 .. Arg(3)' /\ p' = Arg(1)' + (Arg(3)' - n') /\ q' = Arg(2)' + (Arg(3)' - n')
      BY <1>1, <2>1, <2>2 DEF Arg, User
    <3>7. ASSUME Arg(1) \notin Arg(2) + 1 .. Arg(2) + Arg(3) - 1, NEW j \in 0 .. Arg(3)' - n' - 1
          PROVE  mem'[Arg(1) + j] = before[Arg(2) + j]
      BY <2>2, <3>3, <3>4, <3>7
    <3> QED BY <1>1, <3>5, <3>6, <3>7 DEF MemcpyLoop, Arg
  <2>5. StaysInBounds' /\ CopiesExact'
    <3>1. Destination = Arg(1) .. Arg(1) + Arg(3) - 1 /\ Destination' = Destination
      BY <1>1 DEF Destination, Arg
    <3>2. p \in Arg(1) .. Arg(1) + Arg(3) - 1
      BY <2>2 DEF User
    <3>3. StaysInBounds'
      BY <1>1, <2>1, <3>1, <3>2 DEF LoopInv, StaysInBounds, Bytes, Arg, FullWidth
    <3>4. CopiesExact'
      BY <1>1, <2>1 DEF CopiesExact
    <3> QED BY <3>3, <3>4
  <2> QED BY <1>1, <2>1, <2>3, <2>4, <2>5
          DEF LoopInv, MemsetLoop, StrcpyLoop, ReadCall, HexLoop, DecLoop
<1> QED BY <1>2, <1>3 DEF Memcpy

LEMMA MemsetStep ==
  ASSUME LoopInv, Memset
  PROVE  LoopInv'
<1> USE DEF Inside
<1>1. /\ call' = call /\ before' = before /\ back' = back /\ pc = "memset" /\ call.op = "memset"
      /\ Area(Arg(1), Arg(3)) /\ Arg(2) \in Int /\ Bytes
  BY DEF Memset, LoopInv, Places, Arguments
<1>2. CASE n = 0
  <2>1. mem' = mem /\ pc' = "returned"
    BY <1>2 DEF Memset, Return, LoopInv, MemsetLoop
  <2>2. Places' /\ Arguments' /\ Bytes'
    BY <1>1, <2>1 DEF LoopInv, Places, Arguments, Bytes, Arg, InString
  <2>3. StaysInBounds' /\ CopiesExact'
    BY <1>1, <1>2, <2>1
    DEF LoopInv, MemsetLoop, StaysInBounds, CopiesExact, Destination, StoredUpTo, Area, Arg
  <2> QED BY <2>1, <2>2, <2>3
          DEF LoopInv, MemcpyLoop, MemsetLoop, StrcpyLoop, ReadCall, HexLoop, DecLoop
<1>3. CASE n > 0
  <2> DEFINE k == Arg(3) - n
  <2> DEFINE c == Arg(2) % 256
  <2>1. /\ pc' = pc /\ p' = p + 1 /\ n' = n - 1 /\ mem' = [mem EXCEPT ![p] = c] /\ c \in 0 .. 255
    BY <1>1, <1>3 DEF Memset, Loop, Locals, Arg
  <2>2. /\ k \in 0 .. Arg(3) - 1 /\ p = Arg(1) + k /\ p \in Addr
        /\ n \in 1 .. Arg(3) /\ Arg(3) \in Nat /\ Arg(1) \in User
    BY <1>1, <1>3, Layout DEF LoopInv, MemsetLoop, Area, Addr, User
  <2> HIDE DEF c
  <2>3. Places' /\ Arguments' /\ Bytes'
    BY <1>1, <2>1, <2>2 DEF LoopInv, Places, Arguments, Bytes, Arg, InString
  <2>4. MemsetLoop'
    <3>1. StoredUpTo(Arg(1), k) /\ \A i \in 0 .. k - 1 : mem[Arg(1) + i] = c
      BY <1>1 DEF LoopInv, MemsetLoop, c
    <3>2. ASSUME NEW a \in Addr, a \notin Arg(1) .. Arg(1) + k
          PROVE  mem'[a] = before[a]
      <4>1. a # p /\ a \notin Arg(1) .. Arg(1) + k - 1
        BY <2>2, <3>2 DEF User, Addr
      <4> QED BY <1>1, <2>1, <3>1, <4>1 DEF StoredUpTo, Bytes
    <3>3. ASSUME NEW j \in 0 .. k
          PROVE  mem'[Arg(1) + j] = c
      <4>1. CASE j = k
        BY <1>1, <2>1, <2>2, <4>1 DEF Bytes
      <4>2. CASE j # k
        BY <1>1, <2>1, <2>2, <3>1, <4>2 DEF Bytes, User
      <4> QED BY <4>1, <4>2
    <3>4. Arg(3)' - n' = k + 1 /\ Arg(1) + (k + 1) - 1 = Arg(1) + k
      BY <1>1, <2>1, <2>2 DEF Arg, User
    <3>5. StoredUpTo(Arg(1), Arg(3) - n)'
      BY <1>1, <3>2, <3>4 DEF StoredUpTo, Arg
    <3>6. n' \in 0 .. Arg(3)' /\ p' = Arg(1)' + (Arg(3)' - n')
      BY <1>1, <2>1, <2>2 DEF Arg, User
    <3>7. ASSUME NEW j \in 0 .. Arg(3)' - n' - 1
          PROVE  mem'[Arg(1)' + j] = Arg(2)' % 256
      BY <1>1, <2>2, <3>3, <3>4, <3>7 DEF Arg, c
    <3> QED BY <1>1, <3>5, <3>6, <3>7 DEF MemsetLoop
  <2>5. StaysInBounds' /\ CopiesExact'
    <3>1. Destination = Arg(1) .. Arg(1) + Arg(3) - 1 /\ Destination' = Destination
      BY <1>1 DEF Destination, Arg
    <3>2. p \in Arg(1) .. Arg(1) + Arg(3) - 1
      BY <2>2 DEF User
    <3>3. StaysInBounds'
      BY <1>1, <2>1, <3>1, <3>2 DEF LoopInv, StaysInBounds, Bytes, Arg, FullWidth
    <3>4. CopiesExact'
      BY <1>1, <2>1 DEF CopiesExact
    <3> QED BY <3>3, <3>4
  <2> QED BY <1>1, <2>1, <2>3, <2>4, <2>5
          DEF LoopInv, MemcpyLoop, StrcpyLoop, ReadCall, HexLoop, DecLoop
<1> QED BY <1>2, <1>3 DEF Memset

LEMMA StrcpyStep ==
  ASSUME LoopInv, Strcpy
  PROVE  LoopInv'
<1> USE DEF Inside
<1> DEFINE k == p - Arg(1)
<1>1. /\ call' = call /\ before' = before /\ back' = back /\ pc = "strcpy" /\ call.op = "strcpy"
      /\ Arg(1) \in User /\ Arg(2) \in User /\ Bytes
      /\ p' = p + 1 /\ q' = q + 1 /\ mem' = [mem EXCEPT ![p] = mem[q]]
  BY DEF Strcpy, LoopInv, Places, Arguments, Locals
<1>2. /\ k \in 0 .. Top /\ p \in Addr /\ q = Arg(2) + k /\ p = Arg(1) + k
      /\ InString(before, Arg(2), k) /\ StoredUpTo(Arg(1), k)
      /\ \A j \in 0 .. k - 1 : mem[Arg(1) + j] = before[Arg(2) + j]
  BY <1>1 DEF LoopInv, StrcpyLoop, Addr, User
<1>3. /\ \E e \in Arg(2) .. UserTop : before[e] = 0
      /\ \A j \in 0 .. Top : InString(before, Arg(2), j) =>
            Arg(1) + j <= UserTop /\ (j = 0 \/ Arg(1) # Arg(2) + j)
  BY <1>1 DEF LoopInv, Arguments
<1> HIDE DEF k
\* What is still to be read has not been stored over.
<1>4. q \in Addr /\ mem[q] = before[q]
  <2>1. q \in Addr
    BY <1>1, <1>2, Layout DEF InString, User, Addr
  <2>2. q \notin Arg(1) .. Arg(1) + k - 1
    <3> SUFFICES ASSUME q \in Arg(1) .. Arg(1) + k - 1
                 PROVE  FALSE
      OBVIOUS
    <3> DEFINE j == q - Arg(1)
    <3>0. j \in 0 .. k - 1 /\ q = Arg(1) + j /\ k \in Nat
      BY <1>1, <1>2, Layout DEF User
    <3> HIDE DEF j
    <3>1. k - j \in 1 .. k /\ Arg(1) = Arg(2) + (k - j)
      BY <1>1, <1>2, <3>0 DEF User
    <3>2. InString(before, Arg(2), k - j)
      BY <1>1, <1>2, <3>1, Layout DEF InString, User
    <3> QED BY <1>2, <1>3, <3>0, <3>1, <3>2, Layout
  <2> QED BY <1>2, <2>1, <2>2 DEF StoredUpTo
<1>5. /\ \A j \in 0 .. k : mem'[Arg(1) + j] = before[Arg(2) + j]
      /\ \A a \in Addr : a \notin Arg(1) .. Arg(1) + k => mem'[a] = before[a]
  <2>1. ASSUME NEW j \in 0 .. k
        PROVE  mem'[Arg(1) + j] = before[Arg(2) + j]
    BY <1>1, <1>2, <1>4 DEF Bytes, User
  <2>2. ASSUME NEW a \in Addr, a \notin Arg(1) .. Arg(1) + k
        PROVE  mem'[a] = before[a]
    <3>1. a # p /\ a \notin Arg(1) .. Arg(1) + k - 1
      BY <1>1, <1>2, <2>2 DEF User, Addr
    <3> QED BY <1>1, <1>2, <3>1 DEF StoredUpTo, Bytes
  <2> QED BY <2>1, <2>2
<1>6. Places' /\ Arguments' /\ Bytes'
  <2>1. Places'
    BY <1>1 DEF LoopInv, Places, Strcpy, Loop, Return
  <2>2. Arguments' /\ Bytes'
    BY <1>1, <1>4 DEF LoopInv, Arguments, Bytes, Arg, InString
  <2> QED BY <2>1, <2>2
<1>7. StaysInBounds'
  <2>1. p \in Destination /\ Destination' = Destination
    BY <1>1, <1>2 DEF Destination, Arg, InString
  <2> QED BY <1>1, <2>1 DEF LoopInv, StaysInBounds, Bytes, Arg, FullWidth
<1>8. CASE mem[q] # 0
  <2>1. pc' = pc
    BY <1>8 DEF Strcpy, Loop
  <2>2. InString(before, Arg(2), k + 1) /\ k + 1 \in 0 .. Top
    <3>1. Arg(2) + (k + 1) <= UserTop
      <4>1. PICK e \in Arg(2) .. UserTop : before[e] = 0
        BY <1>3
      <4>2. e - Arg(2) \in Nat /\ e = Arg(2) + (e - Arg(2))
        BY <1>1, <4>1, Layout DEF User
      <4>3. ~(e - Arg(2) \in 0 .. k - 1)
        BY <1>2, <4>1, <4>2 DEF InString
      <4>4. e - Arg(2) # k
        BY <1>2, <1>4, <1>8, <4>1, <4>2
      <4> QED BY <1>1, <1>2, <4>1, <4>2, <4>3, <4>4, Layout DEF User
    <3> QED BY <1>1, <1>2, <1>4, <1>8, <3>1, Layout DEF InString, User
  <2>3. p' - Arg(1)' = k + 1 /\ p' \in Addr
    BY <1>1, <1>2, <1>3, <2>2, Layout DEF Arg, User, Addr
  <2>4. StrcpyLoop'
    BY <1>1, <1>2, <1>5, <2>2, <2>3 DEF StrcpyLoop, StoredUpTo, Arg, User
  <2> QED BY <1>1, <1>6, <1>7, <2>1, <2>4
          DEF LoopInv, MemcpyLoop, MemsetLoop, ReadCall, HexLoop, DecLoop, CopiesExact
<1>9. CASE mem[q] = 0
  <2>1. pc' = "returned"
    BY <1>9 DEF Strcpy, Return
  <2>2. ASSUME NEW j \in 0 .. Top, InString(before, Arg(2), j)
        PROVE  j \in 0 .. k
    <3>1. before[Arg(2) + k] = 0 /\ k \in Nat
      BY <1>2, <1>4, <1>9, Layout
    <3>2. ~(k \in 0 .. j - 1)
      BY <2>2, <3>1 DEF InString
    <3> QED BY <3>1, <3>2, Layout
  <2>3. CopiesExact'
    BY <1>1, <1>5, <2>2 DEF CopiesExact, Arg
  <2> QED BY <1>1, <1>6, <1>7, <2>1, <2>3
          DEF LoopInv, MemcpyLoop, MemsetLoop, StrcpyLoop, ReadCall, HexLoop, DecLoop
<1> QED BY <1>8, <1>9

LEMMA ReadStep ==
  ASSUME LoopInv, Read
  PROVE  LoopInv'
<1> USE DEF Inside
<1>1. /\ call' = call /\ before' = before /\ back' = back /\ pc = "read" /\ call.op = "read"
      /\ Area(Arg(2), Arg(3)) /\ Bytes /\ mem = before /\ p = Arg(2) /\ n = Arg(3)
      /\ pc' = "returned"
  BY DEF Read, LoopInv, Places, Arguments, ReadCall, Return
<1>2. seen'.args[2] = p /\ seen'.args[3] = n
  BY ReadPassed DEF Read
<1>3. /\ mem' \in [Addr -> 0 .. 255]
      /\ \A a \in Addr : a \notin Arg(2) .. Arg(2) + Arg(3) - 1 => mem'[a] = before[a]
  <2>1. CASE mem' = mem
    BY <1>1, <2>1 DEF Bytes
  <2>2. CASE \E m \in 0 .. n : \E bytes \in [0 .. m - 1 -> Byte] :
               mem' = [a \in Addr |-> IF a \in p .. p + m - 1 THEN bytes[a - p] ELSE mem[a]]
    <3>0. PICK m \in 0 .. n : \E bytes \in [0 .. m - 1 -> Byte] :
            mem' = [a \in Addr |-> IF a \in p .. p + m - 1 THEN bytes[a - p] ELSE mem[a]]
      BY <2>2
    <3>1. PICK bytes \in [0 .. m - 1 -> Byte] :
            mem' = [a \in Addr |-> IF a \in p .. p + m - 1 THEN bytes[a - p] ELSE mem[a]]
      BY <3>0
    <3>2. Byte \subseteq 0 .. 255
      BY LibcAssumption
    <3>3. p \in Nat /\ n \in Nat /\ Addr \subseteq Nat
      BY <1>1, Layout DEF Area, User, Addr
    <3>4. ASSUME NEW a \in Addr
          PROVE  /\ mem'[a] \in 0 .. 255
                 /\ a \notin p .. p + n - 1 => mem'[a] = mem[a]
      <4>1. CASE a \in p .. p + m - 1
        <5>1. a - p \in 0 .. m - 1
          BY <3>3, <4>1
        <5>2. mem'[a] = bytes[a - p]
          BY <3>1, <4>1
        <5>3. a \in p .. p + n - 1
          BY <3>3, <4>1
        <5> QED BY <3>2, <5>1, <5>2, <5>3
      <4>2. CASE a \notin p .. p + m - 1
        BY <1>1, <3>1, <3>3, <4>2 DEF Bytes
      <4> QED BY <4>1, <4>2
    <3>5. mem' \in [Addr -> 0 .. 255]
      BY <3>1, <3>4
    <3> QED BY <1>1, <3>4, <3>5
  <2> DEFINE a0 == seen'.args[2]
  <2> DEFINE n0 == seen'.args[3]
  <2>3. \/ \E m \in 0 .. n0 : \E bytes \in [0 .. m - 1 -> Byte] :
             mem' = [a \in Addr |-> IF a \in a0 .. a0 + m - 1 THEN bytes[a - a0] ELSE mem[a]]
        \/ mem' = mem
    BY DEF Read
  <2>4. a0 = p /\ n0 = n
    BY <1>2
  <2> HIDE DEF a0, n0
  <2>5. \/ \E m \in 0 .. n : \E bytes \in [0 .. m - 1 -> Byte] :
             mem' = [a \in Addr |-> IF a \in p .. p + m - 1 THEN bytes[a - p] ELSE mem[a]]
        \/ mem' = mem
    BY <2>3, <2>4
  <2> QED BY <2>1, <2>2, <2>5, Zenon
<1>4. Places' /\ Arguments' /\ Bytes'
  BY <1>1, <1>3 DEF LoopInv, Places, Arguments, Bytes, Arg, InString
<1>5. StaysInBounds' /\ CopiesExact'
  BY <1>1, <1>3 DEF StaysInBounds, CopiesExact, Destination, Arg
<1> QED BY <1>1, <1>4, <1>5
        DEF LoopInv, MemcpyLoop, MemsetLoop, StrcpyLoop, ReadCall, HexLoop, DecLoop

\* A step of a printer that stores only into its buffer.
LEMMA BufferStep ==
  ASSUME LoopInv, call.op \in {"put_hex", "put_dec"}, UNCHANGED <<call, before, back>>,
         mem' \in [Addr -> 0 .. 255],
         \A a \in Addr \ Destination : mem'[a] = mem[a] \/ (FullWidth /\ a = Buf - 1),
         pc' \in {"puts", "hex_digits", "dec_digits"},
         pc' = "hex_digits" => call.op = "put_hex", pc' = "dec_digits" => call.op = "put_dec",
         HexLoop', DecLoop'
  PROVE  LoopInv'
<1>1. Places' /\ Arguments' /\ Bytes'
  BY DEF LoopInv, Places, Arguments, Bytes, Arg, InString, Printers
<1>2. Destination' = Destination /\ FullWidth' = FullWidth
  BY DEF Destination, FullWidth, Arg
<1>3. StaysInBounds'
  BY <1>2 DEF LoopInv, StaysInBounds
<1> QED BY <1>1, <1>3 DEF LoopInv, MemcpyLoop, MemsetLoop, StrcpyLoop, ReadCall, CopiesExact

LEMMA PutHexStep ==
  ASSUME LoopInv, PutHex
  PROVE  LoopInv'
<1>1. /\ UNCHANGED <<call, before, back>> /\ pc = "put_hex" /\ call.op = "put_hex"
      /\ v = Arg(1) /\ v' = v /\ Arg(1) \in 0 .. Sixteens[HexDigits] - 1 /\ Bytes
      /\ mem' = [mem EXCEPT ![Buf + HexBuf - 1] = 0]
  BY DEF PutHex, Inside, LoopInv, Places, Arguments, HexLoop
<1>2. Buf + HexBuf - 1 \in Destination /\ Buf + HexBuf - 1 \in Addr
  <2>1. Destination = Buf .. Buf + HexBuf - 1
    BY <1>1 DEF Destination
  <2> QED BY <2>1, Layout DEF Addr
<1>3. /\ mem' \in [Addr -> 0 .. 255]
      /\ \A a \in Addr \ Destination : mem'[a] = mem[a]
  <2> DEFINE i == Buf + HexBuf - 1
  <2>1. mem' = [mem EXCEPT ![i] = 0] /\ i \in Destination /\ i \in Addr
    BY <1>1, <1>2
  <2> HIDE DEF i
  <2>2. mem \in [Addr -> 0 .. 255]
    BY <1>1 DEF Bytes
  <2> QED BY <2>1, <2>2
<1>4. CASE v = 0
  BY <1>1, <1>3, <1>4, BufferStep DEF PutHex, HexLoop, DecLoop
<1>5. CASE v # 0
  <2>1. pc' = "hex_digits" /\ p' = Buf + HexBuf - 1
    BY <1>5 DEF PutHex
  <2>2. Buf + HexBuf - 1 - p' = 0
    BY <2>1, Layout
  <2>3. v \in Nat
    BY <1>1, Powers, Layout
  <2>4. ~FullWidth => v < Sixteens[HexDigits - 1]
    <3>1. Sixteens[HexDigits - 1] \in Nat
      BY Powers, Layout
    <3> QED BY <1>1, <2>3, <3>1 DEF FullWidth
  <2>5. FullWidth' = FullWidth
    BY <1>1 DEF FullWidth, Arg
  <2>6. HexLoop' /\ DecLoop'
    BY <1>1, <2>1, <2>2, <2>3, <2>4, <2>5, Layout DEF HexLoop, DecLoop
  <2> QED BY <1>1, <1>3, <2>1, <2>6, BufferStep
<1> QED BY <1>4, <1>5

LEMMA HexDigitStep ==
  ASSUME LoopInv, HexDigit
  PROVE  LoopInv'
<1> DEFINE k == Buf + HexBuf - 1 - p
<1>1. /\ UNCHANGED <<call, before, back>> /\ pc = "hex_digits" /\ call.op = "put_hex" /\ Bytes
  BY DEF HexDigit, Inside, LoopInv, Places
<1>2. /\ k \in 0 .. HexDigits /\ v \in Nat /\ p \in Int
      /\ ~FullWidth => k <= HexDigits - 1 /\ v < Sixteens[HexDigits - 1 - k]
  BY <1>1 DEF LoopInv, HexLoop
<1>3. Destination = Buf .. Buf + HexBuf - 1 /\ FullWidth' = FullWidth
  BY <1>1 DEF Destination, FullWidth, Arg
<1>4. p = Buf + HexDigits + 1 - k
  BY <1>2, Layout
<1> HIDE DEF k
<1>5. CASE v # 0 /\ p > Buf + 1
  <2> DEFINE c == Digit(v % 16)
  <2>1. /\ mem' = [mem EXCEPT ![p - 1] = c] /\ p' = p - 1 /\ v' = v \div 16 /\ pc' = pc
    BY <1>2, <1>5, Layout DEF HexDigit, Locals
  <2>2. c \in 0 .. 255
    BY <1>2 DEF Digit
  <2>3. p - 1 \in Destination /\ p - 1 \in Addr
    BY <1>2, <1>3, <1>4, <1>5, Layout DEF Addr
  <2> HIDE DEF c
  <2>4. /\ mem' \in [Addr -> 0 .. 255]
        /\ \A a \in Addr \ Destination : mem'[a] = mem[a]
    BY <1>1, <2>1, <2>2, <2>3 DEF Bytes
  <2>5. Buf + HexBuf - 1 - p' = k + 1 /\ k + 1 \in 0 .. HexDigits /\ v' \in Nat /\ p' \in Int
    BY <1>2, <1>4, <1>5, <2>1, Layout
  \* The last place of a number that is not of full width holds no digit.
  <2>6. ASSUME ~FullWidth
        PROVE  k + 1 <= HexDigits - 1 /\ v' < Sixteens[HexDigits - 1 - (k + 1)]
    <3>1. k <= HexDigits - 1 /\ v < Sixteens[HexDigits - 1 - k]
      BY <1>2, <2>6
    <3>2. HexDigits - 1 - k # 0
      BY <1>2, <1>5, <3>1, Powers
    <3> DEFINE j == HexDigits - 1 - (k + 1)
    <3>3. j \in 0 .. HexDigits - 1 /\ j + 1 = HexDigits - 1 - k
      BY <1>2, <3>1, <3>2, Layout
    <3> HIDE DEF j
    <3>4. v' < Sixteens[j]
      BY <1>2, <2>1, <3>1, <3>3, HexQuotient
    <3> QED BY <1>2, <3>1, <3>2, <3>4, Layout DEF j
  <2>7. HexLoop' /\ DecLoop'
    BY <1>1, <1>3, <2>1, <2>5, <2>6 DEF HexLoop, DecLoop
  <2> QED BY <1>1, <2>1, <2>4, <2>7, BufferStep
<1>6. CASE v = 0 \/ p <= Buf + 1
  <2>1. /\ mem' = [mem EXCEPT ![p - 1] = 120, ![p - 2] = 48] /\ pc' = "puts"
    BY <1>2, <1>6, Layout DEF HexDigit
  <2>2. p - 1 \in Destination /\ p - 1 \in Addr
        /\ p - 2 \in Addr /\ (p - 2 \in Destination \/ p - 2 = Buf - 1)
    BY <1>2, <1>3, <1>4, Layout DEF Addr
  <2>3. ~FullWidth => p - 2 \in Destination
    BY <1>2, <1>3, <1>4, Layout
  <2>4. /\ mem' \in [Addr -> 0 .. 255]
        /\ \A a \in Addr \ Destination : mem'[a] = mem[a] \/ (FullWidth /\ a = Buf - 1)
    BY <1>1, <2>1, <2>2, <2>3 DEF Bytes
  <2>5. HexLoop' /\ DecLoop'
    BY <2>1 DEF HexLoop, DecLoop
  <2> QED BY <1>1, <2>1, <2>4, <2>5, BufferStep
<1> QED BY <1>5, <1>6 DEF HexDigit

LEMMA PutDecStep ==
  ASSUME LoopInv, PutDec
  PROVE  LoopInv'
<1>1. /\ UNCHANGED <<call, before, back>> /\ pc = "put_dec" /\ call.op = "put_dec"
      /\ v = Arg(1) /\ Arg(1) \in (-IntMax - 1) .. IntMax /\ Bytes
      /\ mem' = [mem EXCEPT ![Buf + DecBuf - 1] = 0]
  BY DEF PutDec, Inside, LoopInv, Places, Arguments, DecLoop
<1>2. Buf + DecBuf - 1 \in Destination /\ Buf + DecBuf - 1 \in Addr
  <2>1. Destination = Buf .. Buf + DecBuf - 1
    BY <1>1 DEF Destination
  <2> QED BY <2>1, Layout DEF Addr
<1>3. /\ mem' \in [Addr -> 0 .. 255]
      /\ \A a \in Addr \ Destination : mem'[a] = mem[a]
  <2> DEFINE i == Buf + DecBuf - 1
  <2>1. mem' = [mem EXCEPT ![i] = 0] /\ i \in Destination /\ i \in Addr
    BY <1>1, <1>2
  <2> HIDE DEF i
  <2>2. mem \in [Addr -> 0 .. 255]
    BY <1>1 DEF Bytes
  <2> QED BY <2>1, <2>2
<1>4. CASE v = 0
  BY <1>1, <1>3, <1>4, BufferStep DEF PutDec, HexLoop, DecLoop
<1>5. CASE v # 0
  <2>1. pc' = "dec_digits" /\ p' = Buf + DecBuf - 1 /\ v' \in Absolute(v)
    BY <1>5 DEF PutDec
  <2>2. Buf + DecBuf - 1 - p' = 0 /\ p' \in Int
    BY <2>1, Layout
  <2>3. v' \in Int /\ v' <= IntMax + 1 /\ -v' <= IntMax + 1
    BY <1>1, <2>1, Powers DEF Absolute
  <2>4. Tens[DecDigits] \in Nat /\ IntMax + 1 < Tens[DecDigits]
    BY Powers, Layout
  <2>5. v' < Tens[DecDigits] /\ -v' < Tens[DecDigits]
    <3> DEFINE X == Tens[DecDigits]
    <3>1. X \in Nat /\ IntMax + 1 < X /\ IntMax \in Nat
      BY <2>4, Powers
    <3> HIDE DEF X
    <3> DEFINE w == v'
    <3>2. w \in Int /\ w <= IntMax + 1 /\ -w <= IntMax + 1
      BY <2>3
    <3> HIDE DEF w
    <3>3. w < X /\ -w < X
      BY <3>1, <3>2
    <3> QED BY <3>3 DEF X, w
  <2>6. DecDigits - (Buf + DecBuf - 1 - p') = DecDigits
    <3> DEFINE k == Buf + DecBuf - 1 - p'
    <3>1. k = 0 /\ DecDigits \in Nat
      BY <2>2, Layout
    <3> HIDE DEF k
    <3>2. DecDigits - k = DecDigits
      BY <3>1
    <3> QED BY <3>2 DEF k
  <2>7. HexLoop' /\ DecLoop'
    BY <1>1, <2>1, <2>2, <2>3, <2>5, <2>6, Layout DEF HexLoop, DecLoop
  <2> QED BY <1>1, <1>3, <2>1, <2>7, BufferStep
<1> QED BY <1>4, <1>5

LEMMA DecDigitStep ==
  ASSUME LoopInv, DecDigit
  PROVE  LoopInv'
<1> DEFINE k == Buf + DecBuf - 1 - p
<1>1. /\ UNCHANGED <<call, before, back>> /\ pc = "dec_digits" /\ call.op = "put_dec" /\ Bytes
  BY DEF DecDigit, Inside, LoopInv, Places
<1>2. /\ k \in 0 .. DecDigits /\ v \in Int /\ p \in Int
      /\ v < Tens[DecDigits - k] /\ -v < Tens[DecDigits - k]
  BY <1>1 DEF LoopInv, DecLoop
<1>3. Destination = Buf .. Buf + DecBuf - 1
  BY <1>1 DEF Destination
<1>4. p = Buf + DecDigits + 2 - k
  BY <1>2, Layout
<1> HIDE DEF k
<1>5. p - 1 \in Destination /\ p - 1 \in Addr
  BY <1>2, <1>3, <1>4, Layout DEF Addr
<1>6. CASE v # 0 /\ p > Buf
  <2> DEFINE c == 48 + Rem(v)
  <2>1. /\ mem' = [mem EXCEPT ![p - 1] = c] /\ p' = p - 1 /\ v' = Quot(v) /\ pc' = pc
    BY <1>2, <1>6, Layout DEF DecDigit, Locals
  <2>2. DecDigits - k # 0
    BY <1>2, <1>6, Powers
  <2> DEFINE j == DecDigits - (k + 1)
  <2>3. j \in 0 .. DecDigits - 1 /\ j + 1 = DecDigits - k
    BY <1>2, <2>2, Layout
  <2> HIDE DEF j
  <2>4. v' \in Int /\ v' < Tens[j] /\ -v' < Tens[j] /\ c \in 39 .. 57
    BY <1>2, <2>1, <2>3, DecQuotient
  <2> HIDE DEF c
  <2>5. /\ mem' \in [Addr -> 0 .. 255]
        /\ \A a \in Addr \ Destination : mem'[a] = mem[a]
    BY <1>1, <1>5, <2>1, <2>4 DEF Bytes
  <2>6. Buf + DecBuf - 1 - p' = k + 1 /\ k + 1 \in 0 .. DecDigits /\ p' \in Int
    BY <1>2, <1>4, <2>1, <2>2, Layout
  <2>7. HexLoop' /\ DecLoop'
    BY <1>1, <2>1, <2>4, <2>6 DEF HexLoop, DecLoop, j
  <2> QED BY <1>1, <2>1, <2>5, <2>7, BufferStep
<1>7. CASE v = 0 \/ p <= Buf
  <2>1. pc' = "puts" /\ (mem' = mem \/ mem' = [mem EXCEPT ![p - 1] = 45])
    BY <1>2, <1>7, Layout DEF DecDigit
  <2>2. /\ mem' \in [Addr -> 0 .. 255]
        /\ \A a \in Addr \ Destination : mem'[a] = mem[a]
    BY <1>1, <1>5, <2>1 DEF Bytes
  <2>3. HexLoop' /\ DecLoop'
    BY <2>1 DEF HexLoop, DecLoop
  <2> QED BY <1>1, <2>1, <2>2, <2>3, BufferStep
<1> QED BY <1>6, <1>7 DEF DecDigit

-----------------------------------------------------------------------------
(* The invariant and what follows from it *)

LEMMA ResumeStep ==
  ASSUME LoopInv, Resume
  PROVE  LoopInv'
<1>1. /\ pc' = "idle" /\ mem' = FreshFrame /\ before' = FreshFrame /\ back' = "returned"
      /\ call'.op = "none"
  BY DEF Resume
<1>2. FreshFrame \in [Addr -> 0 .. 255]
  BY DEF LoopInv, Bytes, FreshFrame, Stale
<1>3. Bytes' /\ Places' /\ Arguments'
  BY <1>1, <1>2 DEF Bytes, Places, Arguments, Traps, Printers
<1>4. StaysInBounds' /\ CopiesExact'
  BY <1>1 DEF StaysInBounds, CopiesExact
<1> QED BY <1>1, <1>3, <1>4
        DEF LoopInv, MemcpyLoop, MemsetLoop, StrcpyLoop, ReadCall, HexLoop, DecLoop

LEMMA MemoryBytes ==
  ASSUME NEW user \in [User -> Byte]
  PROVE  Memory(user) \in [Addr -> 0 .. 255]
<1> SUFFICES ASSUME NEW a \in Addr
             PROVE  Memory(user)[a] \in 0 .. 255
  BY DEF Memory
<1>1. CASE a \in User
  BY <1>1, LibcAssumption DEF Memory
<1>2. CASE a \notin User /\ a < Buf - 1
  <2>1. a - UserTop \in 1 .. 10
    BY <1>2, Layout DEF Addr, User
  <2>2. Literals[a - UserTop] \in 0 .. 255
    BY <2>1 DEF Literals
  <2> QED BY <1>2, <2>2 DEF Memory
<1>3. CASE a \notin User /\ ~(a < Buf - 1)
  BY <1>3 DEF Memory, Stale
<1> QED BY <1>1, <1>2, <1>3

LEMMA LoopInit == Init => LoopInv
<1> SUFFICES ASSUME Init
             PROVE  LoopInv
  OBVIOUS
<1>1. pc = "idle" /\ back = "returned" /\ call.op = "none" /\ before = mem
  BY DEF Init
<1>2. mem \in [Addr -> 0 .. 255]
  BY MemoryBytes DEF Init
<1>3. Bytes /\ Places /\ Arguments /\ StaysInBounds /\ CopiesExact
  BY <1>1, <1>2 DEF Bytes, Places, Arguments, StaysInBounds, CopiesExact, Traps, Printers
<1> QED BY <1>1, <1>3
        DEF LoopInv, MemcpyLoop, MemsetLoop, StrcpyLoop, ReadCall, HexLoop, DecLoop

LEMMA LoopStep == LoopInv /\ [Next]_vars => LoopInv'
<1> SUFFICES ASSUME LoopInv, [Next]_vars
             PROVE  LoopInv'
  OBVIOUS
<1>1. CASE Call
  BY <1>1, CallQuiet, CallMemcpyStep, CallMemsetStep, CallStrcpyStep, CallReadStep, CallPrinters
  DEF Call
<1>2. CASE Body
  BY <1>2, QuietSteps, MemcpyStep, MemsetStep, StrcpyStep, ReadStep, PutHexStep, HexDigitStep,
     PutDecStep, DecDigitStep
  DEF Body
<1>3. CASE Resume
  BY <1>3, ResumeStep
<1>4. CASE UNCHANGED vars
  <2>1. UNCHANGED <<mem, before, call, pc, p, q, n, v, back, ret>>
    BY <1>4 DEF vars, locals
  <2>2. Bytes' /\ Places' /\ Arguments'
    BY <2>1 DEF LoopInv, Bytes, Places, Arguments, Arg
  <2>3. MemcpyLoop' /\ MemsetLoop' /\ StrcpyLoop' /\ ReadCall'
    BY <2>1
    DEF LoopInv, MemcpyLoop, MemsetLoop, StrcpyLoop, ReadCall, Arg, InString, StoredUpTo
  <2>4. HexLoop' /\ DecLoop'
    BY <2>1 DEF LoopInv, HexLoop, DecLoop, Arg, StoredUpTo, FullWidth
  <2>5. StaysInBounds' /\ CopiesExact'
    BY <2>1 DEF LoopInv, StaysInBounds, CopiesExact, Arg, FullWidth, Destination, InString
  <2> QED BY <2>2, <2>3, <2>4, <2>5 DEF LoopInv
<1> QED BY <1>1, <1>2, <1>3, <1>4 DEF Next

\* memcpy, memset, strcpy, julius_read and the two number printers store only
\* into their destinations, and julius_put_hex below its buffer at most for a
\* number of full width; for numbers and memories of any size.
THEOREM NoStrayStore == Spec => []StaysInBounds
<1>1. LoopInv => StaysInBounds
  BY DEF LoopInv
<1> QED BY LoopInit, LoopStep, <1>1, PTL DEF Spec

\* What memcpy (unless the destination starts inside the source), strcpy and
\* memset leave in the destination.
THEOREM CopiesCorrect == Spec => []CopiesExact
<1>1. LoopInv => CopiesExact
  BY DEF LoopInv
<1> QED BY LoopInit, LoopStep, <1>1, PTL DEF Spec

-----------------------------------------------------------------------------
(* What the kernel sees *)

\* A request not yet made is the caller's, one made was seen as such.
RequestInv ==
  /\ pc = "trap" => call.args \in [1 .. Arity(call.op) -> TrapArgs]
  /\ pc = "read" => call.args = <<0, p, n>>
  /\ KernelSeesCall

LEMMA RequestStep == LoopInv /\ RequestInv /\ [Next]_vars => RequestInv'
<1> SUFFICES ASSUME LoopInv, RequestInv, [Next]_vars
             PROVE  RequestInv'
  OBVIOUS
<1>1. CASE Call
  <2>1. CASE CallTrap
    <3>1. PICK op \in Traps : \E args \in [1 .. Arity(op) -> TrapArgs] :
            Enter(op, args, "trap")
      BY <2>1 DEF CallTrap
    <3>2. PICK args \in [1 .. Arity(op) -> TrapArgs] : Enter(op, args, "trap")
      BY <3>1
    <3> QED BY <3>2, Entered DEF RequestInv, KernelSeesCall
  <2>2. CASE CallRead
    <3>1. PICK d, len : Enter("read", <<0, d, len>>, "read") /\ p' = d /\ n' = len
      BY <2>2 DEF CallRead, Locals
    <3> QED BY <3>1, Entered DEF RequestInv, KernelSeesCall
  <2>3. CASE ~CallTrap /\ ~CallRead
    <3>1. pc' \notin {"trap", "read", "returned"}
      BY <1>1, <2>3
      DEF Call, CallStrlen, CallMemcpy, CallMemset, CallMemcmp, CallStrcmp, CallStrcpy, CallPuts,
          CallPutHex, CallPutDec, CallPanic, Enter
    <3> QED BY <3>1 DEF RequestInv, KernelSeesCall
  <2> QED BY <2>1, <2>2, <2>3
<1>2. CASE Trap
  <2>1. /\ call' = call /\ pc' = "returned" /\ call.op \in Traps
        /\ call.args \in [1 .. Arity(call.op) -> TrapArgs]
        /\ seen' = KernelSees(Regs(call.op, call.args))
    BY <1>2 DEF Trap, Inside, Return, LoopInv, Places, RequestInv
  <2>2. SeenAs(call.op, call.args)
    BY <2>1, TrapPassed
  <2>3. DOMAIN call.args = 1 .. Arity(call.op)
    BY <2>1
  <2> QED BY <2>1, <2>2, <2>3 DEF RequestInv, KernelSeesCall, SeenAs
<1>3. CASE Read
  <2>1. /\ call' = call /\ pc' = "returned" /\ call.op = "read" /\ call.args = <<0, p, n>>
        /\ seen' = KernelSees(SysRead(0, p, n))
    BY <1>3 DEF Read, Inside, Return, LoopInv, Places, RequestInv
  <2>2. /\ seen'.name = "read" /\ DOMAIN seen'.args = 1 .. 3
        /\ seen'.args[1] = 0 /\ seen'.args[2] = p /\ seen'.args[3] = n
    BY <2>1, ReadPassed
  <2>3. DOMAIN call.args = 1 .. 3 /\ call.args[1] = 0 /\ call.args[2] = p /\ call.args[3] = n
    BY <2>1
  <2>4. \A k \in 1 .. 3 : k \in DOMAIN seen'.args /\ seen'.args[k] = call.args[k]
    BY <2>2, <2>3
  <2> QED BY <2>1, <2>2, <2>3, <2>4 DEF RequestInv, KernelSeesCall
<1>4. CASE Body /\ ~Trap /\ ~Read
  <2>1. call' = call /\ pc # "trap" /\ pc # "read" /\ pc # "returned"
        /\ pc' # "trap" /\ pc' # "read"
    BY <1>4
    DEF Body, Strlen, Memcpy, Memset, Memcmp, Strcmp, Strcpy, Puts, StrLen, Write, PutHex, HexDigit,
        PutDec, DecDigit, Panic, Inside, Return, Loop, LoopInv, Places
  <2>2. call.op \notin Traps \cup {"read"}
    BY <1>4
    DEF Body, Strlen, Memcpy, Memset, Memcmp, Strcmp, Strcpy, Puts, StrLen, Write, PutHex, HexDigit,
        PutDec, DecDigit, Panic, LoopInv, Places, Traps, Printers
  <2> QED BY <2>1, <2>2 DEF RequestInv, KernelSeesCall
<1>5. CASE Resume
  BY <1>5 DEF Resume, RequestInv, KernelSeesCall
<1>6. CASE UNCHANGED vars
  BY <1>6 DEF vars, locals, output, RequestInv, KernelSeesCall
<1> QED BY <1>1, <1>2, <1>3, <1>4, <1>5, <1>6 DEF Next, Body

\* Whatever its arguments, a wrapper's call arrives in the kernel as the call
\* it stands for, every argument in its place.
THEOREM CallsArrive == Spec => []KernelSeesCall
<1>1. Init => RequestInv
  BY DEF Init, RequestInv, KernelSeesCall
<1>2. RequestInv => KernelSeesCall
  BY DEF RequestInv
<1> QED BY <1>1, <1>2, LoopInit, LoopStep, RequestStep, PTL DEF Spec

-----------------------------------------------------------------------------
(* Lengths and comparisons *)

Terminated(s) == s \in User /\ \E e \in s .. UserTop : mem[e] = 0

\* The loops that only read: what they have passed over.
ScanInv ==
  /\ pc = "strlen" =>
       /\ p = Arg(1) /\ Terminated(Arg(1)) /\ n \in Nat /\ InString(mem, Arg(1), n)
  /\ pc = "memcmp" =>
       /\ Area(Arg(1), Arg(3)) /\ Area(Arg(2), Arg(3)) /\ n \in 0 .. Arg(3)
       /\ p = Arg(1) + (Arg(3) - n) /\ q = Arg(2) + (Arg(3) - n)
       /\ \A j \in 0 .. Arg(3) - n - 1 : mem[Arg(1) + j] = mem[Arg(2) + j]
  /\ pc = "strcmp" =>
       /\ Terminated(Arg(1)) /\ Terminated(Arg(2)) /\ p - Arg(1) \in Nat /\ p \in Int
       /\ q = Arg(2) + (p - Arg(1)) /\ InString(mem, Arg(1), p - Arg(1))
       /\ \A j \in 0 .. p - Arg(1) - 1 : mem[Arg(1) + j] = mem[Arg(2) + j]
  /\ AnswersExact

\* A place in the string that does not hold its terminator is not its last.
LEMMA Further ==
  ASSUME Bytes, NEW s, Terminated(s), NEW k \in Nat, InString(mem, s, k)
  PROVE  /\ s + k <= UserTop
         /\ mem[s + k] # 0 => InString(mem, s, k + 1)
<1>1. PICK e \in s .. UserTop : mem[e] = 0
  BY DEF Terminated
<1>2. s \in User /\ e - s \in Nat /\ e = s + (e - s)
  BY <1>1, Layout DEF Terminated, User
<1>3. e - s \notin 0 .. k - 1
  BY <1>1, <1>2 DEF InString
<1>4. s + k <= UserTop
  BY <1>1, <1>2, <1>3, Layout DEF User
<1>5. ASSUME mem[s + k] # 0
      PROVE  InString(mem, s, k + 1)
  <2>1. e - s # k
    BY <1>1, <1>2, <1>5
  <2>2. s + (k + 1) <= UserTop
    BY <1>1, <1>2, <1>3, <2>1, Layout DEF User
  <2>3. \A j \in 0 .. k : mem[s + j] # 0
    BY <1>5 DEF InString
  <2> QED BY <1>2, <2>2, <2>3, Layout DEF InString, User
<1> QED BY <1>4, <1>5

LEMMA StrlenScan ==
  ASSUME LoopInv, ScanInv, Strlen
  PROVE  ScanInv'
<1>1. /\ call' = call /\ mem' = mem /\ pc = "strlen" /\ call.op = "strlen" /\ p' = p /\ Bytes
      /\ p = Arg(1) /\ Terminated(Arg(1)) /\ n \in Nat /\ InString(mem, Arg(1), n)
  BY DEF Strlen, Inside, LoopInv, Places, ScanInv
<1>2. CASE mem[p + n] # 0
  <2>1. pc' = "strlen" /\ n' = n + 1
    BY <1>1, <1>2 DEF Strlen, Loop
  <2>2. InString(mem, Arg(1), n + 1)
    BY <1>1, <1>2, Further
  <2> QED BY <1>1, <2>1, <2>2 DEF ScanInv, AnswersExact, Arg, Terminated, InString
<1>3. CASE mem[p + n] = 0
  <2>1. pc' = "returned" /\ ret' = n
    BY <1>3 DEF Strlen, Return
  <2>2. AnswersExact'
    BY <1>1, <1>3, <2>1 DEF AnswersExact, Arg, InString
  <2> QED BY <2>1, <2>2 DEF ScanInv
<1> QED BY <1>2, <1>3

LEMMA MemcmpScan ==
  ASSUME LoopInv, ScanInv, Memcmp
  PROVE  ScanInv'
<1> DEFINE k == Arg(3) - n
<1>1. /\ call' = call /\ mem' = mem /\ pc = "memcmp" /\ call.op = "memcmp" /\ Bytes
      /\ Area(Arg(1), Arg(3)) /\ Area(Arg(2), Arg(3)) /\ n \in 0 .. Arg(3)
      /\ p = Arg(1) + k /\ q = Arg(2) + k
      /\ \A j \in 0 .. k - 1 : mem[Arg(1) + j] = mem[Arg(2) + j]
  BY DEF Memcmp, Inside, LoopInv, Places, ScanInv
<1>2. Arg(1) \in Nat /\ Arg(2) \in Nat /\ Arg(3) \in Nat /\ k \in 0 .. Arg(3) /\ n \in Nat
  BY <1>1, Layout DEF Area, User
<1>3. CASE n > 0 /\ mem[p] = mem[q]
  <2>1. pc' = "memcmp" /\ p' = p + 1 /\ q' = q + 1 /\ n' = n - 1
    BY <1>1, <1>2, <1>3 DEF Memcmp, Loop, Locals
  <2>2. Arg(3) - n' = k + 1 /\ n' \in 0 .. Arg(3)
    BY <1>1, <1>2, <1>3, <2>1
  <2> HIDE DEF k
  <2>3. \A j \in 0 .. (k + 1) - 1 : mem[Arg(1) + j] = mem[Arg(2) + j]
    BY <1>1, <1>2, <1>3
  <2>4. p' = Arg(1) + (k + 1) /\ q' = Arg(2) + (k + 1)
    BY <1>1, <1>2, <2>1
  <2> QED BY <1>1, <2>1, <2>2, <2>3, <2>4 DEF ScanInv, AnswersExact, Arg
<1>4. CASE n > 0 /\ mem[p] # mem[q]
  <2>1. pc' = "returned" /\ ret' = mem[p] - mem[q]
    BY <1>1, <1>2, <1>4 DEF Memcmp, Return
  <2>2. k \in 0 .. Arg(3) - 1 /\ p \in Addr /\ q \in Addr
    BY <1>1, <1>2, <1>4, Layout DEF Area, User, Addr
  <2>3. mem[p] \in Int /\ mem[q] \in Int
    <3>1. mem \in [Addr -> 0 .. 255]
      BY DEF LoopInv, Bytes
    <3> QED BY <2>2, <3>1
  <2> HIDE DEF k
  <2>4. SameOrder(ret', Arg(1), Arg(2), 0 .. Arg(3) - 1)
    <3>1. /\ k \in 0 .. Arg(3) - 1 /\ mem[Arg(1) + k] # mem[Arg(2) + k]
          /\ mem[Arg(1) + k] \in Int /\ mem[Arg(2) + k] \in Int
          /\ ret' = mem[Arg(1) + k] - mem[Arg(2) + k]
      BY <1>1, <1>4, <2>1, <2>2, <2>3
    <3>2. \A j \in 0 .. k - 1 : mem[Arg(1) + j] = mem[Arg(2) + j]
      BY <1>1
    <3> QED BY <3>1, <3>2 DEF SameOrder
  <2>5. AnswersExact'
    BY <1>1, <2>1, <2>4 DEF AnswersExact, Arg, SameOrder
  <2> QED BY <2>1, <2>5 DEF ScanInv
<1>5. CASE n = 0
  <2>1. pc' = "returned" /\ ret' = 0
    BY <1>5 DEF Memcmp, Return
  <2>2. SameOrder(ret', Arg(1), Arg(2), 0 .. Arg(3) - 1)
    BY <1>1, <1>2, <1>5, <2>1 DEF SameOrder
  <2>3. AnswersExact'
    BY <1>1, <2>1, <2>2 DEF AnswersExact, Arg, SameOrder
  <2> QED BY <2>1, <2>3 DEF ScanInv
<1> QED BY <1>2, <1>3, <1>4, <1>5

LEMMA StrcmpScan ==
  ASSUME LoopInv, ScanInv, Strcmp
  PROVE  ScanInv'
<1> DEFINE k == p - Arg(1)
<1> DEFINE counted == {j \in 0 .. UserTop : InString(mem, Arg(1), j)}
<1>1. /\ call' = call /\ mem' = mem /\ pc = "strcmp" /\ call.op = "strcmp" /\ Bytes
      /\ Terminated(Arg(1)) /\ Terminated(Arg(2)) /\ k \in Nat /\ p \in Int
      /\ q = Arg(2) + k /\ InString(mem, Arg(1), k)
      /\ \A j \in 0 .. k - 1 : mem[Arg(1) + j] = mem[Arg(2) + j]
  BY DEF Strcmp, Inside, LoopInv, Places, ScanInv
<1>2. Arg(1) \in Nat /\ Arg(1) >= 1 /\ Arg(2) \in Nat /\ p = Arg(1) + k
  BY <1>1, Layout DEF Terminated, User
<1> HIDE DEF k
<1>3. /\ Arg(1) + k <= UserTop /\ k \in 0 .. UserTop
      /\ mem[p] # 0 => InString(mem, Arg(1), k + 1)
  <2>1. Arg(1) + k <= UserTop
    BY <1>1, Further
  <2>2. mem[Arg(1) + k] # 0 => InString(mem, Arg(1), k + 1)
    BY <1>1, Further
  <2> QED BY <1>1, <1>2, <2>1, <2>2, Layout
<1>4. CASE mem[p] # 0 /\ mem[p] = mem[q]
  <2>1. pc' = "strcmp" /\ p' = p + 1 /\ q' = q + 1
    BY <1>4 DEF Strcmp, Loop, Locals
  <2>2. p' - Arg(1) = k + 1 /\ q' = Arg(2) + (k + 1) /\ p' \in Int
    BY <1>1, <1>2, <2>1
  <2>3. \A j \in 0 .. (k + 1) - 1 : mem[Arg(1) + j] = mem[Arg(2) + j]
    BY <1>1, <1>2, <1>4
  <2> QED BY <1>1, <1>3, <1>4, <2>1, <2>2, <2>3 DEF ScanInv, AnswersExact, Arg, Terminated, InString
<1>5. CASE mem[p] = 0 \/ mem[p] # mem[q]
  <2>1. pc' = "returned" /\ ret' = mem[p] - mem[q]
    BY <1>5 DEF Strcmp, Return
  <2>2. k \in counted
    BY <1>1, <1>3
  <2>3. SameOrder(ret', Arg(1), Arg(2), counted)
    <3>1. CASE mem[p] # mem[q]
      <4>1. PICK e \in Arg(2) .. UserTop : mem[e] = 0
        BY <1>1 DEF Terminated
      <4>2. e - Arg(2) \notin 0 .. k - 1
        <5>1. SUFFICES ASSUME e - Arg(2) \in 0 .. k - 1
                       PROVE  FALSE
          OBVIOUS
        <5>2. mem[Arg(1) + (e - Arg(2))] # 0
          BY <1>1, <5>1 DEF InString
        <5>3. mem[Arg(1) + (e - Arg(2))] = mem[Arg(2) + (e - Arg(2))]
          BY <1>1, <5>1
        <5> QED BY <1>2, <4>1, <5>2, <5>3, Layout
      <4>3. p \in Addr /\ q \in Addr
        <5>1. UserTop \in Nat /\ Top \in Nat /\ UserTop < Top /\ k \in Nat /\ q = Arg(2) + k
          BY <1>1, Layout
        <5>2. Arg(2) >= 1
          BY <1>1, Layout DEF Terminated, User
        <5>3. Arg(2) + k <= e
          BY <1>2, <4>1, <4>2, <5>1
        <5> QED BY <1>2, <1>3, <4>1, <5>1, <5>2, <5>3 DEF Addr
      <4>4. mem[p] \in Int /\ mem[q] \in Int
        BY <1>1, <4>3 DEF Bytes
      <4>5. counted \subseteq Nat
        BY Layout
      <4>6. mem[Arg(1) + k] = mem[p] /\ mem[Arg(2) + k] = mem[q]
        BY <1>1, <1>2
      <4> HIDE DEF counted
      <4>7. \A i \in counted : mem[Arg(1) + i] # mem[Arg(2) + i] => k <= i
        BY <1>1, <4>5
      <4>8. \A i \in counted :
              (mem[Arg(1) + i] # mem[Arg(2) + i]
               /\ \A j \in counted : mem[Arg(1) + j] # mem[Arg(2) + j] => i <= j) => i = k
        BY <1>1, <2>2, <3>1, <4>5, <4>6, <4>7
      <4>9. ret' # 0 /\ (ret' < 0 <=> mem[Arg(1) + k] < mem[Arg(2) + k])
        BY <2>1, <3>1, <4>4, <4>6
      <4> QED BY <2>2, <3>1, <4>6, <4>8, <4>9 DEF SameOrder
    <3>2. CASE mem[p] = 0 /\ mem[p] = mem[q]
      <4>1. ASSUME NEW j \in counted
            PROVE  j \in 0 .. k
        <5>1. ~(k \in 0 .. j - 1)
          BY <1>2, <3>2 DEF InString
        <5> QED BY <1>1, <5>1, Layout
      <4>2. \A j \in counted : mem[Arg(1) + j] = mem[Arg(2) + j]
        BY <1>1, <1>2, <3>2, <4>1
      <4>3. ret' = 0
        BY <2>1, <3>2
      <4> QED BY <4>2, <4>3 DEF SameOrder
    <3> QED BY <1>5, <3>1, <3>2
  <2>4. AnswersExact'
    BY <1>1, <2>1, <2>3 DEF AnswersExact, Arg, SameOrder, InString
  <2> QED BY <2>1, <2>4 DEF ScanInv
<1> QED BY <1>4, <1>5

LEMMA ScanCalls ==
  ASSUME LoopInv, Call
  PROVE  ScanInv'
<1>1. /\ mem' = mem /\ pc' # "returned"
      /\ call'.op = call'.op
  BY DEF Call, CallStrlen, CallMemcpy, CallMemset, CallMemcmp, CallStrcmp, CallStrcpy, CallPuts,
         CallRead, CallPutHex, CallPutDec, CallPanic, CallTrap, Enter
<1>2. AnswersExact'
  BY <1>1 DEF AnswersExact
<1>3. CASE CallStrlen
  <2>1. PICK s \in Strings : Enter("strlen", <<s>>, "strlen") /\ Locals(s, 0, 0, 0)
    BY <1>3 DEF CallStrlen
  <2>2. Arg(1)' = s /\ p' = s /\ n' = 0 /\ pc' = "strlen"
    BY <2>1 DEF Enter, Locals, Arg
  <2>3. Terminated(s) /\ InString(mem, s, 0)
    BY Layout DEF Strings, Terminated, InString, User
  <2> QED BY <1>1, <1>2, <2>2, <2>3 DEF ScanInv, Terminated
<1>4. CASE CallMemcmp
  <2>1. PICK a \in User, b \in User, len \in 0 .. UserTop :
          /\ Area(a, len) /\ Area(b, len)
          /\ Enter("memcmp", <<a, b, len>>, "memcmp") /\ Locals(a, b, len, 0)
    BY <1>4 DEF CallMemcmp
  <2>2. /\ Arg(1)' = a /\ Arg(2)' = b /\ Arg(3)' = len
        /\ p' = a /\ q' = b /\ n' = len /\ pc' = "memcmp"
    BY <2>1 DEF Enter, Locals, Arg
  <2>3. len - len = 0 /\ len \in 0 .. len /\ a = a + 0 /\ b = b + 0
    BY Layout DEF User
  <2>4. \A j \in 0 .. 0 - 1 : FALSE
    OBVIOUS
  <2> QED BY <1>2, <2>1, <2>2, <2>3, <2>4 DEF ScanInv, Area
<1>5. CASE CallStrcmp
  <2>1. PICK a \in Strings, b \in Strings :
          Enter("strcmp", <<a, b>>, "strcmp") /\ Locals(a, b, 0, 0)
    BY <1>5 DEF CallStrcmp
  <2>2. Arg(1)' = a /\ Arg(2)' = b /\ p' = a /\ q' = b /\ pc' = "strcmp"
    BY <2>1 DEF Enter, Locals, Arg
  <2>3. Terminated(a) /\ Terminated(b) /\ InString(mem, a, 0)
    BY Layout DEF Strings, Terminated, InString, User
  <2>4. a \in Int /\ b \in Int /\ a - a = 0 /\ b = b + 0
    BY <2>3, Layout DEF Terminated, User
  <2>5. \A j \in 0 .. 0 - 1 : FALSE
    OBVIOUS
  <2> QED BY <1>1, <1>2, <2>2, <2>3, <2>4, <2>5 DEF ScanInv, Terminated
<1>6. CASE ~(CallStrlen \/ CallMemcmp \/ CallStrcmp)
  <2>1. pc' \notin {"strlen", "memcmp", "strcmp"}
    BY <1>6 DEF Call, CallMemcpy, CallMemset, CallStrcpy, CallPuts, CallRead, CallPutHex,
                CallPutDec, CallPanic, CallTrap, Enter
  <2> QED BY <1>2, <2>1 DEF ScanInv
<1> QED BY <1>3, <1>4, <1>5, <1>6

LEMMA ScanStep ==
  ASSUME LoopInv, ScanInv, [Next]_vars
  PROVE  ScanInv'
<1>1. CASE Call
  BY <1>1, ScanCalls
<1>2. CASE Strlen \/ Memcmp \/ Strcmp
  BY <1>2, StrlenScan, MemcmpScan, StrcmpScan
<1>3. CASE Body /\ ~(Strlen \/ Memcmp \/ Strcmp)
  <2>1. /\ call' = call /\ call.op \notin {"strlen", "memcmp", "strcmp"}
        /\ pc' \notin {"strlen", "memcmp", "strcmp"}
    BY <1>3
    DEF Body, Memcpy, Memset, Strcpy, Puts, StrLen, Write, Read, PutHex, HexDigit, PutDec,
        DecDigit, Panic, Trap, Inside, Return, Loop, LoopInv, Places, Traps, Printers
  <2> QED BY <2>1 DEF ScanInv, AnswersExact
<1>4. CASE Resume
  BY <1>4 DEF Resume, ScanInv, AnswersExact
<1>5. CASE UNCHANGED vars
  <2>1. /\ mem' = mem /\ call' = call /\ pc' = pc /\ p' = p /\ q' = q /\ n' = n /\ ret' = ret
    BY <1>5 DEF vars, locals
  <2>2. AnswersExact'
    BY <2>1 DEF ScanInv, AnswersExact, Arg, InString, SameOrder
  <2> QED BY <2>1, <2>2 DEF ScanInv, Arg, Terminated, InString
<1> QED BY <1>1, <1>2, <1>3, <1>4, <1>5 DEF Next

\* strlen counts up to the terminator and no further, and memcmp and strcmp give
\* the order of the first bytes that differ (mem.c:119-123, 138-151).
THEOREM AnswersCorrect == Spec => []AnswersExact
<1>1. Init => ScanInv
  BY DEF Init, ScanInv, AnswersExact
<1>2. ScanInv => AnswersExact
  BY DEF ScanInv
<1> QED BY <1>1, <1>2, LoopInit, LoopStep, ScanStep, PTL DEF Spec
-----------------------------------------------------------------------------
(* Types: the strings that get printed end, and so no loop runs past the    *)
(* memory.                                                                  *)

\* No call overwrites a literal.
LiteralsKept == \A k \in 1 .. 10 : before[UserTop + k] = Literals[k]

StringAt(s) == s \in Addr /\ \E e \in s .. Top : mem[e] = 0

\* What julius_puts is given is NULL or a string, and the number printers keep
\* the terminator at the end of their buffer.
StringsEnd ==
  /\ call.op = "puts" => Arg(1) = NULL \/ StringAt(Arg(1))
  /\ call.op = "panic" => StringAt(Arg(1))
  /\ pc = "puts" => StringAt(p) \/ (p = NULL /\ call.op = "puts")
  /\ pc \in {"str_len", "write"} => StringAt(p) /\ InString(mem, p, n)
  /\ pc = "write" => mem[p + n] = 0
  /\ pc = "hex_digits" => mem[Buf + HexBuf - 1] = 0
  /\ pc = "dec_digits" => mem[Buf + DecBuf - 1] = 0

TypeInv == LiteralsKept /\ StringsEnd /\ TypeOK

LEMMA LiteralBytes ==
  /\ Literals[2] = 0 /\ Literals[4] = 0 /\ Literals[8] = 0 /\ Literals[10] = 0
  /\ \A k \in 1 .. 10 : UserTop + k \in Addr /\ UserTop + k \notin User /\ UserTop + k < Buf - 1
BY Layout DEF Literals, Addr, User

\* What a call may change is the caller's or a printer's buffer.
LEMMA DestinationOutside ==
  ASSUME LoopInv, NEW k \in 1 .. 10
  PROVE  UserTop + k \notin Destination
<1> DEFINE a == UserTop + k
<1>1. a \in Int /\ a > UserTop /\ a < Buf - 1
  BY Layout
<1>2. CASE call.op \in {"memcpy", "memset"}
  <2>1. Area(Arg(1), Arg(3)) /\ Destination = Arg(1) .. Arg(1) + Arg(3) - 1
    BY <1>2 DEF LoopInv, Arguments, Destination
  <2> QED BY <1>1, <2>1, Layout DEF Area, User
<1>3. CASE call.op = "read"
  <2>1. Area(Arg(2), Arg(3)) /\ Destination = Arg(2) .. Arg(2) + Arg(3) - 1
    BY <1>3 DEF LoopInv, Arguments, Destination
  <2> QED BY <1>1, <2>1, Layout DEF Area, User
<1>4. CASE call.op = "strcpy"
  <2>1. Destination = {Arg(1) + j : j \in {j \in 0 .. Top : InString(before, Arg(2), j)}}
    BY <1>4 DEF Destination
  <2>2. \A j \in 0 .. Top : InString(before, Arg(2), j) => Arg(1) + j <= UserTop
    BY <1>4 DEF LoopInv, Arguments
  <2>3. \A b \in Destination : b <= UserTop
    BY <2>1, <2>2
  <2> QED BY <1>1, <2>3, Layout
<1>5. CASE call.op = "put_hex"
  BY <1>1, <1>5, Layout DEF Destination
<1>6. CASE call.op = "put_dec"
  BY <1>1, <1>6, Layout DEF Destination
<1>7. CASE call.op \notin {"memcpy", "memset", "read", "strcpy", "put_hex", "put_dec"}
  BY <1>7 DEF Destination
<1> QED BY <1>2, <1>3, <1>4, <1>5, <1>6, <1>7

LEMMA LiteralsStay ==
  ASSUME LoopInv, LiteralsKept
  PROVE  \A k \in 1 .. 10 : mem[UserTop + k] = Literals[k]
<1> SUFFICES ASSUME NEW k \in 1 .. 10
             PROVE  mem[UserTop + k] = Literals[k]
  OBVIOUS
<1>1. UserTop + k \in Addr \ Destination /\ UserTop + k # Buf - 1
  BY LiteralBytes, DestinationOutside, Layout
<1>2. mem[UserTop + k] = before[UserTop + k]
  BY <1>1 DEF LoopInv, StaysInBounds
<1> QED BY <1>2 DEF LiteralsKept

LEMMA LiteralsStep ==
  ASSUME LoopInv, LiteralsKept, [Next]_vars
  PROVE  LiteralsKept'
<1>1. CASE Resume
  <2>1. \A k \in 1 .. 10 : before'[UserTop + k] = mem[UserTop + k]
    BY <1>1, LiteralBytes DEF Resume, FreshFrame
  <2> QED BY <2>1, LiteralsStay DEF LiteralsKept
<1>2. CASE ~Resume
  <2>1. before' = before
    BY <1>2
    DEF Next, vars, Call, CallStrlen, CallMemcpy, CallMemset, CallMemcmp, CallStrcmp, CallStrcpy,
        CallPuts, CallRead, CallPutHex, CallPutDec, CallPanic, CallTrap, Enter, Body, Strlen,
        Memcpy, Memset, Memcmp, Strcmp, Strcpy, Puts, StrLen, Write, Read, PutHex, HexDigit,
        PutDec, DecDigit, Panic, Trap, Inside
  <2> QED BY <2>1 DEF LiteralsKept
<1> QED BY <1>1, <1>2

\* The literals are strings.
LEMMA LiteralStrings ==
  ASSUME LoopInv, LiteralsKept
  PROVE  StringAt(PanicHeading) /\ StringAt(Newline) /\ StringAt(ZeroHex) /\ StringAt(ZeroDec)
<1>1. /\ mem[UserTop + 2] = 0 /\ mem[UserTop + 4] = 0
      /\ mem[UserTop + 8] = 0 /\ mem[UserTop + 10] = 0
  BY LiteralsStay, LiteralBytes
<1> QED BY <1>1, Layout DEF StringAt, PanicHeading, Newline, ZeroHex, ZeroDec, Addr

\* A place in a string that does not hold its terminator is not its last.
LEMMA StringFurther ==
  ASSUME NEW s, StringAt(s), NEW k \in Nat, InString(mem, s, k), mem[s + k] # 0
  PROVE  InString(mem, s, k + 1)
<1>1. PICK e \in s .. Top : mem[e] = 0
  BY DEF StringAt
<1>2. s \in Nat /\ e - s \in Nat /\ e = s + (e - s)
  BY <1>1, Layout DEF StringAt, Addr
<1>3. e - s \notin 0 .. k - 1 /\ e - s # k
  BY <1>1, <1>2 DEF InString
<1>4. s + (k + 1) <= Top
  BY <1>1, <1>2, <1>3, Layout
<1>5. \A j \in 0 .. k : mem[s + j] # 0
  BY DEF InString
<1> QED BY <1>2, <1>4, <1>5 DEF InString

-----------------------------------------------------------------------------
(* Every string that is printed ends                                        *)

LEMMA UserString ==
  ASSUME NEW s \in Strings
  PROVE  StringAt(s)
BY Layout DEF Strings, StringAt, User, Addr

LEMMA EndCalls ==
  ASSUME LoopInv, Call
  PROVE  StringsEnd'
<1>1. mem' = mem
  BY DEF Call, CallStrlen, CallMemcpy, CallMemset, CallMemcmp, CallStrcmp, CallStrcpy, CallPuts,
         CallRead, CallPutHex, CallPutDec, CallPanic, CallTrap, Enter
<1>2. CASE CallPuts
  <2>1. PICK s \in Strings \cup {NULL} : Enter("puts", <<s>>, "puts") /\ Locals(s, 0, 0, 0)
    BY <1>2 DEF CallPuts
  <2>2. call'.op = "puts" /\ Arg(1)' = s /\ pc' = "puts" /\ p' = s
    BY <2>1 DEF Enter, Locals, Arg
  <2>3. s = NULL \/ StringAt(s)
    BY <2>1, UserString
  <2> QED BY <1>1, <2>2, <2>3 DEF StringsEnd, StringAt
<1>3. CASE CallPanic
  <2>1. PICK s \in Strings : Enter("panic", <<s>>, "panic") /\ Locals(0, 0, 0, 0)
    BY <1>3 DEF CallPanic
  <2>2. call'.op = "panic" /\ Arg(1)' = s /\ pc' = "panic"
    BY <2>1 DEF Enter, Arg
  <2>3. StringAt(s)
    BY <2>1, UserString
  <2> QED BY <1>1, <2>2, <2>3 DEF StringsEnd, StringAt
<1>4. CASE ~CallPuts /\ ~CallPanic
  <2>1. /\ call'.op \notin {"puts", "panic"}
        /\ pc' \notin {"puts", "str_len", "write", "hex_digits", "dec_digits"}
    BY <1>4
    DEF Call, CallStrlen, CallMemcpy, CallMemset, CallMemcmp, CallStrcmp, CallStrcpy, CallRead,
        CallPutHex, CallPutDec, CallTrap, Enter, Traps
  <2> QED BY <2>1 DEF StringsEnd
<1> QED BY <1>2, <1>3, <1>4

\* The functions of mem.c, julius_read and the kernel calls print nothing.
LEMMA EndSilent ==
  ASSUME LoopInv, Strlen \/ Memcpy \/ Memset \/ Memcmp \/ Strcmp \/ Strcpy \/ Read \/ Trap
  PROVE  StringsEnd'
<1>1. /\ call' = call /\ call.op \notin {"puts", "panic"}
      /\ pc' \notin {"puts", "str_len", "write", "hex_digits", "dec_digits"}
  BY DEF Strlen, Memcpy, Memset, Memcmp, Strcmp, Strcpy, Read, Trap, Inside, Return, Loop, LoopInv,
         Places, Traps
<1> QED BY <1>1 DEF StringsEnd

LEMMA EndPuts ==
  ASSUME LoopInv, TypeInv, Puts \/ StrLen \/ Write
  PROVE  StringsEnd'
<1>1. /\ mem' = mem /\ call' = call /\ p' = p /\ call.op \in Printers
      /\ back \in {"returned", "panic_msg", "panic_newline", "ud2"}
  BY DEF Puts, StrLen, Write, Inside, locals, LoopInv, Places
<1>2. n \in Nat
  BY Layout DEF TypeInv, TypeOK
<1>3. CASE Puts
  <2>1. CASE p = NULL
    <3>1. pc' = back
      BY <1>3, <2>1 DEF Puts
    <3> QED BY <1>1, <3>1 DEF TypeInv, StringsEnd, StringAt, Arg
  <2>2. CASE p # NULL
    <3>1. pc' = "str_len" /\ n' = 0 /\ StringAt(p)
      BY <1>3, <2>2 DEF Puts, TypeInv, StringsEnd
    <3>2. InString(mem, p, 0)
      BY <3>1, Layout DEF InString, StringAt, Addr
    <3> QED BY <1>1, <3>1, <3>2 DEF TypeInv, StringsEnd, StringAt, InString, Arg
  <2> QED BY <2>1, <2>2
<1>4. CASE StrLen
  <2>1. pc = "str_len" /\ StringAt(p) /\ InString(mem, p, n)
    BY <1>4 DEF StrLen, TypeInv, StringsEnd
  <2>2. CASE mem[p + n] # 0
    <3>1. pc' = "str_len" /\ n' = n + 1
      BY <1>4, <2>1, <2>2 DEF StrLen
    <3>2. InString(mem, p, n + 1)
      BY <1>2, <2>1, <2>2, StringFurther
    <3> QED BY <1>1, <2>1, <3>1, <3>2 DEF TypeInv, StringsEnd, StringAt, InString, Arg
  <2>3. CASE mem[p + n] = 0
    <3>1. pc' = "write" /\ n' = n
      BY <1>4, <2>3 DEF StrLen
    <3> QED BY <1>1, <2>1, <2>3, <3>1 DEF TypeInv, StringsEnd, StringAt, InString, Arg
  <2> QED BY <2>2, <2>3
<1>5. CASE Write
  <2>1. pc' = back
    BY <1>5 DEF Write
  <2> QED BY <1>1, <2>1 DEF TypeInv, StringsEnd, StringAt, Arg
<1> QED BY <1>3, <1>4, <1>5

LEMMA EndPanic ==
  ASSUME LoopInv, TypeInv, Panic
  PROVE  StringsEnd'
<1>1. mem' = mem /\ call' = call /\ call.op = "panic" /\ StringAt(Arg(1))
  BY DEF Panic, LoopInv, Places, TypeInv, StringsEnd
<1>2. StringAt(PanicHeading) /\ StringAt(Newline)
  BY LiteralStrings DEF TypeInv
<1>3. \/ pc' = "puts" /\ p' \in {PanicHeading, Arg(1), Newline}
      \/ pc' = "halted"
  BY DEF Panic, Arg
<1> QED BY <1>1, <1>2, <1>3 DEF StringsEnd, StringAt, Arg

LEMMA EndHex ==
  ASSUME LoopInv, TypeInv, PutHex \/ HexDigit
  PROVE  StringsEnd'
<1>1. call' = call /\ call.op = "put_hex" /\ mem \in [Addr -> 0 .. 255]
  BY DEF PutHex, HexDigit, Inside, LoopInv, Places, Bytes
<1>2. Buf + HexBuf - 1 \in Addr /\ UserTop + 8 \in Addr /\ UserTop + 8 # Buf + HexBuf - 1
  BY Layout DEF Addr
<1>3. CASE PutHex
  <2>1. mem' = [mem EXCEPT ![Buf + HexBuf - 1] = 0]
    BY <1>3 DEF PutHex
  <2>2. mem'[Buf + HexBuf - 1] = 0 /\ mem'[UserTop + 8] = mem[UserTop + 8]
    BY <1>1, <1>2, <2>1
  <2>3. mem[UserTop + 8] = 0
    BY LiteralsStay, LiteralBytes DEF TypeInv
  <2>4. CASE v = 0
    <3>1. pc' = "puts" /\ p' = ZeroHex
      BY <1>3, <2>4 DEF PutHex
    <3>2. ZeroHex \in Addr /\ UserTop + 8 \in ZeroHex .. Top
      BY Layout DEF ZeroHex, Addr
    <3>3. StringAt(p)'
      BY <2>2, <2>3, <3>1, <3>2 DEF StringAt
    <3> QED BY <1>1, <3>1, <3>3 DEF StringsEnd
  <2>5. CASE v # 0
    <3>1. pc' = "hex_digits"
      BY <1>3, <2>5 DEF PutHex
    <3> QED BY <1>1, <2>2, <3>1 DEF StringsEnd
  <2> QED BY <2>4, <2>5
<1>4. CASE HexDigit
  <2>1. /\ p \in Int /\ Buf + HexBuf - 1 - p \in 0 .. HexDigits
        /\ mem[Buf + HexBuf - 1] = 0
    BY <1>4 DEF HexDigit, LoopInv, HexLoop, TypeInv, StringsEnd
  <2>2. p \in Buf + 1 .. Buf + HexBuf - 1
    BY <2>1, Layout
  <2>3. CASE v # 0 /\ p > Buf + 1
    <3>1. pc' = "hex_digits" /\ mem' = [mem EXCEPT ![p - 1] = Digit(v % 16)]
      BY <1>4, <2>2, <2>3, Layout DEF HexDigit
    <3>2. mem'[Buf + HexBuf - 1] = 0
      BY <1>1, <1>2, <2>1, <2>2, <3>1
    <3> QED BY <1>1, <3>1, <3>2 DEF StringsEnd
  <2>4. CASE ~(v # 0 /\ p > Buf + 1)
    <3>1. pc' = "puts" /\ p' = p - 2 /\ mem' = [mem EXCEPT ![p - 1] = 120, ![p - 2] = 48]
      BY <1>4, <2>2, <2>4, Layout DEF HexDigit, Locals
    <3>2. mem'[Buf + HexBuf - 1] = 0
      BY <1>1, <1>2, <2>1, <2>2, <3>1
    <3>3. p - 2 \in Addr /\ Buf + HexBuf - 1 \in p - 2 .. Top
      BY <2>2, Layout DEF Addr
    <3>4. StringAt(p)'
      BY <3>1, <3>2, <3>3 DEF StringAt
    <3> QED BY <1>1, <3>1, <3>4 DEF StringsEnd
  <2> QED BY <2>3, <2>4
<1> QED BY <1>3, <1>4

LEMMA EndDec ==
  ASSUME LoopInv, TypeInv, PutDec \/ DecDigit
  PROVE  StringsEnd'
<1>1. call' = call /\ call.op = "put_dec" /\ mem \in [Addr -> 0 .. 255]
  BY DEF PutDec, DecDigit, Inside, LoopInv, Places, Bytes
<1>2. Buf + DecBuf - 1 \in Addr /\ UserTop + 10 \in Addr /\ UserTop + 10 # Buf + DecBuf - 1
  BY Layout DEF Addr
<1>3. CASE PutDec
  <2>1. mem' = [mem EXCEPT ![Buf + DecBuf - 1] = 0]
    BY <1>3 DEF PutDec
  <2>2. mem'[Buf + DecBuf - 1] = 0 /\ mem'[UserTop + 10] = mem[UserTop + 10]
    BY <1>1, <1>2, <2>1
  <2>3. mem[UserTop + 10] = 0
    BY LiteralsStay, LiteralBytes DEF TypeInv
  <2>4. CASE v = 0
    <3>1. pc' = "puts" /\ p' = ZeroDec
      BY <1>3, <2>4 DEF PutDec
    <3>2. ZeroDec \in Addr /\ UserTop + 10 \in ZeroDec .. Top
      BY Layout DEF ZeroDec, Addr
    <3>3. StringAt(p)'
      BY <2>2, <2>3, <3>1, <3>2 DEF StringAt
    <3> QED BY <1>1, <3>1, <3>3 DEF StringsEnd
  <2>5. CASE v # 0
    <3>1. pc' = "dec_digits"
      BY <1>3, <2>5 DEF PutDec
    <3> QED BY <1>1, <2>2, <3>1 DEF StringsEnd
  <2> QED BY <2>4, <2>5
<1>4. CASE DecDigit
  <2>1. /\ p \in Int /\ Buf + DecBuf - 1 - p \in 0 .. DecDigits
        /\ mem[Buf + DecBuf - 1] = 0
    BY <1>4 DEF DecDigit, LoopInv, DecLoop, TypeInv, StringsEnd
  <2>2. p \in Buf + 2 .. Buf + DecBuf - 1
    BY <2>1, Layout
  <2>3. CASE v # 0 /\ p > Buf
    <3>1. pc' = "dec_digits" /\ mem' = [mem EXCEPT ![p - 1] = 48 + Rem(v)]
      BY <1>4, <2>2, <2>3, Layout DEF DecDigit
    <3>2. mem'[Buf + DecBuf - 1] = 0
      BY <1>1, <1>2, <2>1, <2>2, <3>1
    <3> QED BY <1>1, <3>1, <3>2 DEF StringsEnd
  <2>4. CASE ~(v # 0 /\ p > Buf)
    <3>1. /\ pc' = "puts"
          /\ \/ p' = p /\ mem' = mem
             \/ p' = p - 1 /\ mem' = [mem EXCEPT ![p - 1] = 45]
      BY <1>4, <2>2, <2>4, Layout DEF DecDigit
    <3>2. mem'[Buf + DecBuf - 1] = 0
      BY <1>1, <1>2, <2>1, <2>2, <3>1
    <3>3. p' \in Addr /\ Buf + DecBuf - 1 \in p' .. Top
      BY <2>2, <3>1, Layout DEF Addr
    <3>4. StringAt(p)'
      BY <3>2, <3>3 DEF StringAt
    <3> QED BY <1>1, <3>1, <3>4 DEF StringsEnd
  <2> QED BY <2>3, <2>4
<1> QED BY <1>3, <1>4

LEMMA EndStep ==
  ASSUME LoopInv, TypeInv, [Next]_vars
  PROVE  StringsEnd'
<1>1. CASE Call
  BY <1>1, EndCalls
<1>2. CASE Body
  BY <1>2, EndSilent, EndPuts, EndPanic, EndHex, EndDec DEF Body
<1>3. CASE Resume
  BY <1>3 DEF Resume, StringsEnd
<1>4. CASE UNCHANGED vars
  BY <1>4 DEF vars, locals, TypeInv, StringsEnd, StringAt, InString, Arg
<1> QED BY <1>1, <1>2, <1>3, <1>4 DEF Next

-----------------------------------------------------------------------------
(* Types                                                                    *)

Locations ==
  {"idle", "returned", "strlen", "memcpy", "memset", "memcmp", "strcmp", "strcpy", "puts",
   "str_len", "write", "read", "put_hex", "hex_digits", "put_dec", "dec_digits",
   "panic", "panic_msg", "panic_newline", "ud2", "halted", "trap"}

LEMMA LocationStep ==
  ASSUME LoopInv, TypeInv, [Next]_vars
  PROVE  pc' \in Locations
<1>1. /\ pc \in Locations
      /\ back \in {"returned", "panic_msg", "panic_newline", "ud2"}
  BY DEF TypeInv, TypeOK, Locations
<1>2. CASE Call
  BY <1>2
  DEF Call, CallStrlen, CallMemcpy, CallMemset, CallMemcmp, CallStrcmp, CallStrcpy, CallPuts,
      CallRead, CallPutHex, CallPutDec, CallPanic, CallTrap, Enter, Locations
<1>3. CASE Body
  BY <1>1, <1>3
  DEF Body, Strlen, Memcpy, Memset, Memcmp, Strcmp, Strcpy, Puts, StrLen, Write, Read, PutHex,
      HexDigit, PutDec, DecDigit, Panic, Trap, Return, Loop, Locations
<1>4. CASE Resume
  BY <1>4 DEF Resume, Locations
<1>5. CASE UNCHANGED vars
  BY <1>1, <1>5 DEF vars
<1> QED BY <1>2, <1>3, <1>4, <1>5 DEF Next

Pointers == p \in 0 .. Top + 1 /\ q \in 0 .. Top + 1 /\ n \in 0 .. Top
Numbers == v \in Int /\ ret \in Int

LEMMA Areas ==
  ASSUME NEW a, NEW len, Area(a, len)
  PROVE  a \in Nat /\ a >= 1 /\ len \in Nat /\ a + len <= UserTop + 1 /\ len <= UserTop
BY Layout DEF Area, User

LEMMA PointerCalls ==
  ASSUME Call
  PROVE  Pointers' /\ v' \in Int
<1>1. \E a, b \in 0 .. UserTop, c \in 0 .. UserTop, x \in Int : Locals(a, b, c, x)
  <2>1. User \subseteq 0 .. UserTop /\ Strings \subseteq 0 .. UserTop /\ 0 \in 0 .. UserTop
        /\ 0 \in Int /\ NULL \in 0 .. UserTop
    BY Layout DEF User, Strings, NULL
  <2>2. HexArgs \subseteq Int /\ DecArgs \subseteq Int
    BY LibcAssumption, Powers
  <2> QED BY <2>1, <2>2
          DEF Call, CallStrlen, CallMemcpy, CallMemset, CallMemcmp, CallStrcmp, CallStrcpy, CallPuts,
              CallRead, CallPutHex, CallPutDec, CallPanic, CallTrap
<1>2. \A a \in 0 .. UserTop : a \in 0 .. Top + 1 /\ a \in 0 .. Top
  BY Layout
<1> QED BY <1>1, <1>2 DEF Locals, Pointers

LEMMA PointerMem ==
  ASSUME LoopInv, ScanInv, TypeInv, Memcpy \/ Memset \/ Strcpy \/ Memcmp
  PROVE  Pointers' /\ v' = v
<1>1. Pointers /\ Top \in Nat /\ UserTop \in Nat /\ UserTop + 1 <= Top
  BY Layout DEF TypeInv, TypeOK, Pointers
<1>2. CASE Memcpy
  <2>1. CASE n > 0
    <3>1. Area(Arg(1), Arg(3)) /\ Area(Arg(2), Arg(3)) /\ n \in 0 .. Arg(3)
          /\ p = Arg(1) + (Arg(3) - n) /\ q = Arg(2) + (Arg(3) - n)
      BY <1>2 DEF Memcpy, LoopInv, Places, Arguments, MemcpyLoop
    <3>2. p + 1 \in 0 .. Top + 1 /\ q + 1 \in 0 .. Top + 1 /\ n - 1 \in 0 .. Top
      BY <1>1, <2>1, <3>1, Areas DEF Pointers
    <3> QED BY <1>1, <1>2, <2>1, <3>2 DEF Memcpy, Locals, Pointers
  <2>2. CASE n = 0
    BY <1>1, <1>2, <2>2 DEF Memcpy, locals, Pointers
  <2> QED BY <1>1, <2>1, <2>2 DEF Pointers
<1>3. CASE Memset
  <2>1. CASE n > 0
    <3>1. Area(Arg(1), Arg(3)) /\ n \in 0 .. Arg(3) /\ p = Arg(1) + (Arg(3) - n)
      BY <1>3 DEF Memset, LoopInv, Places, Arguments, MemsetLoop
    <3>2. p + 1 \in 0 .. Top + 1 /\ n - 1 \in 0 .. Top
      BY <1>1, <2>1, <3>1, Areas DEF Pointers
    <3> QED BY <1>1, <1>3, <2>1, <3>2 DEF Memset, Locals, Pointers
  <2>2. CASE n = 0
    BY <1>1, <1>3, <2>2 DEF Memset, locals, Pointers
  <2> QED BY <1>1, <2>1, <2>2 DEF Pointers
<1>4. CASE Strcpy
  <2>1. /\ p \in Addr /\ q = Arg(2) + (p - Arg(1)) /\ InString(before, Arg(2), p - Arg(1))
    BY <1>4 DEF Strcpy, LoopInv, Places, StrcpyLoop
  <2>2. p + 1 \in 0 .. Top + 1 /\ q + 1 \in 0 .. Top + 1
    BY <1>1, <2>1 DEF InString, Addr, Pointers
  <2> QED BY <1>1, <1>4, <2>2 DEF Strcpy, Locals, Pointers
<1>5. CASE Memcmp
  <2>1. CASE n > 0 /\ mem[p] = mem[q]
    <3>1. Area(Arg(1), Arg(3)) /\ Area(Arg(2), Arg(3)) /\ n \in 0 .. Arg(3)
          /\ p = Arg(1) + (Arg(3) - n) /\ q = Arg(2) + (Arg(3) - n)
      BY <1>5 DEF Memcmp, ScanInv
    <3>2. p + 1 \in 0 .. Top + 1 /\ q + 1 \in 0 .. Top + 1 /\ n - 1 \in 0 .. Top
      BY <1>1, <2>1, <3>1, Areas DEF Pointers
    <3> QED BY <1>1, <1>5, <2>1, <3>2 DEF Memcmp, Locals, Pointers
  <2>2. CASE ~(n > 0 /\ mem[p] = mem[q])
    BY <1>1, <1>5, <2>2 DEF Memcmp, locals, Pointers
  <2> QED BY <2>1, <2>2
<1> QED BY <1>2, <1>3, <1>4, <1>5

\* The places strcmp compares are both in strings.
LEMMA StrcmpReads ==
  ASSUME LoopInv, ScanInv, TypeInv, Strcmp
  PROVE  p \in 1 .. UserTop /\ q \in 1 .. UserTop
<1> DEFINE k == p - Arg(1)
<1>1. /\ Terminated(Arg(1)) /\ Terminated(Arg(2)) /\ k \in Nat
      /\ q = Arg(2) + k /\ InString(mem, Arg(1), k) /\ Bytes
      /\ \A j \in 0 .. k - 1 : mem[Arg(1) + j] = mem[Arg(2) + j]
  BY DEF Strcmp, ScanInv, LoopInv
<1>2. /\ Arg(1) \in Nat /\ Arg(2) \in Nat /\ p = Arg(1) + k
      /\ Arg(1) >= 1 /\ Arg(2) >= 1 /\ UserTop \in Nat
  <2>1. p \in 0 .. Top + 1
    BY DEF TypeInv, TypeOK
  <2> QED BY <1>1, <2>1, Layout DEF Terminated, User
<1> HIDE DEF k
<1>3. Arg(1) + k <= UserTop
  BY <1>1, Further
<1>4. Arg(2) + k <= UserTop
  <2>1. PICK e \in Arg(2) .. UserTop : mem[e] = 0
    BY <1>1 DEF Terminated
  <2>2. e - Arg(2) \notin 0 .. k - 1
    <3>1. SUFFICES ASSUME e - Arg(2) \in 0 .. k - 1
                   PROVE  FALSE
      OBVIOUS
    <3>2. mem[Arg(1) + (e - Arg(2))] # 0
      BY <1>1, <3>1 DEF InString
    <3>3. mem[Arg(1) + (e - Arg(2))] = mem[Arg(2) + (e - Arg(2))]
      BY <1>1, <3>1
    <3> QED BY <1>2, <2>1, <3>2, <3>3, Layout
  <2> QED BY <1>1, <1>2, <2>1, <2>2
<1> QED BY <1>1, <1>2, <1>3, <1>4

LEMMA PointerScan ==
  ASSUME LoopInv, ScanInv, TypeInv, Strlen \/ Strcmp \/ StrLen
  PROVE  Pointers' /\ v' = v
<1>1. Pointers /\ Top \in Nat /\ UserTop \in Nat /\ UserTop + 1 <= Top /\ Bytes
  BY Layout DEF TypeInv, TypeOK, Pointers, LoopInv
<1>2. CASE Strlen
  <2>1. p = Arg(1) /\ Terminated(Arg(1)) /\ n \in Nat /\ InString(mem, Arg(1), n)
    BY <1>2 DEF Strlen, ScanInv
  <2>2. p \in Nat /\ p >= 1
    BY <2>1, Layout DEF Terminated, User
  <2>3. CASE mem[p + n] # 0
    <3>1. InString(mem, p, n + 1)
      BY <1>1, <2>1, <2>3, Further
    <3>2. n + 1 \in 0 .. Top
      BY <1>1, <2>1, <2>2, <3>1 DEF InString
    <3> QED BY <1>1, <1>2, <2>3, <3>2 DEF Strlen, Pointers
  <2>4. CASE mem[p + n] = 0
    BY <1>1, <1>2, <2>4 DEF Strlen, Pointers
  <2> QED BY <2>3, <2>4
<1>3. CASE Strcmp
  <2>1. CASE mem[p] # 0 /\ mem[p] = mem[q]
    <3>1. p + 1 \in 0 .. Top + 1 /\ q + 1 \in 0 .. Top + 1
      BY <1>1, <1>3, StrcmpReads
    <3> QED BY <1>1, <1>3, <2>1, <3>1 DEF Strcmp, Locals, Pointers
  <2>2. CASE ~(mem[p] # 0 /\ mem[p] = mem[q])
    BY <1>1, <1>3, <2>2 DEF Strcmp, locals, Pointers
  <2> QED BY <2>1, <2>2
<1>4. CASE StrLen
  <2>1. StringAt(p) /\ InString(mem, p, n)
    BY <1>4 DEF StrLen, TypeInv, StringsEnd
  <2>2. CASE mem[p + n] # 0
    <3>1. n \in Nat /\ p \in Nat
      BY <1>1 DEF Pointers
    <3>2. InString(mem, p, n + 1)
      BY <2>1, <2>2, <3>1, StringFurther
    <3>3. n + 1 \in 0 .. Top
      BY <1>1, <3>1, <3>2 DEF InString
    <3> QED BY <1>1, <1>4, <2>2, <3>3 DEF StrLen, Pointers
  <2>3. CASE mem[p + n] = 0
    BY <1>1, <1>4, <2>3 DEF StrLen, Pointers
  <2> QED BY <2>2, <2>3
<1> QED BY <1>2, <1>3, <1>4

LEMMA PointerPrint ==
  ASSUME LoopInv, TypeInv,
         Puts \/ Write \/ Read \/ PutHex \/ HexDigit \/ PutDec \/ DecDigit \/ Panic \/ Trap
  PROVE  Pointers' /\ v' \in Int
<1>1. Pointers /\ Top \in Nat /\ 0 \in 0 .. Top /\ v \in Int
  BY Layout DEF TypeInv, TypeOK, Pointers
<1>2. CASE Puts
  BY <1>1, <1>2 DEF Puts, Pointers
<1>3. CASE Write \/ Read \/ Trap
  BY <1>1, <1>3 DEF Write, Read, Trap, locals, Pointers
<1>4. CASE PutHex
  <2>1. ZeroHex \in 0 .. Top + 1 /\ Buf + HexBuf - 1 \in 0 .. Top + 1
    BY Layout DEF ZeroHex
  <2> QED BY <1>1, <1>4, <2>1 DEF PutHex, Pointers
<1>5. CASE HexDigit
  <2>1. p \in Buf + 1 .. Buf + HexBuf - 1 /\ v \in Nat
    <3>1. p \in Int /\ Buf + HexBuf - 1 - p \in 0 .. HexDigits /\ v \in Nat
      BY <1>5 DEF HexDigit, LoopInv, HexLoop
    <3> QED BY <3>1, Layout
  <2>2. p - 1 \in 0 .. Top + 1 /\ p - 2 \in 0 .. Top + 1 /\ v \div 16 \in Int
    BY <2>1, Layout
  <2> QED BY <1>1, <1>5, <2>2 DEF HexDigit, Locals, Pointers
<1>6. CASE PutDec
  <2>1. ZeroDec \in 0 .. Top + 1 /\ Buf + DecBuf - 1 \in 0 .. Top + 1
    BY Layout DEF ZeroDec
  <2>2. \A x \in Absolute(v) : x \in Int
    BY <1>1, Powers DEF Absolute
  <2> QED BY <1>1, <1>6, <2>1, <2>2 DEF PutDec, Pointers
<1>7. CASE DecDigit
  <2>1. p \in Buf + 2 .. Buf + DecBuf - 1
    <3>1. p \in Int /\ Buf + DecBuf - 1 - p \in 0 .. DecDigits
      BY <1>7 DEF DecDigit, LoopInv, DecLoop
    <3> QED BY <3>1, Layout
  <2>2. p - 1 \in 0 .. Top + 1
    BY <2>1, Layout
  <2>3. Quot(v) \in Int
    BY <1>1 DEF Quot
  <2> QED BY <1>1, <1>7, <2>2, <2>3 DEF DecDigit, Locals, Pointers
<1>8. CASE Panic
  <2>1. PanicHeading \in 0 .. Top + 1 /\ Newline \in 0 .. Top + 1
    BY Layout DEF PanicHeading, Newline
  <2>2. Arg(1) \in 0 .. Top + 1
    <3>1. StringAt(Arg(1))
      BY <1>8 DEF Panic, LoopInv, Places, TypeInv, StringsEnd
    <3> QED BY <3>1, Layout DEF StringAt, Addr
  <2> QED BY <1>1, <1>8, <2>1, <2>2 DEF Panic, Pointers, Arg
<1> QED BY <1>2, <1>3, <1>4, <1>5, <1>6, <1>7, <1>8

LEMMA PointerStep ==
  ASSUME LoopInv, ScanInv, TypeInv, [Next]_vars
  PROVE  Pointers' /\ v' \in Int
<1>1. Pointers /\ v \in Int
  BY DEF TypeInv, TypeOK, Pointers
<1>2. CASE Call
  BY <1>2, PointerCalls
<1>3. CASE Body
  BY <1>1, <1>3, PointerMem, PointerScan, PointerPrint DEF Body
<1>4. CASE Resume
  BY <1>4, Layout DEF Resume, Locals, Pointers
<1>5. CASE UNCHANGED vars
  BY <1>1, <1>5 DEF vars, locals, Pointers
<1> QED BY <1>2, <1>3, <1>4, <1>5 DEF Next

-----------------------------------------------------------------------------
(* What the kernel is told to write is in memory                            *)

LEMMA WritePassed ==
  ASSUME NEW a, NEW b, NEW c
  PROVE  LET s == KernelSees(SysWrite(a, b, c))
         IN s.args[2] = b /\ s.args[3] = c
<1> DEFINE e == <<33554436, "write", 3>>
<1>1. e \in KernelTable /\ SysWrite(a, b, c) = Stub(e[1], <<a, b, c>>) /\ DOMAIN <<a, b, c>> = 1 .. 3
  BY DEF KernelTable, SysWrite, BSD_SYSCALL
<1>2. Arrives(e, <<a, b, c>>, 3)
  <2>1. Loaded(e, <<a, b, c>>, 3)
    BY <1>1 DEF Loaded
  <2> QED BY <1>1, <2>1, Passed
<1> QED BY <1>1, <1>2 DEF Arrives

\* What a write does to the console, the kernel's view of it left out.
LEMMA Written ==
  ASSUME Write
  PROVE  \/ \E m \in 0 .. n :
              /\ console' = console \o [k \in 1 .. m |-> mem[p + k - 1]]
              /\ torn' = (torn \/ m < n) /\ ret' = m
         \/ torn' = TRUE /\ ret' = -1 /\ console' = console
<1>1. seen' = KernelSees(SysWrite(Stderr, p, n)) /\ KernelWrites(seen'.args[2], seen'.args[3])
  BY DEF Write
<1>2. seen'.args[2] = p /\ seen'.args[3] = n
  BY <1>1, WritePassed
<1>3. KernelWrites(p, n)
  BY <1>1, <1>2
<1> QED BY <1>3 DEF KernelWrites

Shown == console \in Seq(0 .. 255) /\ torn \in BOOLEAN

LEMMA WriteShows ==
  ASSUME LoopInv, TypeInv, Write
  PROVE  Shown' /\ ret' \in Int
<1>1. /\ console \in Seq(0 .. 255) /\ torn \in BOOLEAN
      /\ mem \in [Addr -> 0 .. 255] /\ n \in Nat /\ p \in Nat /\ p >= 1 /\ p + n <= Top
  <2>1. StringAt(p) /\ InString(mem, p, n) /\ console \in Seq(0 .. 255) /\ torn \in BOOLEAN
    BY DEF Write, TypeInv, StringsEnd, TypeOK
  <2>2. n \in 0 .. Top
    BY DEF TypeInv, TypeOK
  <2> QED BY <2>1, <2>2, Layout DEF StringAt, InString, Addr, LoopInv, Bytes
<1>2. CASE torn' = TRUE /\ ret' = -1 /\ console' = console
  BY <1>1, <1>2 DEF Shown
<1>3. CASE \E m \in 0 .. n :
             /\ console' = console \o [k \in 1 .. m |-> mem[p + k - 1]]
             /\ torn' = (torn \/ m < n) /\ ret' = m
  <2>1. PICK m \in 0 .. n :
          /\ console' = console \o [k \in 1 .. m |-> mem[p + k - 1]]
          /\ torn' = (torn \/ m < n) /\ ret' = m
    BY <1>3
  <2>2. \A k \in 1 .. m : mem[p + k - 1] \in 0 .. 255
    <3>1. SUFFICES ASSUME NEW k \in 1 .. m
                   PROVE  p + k - 1 \in Addr
      BY <1>1
    <3> QED BY <1>1, <2>1, Layout DEF Addr
  <2>3. [k \in 1 .. m |-> mem[p + k - 1]] \in Seq(0 .. 255)
    <3>1. m \in Nat
      BY <1>1, <2>1
    <3> QED BY <2>2, <3>1
  <2>4. console' \in Seq(0 .. 255)
    BY <1>1, <2>1, <2>3
  <2>5. torn' \in BOOLEAN /\ ret' \in Int
    BY <1>1, <2>1
  <2> QED BY <2>4, <2>5 DEF Shown
<1> QED BY <1>2, <1>3, Written

LEMMA ResultStep ==
  ASSUME LoopInv, ScanInv, TypeInv, [Next]_vars
  PROVE  Shown' /\ ret' \in Int
<1>1. Shown /\ ret \in Int /\ n \in Nat /\ Bytes
  <2>1. n \in 0 .. Top
    BY DEF TypeInv, TypeOK
  <2> QED BY <2>1, Layout DEF TypeInv, TypeOK, Shown, LoopInv
<1>2. CASE Call
  BY <1>1, <1>2
  DEF Call, CallStrlen, CallMemcpy, CallMemset, CallMemcmp, CallStrcmp, CallStrcpy, CallPuts,
      CallRead, CallPutHex, CallPutDec, CallPanic, CallTrap, Enter, output, Shown
<1>3. CASE Write
  BY <1>3, WriteShows
<1>4. CASE Strlen \/ Puts \/ StrLen \/ PutHex \/ HexDigit \/ PutDec \/ DecDigit \/ Panic
  BY <1>1, <1>4
  DEF Strlen, Puts, StrLen, PutHex, HexDigit, PutDec, DecDigit, Panic, Return, Loop, output, Shown
<1>5. CASE Memcpy \/ Memset \/ Strcpy
  <2>1. Arg(1) \in Int
    BY <1>5, Areas, Layout
    DEF Memcpy, Memset, Strcpy, LoopInv, Places, Arguments, User
  <2>2. console' = console /\ torn' = torn /\ ret' \in {ret, Arg(1)}
    BY <1>5 DEF Memcpy, Memset, Strcpy, Return, Loop, output, Arg
  <2> QED BY <1>1, <2>1, <2>2 DEF Shown
<1>6. CASE Memcmp
  <2>1. CASE n > 0 /\ mem[p] # mem[q]
    <3>1. Area(Arg(1), Arg(3)) /\ Area(Arg(2), Arg(3)) /\ n \in 0 .. Arg(3)
          /\ p = Arg(1) + (Arg(3) - n) /\ q = Arg(2) + (Arg(3) - n)
      BY <1>6 DEF Memcmp, ScanInv
    <3>2. p \in Addr /\ q \in Addr
      BY <1>1, <2>1, <3>1, Areas, Layout DEF Addr
    <3>3. mem[p] \in Int /\ mem[q] \in Int
      BY <1>1, <3>2 DEF Bytes
    <3> QED BY <1>1, <1>6, <2>1, <3>3 DEF Memcmp, Return, output, Shown
  <2>2. CASE ~(n > 0 /\ mem[p] # mem[q])
    BY <1>1, <1>6, <2>2 DEF Memcmp, Return, Loop, output, Shown
  <2> QED BY <2>1, <2>2
<1>7. CASE Strcmp
  <2>1. /\ console' = console /\ torn' = torn
        /\ ret' = ret \/ ret' = mem[p] - mem[q]
    BY <1>7 DEF Strcmp, Return, Loop, output
  <2>2. p \in Addr /\ q \in Addr
    BY <1>7, StrcmpReads, Layout DEF Addr
  <2>3. mem[p] \in Int /\ mem[q] \in Int
    BY <1>1, <2>2 DEF Bytes
  <2> QED BY <1>1, <2>1, <2>3 DEF Shown
<1>8. CASE Read
  <2>1. PICK s : s = KernelSees(SysRead(0, p, n)) /\ seen' = s
    BY <1>8 DEF Read
  <2>2. s.args[3] = n
    BY <2>1, ReadPassed
  <2>3. ret' \in 0 .. n \cup {-1}
    BY <1>8, <2>1, <2>2 DEF Read, Return
  <2>4. console' = console /\ torn' = torn
    BY <1>8 DEF Read
  <2> QED BY <1>1, <2>3, <2>4 DEF Shown
<1>9. CASE Trap
  BY <1>1, <1>9 DEF Trap, Return, Shown
<1>10. CASE Resume
  <2>1. console' = <<>> /\ torn' = FALSE /\ ret' = 0
    BY <1>10 DEF Resume
  <2>2. <<>> \in Seq(0 .. 255)
    OBVIOUS
  <2>3. console' \in Seq(0 .. 255)
    BY <2>1, <2>2
  <2>4. torn' \in BOOLEAN
    BY <2>1, Zenon
  <2>5. ret' \in Int
    BY <2>1
  <2> QED BY <2>3, <2>4, <2>5 DEF Shown
<1>11. CASE UNCHANGED vars
  BY <1>1, <1>11 DEF vars, output, Shown
<1> QED BY <1>2, <1>3, <1>4, <1>5, <1>6, <1>7, <1>8, <1>9, <1>10, <1>11 DEF Next, Body

LEMMA TypeStep ==
  ASSUME LoopInv, ScanInv, TypeInv, [Next]_vars
  PROVE  TypeInv'
<1>1. LoopInv'
  BY LoopStep
<1>2. pc' \in Locations /\ Pointers' /\ v' \in Int /\ Shown' /\ ret' \in Int
  BY LocationStep, PointerStep, ResultStep
<1>3. TypeOK'
  BY <1>1, <1>2 DEF TypeOK, LoopInv, Bytes, Places, Locations, Pointers, Shown
<1> QED BY <1>3, LiteralsStep, EndStep DEF TypeInv

LEMMA TypeInit == Init => TypeInv
<1> SUFFICES ASSUME Init
             PROVE  TypeInv
  OBVIOUS
<1>1. Bytes
  BY LoopInit DEF LoopInv
<1>2. LiteralsKept
  <2>1. PICK user : mem = Memory(user) /\ before = mem
    BY DEF Init
  <2>2. SUFFICES ASSUME NEW k \in 1 .. 10
                 PROVE  Memory(user)[UserTop + k] = Literals[k]
    BY <2>1 DEF LiteralsKept
  <2>3. UserTop + k \in Addr /\ UserTop + k \notin User /\ UserTop + k < Buf - 1
    BY LiteralBytes
  <2>4. Memory(user)[UserTop + k] = Literals[(UserTop + k) - UserTop]
    BY <2>3 DEF Memory
  <2>5. (UserTop + k) - UserTop = k
    BY Layout
  <2> QED BY <2>4, <2>5
<1>3. StringsEnd
  BY DEF Init, StringsEnd
<1>4. Pointers /\ Shown /\ v \in Int /\ ret \in Int
  <2>1. <<>> \in Seq(0 .. 255)
    OBVIOUS
  <2>2. /\ p = 0 /\ q = 0 /\ n = 0 /\ v = 0 /\ ret = 0
        /\ console = <<>> /\ torn = FALSE
    BY DEF Init
  <2>3. console \in Seq(0 .. 255)
    BY <2>1, <2>2
  <2>4. torn \in BOOLEAN
    BY <2>2, Zenon
  <2>5. v \in Int /\ ret \in Int
    BY <2>2
  <2>6. Pointers
    BY <2>2, Layout DEF Pointers
  <2> QED BY <2>3, <2>4, <2>5, <2>6 DEF Shown
<1>5. TypeOK
  BY <1>1, <1>4 DEF Init, TypeOK, Bytes, Pointers, Shown
<1> QED BY <1>2, <1>3, <1>5 DEF TypeInv

\* Whatever the memory holds and whatever is printed, pointers stay within the
\* memory or one past it, counters within its size, and the bytes on the
\* console are bytes of it.
THEOREM LibcTypes == Spec => []TypeOK
<1>1. Init => ScanInv
  BY DEF Init, ScanInv, AnswersExact
<1>2. TypeInv => TypeOK
  BY DEF TypeInv
<1> QED BY <1>1, <1>2, LoopInit, LoopStep, ScanStep, TypeInit, TypeStep, PTL DEF Spec

-----------------------------------------------------------------------------
(* What a call has printed                                                  *)

Putting == {"puts", "str_len", "write"}

\* How far a panic is, and what of its three strings it has printed unless the
\* kernel refused some of it.
PanicInv ==
  /\ pc = "panic" => console = <<>>
  /\ call.op = "panic" /\ pc \in Putting =>
       \/ back = "panic_msg" /\ p = PanicHeading /\ console = <<>>
       \/ /\ back = "panic_newline" /\ p = Arg(1)
          /\ ~torn => console = Text(PanicHeading)
       \/ /\ back = "ud2" /\ p = Newline
          /\ ~torn => console = Text(PanicHeading) \o Text(Arg(1))
  /\ pc = "panic_msg" /\ ~torn => console = Text(PanicHeading)
  /\ pc = "panic_newline" /\ ~torn => console = Text(PanicHeading) \o Text(Arg(1))
  /\ pc = "ud2" /\ ~torn => console = Text(PanicHeading) \o Text(Arg(1)) \o Text(Newline)

PrintInv ==
  /\ pc = "idle" => console = <<>>
  /\ call.op = "puts" /\ pc \in Putting => p = Arg(1) /\ console = <<>>
  /\ PanicInv /\ PrintsWhole

\* The string at s in memory m.
TextIn(m, s) ==
  LET end == CHOOSE k \in 0 .. Top : InString(m, s, k) /\ m[s + k] = 0
  IN [k \in 1 .. end |-> m[s + k - 1]]

LEMMA TextInIs ==
  ASSUME NEW m, NEW s, NEW k \in 0 .. Top, InString(m, s, k), m[s + k] = 0
  PROVE  TextIn(m, s) = [j \in 1 .. k |-> m[s + j - 1]]
<1> DEFINE Ends(e) == InString(m, s, e) /\ m[s + e] = 0
<1>1. \A e \in 0 .. Top : Ends(e) => e = k
  <2>1. SUFFICES ASSUME NEW e \in 0 .. Top, Ends(e)
                 PROVE  e = k
    OBVIOUS
  <2>2. ~(k \in 0 .. e - 1) /\ ~(e \in 0 .. k - 1)
    BY <2>1 DEF InString
  <2> QED BY <2>2, Layout
<1>2. (CHOOSE e \in 0 .. Top : Ends(e)) = k
  BY <1>1
<1> QED BY <1>2 DEF TextIn

LEMMA TextIs ==
  ASSUME NEW s, NEW k \in 0 .. Top, InString(mem, s, k), mem[s + k] = 0
  PROVE  Text(s) = [j \in 1 .. k |-> mem[s + j - 1]]
<1>1. Text(s) = TextIn(mem, s)
  BY DEF Text, TextIn
<1> QED BY <1>1, TextInIs

\* Unless the kernel refuses some of it, a write adds the string that julius_puts
\* was given to the console.
LEMMA WholeWrite ==
  ASSUME LoopInv, TypeInv, Write, ~torn'
  PROVE  ~torn /\ Text(p) \in Seq(0 .. 255) /\ console' = console \o Text(p)
<1>1. /\ StringAt(p) /\ InString(mem, p, n) /\ mem[p + n] = 0 /\ n \in 0 .. Top
      /\ mem \in [Addr -> 0 .. 255]
  BY DEF Write, TypeInv, StringsEnd, TypeOK
<1>2. Text(p) = [k \in 1 .. n |-> mem[p + k - 1]]
  BY <1>1, TextIs
<1>3. ~torn /\ console' = console \o [k \in 1 .. n |-> mem[p + k - 1]]
  <2>1. PICK m \in 0 .. n :
          /\ console' = console \o [k \in 1 .. m |-> mem[p + k - 1]]
          /\ torn' = (torn \/ m < n)
    BY Written, Zenon
  <2>2. ~torn /\ ~(m < n)
    BY <2>1, Zenon
  <2>3. m = n
    BY <1>1, <2>2, Layout
  <2> QED BY <2>1, <2>2, <2>3, Zenon
<1>4. [k \in 1 .. n |-> mem[p + k - 1]] \in Seq(0 .. 255)
  <2>1. n \in Nat /\ p \in Nat /\ p >= 1 /\ p + n <= Top
    BY <1>1, Layout DEF StringAt, InString, Addr
  <2>2. \A k \in 1 .. n : mem[p + k - 1] \in 0 .. 255
    <3>1. SUFFICES ASSUME NEW k \in 1 .. n
                   PROVE  p + k - 1 \in Addr
      BY <1>1
    <3> QED BY <2>1, Layout DEF Addr
  <2> QED BY <2>1, <2>2
<1> QED BY <1>2, <1>3, <1>4

\* What the console is to show stays what it is while nothing is stored.
LEMMA TextsStay ==
  ASSUME mem' = mem, call' = call
  PROVE  /\ Arg(1)' = Arg(1)
         /\ Text(Arg(1))' = Text(Arg(1))
         /\ Text(PanicHeading)' = Text(PanicHeading)
         /\ Text(Newline)' = Text(Newline)
<1>1. Arg(1)' = Arg(1)
  BY DEF Arg
<1> QED BY <1>1 DEF Text, InString

LEMMA EmptyBefore ==
  ASSUME NEW t \in Seq(0 .. 255)
  PROVE  <<>> \o t = t
OBVIOUS

LEMMA PrintCalls ==
  ASSUME LoopInv, PrintInv, Call
  PROVE  PrintInv'
<1>1. pc = "idle" /\ console' = console /\ console = <<>>
  BY DEF Call, CallStrlen, CallMemcpy, CallMemset, CallMemcmp, CallStrcmp, CallStrcpy, CallPuts,
         CallRead, CallPutHex, CallPutDec, CallPanic, CallTrap, Enter, output, PrintInv
<1>2. CASE CallPuts
  <2>1. PICK s : Enter("puts", <<s>>, "puts") /\ p' = s
    BY <1>2 DEF CallPuts, Locals
  <2>2. call'.op = "puts" /\ Arg(1)' = s /\ pc' = "puts"
    BY <2>1 DEF Enter, Arg
  <2> QED BY <1>1, <2>1, <2>2 DEF PrintInv, PanicInv, PrintsWhole
<1>3. CASE ~CallPuts
  <2>1. pc' \notin Putting \cup {"idle", "returned", "halted", "panic_msg", "panic_newline", "ud2"}
    BY <1>3
    DEF Call, CallStrlen, CallMemcpy, CallMemset, CallMemcmp, CallStrcmp, CallStrcpy, CallRead,
        CallPutHex, CallPutDec, CallPanic, CallTrap, Enter, Putting
  <2> QED BY <1>1, <2>1 DEF PrintInv, PanicInv, PrintsWhole
<1> QED BY <1>2, <1>3

\* Functions that are neither julius_puts nor julius_panic.
LEMMA PrintElse ==
  ASSUME LoopInv, Body, call.op \notin {"puts", "panic"}
  PROVE  PrintInv'
<1>1. call' = call
  BY DEF Body, Strlen, Memcpy, Memset, Memcmp, Strcmp, Strcpy, Puts, StrLen, Write, Read, PutHex,
         HexDigit, PutDec, DecDigit, Panic, Trap, Inside
<1>2. pc' \notin {"idle", "panic", "panic_msg", "panic_newline", "ud2", "halted"}
  <2>1. back = "returned"
    BY DEF LoopInv, Places
  <2> QED BY <2>1
      DEF Body, Strlen, Memcpy, Memset, Memcmp, Strcmp, Strcpy, Puts, StrLen, Write, Read, PutHex,
          HexDigit, PutDec, DecDigit, Panic, Trap, Return, Loop, LoopInv, Places
<1> QED BY <1>1, <1>2 DEF PrintInv, PanicInv, PrintsWhole

LEMMA PrintPuts ==
  ASSUME LoopInv, TypeInv, PrintInv, Puts \/ StrLen \/ Write, call.op = "puts"
  PROVE  PrintInv'
<1>1. /\ mem' = mem /\ call' = call /\ back = "returned" /\ pc \in Putting /\ p' = p
      /\ p = Arg(1) /\ console = <<>>
  BY DEF Puts, StrLen, Write, Inside, locals, LoopInv, Places, PrintInv, Putting
<1>2. Arg(1)' = Arg(1) /\ Text(Arg(1))' = Text(Arg(1))
  BY <1>1, TextsStay
<1>3. CASE (Puts /\ p # NULL) \/ StrLen
  <2>1. pc' \in Putting /\ console' = console
    BY <1>3 DEF Puts, StrLen, output, Putting
  <2> QED BY <1>1, <1>2, <2>1 DEF PrintInv, PanicInv, PrintsWhole, Putting
<1>4. CASE Puts /\ p = NULL
  <2>1. pc' = "returned" /\ console' = console
    BY <1>1, <1>4 DEF Puts, output
  <2> QED BY <1>1, <1>2, <1>4, <2>1 DEF PrintInv, PanicInv, PrintsWhole, Putting
<1>5. CASE Write
  <2>1. pc' = "returned"
    BY <1>1, <1>5 DEF Write
  <2>2. Arg(1) # NULL
    BY <1>1, <1>5, Layout DEF Write, TypeInv, StringsEnd, StringAt, Addr, NULL
  <2>3. ~torn' => console' = Text(Arg(1))
    BY <1>1, <1>5, WholeWrite, EmptyBefore
  <2> QED BY <1>1, <1>2, <2>1, <2>2, <2>3 DEF PrintInv, PanicInv, PrintsWhole, Putting
<1> QED BY <1>3, <1>4, <1>5

LEMMA PrintPanic ==
  ASSUME LoopInv, TypeInv, PrintInv, Puts \/ StrLen \/ Write \/ Panic, call.op = "panic"
  PROVE  PrintInv'
<1>1. mem' = mem /\ call' = call
  BY DEF Puts, StrLen, Write, Panic, Inside
<1>2. /\ Arg(1)' = Arg(1) /\ Text(Arg(1))' = Text(Arg(1))
      /\ Text(PanicHeading)' = Text(PanicHeading) /\ Text(Newline)' = Text(Newline)
  BY <1>1, TextsStay
<1>3. CASE Puts \/ StrLen
  <2>1. /\ pc \in Putting /\ pc' \in Putting /\ p' = p /\ back' = back
        /\ console' = console /\ torn' = torn
    <3>1. CASE Puts
      <4>1. p # NULL
        BY <3>1, Layout DEF Puts, TypeInv, StringsEnd, StringAt, Addr, NULL
      <4> QED BY <3>1, <4>1 DEF Puts, Inside, output, Putting
    <3>2. CASE StrLen
      BY <3>2 DEF StrLen, Inside, output, Putting
    <3> QED BY <1>3, <3>1, <3>2
  <2> QED BY <1>1, <1>2, <2>1 DEF PrintInv, PanicInv, PrintsWhole, Putting
<1>4. CASE Write
  <2>1. pc \in Putting /\ pc' = back
    BY <1>4 DEF Write, Putting
  <2>2. /\ ~torn' => ~torn /\ console' = console \o Text(p)
        /\ ~torn' => Text(p) \in Seq(0 .. 255)
    BY <1>4, WholeWrite
  <2>3. CASE back = "panic_msg" /\ p = PanicHeading /\ console = <<>>
    <3>1. ~torn' => console' = Text(PanicHeading)
      BY <2>2, <2>3, EmptyBefore
    <3> QED BY <1>1, <1>2, <2>1, <2>3, <3>1 DEF PrintInv, PanicInv, PrintsWhole, Putting
  <2>4. CASE /\ back = "panic_newline" /\ p = Arg(1)
             /\ ~torn => console = Text(PanicHeading)
    <3>1. ~torn' => console' = Text(PanicHeading) \o Text(Arg(1))
      BY <2>2, <2>4, Zenon
    <3> QED BY <1>1, <1>2, <2>1, <2>4, <3>1 DEF PrintInv, PanicInv, PrintsWhole, Putting
  <2>5. CASE /\ back = "ud2" /\ p = Newline
             /\ ~torn => console = Text(PanicHeading) \o Text(Arg(1))
    <3>1. ~torn' => console' = Text(PanicHeading) \o Text(Arg(1)) \o Text(Newline)
      BY <2>2, <2>5, Zenon
    <3> QED BY <1>1, <1>2, <2>1, <2>5, <3>1 DEF PrintInv, PanicInv, PrintsWhole, Putting
  <2> QED BY <2>1, <2>3, <2>4, <2>5 DEF PrintInv, PanicInv
<1>5. CASE Panic
  <2>1. console' = console /\ torn' = torn
    BY <1>5 DEF Panic, output
  <2> QED BY <1>1, <1>2, <1>5, <2>1, Zenon DEF Panic, PrintInv, PanicInv, PrintsWhole, Putting, Arg
<1> QED BY <1>3, <1>4, <1>5

LEMMA PrintStep ==
  ASSUME LoopInv, TypeInv, PrintInv, [Next]_vars
  PROVE  PrintInv'
<1>1. CASE Call
  BY <1>1, PrintCalls
<1>2. CASE Body
  <2>1. CASE call.op \notin {"puts", "panic"}
    BY <1>2, <2>1, PrintElse
  <2>2. CASE call.op = "puts"
    <3>1. Puts \/ StrLen \/ Write
      BY <1>2, <2>2
      DEF Body, Strlen, Memcpy, Memset, Memcmp, Strcmp, Strcpy, Read, PutHex, HexDigit, PutDec,
          DecDigit, Panic, Trap, LoopInv, Places, Traps
    <3> QED BY <2>2, <3>1, PrintPuts
  <2>3. CASE call.op = "panic"
    <3>1. Puts \/ StrLen \/ Write \/ Panic
      BY <1>2, <2>3
      DEF Body, Strlen, Memcpy, Memset, Memcmp, Strcmp, Strcpy, Read, PutHex, HexDigit, PutDec,
          DecDigit, Trap, LoopInv, Places, Traps
    <3> QED BY <2>3, <3>1, PrintPanic
  <2> QED BY <2>1, <2>2, <2>3
<1>3. CASE Resume
  BY <1>3 DEF Resume, PrintInv, PanicInv, PrintsWhole, Putting
<1>4. CASE UNCHANGED vars
  <2>1. /\ mem' = mem /\ call' = call /\ pc' = pc /\ p' = p /\ back' = back
        /\ console' = console /\ torn' = torn
    BY <1>4 DEF vars, locals, output
  <2> QED BY <2>1, TextsStay DEF PrintInv, PanicInv, PrintsWhole, Putting
<1> QED BY <1>1, <1>2, <1>3, <1>4 DEF Next

\* Unless the kernel refuses part of it, all of its string is on the console when
\* puts returns, and when a panic halts its heading, its message and a newline
\* are, in this order and nothing else (io.c:39-47, 86-93).
THEOREM AllPrinted == Spec => []PrintsWhole
<1>1. Init => ScanInv
  BY DEF Init, ScanInv, AnswersExact
<1>2. Init => PrintInv
  BY DEF Init, PrintInv, PanicInv, PrintsWhole, Putting
<1>3. PrintInv => PrintsWhole
  BY DEF PrintInv
<1> QED BY <1>1, <1>2, <1>3, LoopInit, LoopStep, ScanStep, TypeInit, TypeStep, PrintStep, PTL
        DEF Spec

-----------------------------------------------------------------------------
(* What the number printers print                                           *)

\* The number the k bytes before address e stand for in memory m.
Worth(m, power, e, k) ==
  SumFunction([j \in 0 .. k - 1 |-> DigitValue(m[e - 1 - j]) * power[j]])

\* The k bytes before e are digits, with no zero in front once the number is done.
DigitBytes(chars, e, k) ==
  /\ \A a \in e - k .. e - 1 : mem[a] \in chars
  /\ v = 0 => k > 0 /\ mem[e - k] # 48

\* What is left of the number and what has been stored of it make up what the
\* printer was given.
HexLeft(k) ==
  /\ v < Sixteens[HexDigits - k] /\ DigitBytes(HexChars, Buf + HexBuf - 1, k)
  /\ v * Sixteens[k] + Worth(mem, Sixteens, Buf + HexBuf - 1, k) = Arg(1)

DecLeft(k) ==
  /\ v >= 0 /\ DigitBytes(DecChars, Buf + DecBuf - 1, k)
  /\ v * Tens[k] + Worth(mem, Tens, Buf + DecBuf - 1, k) = IF Arg(1) < 0 THEN -Arg(1) ELSE Arg(1)

HexMade == pc = "hex_digits" => \E k \in Nat : p = Buf + HexBuf - 1 - k /\ HexLeft(k)
DecMade ==
  pc = "dec_digits" /\ Negatable => \E k \in Nat : p = Buf + DecBuf - 1 - k /\ DecLeft(k)

ValueInv ==
  /\ pc = "idle" => console = <<>>
  /\ HexMade /\ DecMade
  /\ call.op \in {"put_hex", "put_dec"} /\ pc # "returned" => console = <<>>
  /\ call.op \in {"put_hex", "put_dec"} /\ pc \in Putting /\ Negatable =>
       p # NULL /\ Shows(Text(p))
  /\ PrintedValue

LEMMA WorthNone ==
  ASSUME NEW m, NEW power, NEW e
  PROVE  Worth(m, power, e, 0) = 0
<1> DEFINE f == [j \in 0 .. 0 - 1 |-> DigitValue(m[e - 1 - j]) * power[j]]
<1>1. Worth(m, power, e, 0) = SumFunctionOnSet(f, {})
  <2>1. DOMAIN f = {}
    OBVIOUS
  <2>2. Worth(m, power, e, 0) = SumFunctionOnSet(f, DOMAIN f)
    BY DEF Worth, SumFunction
  <2> QED BY <2>1, <2>2
<1> HIDE DEF f
<1> QED BY <1>1, SumEmpty

\* One more digit in front.
LEMMA WorthMore ==
  ASSUME NEW m, NEW power, NEW e \in Int, NEW k \in Nat,
         \A j \in 0 .. k : power[j] \in Nat /\ DigitValue(m[e - 1 - j]) \in Nat
  PROVE  /\ Worth(m, power, e, k) \in Nat
         /\ Worth(m, power, e, k + 1)
              = Worth(m, power, e, k) + DigitValue(m[e - 1 - k]) * power[k]
<1> DEFINE val(j) == DigitValue(m[e - 1 - j]) * power[j]
           f == [j \in 0 .. (k + 1) - 1 |-> val(j)]
           g == [j \in 0 .. k - 1 |-> val(j)]
<1>1. \A j \in 0 .. k : val(j) \in Nat
  <2>1. \A a, b \in Nat : a * b \in Nat
    OBVIOUS
  <2> QED BY <2>1
<1>2. /\ Worth(m, power, e, k + 1) = SumFunctionOnSet(f, DOMAIN f)
      /\ Worth(m, power, e, k) = SumFunctionOnSet(g, DOMAIN g)
  BY DEF Worth, SumFunction
<1>3. DOMAIN f = 0 .. k /\ DOMAIN g = 0 .. k - 1 /\ (k + 1) - 1 = k
  OBVIOUS
<1> HIDE DEF val
<1>4. /\ \A j \in 0 .. k : f[j] = val(j) /\ f[j] \in Nat
      /\ \A j \in 0 .. k - 1 : g[j] = val(j) /\ g[j] \in Nat
  BY <1>1, <1>3
<1> HIDE DEF f, g
<1>5. IsFiniteSet(0 .. k - 1) /\ k \in 0 .. k
  <2>1. IsFiniteSet(0 .. k - 1)
    BY FS_Interval
  <2> QED BY <2>1
<1>6. SumFunctionOnSet(f, 0 .. k) = f[k] + SumFunctionOnSet(f, 0 .. k - 1)
  <2>1. \A j \in 0 .. k : f[j] \in Nat
    BY <1>4
  <2> QED BY <2>1, SumLast
<1>7. SumFunctionOnSet(f, 0 .. k - 1) = SumFunctionOnSet(g, 0 .. k - 1)
  <2>1. \A j \in 0 .. k - 1 : f[j] = g[j]
    BY <1>4
  <2> QED BY <1>5, <2>1, SumSame
<1>8. SumFunctionOnSet(g, 0 .. k - 1) \in Nat
  BY <1>4, <1>5, SumNat
<1>9. f[k] = val(k) /\ val(k) \in Nat
  BY <1>1, <1>4, <1>5
<1> QED BY <1>2, <1>3, <1>6, <1>7, <1>8, <1>9 DEF val

LEMMA WorthNat ==
  ASSUME NEW m, NEW power, NEW e \in Int, NEW k \in Nat,
         \A j \in 0 .. k - 1 : power[j] \in Nat /\ DigitValue(m[e - 1 - j]) \in Nat
  PROVE  Worth(m, power, e, k) \in Nat
<1> DEFINE f == [j \in 0 .. k - 1 |-> DigitValue(m[e - 1 - j]) * power[j]]
<1>1. \A j \in 0 .. k - 1 : f[j] \in Nat
  <2>1. \A a, b \in Nat : a * b \in Nat
    OBVIOUS
  <2> QED BY <2>1
<1>2. Worth(m, power, e, k) = SumFunctionOnSet(f, DOMAIN f) /\ DOMAIN f = 0 .. k - 1
  BY DEF Worth, SumFunction
<1> HIDE DEF f
<1>3. IsFiniteSet(0 .. k - 1)
  BY FS_Interval
<1> QED BY <1>1, <1>2, <1>3, SumNat

LEMMA WorthStays ==
  ASSUME NEW m, NEW m2, NEW power, NEW e \in Int, NEW k \in Nat,
         \A j \in 0 .. k - 1 : m[e - 1 - j] = m2[e - 1 - j]
  PROVE  Worth(m, power, e, k) = Worth(m2, power, e, k)
<1> DEFINE f == [j \in 0 .. k - 1 |-> DigitValue(m[e - 1 - j]) * power[j]]
           g == [j \in 0 .. k - 1 |-> DigitValue(m2[e - 1 - j]) * power[j]]
<1>1. f = g
  OBVIOUS
<1>2. Worth(m, power, e, k) = SumFunction(f) /\ Worth(m2, power, e, k) = SumFunction(g)
  BY DEF Worth
<1> HIDE DEF f, g
<1> QED BY <1>1, <1>2

LEMMA DigitOut ==
  ASSUME NEW w \in Nat, NEW base \in Nat, NEW d \in Nat, NEW x \in Nat, NEW s \in Nat
  PROVE  w * (base * x) + (s + d * x) = (base * w + d) * x + s
OBVIOUS

LEMMA DigitValues == \A c \in HexChars \cup DecChars : DigitValue(c) \in Nat /\ c \in 0 .. 255 /\ c # 0
BY DEF HexChars, DecChars, DigitValue

\* Memory m2 is m with digit c of a number put in front of the k there are
\* before e; w is what is left of the number.
DigitAdded(m, m2, power, base, chars, e, k, c, w) ==
  /\ base \in Nat /\ chars \in {HexChars, DecChars} /\ e \in Int /\ k \in Nat /\ w \in Nat
  /\ c \in chars /\ m2[e - k - 1] = c
  /\ \A a \in e - k .. e - 1 : m2[a] = m[a] /\ m[a] \in chars
  /\ \A j \in 0 .. k : power[j] \in Nat
  /\ power[k + 1] = base * power[k]

\* What a digit adds to the bytes stored is what the division takes away.
LEMMA DigitStored ==
  ASSUME NEW m, NEW m2, NEW power, NEW base, NEW chars, NEW e, NEW k, NEW c, NEW w,
         DigitAdded(m, m2, power, base, chars, e, k, c, w)
  PROVE  /\ \A a \in e - (k + 1) .. e - 1 : m2[a] \in chars
         /\ m2[e - (k + 1)] = c
         /\ w * power[k + 1] + Worth(m2, power, e, k + 1)
              = (base * w + DigitValue(c)) * power[k] + Worth(m, power, e, k)
<1> /\ base \in Nat /\ chars \in {HexChars, DecChars} /\ e \in Int /\ k \in Nat /\ w \in Nat
    /\ c \in chars /\ m2[e - k - 1] = c
    /\ \A a \in e - k .. e - 1 : m2[a] = m[a] /\ m[a] \in chars
    /\ \A j \in 0 .. k : power[j] \in Nat
    /\ power[k + 1] = base * power[k]
  BY DEF DigitAdded
<1>1. m2[e - k - 1] = c /\ \A a \in e - k .. e - 1 : m2[a] = m[a]
  OBVIOUS
<1>2. e - (k + 1) = e - k - 1 /\ e - 1 - k = e - k - 1
  OBVIOUS
<1>3. \A a \in e - (k + 1) .. e - 1 : m2[a] \in chars
  BY <1>1, <1>2
<1>4. Worth(m, power, e, k) = Worth(m2, power, e, k)
  <2>1. \A j \in 0 .. k - 1 : m[e - 1 - j] = m2[e - 1 - j]
    BY <1>1
  <2> QED BY <2>1, WorthStays
<1>5. \A j \in 0 .. k : power[j] \in Nat /\ DigitValue(m2[e - 1 - j]) \in Nat
  BY <1>3, DigitValues
<1>6. /\ Worth(m2, power, e, k) \in Nat
      /\ Worth(m2, power, e, k + 1) = Worth(m2, power, e, k) + DigitValue(c) * power[k]
  <2>1. /\ Worth(m2, power, e, k) \in Nat
        /\ Worth(m2, power, e, k + 1)
             = Worth(m2, power, e, k) + DigitValue(m2[e - 1 - k]) * power[k]
    BY <1>5, WorthMore
  <2> QED BY <1>1, <1>2, <2>1
<1>7. power[k] \in Nat /\ DigitValue(c) \in Nat
  BY DigitValues
<1>8. w * (base * power[k]) + (Worth(m2, power, e, k) + DigitValue(c) * power[k])
        = (base * w + DigitValue(c)) * power[k] + Worth(m2, power, e, k)
  BY <1>6, <1>7, DigitOut
<1> QED BY <1>1, <1>2, <1>3, <1>4, <1>6, <1>8

\* w bytes other than NUL, k digits with no leading zero, and a NUL.
DigitsFrom(m, s, w, k, chars) ==
  /\ s + w + k \in Addr /\ m[s + w + k] = 0
  /\ \A a \in s .. s + w - 1 : m[a] # 0
  /\ \A a \in s + w .. s + w + k - 1 : m[a] \in chars
  /\ k = 1 \/ m[s + w] # 48

\* A string that ends in k digits reads as they do.
LEMMA DigitsShow ==
  ASSUME NEW m, NEW s \in Addr, NEW w \in Nat, NEW k \in Nat \ {0}, NEW chars \in {HexChars, DecChars},
         NEW power, DigitsFrom(m, s, w, k, chars)
  PROVE  /\ \A j \in 1 .. w : TextIn(m, s)[j] = m[s + j - 1]
         /\ Numeral(TextIn(m, s), w, chars, power, Worth(m, power, s + w + k, k))
<1>1. w + k \in 0 .. Top /\ s \in Nat /\ s >= 1
  BY Layout DEF Addr, DigitsFrom
<1>2. InString(m, s, w + k)
  BY <1>1, DigitValues, Layout DEF InString, Addr, DigitsFrom
<1>3. TextIn(m, s) = [j \in 1 .. w + k |-> m[s + j - 1]]
  BY <1>1, <1>2, TextInIs DEF DigitsFrom
<1> DEFINE text == TextIn(m, s)
<1>4. Len(text) = w + k /\ \A j \in 1 .. w + k : text[j] = m[s + j - 1]
  BY <1>1, <1>3
<1> HIDE DEF text
<1>5. \A j \in w + 1 .. Len(text) : text[j] \in chars
  BY <1>1, <1>4 DEF DigitsFrom
<1>6. Len(text) > w /\ (Len(text) > w + 1 => text[w + 1] # 48)
  BY <1>1, <1>4 DEF DigitsFrom
<1>7. SumFunction([j \in 0 .. Len(text) - w - 1 |-> DigitValue(text[Len(text) - j]) * power[j]])
        = Worth(m, power, s + w + k, k)
  <2> DEFINE f == [j \in 0 .. Len(text) - w - 1 |-> DigitValue(text[Len(text) - j]) * power[j]]
             end == s + w + k
             g == [j \in 0 .. k - 1 |-> DigitValue(m[end - 1 - j]) * power[j]]
  <2>1. Len(text) - w - 1 = k - 1
    BY <1>1, <1>4
  <2>2. \A j \in 0 .. k - 1 : text[Len(text) - j] = m[end - 1 - j]
    BY <1>1, <1>4
  <2> HIDE DEF end
  <2>3. f = g
    BY <2>1, <2>2
  <2>4. Worth(m, power, end, k) = SumFunction(g)
    BY DEF Worth
  <2> HIDE DEF f, g
  <2>5. SumFunction(f) = SumFunction(g)
    BY <2>3
  <2> QED BY <2>4, <2>5 DEF f, end
<1>8. Numeral(text, w, chars, power, Worth(m, power, s + w + k, k))
  BY <1>5, <1>6, <1>7 DEF Numeral
<1> QED BY <1>1, <1>4, <1>8 DEF text

LEMMA ZeroWorth ==
  ASSUME NEW m, NEW power, NEW e \in Int, m[e - 1] = 48, power[0] = 1
  PROVE  Worth(m, power, e, 1) = 0
<1>1. \A j \in 0 .. 0 : power[j] \in Nat /\ DigitValue(m[e - 1 - j]) \in Nat
  BY DEF DigitValue
<1>2. Worth(m, power, e, 0 + 1) = Worth(m, power, e, 0) + DigitValue(m[e - 1 - 0]) * power[0]
  BY <1>1, WorthMore
<1>3. DigitValue(m[e - 1 - 0]) = 0 /\ 0 + 1 = 1
  BY DEF DigitValue
<1> QED BY <1>2, <1>3, WorthNone

LEMMA HexShow ==
  ASSUME NEW m, NEW s \in Addr, NEW k \in Nat \ {0}, DigitsFrom(m, s, 2, k, HexChars)
  PROVE  /\ \A j \in 1 .. 2 : TextIn(m, s)[j] = m[s + j - 1]
         /\ Numeral(TextIn(m, s), 2, HexChars, Sixteens, Worth(m, Sixteens, s + 2 + k, k))
<1> DEFINE w == 2
           power == Sixteens
<1>1. w \in Nat /\ HexChars \in {HexChars, DecChars} /\ DigitsFrom(m, s, w, k, HexChars)
  OBVIOUS
<1> HIDE DEF w, power
<1>2. /\ \A j \in 1 .. w : TextIn(m, s)[j] = m[s + j - 1]
      /\ Numeral(TextIn(m, s), w, HexChars, power, Worth(m, power, s + w + k, k))
  BY <1>1, DigitsShow
<1> QED BY <1>2 DEF w, power

LEMMA HexText ==
  ASSUME NEW m, NEW s \in Addr, NEW k \in Nat \ {0}, s + 2 + k \in Addr, m[s + 2 + k] = 0,
         m[s] = 48, m[s + 1] = 120,
         \A a \in s + 2 .. s + 2 + k - 1 : m[a] \in HexChars, k = 1 \/ m[s + 2] # 48
  PROVE  /\ TextIn(m, s)[1] = 48 /\ TextIn(m, s)[2] = 120
         /\ Numeral(TextIn(m, s), 2, HexChars, Sixteens, Worth(m, Sixteens, s + 2 + k, k))
<1>1. s \in Int
  BY DEF Addr
<1>2. \A a \in s .. s + 2 - 1 : m[a] # 0
  BY <1>1
<1>3. DigitsFrom(m, s, 2, k, HexChars)
  BY <1>2 DEF DigitsFrom
<1>4. /\ \A j \in 1 .. 2 : TextIn(m, s)[j] = m[s + j - 1]
      /\ Numeral(TextIn(m, s), 2, HexChars, Sixteens, Worth(m, Sixteens, s + 2 + k, k))
  BY <1>3, HexShow
<1>5. TextIn(m, s)[1] = m[s + 1 - 1] /\ TextIn(m, s)[2] = m[s + 2 - 1]
  <2>1. 1 \in 1 .. 2 /\ 2 \in 1 .. 2
    OBVIOUS
  <2> QED BY <1>4, <2>1, Zenon
<1>6. s + 1 - 1 = s /\ s + 2 - 1 = s + 1
  BY <1>1
<1> QED BY <1>4, <1>5, <1>6

\* The printers go on to store digits, or have julius_puts print what they made.
LEMMA ValueBuffer ==
  ASSUME ValueInv, call' = call, console' = console, call.op \in {"put_hex", "put_dec"},
         pc # "returned", pc' \in {"puts", "hex_digits", "dec_digits"}, HexMade', DecMade',
         pc' = "puts" /\ Negatable => p' # NULL /\ Shows(TextIn(mem', p'))
  PROVE  ValueInv'
<1>1. Negatable' = Negatable
  BY DEF Negatable, Arg
<1>2. Shows(Text(p))' = Shows(TextIn(mem', p'))
  BY DEF Shows, Text, TextIn, Arg
<1> QED BY <1>1, <1>2 DEF ValueInv, PrintedValue, Putting

LEMMA ValuePutHex ==
  ASSUME LoopInv, TypeInv, ValueInv, PutHex
  PROVE  ValueInv'
<1> DEFINE e == Buf + HexBuf - 1
<1>1. /\ call' = call /\ console' = console /\ pc = "put_hex" /\ call.op = "put_hex"
      /\ mem' = [mem EXCEPT ![e] = 0] /\ mem \in [Addr -> 0 .. 255]
      /\ v = Arg(1) /\ v' = v /\ v \in 0 .. Sixteens[HexDigits] - 1 /\ Arg(1)' = Arg(1)
  BY DEF PutHex, Inside, output, LoopInv, Places, Bytes, HexLoop, Arguments, Arg
<1>2. e \in Addr /\ UserTop + 8 < e
  BY Layout DEF Addr
<1> HIDE DEF e
<1>3. CASE v = 0
  <2>1. pc' = "puts" /\ p' = UserTop + 5
    BY <1>3 DEF PutHex, ZeroHex
  <2>2. PICK m : m = mem'
    OBVIOUS
  <2>3. \A k \in 5 .. 8 : m[UserTop + k] = Literals[k]
    <3>1. \A k \in 5 .. 8 : mem[UserTop + k] = Literals[k] /\ UserTop + k \in Addr
      BY LiteralsStay, LiteralBytes DEF TypeInv
    <3>2. \A k \in 5 .. 8 : UserTop + k # e
      BY <1>2, Layout
    <3> QED BY <1>1, <2>2, <3>1, <3>2
  <2>4. /\ m[UserTop + 5] = 48 /\ m[UserTop + 6] = 120 /\ m[UserTop + 7] = 48
        /\ m[UserTop + 8] = 0
    BY <2>3 DEF Literals
  <2> DEFINE s == UserTop + 5
  <2>5. /\ s \in Addr /\ s + 2 + 1 \in Addr /\ s + 2 + 1 = UserTop + 8 /\ s + 1 = UserTop + 6
        /\ s + 2 = UserTop + 7 /\ s \in Int /\ s # NULL
    BY Layout DEF Addr, NULL
  <2> HIDE DEF s
  <2>6. /\ m[s] = 48 /\ m[s + 1] = 120 /\ m[s + 2 + 1] = 0
        /\ \A a \in s + 2 .. s + 2 + 1 - 1 : m[a] \in HexChars
    BY <2>4, <2>5 DEF HexChars, s
  <2>7. /\ TextIn(m, s)[1] = 48 /\ TextIn(m, s)[2] = 120
        /\ Numeral(TextIn(m, s), 2, HexChars, Sixteens, Worth(m, Sixteens, s + 2 + 1, 1))
    BY <2>5, <2>6, HexText
  <2>8. Worth(m, Sixteens, s + 2 + 1, 1) = 0
    <3> DEFINE end == s + 2 + 1
    <3>1. end \in Int /\ m[end - 1] = 48
      BY <2>4, <2>5
    <3> HIDE DEF end
    <3>2. Worth(m, Sixteens, end, 1) = 0
      BY <3>1, ZeroWorth, Powers
    <3> QED BY <3>2 DEF end
  <2>9. p' # NULL /\ Shows(TextIn(mem', p'))
    BY <1>1, <1>3, <2>1, <2>2, <2>5, <2>7, <2>8 DEF Shows, s
  <2> QED BY <1>1, <2>1, <2>9, ValueBuffer DEF HexMade, DecMade
<1>4. CASE v # 0
  <2>1. pc' = "hex_digits" /\ p' = e
    BY <1>4 DEF PutHex, e
  <2>2. v < Sixteens[HexDigits] /\ v \in Nat /\ Sixteens[HexDigits] \in Nat
    BY <1>1, Powers, Layout
  <2>3. HexLeft(0)'
    <3>1. PICK m : m = mem'
      OBVIOUS
    <3>2. Worth(m, Sixteens, e, 0) = 0
      BY WorthNone
    <3>3. v * Sixteens[0] + Worth(m, Sixteens, e, 0) = Arg(1)
      BY <1>1, <2>2, <3>2, Powers
    <3>4. HexDigits - 0 = HexDigits /\ e - 0 .. e - 1 = {}
      BY <1>2, Layout DEF Addr
    <3>5. DigitBytes(HexChars, e, 0)'
      BY <1>1, <1>4, <3>4 DEF DigitBytes
    <3> QED BY <1>1, <2>2, <3>1, <3>3, <3>4, <3>5 DEF HexLeft, e
  <2>4. HexMade'
    <3>1. \E k \in Nat : p' = Buf + HexBuf - 1 - k /\ HexLeft(k)'
      <4> WITNESS 0 \in Nat
      <4>1. p' = Buf + HexBuf - 1 - 0
        BY <2>1, Layout DEF e
      <4> QED BY <2>3, <4>1, Zenon
    <3> QED BY <3>1, Zenon DEF HexMade
  <2> QED BY <1>1, <2>1, <2>4, ValueBuffer DEF DecMade
<1> QED BY <1>3, <1>4

LEMMA HexCharacter ==
  ASSUME NEW d \in 0 .. 15
  PROVE  Digit(d) \in HexChars /\ DigitValue(Digit(d)) = d /\ (Digit(d) = 48 => d = 0)
BY DEF Digit, DigitValue, HexChars

\* The next digit of a hexadecimal number, in memory m2.
LEMMA HexDigitStored ==
  ASSUME LoopInv, HexDigit, v # 0, p > Buf + 1,
         NEW k \in Nat, p = Buf + HexBuf - 1 - k, HexLeft(k)
  PROVE  HexLeft(k + 1)' /\ p' = Buf + HexBuf - 1 - (k + 1)
<1> DEFINE e == Buf + HexBuf - 1
           w == v \div 16
           d == v % 16
<1>1. /\ call' = call /\ pc = "hex_digits" /\ mem \in [Addr -> 0 .. 255] /\ v \in Nat
      /\ Arg(1)' = Arg(1)
  BY DEF HexDigit, Inside, LoopInv, Bytes, HexLoop, Arg
<1>2. mem' = [mem EXCEPT ![p - 1] = Digit(d)] /\ p' = p - 1 /\ v' = w
  BY Layout DEF HexDigit, Locals
<1>3. e \in Nat /\ e = Buf + HexDigits + 1 /\ p = e - k /\ k \in 0 .. HexDigits - 1
  BY Layout
<1>4. w \in Nat /\ d \in 0 .. 15 /\ v = 16 * w + d
  BY <1>1
<1>5. p - 1 = e - k - 1 /\ e - k - 1 \in Addr /\ \A a \in e - k .. e - 1 : a \in Addr
  BY <1>3, Layout DEF Addr
<1>6. /\ v < Sixteens[HexDigits - k] /\ DigitBytes(HexChars, e, k)
      /\ v * Sixteens[k] + Worth(mem, Sixteens, e, k) = Arg(1)
  BY DEF HexLeft
<1> HIDE DEF e, w, d
<1>7. PICK m2 : m2 = mem'
  OBVIOUS
<1> DEFINE c == Digit(d)
<1>8. c \in HexChars /\ DigitValue(c) = d /\ (c = 48 => d = 0)
  BY <1>4, HexCharacter
<1> HIDE DEF c
<1>9. /\ m2[e - k - 1] = c
      /\ \A a \in e - k .. e - 1 : m2[a] = mem[a] /\ mem[a] \in HexChars
  <2>1. m2 = [mem EXCEPT ![e - k - 1] = c]
    BY <1>2, <1>5, <1>7 DEF c
  <2>2. \A a \in e - k .. e - 1 : a # e - k - 1
    BY <1>3
  <2> QED BY <1>1, <1>5, <1>6, <2>1, <2>2 DEF DigitBytes
<1>10. /\ \A j \in 0 .. k : Sixteens[j] \in Nat
       /\ Sixteens[k + 1] = 16 * Sixteens[k]
  BY <1>3, Powers, Layout
<1>11. /\ \A a \in e - (k + 1) .. e - 1 : m2[a] \in HexChars
       /\ m2[e - (k + 1)] = c
       /\ w * Sixteens[k + 1] + Worth(m2, Sixteens, e, k + 1)
            = (16 * w + DigitValue(c)) * Sixteens[k] + Worth(mem, Sixteens, e, k)
  <2>1. DigitAdded(mem, m2, Sixteens, 16, HexChars, e, k, c, w)
    BY <1>3, <1>4, <1>8, <1>9, <1>10 DEF DigitAdded
  <2> QED BY <2>1, DigitStored
<1>12. w * Sixteens[k + 1] + Worth(m2, Sixteens, e, k + 1) = Arg(1)
  BY <1>4, <1>6, <1>8, <1>11
<1>13. w < Sixteens[HexDigits - (k + 1)]
  <2> DEFINE i == HexDigits - (k + 1)
  <2>1. i \in 0 .. HexDigits - 1 /\ i + 1 = HexDigits - k
    BY <1>3, Layout
  <2> HIDE DEF i
  <2>2. v < Sixteens[i + 1]
    BY <1>6, <2>1
  <2>3. v \div 16 < Sixteens[i]
    BY <1>1, <2>1, <2>2, HexQuotient
  <2> QED BY <2>3 DEF i, w
<1>14. w = 0 => c # 48
  BY <1>1, <1>4, <1>8
<1>15. DigitBytes(HexChars, e, k + 1)'
  BY <1>2, <1>7, <1>11, <1>14 DEF DigitBytes
<1>16. HexLeft(k + 1)'
  BY <1>1, <1>2, <1>7, <1>12, <1>13, <1>15 DEF HexLeft, e
<1>17. p' = Buf + HexBuf - 1 - (k + 1)
  BY <1>2, <1>3, Layout DEF e
<1> QED BY <1>16, <1>17

\* The prefix in front of the digits.
LEMMA HexPrefixed ==
  ASSUME LoopInv, TypeInv, HexDigit, v = 0 \/ p <= Buf + 1,
         NEW k \in Nat, p = Buf + HexBuf - 1 - k, HexLeft(k)
  PROVE  p' # NULL /\ Shows(TextIn(mem', p'))
<1> DEFINE e == Buf + HexBuf - 1
<1>1. /\ call' = call /\ pc = "hex_digits" /\ mem \in [Addr -> 0 .. 255] /\ v \in Nat
      /\ call.op = "put_hex" /\ mem[e] = 0 /\ k \in 0 .. HexDigits
  <2>1. /\ call' = call /\ pc = "hex_digits" /\ mem \in [Addr -> 0 .. 255] /\ v \in Nat
        /\ call.op = "put_hex" /\ mem[e] = 0 /\ Buf + HexBuf - 1 - p \in 0 .. HexDigits
    BY DEF HexDigit, Inside, LoopInv, Bytes, HexLoop, Places, TypeInv, StringsEnd
  <2> QED BY <2>1, Layout
<1>2. mem' = [mem EXCEPT ![p - 1] = 120, ![p - 2] = 48] /\ p' = p - 2
  BY <1>1, Layout DEF HexDigit, Locals
<1>3. e \in Nat /\ e = Buf + HexDigits + 1 /\ p = e - k /\ p \in Int
  BY Layout
<1>4. /\ v < Sixteens[HexDigits - k] /\ DigitBytes(HexChars, e, k)
      /\ v * Sixteens[k] + Worth(mem, Sixteens, e, k) = Arg(1)
  BY DEF HexLeft
<1> HIDE DEF e
<1>5. v = 0
  <2>1. CASE p <= Buf + 1
    <3>1. HexDigits - k = 0
      BY <1>1, <1>3, <2>1, Layout
    <3> QED BY <1>1, <1>4, <3>1, Powers
  <2> QED BY <2>1
<1>6. k \in Nat \ {0} /\ mem[e - k] # 48 /\ \A a \in e - k .. e - 1 : mem[a] \in HexChars
  BY <1>4, <1>5 DEF DigitBytes
<1>7. PICK m : m = mem'
  OBVIOUS
<1>8. PICK s : s = p - 2
  OBVIOUS
<1>9. /\ s \in Addr /\ s + 1 = p - 1 /\ s + 2 = e - k /\ s + 2 + k = e /\ e \in Addr
      /\ p - 1 \in Addr /\ p - 2 \in Addr /\ s # NULL /\ s \in Int
  BY <1>1, <1>3, <1>8, Layout DEF Addr, NULL
<1>10. m[s] = 48 /\ m[s + 1] = 120
  BY <1>1, <1>2, <1>7, <1>8, <1>9
<1>11. \A a \in e - k .. e : a \in Addr /\ a # p - 1 /\ a # p - 2
  BY <1>1, <1>3, Layout DEF Addr
<1>12. \A a \in e - k .. e : m[a] = mem[a]
  BY <1>1, <1>2, <1>7, <1>9, <1>11
<1>13. PICK m0 : m0 = mem
  OBVIOUS
<1>14. PICK power : power = Sixteens
  OBVIOUS
<1>15. Worth(m, power, e, k) = Worth(m0, power, e, k)
  <2>1. \A j \in 0 .. k - 1 : m0[e - 1 - j] = m[e - 1 - j]
    BY <1>3, <1>12, <1>13
  <2>2. PICK end \in Int : end = e
    BY <1>3
  <2>3. \A j \in 0 .. k - 1 : m0[end - 1 - j] = m[end - 1 - j]
    BY <2>1, <2>2
  <2>4. Worth(m0, power, end, k) = Worth(m, power, end, k)
    BY <2>3, WorthStays
  <2> QED BY <2>2, <2>4
<1>16. Worth(m0, power, e, k) = Arg(1)
  <2>1. power[k] \in Nat
    BY <1>1, <1>14, Powers
  <2>2. \A x \in Nat : 0 * x = 0
    OBVIOUS
  <2>3. v * power[k] = 0
    BY <1>5, <2>1, <2>2
  <2>4. Arg(1) \in 0 .. Sixteens[HexDigits] - 1
    BY <1>1 DEF LoopInv, Arguments
  <2>5. \A j \in 0 .. k - 1 : power[j] \in Nat
    BY <1>1, <1>14, Powers, Layout
  <2>6. \A j \in 0 .. k - 1 : m0[e - 1 - j] \in HexChars
    BY <1>3, <1>6, <1>13
  <2>7. \A j \in 0 .. k - 1 : power[j] \in Nat /\ DigitValue(m0[e - 1 - j]) \in Nat
    BY <2>5, <2>6, DigitValues
  <2>8. Worth(m0, power, e, k) \in Nat
    BY <1>3, <2>7, WorthNat
  <2>9. v * power[k] + Worth(m0, power, e, k) = Arg(1)
    BY <1>4, <1>13, <1>14
  <2> QED BY <2>3, <2>8, <2>9
<1>17. /\ s + 2 + k \in Addr /\ m[s + 2 + k] = 0
       /\ \A a \in s + 2 .. s + 2 + k - 1 : m[a] \in HexChars
       /\ m[s + 2] # 48
  BY <1>1, <1>3, <1>6, <1>9, <1>12
<1>18. /\ TextIn(m, s)[1] = 48 /\ TextIn(m, s)[2] = 120
       /\ Numeral(TextIn(m, s), 2, HexChars, Sixteens, Worth(m, Sixteens, s + 2 + k, k))
  BY <1>6, <1>9, <1>10, <1>17, HexText
<1>19. Worth(m, Sixteens, s + 2 + k, k) = Arg(1)
  BY <1>9, <1>14, <1>15, <1>16
<1>20. Shows(TextIn(m, s))
  BY <1>1, <1>18, <1>19 DEF Shows
<1> QED BY <1>2, <1>7, <1>8, <1>9, <1>20

LEMMA ValueHexDigit ==
  ASSUME LoopInv, TypeInv, ValueInv, HexDigit
  PROVE  ValueInv'
<1>1. /\ call' = call /\ console' = console /\ pc = "hex_digits" /\ call.op = "put_hex"
  BY DEF HexDigit, Inside, output, LoopInv, Places
<1>2. PICK k \in Nat : p = Buf + HexBuf - 1 - k /\ HexLeft(k)
  BY <1>1 DEF ValueInv, HexMade
<1>3. CASE v # 0 /\ p > Buf + 1
  <2>1. HexLeft(k + 1)' /\ p' = Buf + HexBuf - 1 - (k + 1)
    BY <1>2, <1>3, HexDigitStored
  <2>2. HexMade'
    <3>1. \E i \in Nat : p' = Buf + HexBuf - 1 - i /\ HexLeft(i)'
      <4> WITNESS k + 1 \in Nat
      <4> QED BY <2>1, Zenon
    <3> QED BY <3>1, Zenon DEF HexMade
  <2>3. pc' = "hex_digits"
    BY <1>1, <1>2, <1>3, Layout DEF HexDigit
  <2> QED BY <1>1, <2>2, <2>3, ValueBuffer DEF DecMade
<1>4. CASE ~(v # 0 /\ p > Buf + 1)
  <2>1. v = 0 \/ p <= Buf + 1
    BY <1>2, <1>4, Layout
  <2>2. p' # NULL /\ Shows(TextIn(mem', p'))
    BY <1>2, <2>1, HexPrefixed
  <2>3. pc' = "puts"
    BY <1>4 DEF HexDigit
  <2> QED BY <1>1, <2>2, <2>3, ValueBuffer DEF HexMade, DecMade
<1> QED BY <1>3, <1>4

LEMMA DecText ==
  ASSUME NEW m, NEW s \in Addr, NEW w \in {0, 1}, NEW k \in Nat \ {0}, s + w + k \in Addr,
         m[s + w + k] = 0, w = 1 => m[s] = 45,
         \A a \in s + w .. s + w + k - 1 : m[a] \in DecChars, k = 1 \/ m[s + w] # 48
  PROVE  /\ w = 1 => TextIn(m, s)[1] = 45
         /\ Numeral(TextIn(m, s), w, DecChars, Tens, Worth(m, Tens, s + w + k, k))
<1>1. s \in Int /\ w \in Nat /\ DecChars \in {HexChars, DecChars}
  BY DEF Addr
<1>2. \A a \in s .. s + w - 1 : m[a] # 0
  BY <1>1
<1>3. /\ \A j \in 1 .. w : TextIn(m, s)[j] = m[s + j - 1]
      /\ Numeral(TextIn(m, s), w, DecChars, Tens, Worth(m, Tens, s + w + k, k))
  <2> DEFINE power == Tens
  <2> HIDE DEF power
  <2>1. DigitsFrom(m, s, w, k, DecChars)
    BY <1>2 DEF DigitsFrom
  <2>2. /\ \A j \in 1 .. w : TextIn(m, s)[j] = m[s + j - 1]
        /\ Numeral(TextIn(m, s), w, DecChars, power, Worth(m, power, s + w + k, k))
    BY <1>1, <2>1, DigitsShow, Zenon
  <2> QED BY <2>2 DEF power
<1>4. w = 1 => TextIn(m, s)[1] = m[s + 1 - 1]
  <2>1. w = 1 => 1 \in 1 .. w
    OBVIOUS
  <2> QED BY <1>3, <2>1, Zenon
<1> QED BY <1>1, <1>3, <1>4

LEMMA ValuePutDec ==
  ASSUME LoopInv, TypeInv, ValueInv, PutDec
  PROVE  ValueInv'
<1> DEFINE e == Buf + DecBuf - 1
<1>1. /\ call' = call /\ console' = console /\ pc = "put_dec" /\ call.op = "put_dec"
      /\ mem' = [mem EXCEPT ![e] = 0] /\ mem \in [Addr -> 0 .. 255]
      /\ v = Arg(1) /\ v \in (-IntMax - 1) .. IntMax /\ Arg(1)' = Arg(1)
  BY DEF PutDec, Inside, output, LoopInv, Places, Bytes, DecLoop, Arguments, Arg
<1>2. e \in Addr /\ UserTop + 10 < e
  BY Layout DEF Addr
<1> HIDE DEF e
<1>3. CASE v = 0
  <2>1. pc' = "puts" /\ p' = UserTop + 9
    BY <1>3 DEF PutDec, ZeroDec
  <2>2. PICK m : m = mem'
    OBVIOUS
  <2>3. \A k \in 9 .. 10 : m[UserTop + k] = Literals[k]
    <3>1. \A k \in 9 .. 10 : mem[UserTop + k] = Literals[k] /\ UserTop + k \in Addr
      BY LiteralsStay, LiteralBytes DEF TypeInv
    <3>2. \A k \in 9 .. 10 : UserTop + k # e
      BY <1>2, Layout
    <3> QED BY <1>1, <2>2, <3>1, <3>2
  <2>4. m[UserTop + 9] = 48 /\ m[UserTop + 10] = 0
    BY <2>3 DEF Literals
  <2> DEFINE s == UserTop + 9
  <2>5. /\ s \in Addr /\ s + 0 + 1 \in Addr /\ s + 0 + 1 = UserTop + 10 /\ s + 0 = UserTop + 9
        /\ s \in Int /\ s # NULL
    BY Layout DEF Addr, NULL
  <2> HIDE DEF s
  <2>6. m[s + 0 + 1] = 0 /\ \A a \in s + 0 .. s + 0 + 1 - 1 : m[a] \in DecChars
    BY <2>4, <2>5 DEF DecChars, s
  <2>7. Numeral(TextIn(m, s), 0, DecChars, Tens, Worth(m, Tens, s + 0 + 1, 1))
    BY <2>5, <2>6, DecText
  <2>8. Worth(m, Tens, s + 0 + 1, 1) = 0
    <3> DEFINE end == s + 0 + 1
    <3>1. end \in Int /\ m[end - 1] = 48
      BY <2>4, <2>5
    <3> HIDE DEF end
    <3>2. Worth(m, Tens, end, 1) = 0
      BY <3>1, ZeroWorth, Powers
    <3> QED BY <3>2 DEF end
  <2>9. p' # NULL /\ Shows(TextIn(mem', p'))
    BY <1>1, <1>3, <2>1, <2>2, <2>5, <2>7, <2>8 DEF Shows, s
  <2> QED BY <1>1, <2>1, <2>9, ValueBuffer DEF HexMade, DecMade
<1>4. CASE v # 0
  <2>1. pc' = "dec_digits" /\ p' = e /\ v' \in Absolute(v)
    BY <1>4 DEF PutDec, e
  <2>2. Negatable' = Negatable
    BY <1>1 DEF Negatable
  <2>3. ASSUME Negatable
        PROVE  DecLeft(0)'
    <3>1. PICK x \in Nat : x = v' /\ x # 0 /\ x = IF Arg(1) < 0 THEN -Arg(1) ELSE Arg(1)
      <4>1. v # -IntMax - 1 /\ IntMax \in Nat
        BY <1>1, <2>3, Powers DEF Negatable
      <4> QED BY <1>1, <1>4, <2>1, <4>1 DEF Absolute
    <3>2. PICK m : m = mem'
      OBVIOUS
    <3>3. Worth(m, Tens, e, 0) = 0
      BY WorthNone
    <3>4. x * Tens[0] + Worth(m, Tens, e, 0) = IF Arg(1) < 0 THEN -Arg(1) ELSE Arg(1)
      BY <3>1, <3>3, Powers
    <3>5. e - 0 .. e - 1 = {}
      BY <1>2 DEF Addr
    <3>6. DigitBytes(DecChars, e, 0)'
      BY <1>1, <3>1, <3>5 DEF DigitBytes
    <3> QED BY <1>1, <3>1, <3>2, <3>4, <3>6 DEF DecLeft, e
  <2>4. DecMade'
    <3>1. Negatable => \E k \in Nat : p' = Buf + DecBuf - 1 - k /\ DecLeft(k)'
      <4> HAVE Negatable
      <4> WITNESS 0 \in Nat
      <4>1. p' = Buf + DecBuf - 1 - 0
        BY <2>1, Layout DEF e
      <4> QED BY <2>3, <4>1, Zenon
    <3> QED BY <2>2, <3>1, Zenon DEF DecMade
  <2> QED BY <1>1, <2>1, <2>4, ValueBuffer DEF HexMade
<1> QED BY <1>3, <1>4

\* The next digit of a decimal number.
LEMMA DecDigitStored ==
  ASSUME LoopInv, DecDigit, v # 0, p > Buf,
         NEW k \in Nat, p = Buf + DecBuf - 1 - k, DecLeft(k)
  PROVE  DecLeft(k + 1)' /\ p' = Buf + DecBuf - 1 - (k + 1)
<1> DEFINE e == Buf + DecBuf - 1
           w == v \div 10
           d == v % 10
<1>1. /\ call' = call /\ pc = "dec_digits" /\ mem \in [Addr -> 0 .. 255] /\ v \in Nat
      /\ Arg(1)' = Arg(1) /\ k \in 0 .. DecDigits /\ v < Tens[DecDigits - k]
  <2>1. /\ call' = call /\ pc = "dec_digits" /\ mem \in [Addr -> 0 .. 255] /\ v \in Int /\ v >= 0
        /\ Arg(1)' = Arg(1) /\ Buf + DecBuf - 1 - p \in 0 .. DecDigits
        /\ v < Tens[DecDigits - (Buf + DecBuf - 1 - p)]
    BY DEF DecDigit, Inside, LoopInv, Bytes, DecLoop, Arg, DecLeft
  <2>2. Buf + DecBuf - 1 - p = k
    BY Layout
  <2> QED BY <2>1, <2>2
<1>2. mem' = [mem EXCEPT ![p - 1] = 48 + d] /\ p' = p - 1 /\ v' = w
  <2>1. Rem(v) = d /\ Quot(v) = w
    BY <1>1 DEF Rem, Quot
  <2>2. p \in Int
    BY Layout
  <2> QED BY <2>1, <2>2, Layout DEF DecDigit, Locals
<1>3. e \in Nat /\ e = Buf + DecDigits + 2 /\ p = e - k /\ k \in 0 .. DecDigits - 1
  <2>1. k # DecDigits
    BY <1>1, Powers, Layout
  <2> QED BY <1>1, <2>1, Layout
<1>4. w \in Nat /\ d \in 0 .. 9 /\ v = 10 * w + d
  BY <1>1
<1>5. p - 1 = e - k - 1 /\ e - k - 1 \in Addr /\ \A a \in e - k .. e - 1 : a \in Addr
  BY <1>3, Layout DEF Addr
<1>6. /\ DigitBytes(DecChars, e, k)
      /\ v * Tens[k] + Worth(mem, Tens, e, k) = IF Arg(1) < 0 THEN -Arg(1) ELSE Arg(1)
  BY DEF DecLeft
<1> HIDE DEF e, w, d
<1>7. PICK m2 : m2 = mem'
  OBVIOUS
<1> DEFINE c == 48 + d
<1>8. c \in DecChars /\ DigitValue(c) = d /\ (c = 48 => d = 0)
  BY <1>4 DEF DecChars, DigitValue
<1> HIDE DEF c
<1>9. /\ m2[e - k - 1] = c
      /\ \A a \in e - k .. e - 1 : m2[a] = mem[a] /\ mem[a] \in DecChars
  <2>1. m2 = [mem EXCEPT ![e - k - 1] = c]
    BY <1>2, <1>5, <1>7 DEF c
  <2>2. \A a \in e - k .. e - 1 : a # e - k - 1
    BY <1>3
  <2> QED BY <1>1, <1>5, <1>6, <2>1, <2>2 DEF DigitBytes
<1>10. /\ \A j \in 0 .. k : Tens[j] \in Nat
       /\ Tens[k + 1] = 10 * Tens[k]
  BY <1>3, Powers, Layout
<1>11. /\ \A a \in e - (k + 1) .. e - 1 : m2[a] \in DecChars
       /\ m2[e - (k + 1)] = c
       /\ w * Tens[k + 1] + Worth(m2, Tens, e, k + 1)
            = (10 * w + DigitValue(c)) * Tens[k] + Worth(mem, Tens, e, k)
  <2>1. DigitAdded(mem, m2, Tens, 10, DecChars, e, k, c, w)
    BY <1>3, <1>4, <1>8, <1>9, <1>10 DEF DigitAdded
  <2> QED BY <2>1, DigitStored
<1>12. w * Tens[k + 1] + Worth(m2, Tens, e, k + 1) = IF Arg(1) < 0 THEN -Arg(1) ELSE Arg(1)
  BY <1>4, <1>6, <1>8, <1>11
<1>13. w = 0 => c # 48
  BY <1>1, <1>4, <1>8
<1>14. DigitBytes(DecChars, e, k + 1)'
  BY <1>2, <1>7, <1>11, <1>13 DEF DigitBytes
<1>15. DecLeft(k + 1)'
  BY <1>1, <1>2, <1>4, <1>7, <1>12, <1>14 DEF DecLeft, e
<1>16. p' = Buf + DecBuf - 1 - (k + 1)
  BY <1>2, <1>3, Layout DEF e
<1> QED BY <1>15, <1>16

\* The sign in front of the digits, if there is one.
LEMMA DecSigned ==
  ASSUME LoopInv, TypeInv, DecDigit, Negatable, v = 0 \/ p <= Buf,
         NEW k \in Nat, p = Buf + DecBuf - 1 - k, DecLeft(k)
  PROVE  p' # NULL /\ Shows(TextIn(mem', p'))
<1> DEFINE e == Buf + DecBuf - 1
<1>1. /\ call' = call /\ pc = "dec_digits" /\ mem \in [Addr -> 0 .. 255]
      /\ call.op = "put_dec" /\ mem[e] = 0 /\ k \in 0 .. DecDigits
  <2>1. /\ call' = call /\ pc = "dec_digits" /\ mem \in [Addr -> 0 .. 255]
        /\ call.op = "put_dec" /\ mem[e] = 0 /\ Buf + DecBuf - 1 - p \in 0 .. DecDigits
    BY DEF DecDigit, Inside, LoopInv, Bytes, DecLoop, Places, TypeInv, StringsEnd
  <2> QED BY <2>1, Layout
<1>2. v = 0
  BY <1>1, Layout
<1>3. p \in Int /\ e \in Nat /\ e = Buf + DecDigits + 2 /\ p = e - k
  BY Layout
<1>4. PICK w \in {0, 1} : w = IF Arg(1) < 0 THEN 1 ELSE 0
  OBVIOUS
<1>5. /\ p' = p - w
      /\ mem' = IF w = 1 THEN [mem EXCEPT ![p - 1] = 45] ELSE mem
  BY <1>1, <1>2, <1>3, <1>4 DEF DecDigit, Arg
<1>6. /\ DigitBytes(DecChars, e, k)
      /\ v * Tens[k] + Worth(mem, Tens, e, k) = IF Arg(1) < 0 THEN -Arg(1) ELSE Arg(1)
  BY DEF DecLeft
<1> HIDE DEF e
<1>7. k \in Nat \ {0} /\ mem[e - k] # 48 /\ \A a \in e - k .. e - 1 : mem[a] \in DecChars
  BY <1>2, <1>6 DEF DigitBytes
<1>8. PICK m : m = mem'
  OBVIOUS
<1>9. PICK s : s = p - w
  OBVIOUS
<1>10. /\ s \in Addr /\ s + w = e - k /\ s + w + k = e /\ e \in Addr /\ p - 1 \in Addr
       /\ s # NULL /\ s \in Int /\ (w = 1 => s = p - 1)
  BY <1>1, <1>3, <1>9, Layout DEF Addr, NULL
<1>11. w = 1 => m[s] = 45
  BY <1>1, <1>5, <1>8, <1>10
<1>12. \A a \in e - k .. e : a \in Addr /\ a # p - 1
  BY <1>1, <1>3, Layout DEF Addr
<1>13. \A a \in e - k .. e : m[a] = mem[a]
  BY <1>1, <1>5, <1>8, <1>10, <1>12
<1>14. PICK m0 : m0 = mem
  OBVIOUS
<1>15. PICK end \in Int : end = e
  BY <1>3
<1>16. Worth(m, Tens, end, k) = Worth(m0, Tens, end, k)
  <2>1. \A j \in 0 .. k - 1 : m0[end - 1 - j] = m[end - 1 - j]
    BY <1>13, <1>14, <1>15
  <2>2. PICK power : power = Tens
    OBVIOUS
  <2>3. Worth(m0, power, end, k) = Worth(m, power, end, k)
    BY <2>1, WorthStays
  <2> QED BY <2>2, <2>3
<1>17. Worth(m0, Tens, end, k) = IF Arg(1) < 0 THEN -Arg(1) ELSE Arg(1)
  <2>1. PICK power : power = Tens
    OBVIOUS
  <2>2. power[k] \in Nat
    BY <1>1, <2>1, Powers
  <2>3. \A x \in Nat : 0 * x = 0
    OBVIOUS
  <2>4. v * power[k] = 0
    BY <1>2, <2>2, <2>3
  <2>5. \A j \in 0 .. k - 1 : power[j] \in Nat
    BY <1>1, <2>1, Powers, Layout
  <2>6. \A j \in 0 .. k - 1 : m0[end - 1 - j] \in DecChars
    BY <1>7, <1>14, <1>15
  <2>7. \A j \in 0 .. k - 1 : power[j] \in Nat /\ DigitValue(m0[end - 1 - j]) \in Nat
    BY <2>5, <2>6, DigitValues
  <2>8. Worth(m0, power, end, k) \in Nat
    BY <2>7, WorthNat
  <2>9. v * power[k] + Worth(m0, power, end, k) = IF Arg(1) < 0 THEN -Arg(1) ELSE Arg(1)
    BY <1>6, <1>14, <1>15, <2>1
  <2> QED BY <2>1, <2>4, <2>8, <2>9
<1>18. /\ s + w + k \in Addr /\ m[s + w + k] = 0
       /\ \A a \in s + w .. s + w + k - 1 : m[a] \in DecChars
       /\ m[s + w] # 48
  BY <1>1, <1>3, <1>7, <1>10, <1>13
<1>19. /\ w = 1 => TextIn(m, s)[1] = 45
       /\ Numeral(TextIn(m, s), w, DecChars, Tens, Worth(m, Tens, s + w + k, k))
  BY <1>7, <1>10, <1>11, <1>18, DecText
<1>20. Worth(m, Tens, s + w + k, k) = IF Arg(1) < 0 THEN -Arg(1) ELSE Arg(1)
  BY <1>10, <1>15, <1>16, <1>17
<1>21. Shows(TextIn(m, s))
  BY <1>1, <1>4, <1>19, <1>20 DEF Shows
<1> QED BY <1>5, <1>8, <1>9, <1>10, <1>21

LEMMA ValueDecDigit ==
  ASSUME LoopInv, TypeInv, ValueInv, DecDigit
  PROVE  ValueInv'
<1>1. /\ call' = call /\ console' = console /\ pc = "dec_digits" /\ call.op = "put_dec"
      /\ Negatable' = Negatable
  BY DEF DecDigit, Inside, output, LoopInv, Places, Negatable, Arg
<1>2. Negatable => \E k \in Nat : p = Buf + DecBuf - 1 - k /\ DecLeft(k)
  BY <1>1 DEF ValueInv, DecMade
<1>3. pc' = "puts" \/ (pc' = "dec_digits" /\ v # 0 /\ p > Buf)
  BY <1>1 DEF DecDigit
<1>4. CASE pc' = "dec_digits" /\ v # 0 /\ p > Buf
  <2>1. ASSUME Negatable PROVE DecMade'
    <3>1. PICK k \in Nat : p = Buf + DecBuf - 1 - k /\ DecLeft(k)
      BY <1>2, <2>1
    <3>2. DecLeft(k + 1)' /\ p' = Buf + DecBuf - 1 - (k + 1)
      BY <1>4, <3>1, DecDigitStored
    <3>3. \E i \in Nat : p' = Buf + DecBuf - 1 - i /\ DecLeft(i)'
      <4> WITNESS k + 1 \in Nat
      <4> QED BY <3>2, Zenon
    <3> QED BY <3>3, Zenon DEF DecMade
  <2>2. DecMade'
    BY <1>1, <2>1 DEF DecMade
  <2> QED BY <1>1, <1>4, <2>2, ValueBuffer DEF HexMade
<1>5. CASE pc' = "puts"
  <2>1. v = 0 \/ p <= Buf
    <3>1. p \in Int /\ Buf \in Int
      BY Layout DEF TypeInv, TypeOK
    <3> QED BY <1>1, <1>5, <3>1 DEF DecDigit
  <2>2. ASSUME Negatable PROVE p' # NULL /\ Shows(TextIn(mem', p'))
    BY <1>2, <2>1, <2>2, DecSigned
  <2> QED BY <1>1, <1>5, <2>2, ValueBuffer DEF HexMade, DecMade
<1> QED BY <1>3, <1>4, <1>5

\* julius_puts on behalf of a printer.
LEMMA ValuePuts ==
  ASSUME LoopInv, TypeInv, ValueInv, Puts \/ StrLen \/ Write, call.op \in {"put_hex", "put_dec"}
  PROVE  ValueInv'
<1>1. /\ mem' = mem /\ call' = call /\ back = "returned" /\ pc \in Putting /\ p' = p
      /\ console = <<>> /\ pc # "returned"
  BY DEF Puts, StrLen, Write, Inside, locals, LoopInv, Places, ValueInv, Putting
<1>2. Negatable' = Negatable /\ Shows(Text(p))' = Shows(Text(p))
  BY <1>1 DEF Negatable, Shows, Text, InString, Arg
<1>3. Negatable => p # NULL /\ Shows(Text(p))
  BY <1>1 DEF ValueInv
<1>4. CASE (Puts /\ p # NULL) \/ StrLen
  <2>1. pc' \in Putting /\ console' = console
    BY <1>4 DEF Puts, StrLen, output, Putting
  <2> QED BY <1>1, <1>2, <1>3, <2>1 DEF ValueInv, HexMade, DecMade, PrintedValue, Putting
<1>5. CASE Puts /\ p = NULL
  <2>1. pc' = "returned"
    BY <1>1, <1>5 DEF Puts
  <2> QED BY <1>1, <1>2, <1>3, <1>5, <2>1 DEF ValueInv, HexMade, DecMade, PrintedValue, Putting
<1>6. CASE Write
  <2>1. pc' = "returned"
    BY <1>1, <1>6 DEF Write
  <2>2. ~torn' => console' = Text(p)
    BY <1>1, <1>6, WholeWrite, EmptyBefore
  <2>3. PrintedValue'
    <3>1. Negatable /\ ~torn' => Shows(console')
      BY <1>3, <2>2
    <3>2. Shows(console)' = Shows(console')
      BY <1>1 DEF Shows, Arg
    <3> QED BY <1>2, <3>1, <3>2 DEF PrintedValue
  <2> QED BY <1>1, <2>1, <2>3 DEF ValueInv, HexMade, DecMade, Putting
<1> QED BY <1>4, <1>5, <1>6

LEMMA ValueElse ==
  ASSUME LoopInv, ValueInv, Body, call.op \notin {"put_hex", "put_dec"}
  PROVE  ValueInv'
<1>1. call' = call
  BY DEF Body, Strlen, Memcpy, Memset, Memcmp, Strcmp, Strcpy, Puts, StrLen, Write, Read, PutHex,
         HexDigit, PutDec, DecDigit, Panic, Trap, Inside
<1>2. pc' \notin {"idle", "hex_digits", "dec_digits"}
  BY DEF Body, Strlen, Memcpy, Memset, Memcmp, Strcmp, Strcpy, Puts, StrLen, Write, Read, PutHex,
         HexDigit, PutDec, DecDigit, Panic, Trap, Return, Loop, LoopInv, Places
<1> QED BY <1>1, <1>2 DEF ValueInv, HexMade, DecMade, PrintedValue

LEMMA ValueStep ==
  ASSUME LoopInv, TypeInv, ValueInv, [Next]_vars
  PROVE  ValueInv'
<1>1. CASE Call
  <2>1. pc = "idle" /\ console' = console /\ console = <<>>
    BY <1>1
    DEF Call, CallStrlen, CallMemcpy, CallMemset, CallMemcmp, CallStrcmp, CallStrcpy, CallPuts,
        CallRead, CallPutHex, CallPutDec, CallPanic, CallTrap, Enter, output, ValueInv
  <2>2. /\ pc' \notin {"idle", "returned", "hex_digits", "dec_digits"}
        /\ call'.op \in {"put_hex", "put_dec"} => pc' \notin Putting
    BY <1>1
    DEF Call, CallStrlen, CallMemcpy, CallMemset, CallMemcmp, CallStrcmp, CallStrcpy, CallPuts,
        CallRead, CallPutHex, CallPutDec, CallPanic, CallTrap, Enter, Putting, Traps
  <2> QED BY <2>1, <2>2 DEF ValueInv, HexMade, DecMade, PrintedValue
<1>2. CASE Body
  <2>1. CASE call.op \notin {"put_hex", "put_dec"}
    BY <1>2, <2>1, ValueElse
  <2>2. CASE call.op \in {"put_hex", "put_dec"}
    <3>1. Puts \/ StrLen \/ Write \/ PutHex \/ HexDigit \/ PutDec \/ DecDigit
      BY <1>2, <2>2
      DEF Body, Strlen, Memcpy, Memset, Memcmp, Strcmp, Strcpy, Read, Panic, Trap, LoopInv, Places,
          Traps
    <3> QED BY <2>2, <3>1, ValuePuts, ValuePutHex, ValueHexDigit, ValuePutDec, ValueDecDigit
  <2> QED BY <2>1, <2>2
<1>3. CASE Resume
  BY <1>3 DEF Resume, ValueInv, HexMade, DecMade, PrintedValue, Putting
<1>4. CASE UNCHANGED vars
  <2>1. /\ mem' = mem /\ call' = call /\ pc' = pc /\ p' = p /\ v' = v
        /\ console' = console /\ torn' = torn
    BY <1>4 DEF vars, locals, output
  <2> QED BY <2>1
      DEF ValueInv, HexMade, DecMade, HexLeft, DecLeft, DigitBytes, PrintedValue, Putting, Shows,
          Text, InString, Negatable, Arg
<1> QED BY <1>1, <1>2, <1>3, <1>4 DEF Next

\* julius_put_hex and julius_put_dec print the number they are given, in its usual
\* form, at any width (io.c:50-84), unless the kernel refuses part of it: all but
\* the least int64_t, whose negation overflows (io.c:74).
THEOREM NumbersPrinted == Spec => []PrintedValue
<1>1. Init => ScanInv
  BY DEF Init, ScanInv, AnswersExact
<1>2. Init => ValueInv
  BY DEF Init, ValueInv, HexMade, DecMade, PrintedValue, Putting
<1>3. ValueInv => PrintedValue
  BY DEF ValueInv
<1> QED BY <1>1, <1>2, <1>3, LoopInit, LoopStep, ScanStep, TypeInit, TypeStep, ValueStep, PTL
        DEF Spec

-----------------------------------------------------------------------------
(* Every call is short                                                      *)

\* The loops and calls still to come once julius_puts has returned to l:
\* julius_panic prints three texts, one after the other.
AfterPuts(l) ==
  CASE l = "panic_msg" -> 9 [] l = "panic_newline" -> 5 [] l = "ud2" -> 1 [] OTHER -> 0

\* The same from l, when julius_puts returns to b.
StagesFrom(l, b) ==
  CASE l \in {"idle", "returned", "halted"} -> 0
    [] l = "write" -> AfterPuts(b) + 1
    [] l = "str_len" -> AfterPuts(b) + 2
    [] l = "puts" -> AfterPuts(b) + 3
    [] l \in {"hex_digits", "dec_digits"} -> 4
    [] l \in {"put_hex", "put_dec"} -> 5
    [] l \in {"panic_msg", "panic_newline"} -> AfterPuts(l)
    [] l = "panic" -> 13
    [] OTHER -> 1

\* The rounds the loop at l can still go, with pointers x, y and a counter c.
RoundsFrom(l, x, y, c) ==
  CASE l \in {"memcpy", "memset", "memcmp"} -> c
    [] l \in {"strlen", "str_len"} -> Top - c
    [] l \in {"strcmp", "strcpy"} -> Top + 1 - y
    [] l \in {"hex_digits", "dec_digits"} -> x
    [] OTHER -> 0

StagesLeft == StagesFrom(pc, back)
RoundsLeft == RoundsFrom(pc, p, q, n)
StepsLeft == StagesLeft * (Top + 2) + RoundsLeft

\* Until a function ends each step brings its end nearer.
StepsFall == [][~Ended => StepsLeft' < StepsLeft]_vars

\* A function ends when no step is left, and none has more than this many.
StepsBounded == StepsLeft \in 0 .. 14 * (Top + 2) /\ (StepsLeft = 0 <=> Ended)

\* A step of a smaller stage, or a round of the same one.
LEMMA Lexicographic ==
  ASSUME NEW t \in Nat, NEW i \in Nat, NEW j \in Nat, NEW a \in 0 .. t - 1, NEW b \in 0 .. t - 1,
         i < j \/ (i = j /\ a < b)
  PROVE  i * t + a < j * t + b
<1>1. CASE i = j
  BY <1>1
<1>2. CASE i < j
  <2>1. PICK d \in Nat : j = i + 1 + d
    <3>1. j - i - 1 \in Nat /\ j = i + 1 + (j - i - 1)
      BY <1>2
    <3> QED BY <3>1
  <2>2. j * t = i * t + t + d * t /\ d * t \in Nat /\ i * t \in Nat
    BY <2>1
  <2> QED BY <2>2
<1> QED BY <1>1, <1>2

LEMMA StagesRange ==
  ASSUME NEW l \in Locations, NEW b \in {"returned", "panic_msg", "panic_newline", "ud2"}
  PROVE  StagesFrom(l, b) \in 0 .. 13 /\ (StagesFrom(l, b) = 0 <=> l \in {"idle", "returned", "halted"})
<1>1. AfterPuts(b) \in 0 .. 9 /\ AfterPuts("panic_msg") = 9 /\ AfterPuts("panic_newline") = 5
  BY DEF AfterPuts
<1> QED BY <1>1 DEF StagesFrom, Locations

LEMMA RoundsRange ==
  ASSUME NEW l \in Locations, NEW x \in 0 .. Top + 1, NEW y \in 0 .. Top + 1, NEW c \in 0 .. Top
  PROVE  /\ RoundsFrom(l, x, y, c) \in 0 .. Top + 1
         /\ l \in {"idle", "returned", "halted"} => RoundsFrom(l, x, y, c) = 0
<1>1. Top \in Nat /\ x \in Int /\ y \in Int /\ c \in Int
  BY Layout
<1> QED BY <1>1 DEF RoundsFrom, Locations

LEMMA Ranges ==
  ASSUME TypeOK
  PROVE  /\ StagesLeft \in 0 .. 13 /\ (StagesLeft = 0 <=> Ended)
         /\ RoundsLeft \in 0 .. Top + 1 /\ (Ended => RoundsLeft = 0)
<1>1. /\ pc \in Locations /\ back \in {"returned", "panic_msg", "panic_newline", "ud2"}
      /\ p \in 0 .. Top + 1 /\ q \in 0 .. Top + 1 /\ n \in 0 .. Top
  BY DEF TypeOK, Locations
<1> QED BY <1>1, StagesRange, RoundsRange DEF StagesLeft, RoundsLeft, Ended

\* What a step of a function leaves to do.
Nearer == StagesLeft' < StagesLeft \/ (StagesLeft' = StagesLeft /\ RoundsLeft' < RoundsLeft)

LEMMA NearerMemory ==
  ASSUME TypeOK, Strlen \/ Memcpy \/ Memset \/ Memcmp \/ Strcmp \/ Strcpy
  PROVE  Nearer
<1>1. p \in Int /\ q \in Int /\ n \in Int /\ Top \in Int
  BY Layout DEF TypeOK
<1>2. CASE Strlen
  BY <1>1, <1>2 DEF Strlen, Loop, Return, Nearer, StagesLeft, RoundsLeft, StagesFrom, RoundsFrom
<1>3. CASE Memcpy
  BY <1>1, <1>3 DEF Memcpy, Loop, Return, Locals, Nearer, StagesLeft, RoundsLeft, StagesFrom, RoundsFrom
<1>4. CASE Memset
  BY <1>1, <1>4 DEF Memset, Loop, Return, Locals, Nearer, StagesLeft, RoundsLeft, StagesFrom, RoundsFrom
<1>5. CASE Memcmp
  BY <1>1, <1>5 DEF Memcmp, Loop, Return, Locals, Nearer, StagesLeft, RoundsLeft, StagesFrom, RoundsFrom
<1>6. CASE Strcmp
  BY <1>1, <1>6 DEF Strcmp, Loop, Return, Locals, Nearer, StagesLeft, RoundsLeft, StagesFrom, RoundsFrom
<1>7. CASE Strcpy
  BY <1>1, <1>7 DEF Strcpy, Loop, Return, Locals, Nearer, StagesLeft, RoundsLeft, StagesFrom, RoundsFrom
<1> QED BY <1>2, <1>3, <1>4, <1>5, <1>6, <1>7

LEMMA NearerPrinters ==
  ASSUME TypeOK, PutHex \/ HexDigit \/ PutDec \/ DecDigit, back = "returned", back' = back
  PROVE  Nearer
<1>1. p \in Int /\ AfterPuts(back') = 0
  BY DEF TypeOK, AfterPuts
<1>2. CASE PutHex
  BY <1>1, <1>2 DEF PutHex, Nearer, StagesLeft, StagesFrom
<1>3. CASE HexDigit
  BY <1>1, <1>3 DEF HexDigit, Locals, Nearer, StagesLeft, RoundsLeft, StagesFrom, RoundsFrom
<1>4. CASE PutDec
  BY <1>1, <1>4 DEF PutDec, Nearer, StagesLeft, StagesFrom
<1>5. CASE DecDigit
  BY <1>1, <1>5 DEF DecDigit, Locals, Nearer, StagesLeft, RoundsLeft, StagesFrom, RoundsFrom
<1> QED BY <1>2, <1>3, <1>4, <1>5

\* julius_puts goes back to where the stage is AfterPuts(back).
LEMMA NearerPuts ==
  ASSUME TypeOK, Puts \/ StrLen \/ Write
  PROVE  Nearer
<1>1. n \in Int /\ Top \in Int /\ AfterPuts(back) \in Nat
  BY Layout DEF TypeOK, AfterPuts
<1>2. back' = back
  BY DEF Puts, StrLen, Write, Inside
<1>3. pc' = back => StagesLeft' = AfterPuts(back)
  BY <1>2 DEF TypeOK, StagesLeft, StagesFrom, AfterPuts
<1>4. CASE Puts
  <2>1. StagesLeft = AfterPuts(back) + 3
    BY <1>4 DEF Puts, StagesLeft, StagesFrom
  <2>2. CASE pc' = back
    BY <1>1, <1>3, <2>1, <2>2 DEF Nearer
  <2>3. CASE pc' = "str_len"
    BY <1>1, <1>2, <2>1, <2>3 DEF Nearer, StagesLeft, StagesFrom
  <2> QED BY <1>4, <2>2, <2>3 DEF Puts
<1>5. CASE StrLen
  <2>1. StagesLeft = AfterPuts(back) + 2 /\ RoundsLeft = Top - n
    BY <1>5 DEF StrLen, StagesLeft, RoundsLeft, StagesFrom, RoundsFrom
  <2>2. CASE pc' = "write"
    BY <1>1, <1>2, <2>1, <2>2 DEF Nearer, StagesLeft, StagesFrom
  <2>3. CASE pc' = "str_len" /\ n' = n + 1
    BY <1>1, <1>2, <2>1, <2>3 DEF Nearer, StagesLeft, RoundsLeft, StagesFrom, RoundsFrom
  <2> QED BY <1>5, <2>2, <2>3 DEF StrLen
<1>6. CASE Write
  <2>1. StagesLeft = AfterPuts(back) + 1 /\ pc' = back
    BY <1>6 DEF Write, StagesLeft, StagesFrom
  <2> QED BY <1>1, <1>3, <2>1 DEF Nearer
<1> QED BY <1>4, <1>5, <1>6

LEMMA NearerElse ==
  ASSUME TypeOK, Read \/ Panic \/ Trap
  PROVE  Nearer
<1>1. CASE Read
  BY <1>1 DEF Read, Return, Nearer, StagesLeft, StagesFrom
<1>2. CASE Trap
  BY <1>2 DEF Trap, Return, Nearer, StagesLeft, StagesFrom
<1>3. CASE Panic
  BY <1>3 DEF Panic, Nearer, StagesLeft, StagesFrom, AfterPuts
<1> QED BY <1>1, <1>2, <1>3

LEMMA FallStep ==
  ASSUME LoopInv, TypeOK, TypeOK', [Next]_vars
  PROVE  [~Ended => StepsLeft' < StepsLeft]_vars
<1>1. CASE Body
  <2>1. pc \in {"put_hex", "put_dec", "hex_digits", "dec_digits"} => back = "returned"
    BY DEF LoopInv, Places
  <2>2. ASSUME PutHex \/ HexDigit \/ PutDec \/ DecDigit
        PROVE  Nearer
    <3>1. back = "returned" /\ back' = back
      BY <2>1, <2>2 DEF PutHex, HexDigit, PutDec, DecDigit, Inside
    <3> QED BY <2>2, <3>1, NearerPrinters
  <2>3. Nearer
    BY <1>1, <2>2, NearerMemory, NearerPuts, NearerElse DEF Body
  <2>4. /\ StagesLeft \in Nat /\ StagesLeft' \in Nat
        /\ RoundsLeft \in 0 .. Top + 1 /\ RoundsLeft' \in 0 .. Top + 1
    <3>1. StagesLeft \in 0 .. 13 /\ RoundsLeft \in 0 .. Top + 1
      BY Ranges
    <3>2. /\ pc' \in Locations /\ back' \in {"returned", "panic_msg", "panic_newline", "ud2"}
          /\ p' \in 0 .. Top + 1 /\ q' \in 0 .. Top + 1 /\ n' \in 0 .. Top
      BY DEF TypeOK, Locations
    <3>3. StagesLeft' \in 0 .. 13 /\ RoundsLeft' \in 0 .. Top + 1
      BY <3>2, StagesRange, RoundsRange DEF StagesLeft, RoundsLeft
    <3> QED BY <3>1, <3>3
  <2>5. Top + 2 \in Nat /\ 0 .. Top + 1 = 0 .. (Top + 2) - 1
    BY Layout
  <2>6. StagesLeft' * (Top + 2) + RoundsLeft' < StagesLeft * (Top + 2) + RoundsLeft
    BY <2>3, <2>4, <2>5, Lexicographic DEF Nearer
  <2> QED BY <2>6 DEF StepsLeft
<1>2. CASE Call
  <2>1. pc = "idle"
    BY <1>2
    DEF Call, CallStrlen, CallMemcpy, CallMemset, CallMemcmp, CallStrcmp, CallStrcpy, CallPuts,
        CallRead, CallPutHex, CallPutDec, CallPanic, CallTrap, Enter
  <2> QED BY <2>1 DEF Ended
<1>3. CASE Resume
  BY <1>3 DEF Resume, Ended
<1> QED BY <1>1, <1>2, <1>3 DEF Next

\* No function of the library goes round a loop without coming nearer to its
\* end, whatever it is called with: the part of CallsEnd that is no matter of
\* fairness.
THEOREM EveryStepCounts == Spec => StepsFall
<1>1. Init => ScanInv
  BY DEF Init, ScanInv, AnswersExact
<1>2. TypeInv => TypeOK
  BY DEF TypeInv
<1>3. LoopInv /\ TypeOK /\ TypeOK' /\ [Next]_vars => [~Ended => StepsLeft' < StepsLeft]_vars
  BY FallStep
<1> QED BY <1>1, <1>2, <1>3, LoopInit, LoopStep, ScanStep, TypeInit, TypeStep, PTL
        DEF Spec, StepsFall

\* A call takes at most 14 * (Top + 2) steps, julius_panic's three texts
\* included: linear in the memory and in the width of a number.
THEOREM EveryCallShort == Spec => []StepsBounded
<1>1. TypeOK => StepsBounded
  <2> SUFFICES ASSUME TypeOK
               PROVE  StepsBounded
    OBVIOUS
  <2>1. StagesLeft \in 0 .. 13 /\ (StagesLeft = 0 <=> Ended)
    BY Ranges
  <2>2. RoundsLeft \in 0 .. Top + 1 /\ (Ended => RoundsLeft = 0)
    BY Ranges
  <2> DEFINE t == Top + 2
  <2>3. t \in Nat /\ t > 0 /\ RoundsLeft \in 0 .. t - 1
    BY <2>2, Layout
  <2>4. StepsLeft = StagesLeft * t + RoundsLeft
    BY DEF StepsLeft
  <2> HIDE DEF t
  <2>5. StepsLeft \in 0 .. 14 * t /\ (StepsLeft = 0 <=> Ended)
    <3>1. CASE Ended
      BY <2>1, <2>2, <2>3, <2>4, <3>1
    <3>2. CASE ~Ended
      <4>1. PICK d \in 0 .. 12 : StagesLeft = d + 1
        BY <2>1, <3>2
      <4>2. StagesLeft * t = d * t + t /\ d * t \in Nat /\ d * t <= 12 * t
        BY <2>3, <4>1
      <4> QED BY <2>3, <2>4, <3>2, <4>2
    <3> QED BY <3>1, <3>2
  <2> QED BY <2>5 DEF StepsBounded, t
<1> QED BY <1>1, LibcTypes, PTL
=============================================================================
