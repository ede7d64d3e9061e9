----------------------------- MODULE JuliusLibc -----------------------------
(***************************************************************************)
(* The string and memory primitives (libc/src/mem.c) and console output     *)
(* (libc/src/io.c) of julius-libc, working on one byte-addressed memory.    *)
(* A program calls one function at a time; a step is one iteration of its   *)
(* loop, or one system call.                                               *)
(*                                                                          *)
(* Memory holds, from address 1 up, the caller's bytes, the string literals *)
(* of io.c, and the stack frame of the number printers: their buffer, with  *)
(* one byte of the frame below it.  Address 0 is NULL.                      *)
(*                                                                          *)
(* Numbers are scaled: uint64_t has HexDigits hexadecimal digits (16 in the *)
(* code), int64_t ranges over -IntMax-1 .. IntMax and has DecDigits decimal *)
(* digits (19 in the code).                                                 *)
(***************************************************************************)
EXTENDS JuliusSyscall, FiniteSets, Functions

CONSTANTS
  UserTop,             \* addresses 1 .. UserTop are the caller's
  Byte,                \* values of the caller's bytes, a subset of 0 .. 255
  HexDigits, DecDigits, IntMax,
  Sixteens, Tens,      \* the powers of 16 and of 10
  HexArgs, DecArgs,    \* numbers that get printed
  FillArgs,            \* the int passed to memset
  TrapArgs             \* arguments of the other kernel calls

VARIABLES
  mem,       \* the memory
  before,    \* ghost: memory when the function was called
  call,      \* the function called and its arguments
  pc,        \* the loop or call of it that is next
  p, q, n,   \* its pointers and its counter
  v,         \* the number a printer has still to print
  back,      \* where julius_puts returns to
  ret,       \* result of the last function
  console,   \* what the call has made the kernel print so far
  torn,      \* ghost: some of it was refused by the kernel
  seen       \* the last call the kernel saw

locals == <<p, q, n, v>>
output == <<console, torn, seen>>
vars == <<mem, before, call, pc, locals, back, ret, output>>

ASSUME LibcAssumption ==
  /\ UserTop \in Nat \ {0}
  /\ Byte \subseteq 0 .. 255 /\ 0 \in Byte
  /\ HexDigits \in Nat \ {0} /\ DecDigits \in Nat \ {0} /\ IntMax \in Nat
  /\ Sixteens \in [0 .. HexDigits -> Nat] /\ Sixteens[0] = 1
  /\ Tens \in [0 .. DecDigits -> Nat] /\ Tens[0] = 1
  /\ \A k \in 0 .. HexDigits - 1 : Sixteens[k + 1] = 16 * Sixteens[k]
  /\ \A k \in 0 .. DecDigits - 1 : Tens[k + 1] = 10 * Tens[k]
  /\ IntMax + 1 < Tens[DecDigits]
  /\ HexArgs \subseteq 0 .. (Sixteens[HexDigits] - 1)
  /\ DecArgs \subseteq (-IntMax - 1) .. IntMax
  /\ FillArgs \subseteq {c \in Int : c % 256 \in Byte}

-----------------------------------------------------------------------------
(* Layout *)

NULL == 0
Stderr == 2

User == 1 .. UserTop
\* "!", "\n", "0x0" and "0", each with its terminator; "!" stands for the
\* heading julius_panic prints.
Literals == <<33, 0, 10, 0, 48, 120, 48, 0, 48, 0>>
PanicHeading == UserTop + 1
Newline == UserTop + 3
ZeroHex == UserTop + 5
ZeroDec == UserTop + 9
Buf == UserTop + 12              \* buf[0]; the byte below it is not buf's
HexBuf == HexDigits + 2          \* char buf[18]
DecBuf == DecDigits + 3          \* char buf[22]
Top == Buf + HexBuf + DecBuf     \* the frame holds either buffer
Addr == 1 .. Top

\* What the stack holds where nothing has been stored yet.
Stale == 170

Memory(user) ==
  [a \in Addr |-> IF a \in User THEN user[a]
                  ELSE IF a < Buf - 1 THEN Literals[a - UserTop] ELSE Stale]

\* Memory without what the last call left on the stack.
FreshFrame == [a \in Addr |-> IF a < Buf - 1 THEN mem[a] ELSE Stale]

\* Strings and areas of len bytes at a the caller can pass.
Strings == {s \in User : \E e \in s .. UserTop : mem[e] = 0}
Area(a, len) == a \in User /\ len \in 0 .. UserTop /\ a + len - 1 <= UserTop

\* The string at s in memory m has a k-th byte; its terminator counts as one.
InString(m, s, k) == s + k <= Top /\ \A j \in 0 .. k - 1 : m[s + j] # 0

-----------------------------------------------------------------------------
(* Calling and returning *)

Locals(a, b, c, x) == p' = a /\ q' = b /\ n' = c /\ v' = x

\* The program calls op; its body starts at l.
Enter(op, args, l) ==
  /\ pc = "idle" /\ pc' = l
  /\ call' = [op |-> op, args |-> args]
  /\ UNCHANGED <<mem, before, back, ret, output>>

\* The caller has its result; the frame of the call is gone.
Resume ==
  /\ pc = "returned" /\ pc' = "idle"
  /\ mem' = FreshFrame /\ before' = FreshFrame
  /\ call' = [op |-> "none", args |-> <<>>]
  /\ Locals(0, 0, 0, 0) /\ back' = "returned" /\ ret' = 0
  /\ console' = <<>> /\ torn' = FALSE /\ seen' = [name |-> "none", args |-> <<>>]

Return(x) == pc' = "returned" /\ ret' = x

Loop == UNCHANGED <<pc, ret>>

\* A step inside a function leaves these alone.
Inside == UNCHANGED <<before, call, back>>

-----------------------------------------------------------------------------
(* mem.c *)

CallStrlen == \E s \in Strings : Enter("strlen", <<s>>, "strlen") /\ Locals(s, 0, 0, 0)

Strlen ==
  /\ pc = "strlen"
  /\ \/ mem[p + n] # 0 /\ n' = n + 1 /\ Loop
     \/ mem[p + n] = 0 /\ Return(n) /\ UNCHANGED n
  /\ Inside /\ UNCHANGED <<mem, p, q, v, output>>

CallMemcpy ==
  \E d, s \in User, len \in 0 .. UserTop :
    /\ Area(d, len) /\ Area(s, len)
    /\ Enter("memcpy", <<d, s, len>>, "memcpy") /\ Locals(d, s, len, 0)

Memcpy ==
  /\ pc = "memcpy"
  /\ \/ n > 0 /\ mem' = [mem EXCEPT ![p] = mem[q]] /\ Locals(p + 1, q + 1, n - 1, v) /\ Loop
     \/ n = 0 /\ Return(call.args[1]) /\ UNCHANGED <<mem, locals>>
  /\ Inside /\ UNCHANGED output

CallMemset ==
  \E d \in User, len \in 0 .. UserTop, c \in FillArgs :
    Area(d, len) /\ Enter("memset", <<d, c, len>>, "memset") /\ Locals(d, 0, len, 0)

\* Faulty variant: the int is stored as it is.
MemsetInt ==
  /\ pc = "memset"
  /\ \/ n > 0 /\ mem' = [mem EXCEPT ![p] = call.args[2]] /\ Locals(p + 1, q, n - 1, v) /\ Loop
     \/ n = 0 /\ Return(call.args[1]) /\ UNCHANGED <<mem, locals>>
  /\ Inside /\ UNCHANGED output

Memset ==
  /\ pc = "memset"
  /\ \/ n > 0 /\ mem' = [mem EXCEPT ![p] = call.args[2] % 256] /\ Locals(p + 1, q, n - 1, v) /\ Loop
     \/ n = 0 /\ Return(call.args[1]) /\ UNCHANGED <<mem, locals>>
  /\ Inside /\ UNCHANGED output

CallMemcmp ==
  \E a, b \in User, len \in 0 .. UserTop :
    /\ Area(a, len) /\ Area(b, len)
    /\ Enter("memcmp", <<a, b, len>>, "memcmp") /\ Locals(a, b, len, 0)

\* Faulty variant: bytes compared as (signed) char.
MemcmpSigned ==
  /\ pc = "memcmp"
  /\ \/ n > 0 /\ mem[p] = mem[q] /\ Locals(p + 1, q + 1, n - 1, v) /\ Loop
     \/ n > 0 /\ mem[p] # mem[q] /\ UNCHANGED locals
        /\ Return(((mem[p] + 128) % 256) - ((mem[q] + 128) % 256))
     \/ n = 0 /\ Return(0) /\ UNCHANGED locals
  /\ Inside /\ UNCHANGED <<mem, output>>

Memcmp ==
  /\ pc = "memcmp"
  /\ \/ n > 0 /\ mem[p] = mem[q] /\ Locals(p + 1, q + 1, n - 1, v) /\ Loop
     \/ n > 0 /\ mem[p] # mem[q] /\ Return(mem[p] - mem[q]) /\ UNCHANGED locals
     \/ n = 0 /\ Return(0) /\ UNCHANGED locals
  /\ Inside /\ UNCHANGED <<mem, output>>

CallStrcmp ==
  \E a, b \in Strings : Enter("strcmp", <<a, b>>, "strcmp") /\ Locals(a, b, 0, 0)

Strcmp ==
  /\ pc = "strcmp"
  /\ \/ mem[p] # 0 /\ mem[p] = mem[q] /\ Locals(p + 1, q + 1, n, v) /\ Loop
     \/ (mem[p] = 0 \/ mem[p] # mem[q]) /\ Return(mem[p] - mem[q]) /\ UNCHANGED locals
  /\ Inside /\ UNCHANGED <<mem, output>>

\* The caller has room for the string, and not inside the string itself.
CallStrcpy ==
  \E d \in User, s \in Strings :
    /\ \A k \in 0 .. Top : InString(mem, s, k) => d + k <= UserTop /\ (k = 0 \/ d # s + k)
    /\ Enter("strcpy", <<d, s>>, "strcpy") /\ Locals(d, s, 0, 0)

\* Faulty variant: the terminator is tested for but not copied.
StrcpyUnterminated ==
  /\ pc = "strcpy"
  /\ \/ mem[q] # 0 /\ mem' = [mem EXCEPT ![p] = mem[q]] /\ Locals(p + 1, q + 1, n, v) /\ Loop
     \/ mem[q] = 0 /\ Return(call.args[1]) /\ UNCHANGED <<mem, locals>>
  /\ Inside /\ UNCHANGED output

Strcpy ==
  /\ pc = "strcpy"
  /\ mem' = [mem EXCEPT ![p] = mem[q]] /\ Locals(p + 1, q + 1, n, v)
  /\ \/ mem[q] # 0 /\ Loop
     \/ mem[q] = 0 /\ Return(call.args[1])
  /\ Inside /\ UNCHANGED output

-----------------------------------------------------------------------------
(* io.c: strings *)

CallPuts ==
  \E s \in Strings \cup {NULL} : Enter("puts", <<s>>, "puts") /\ Locals(s, 0, 0, 0)

Puts ==
  /\ pc = "puts"
  /\ \/ p = NULL /\ pc' = back /\ ret' = 0 /\ UNCHANGED n
     \/ p # NULL /\ pc' = "str_len" /\ n' = 0 /\ UNCHANGED ret
  /\ Inside /\ UNCHANGED <<mem, p, q, v, output>>

\* Faulty variant: do ... while instead of while.
StrLenPostTest ==
  /\ pc = "str_len"
  /\ n' = n + 1
  /\ pc' = IF mem[p + n + 1] = 0 THEN "write" ELSE pc
  /\ Inside /\ UNCHANGED <<mem, p, q, v, ret, output>>

StrLen ==
  /\ pc = "str_len"
  /\ \/ mem[p + n] # 0 /\ n' = n + 1 /\ UNCHANGED pc
     \/ mem[p + n] = 0 /\ pc' = "write" /\ UNCHANGED n
  /\ Inside /\ UNCHANGED <<mem, p, q, v, ret, output>>

\* The kernel prints some of the bytes it is told to, or none and an error.
KernelWrites(from, count) ==
  \/ \E m \in 0 .. count :
       /\ console' = console \o [k \in 1 .. m |-> mem[from + k - 1]]
       /\ torn' = (torn \/ m < count)
       /\ ret' = m
  \/ torn' = TRUE /\ ret' = -1 /\ UNCHANGED console

Write ==
  /\ pc = "write"
  /\ seen' = KernelSees(SysWrite(Stderr, p, n))
  /\ KernelWrites(seen'.args[2], seen'.args[3])
  /\ pc' = back
  /\ Inside /\ UNCHANGED <<mem, locals>>

CallRead ==
  \E d \in User, len \in 0 .. UserTop :
    Area(d, len) /\ Enter("read", <<0, d, len>>, "read") /\ Locals(d, 0, len, 0)

Read ==
  /\ pc = "read"
  /\ seen' = KernelSees(SysRead(0, p, n))
  /\ \/ \E m \in 0 .. seen'.args[3] : \E bytes \in [0 .. m - 1 -> Byte] :
          LET buf == seen'.args[2]
          IN /\ mem' = [a \in Addr |-> IF a \in buf .. buf + m - 1 THEN bytes[a - buf] ELSE mem[a]]
             /\ Return(m)
     \/ Return(-1) /\ UNCHANGED mem
  /\ Inside /\ UNCHANGED <<locals, console, torn>>

-----------------------------------------------------------------------------
(* io.c: numbers and panic *)

Digit(d) == IF d < 10 THEN 48 + d ELSE 87 + d

CallPutHex == \E x \in HexArgs : Enter("put_hex", <<x>>, "put_hex") /\ Locals(0, 0, 0, x)

PutHex ==
  /\ pc = "put_hex"
  /\ mem' = [mem EXCEPT ![Buf + HexBuf - 1] = 0]
  /\ \/ v = 0 /\ p' = ZeroHex /\ pc' = "puts"
     \/ v # 0 /\ p' = Buf + HexBuf - 1 /\ pc' = "hex_digits"
  /\ Inside /\ UNCHANGED <<q, n, v, ret, output>>

\* The digits from the last on, while there is room for one before buf[1], and
\* then the prefix.
HexDigit ==
  /\ pc = "hex_digits"
  /\ \/ /\ v # 0 /\ p > Buf + 1
        /\ mem' = [mem EXCEPT ![p - 1] = Digit(v % 16)]
        /\ Locals(p - 1, q, n, v \div 16) /\ UNCHANGED pc
     \/ /\ v = 0 \/ p <= Buf + 1
        /\ mem' = [mem EXCEPT ![p - 1] = 120, ![p - 2] = 48]
        /\ Locals(p - 2, q, n, v) /\ pc' = "puts"
  /\ Inside /\ UNCHANGED <<ret, output>>

CallPutDec == \E x \in DecArgs : Enter("put_dec", <<x>>, "put_dec") /\ Locals(0, 0, 0, x)

\* v = -v.  For the least number it overflows: the result wraps to v itself, or
\* the divisions that follow treat it as the unsigned number it should be.
Absolute(x) == IF x >= 0 THEN {x} ELSE IF x = -IntMax - 1 THEN {x, -x} ELSE {-x}

\* Division and remainder as C has them, rounding towards zero.
Quot(x) == IF x >= 0 THEN x \div 10 ELSE -((-x) \div 10)
Rem(x) == x - 10 * Quot(x)

\* Faulty variant: the terminator one past the buffer.
PutDecPastEnd ==
  /\ pc = "put_dec"
  /\ mem' = [mem EXCEPT ![Buf + DecBuf] = 0]
  /\ \/ v = 0 /\ p' = ZeroDec /\ pc' = "puts" /\ UNCHANGED v
     \/ v # 0 /\ p' = Buf + DecBuf /\ v' \in Absolute(v) /\ pc' = "dec_digits"
  /\ Inside /\ UNCHANGED <<q, n, ret, output>>

PutDec ==
  /\ pc = "put_dec"
  /\ mem' = [mem EXCEPT ![Buf + DecBuf - 1] = 0]
  /\ \/ v = 0 /\ p' = ZeroDec /\ pc' = "puts" /\ UNCHANGED v
     \/ v # 0 /\ p' = Buf + DecBuf - 1 /\ v' \in Absolute(v) /\ pc' = "dec_digits"
  /\ Inside /\ UNCHANGED <<q, n, ret, output>>

\* Faulty variant: the sign is tested on what is left of the number.
DecDigitSign ==
  /\ pc = "dec_digits"
  /\ \/ /\ v # 0 /\ p > Buf
        /\ mem' = [mem EXCEPT ![p - 1] = 48 + Rem(v)]
        /\ Locals(p - 1, q, n, Quot(v)) /\ UNCHANGED pc
     \/ /\ v = 0 \/ p <= Buf
        /\ IF v < 0 THEN mem' = [mem EXCEPT ![p - 1] = 45] /\ p' = p - 1
                    ELSE UNCHANGED <<mem, p>>
        /\ pc' = "puts" /\ UNCHANGED <<q, n, v>>
  /\ Inside /\ UNCHANGED <<ret, output>>

DecDigit ==
  /\ pc = "dec_digits"
  /\ \/ /\ v # 0 /\ p > Buf
        /\ mem' = [mem EXCEPT ![p - 1] = 48 + Rem(v)]
        /\ Locals(p - 1, q, n, Quot(v)) /\ UNCHANGED pc
     \/ /\ v = 0 \/ p <= Buf
        /\ IF call.args[1] < 0 THEN mem' = [mem EXCEPT ![p - 1] = 45] /\ p' = p - 1
                               ELSE UNCHANGED <<mem, p>>
        /\ pc' = "puts" /\ UNCHANGED <<q, n, v>>
  /\ Inside /\ UNCHANGED <<ret, output>>

CallPanic ==
  \E s \in Strings : Enter("panic", <<s>>, "panic") /\ Locals(0, 0, 0, 0)

\* Faulty variant: a panic whose heading cannot be printed panics.
PanicAgain ==
  /\ \/ pc = "panic" /\ p' = PanicHeading /\ back' = "panic_msg" /\ pc' = "puts"
     \/ pc = "panic_msg" /\ ret = -1 /\ pc' = "panic" /\ UNCHANGED <<p, back>>
     \/ pc = "panic_msg" /\ ret # -1 /\ p' = call.args[1] /\ back' = "panic_newline" /\ pc' = "puts"
     \/ pc = "panic_newline" /\ p' = Newline /\ back' = "ud2" /\ pc' = "puts"
     \/ pc = "ud2" /\ pc' = "halted" /\ UNCHANGED <<p, back>>
  /\ UNCHANGED <<mem, before, call, q, n, v, ret, output>>

\* Three calls of julius_puts, and then an instruction that faults.
Panic ==
  /\ \/ pc = "panic" /\ p' = PanicHeading /\ back' = "panic_msg" /\ pc' = "puts"
     \/ pc = "panic_msg" /\ p' = call.args[1] /\ back' = "panic_newline" /\ pc' = "puts"
     \/ pc = "panic_newline" /\ p' = Newline /\ back' = "ud2" /\ pc' = "puts"
     \/ pc = "ud2" /\ pc' = "halted" /\ UNCHANGED <<p, back>>
  /\ UNCHANGED <<mem, before, call, q, n, v, ret, output>>

-----------------------------------------------------------------------------
(* The other calls into the kernel: what they do is JuliusHeap's and        *)
(* JuliusInit's matter, here it is what the kernel is asked.               *)

Arity(op) == CASE op \in {"task_self", "host_self", "reply_port"} -> 0
               [] op = "set_bootstrap_port" -> 2
               [] op \in {"vm_deallocate", "port_allocate"} -> 3
               [] op \in {"vm_allocate", "port_insert_right"} -> 4
               [] op = "mach_msg" -> 6

Traps == {"task_self", "host_self", "reply_port", "set_bootstrap_port", "vm_deallocate",
          "port_allocate", "vm_allocate", "port_insert_right", "mach_msg"}

Regs(op, a) ==
  CASE op = "task_self" -> MachTaskSelf
    [] op = "host_self" -> MachHostSelf
    [] op = "reply_port" -> MachReplyPort
    [] op = "set_bootstrap_port" -> TaskSetBootstrapPort(a[1], a[2])
    [] op = "vm_deallocate" -> VmDeallocate(a[1], a[2], a[3])
    [] op = "port_allocate" -> PortAllocate(a[1], a[2], a[3])
    [] op = "vm_allocate" -> VmAllocate(a[1], a[2], a[3], a[4])
    [] op = "port_insert_right" -> PortInsertRight(a[1], a[2], a[3], a[4])
    [] op = "mach_msg" -> MachMsg(a[1], a[2], a[3], a[4], a[5], a[6])

CallTrap ==
  \E op \in Traps : \E args \in [1 .. Arity(op) -> TrapArgs] :
    Enter(op, args, "trap") /\ Locals(0, 0, 0, 0)

Trap ==
  /\ pc = "trap"
  /\ seen' = KernelSees(Regs(call.op, call.args))
  /\ \E kr \in {0, 5} : Return(kr)
  /\ Inside /\ UNCHANGED <<mem, locals, console, torn>>

-----------------------------------------------------------------------------
Init ==
  /\ \E user \in [User -> Byte] : user[UserTop] = 0 /\ mem = Memory(user)
  /\ before = mem
  /\ call = [op |-> "none", args |-> <<>>]
  /\ pc = "idle" /\ back = "returned" /\ ret = 0
  /\ p = 0 /\ q = 0 /\ n = 0 /\ v = 0
  /\ console = <<>> /\ torn = FALSE /\ seen = [name |-> "none", args |-> <<>>]

Call ==
  \/ CallStrlen \/ CallMemcpy \/ CallMemset \/ CallMemcmp \/ CallStrcmp \/ CallStrcpy
  \/ CallPuts \/ CallRead \/ CallPutHex \/ CallPutDec \/ CallPanic \/ CallTrap

Body ==
  \/ Strlen \/ Memcpy \/ Memset \/ Memcmp \/ Strcmp \/ Strcpy
  \/ Puts \/ StrLen \/ Write \/ Read
  \/ PutHex \/ HexDigit \/ PutDec \/ DecDigit \/ Panic \/ Trap

Next == Call \/ Body \/ Resume

Spec == Init /\ [][Next]_vars

\* A function that was called is executed; nothing obliges a program to call.
FairSpec == Spec /\ WF_vars(Body)

-----------------------------------------------------------------------------
(* Properties *)

Ended == pc \in {"idle", "returned", "halted"}
Arg(k) == call.args[k]

TypeOK ==
  /\ mem \in [Addr -> 0 .. 255] /\ before \in [Addr -> 0 .. 255]
  /\ pc \in {"idle", "returned", "strlen", "memcpy", "memset", "memcmp", "strcmp", "strcpy", "puts",
             "str_len", "write", "read", "put_hex", "hex_digits", "put_dec", "dec_digits",
             "panic", "panic_msg", "panic_newline", "ud2", "halted", "trap"}
  /\ back \in {"returned", "panic_msg", "panic_newline", "ud2"}
  /\ p \in 0 .. Top + 1 /\ q \in 0 .. Top + 1 /\ n \in 0 .. Top /\ v \in Int /\ ret \in Int
  /\ console \in Seq(0 .. 255) /\ torn \in BOOLEAN

\* The bytes a call may change: the destination it was given, or its buffer.
Destination ==
  CASE call.op \in {"memcpy", "memset"} -> Arg(1) .. Arg(1) + Arg(3) - 1
    [] call.op = "read" -> Arg(2) .. Arg(2) + Arg(3) - 1
    [] call.op = "strcpy" -> {Arg(1) + k : k \in {j \in 0 .. Top : InString(before, Arg(2), j)}}
    [] call.op = "put_hex" -> Buf .. Buf + HexBuf - 1
    [] call.op = "put_dec" -> Buf .. Buf + DecBuf - 1
    [] OTHER -> {}

\* A number with a digit in every place of a uint64_t.
FullWidth == call.op = "put_hex" /\ Arg(1) >= Sixteens[HexDigits - 1]

\* No function stores a byte outside its destination, except that
\* julius_put_hex stores one below its buffer, and that only for a number of
\* full width: the prefix does not fit beside 16 digits (io.c:56, io.c:65).
StaysInBounds ==
  \A a \in Addr \ Destination : mem[a] = before[a] \/ (FullWidth /\ a = Buf - 1)

\* memcpy, unless the destination starts inside the source, and strcpy leave in
\* the destination what the source held when they were called, terminator
\* included; memset leaves there the byte it was given, converted to char.
CopiesExact ==
  pc = "returned" =>
    /\ call.op = "memcpy" /\ Arg(1) \notin Arg(2) + 1 .. Arg(2) + Arg(3) - 1 =>
         \A k \in 0 .. Arg(3) - 1 : mem[Arg(1) + k] = before[Arg(2) + k]
    /\ call.op = "strcpy" =>
         \A k \in 0 .. Top :
           InString(before, Arg(2), k) => mem[Arg(1) + k] = before[Arg(2) + k]
    /\ call.op = "memset" => \A k \in 0 .. Arg(3) - 1 : mem[Arg(1) + k] = Arg(2) % 256

\* Where the bytes at a and b first differ, among those counted, decides.
SameOrder(r, a, b, counted) ==
  LET differ == {k \in counted : mem[a + k] # mem[b + k]}
  IN /\ differ = {} => r = 0
     /\ \A k \in differ : (\A j \in differ : k <= j) =>
          r # 0 /\ (r < 0 <=> mem[a + k] < mem[b + k])

\* strlen, memcmp and strcmp answer with the length of the string and the order
\* of the two operands as unsigned bytes, whatever lies behind their ends.
AnswersExact ==
  pc = "returned" =>
    /\ call.op = "strlen" => InString(mem, Arg(1), ret) /\ mem[Arg(1) + ret] = 0
    /\ call.op = "memcmp" => SameOrder(ret, Arg(1), Arg(2), 0 .. Arg(3) - 1)
    /\ call.op = "strcmp" =>
         SameOrder(ret, Arg(1), Arg(2), {k \in 0 .. UserTop : InString(mem, Arg(1), k)})

\* The string at s.
Text(s) ==
  LET end == CHOOSE k \in 0 .. Top : InString(mem, s, k) /\ mem[s + k] = 0
  IN [k \in 1 .. end |-> mem[s + k - 1]]

\* puts and panic print their string whole, a panic its heading and a newline
\* around it, unless the kernel refused part of it, which nothing notices
\* (io.c:42); the machine stops only after all of it was handed over.
PrintsWhole ==
  /\ pc = "returned" /\ call.op = "puts" /\ ~torn =>
       console = IF Arg(1) = NULL THEN <<>> ELSE Text(Arg(1))
  /\ pc = "halted" /\ ~torn => console = Text(PanicHeading) \o Text(Arg(1)) \o Text(Newline)

\* What a character is worth as a digit, and the number text stands for from
\* its first w characters on: digits of the base whose powers are given, at
\* least one of them, and the first is no zero unless it is the only one.
DigitValue(c) == IF c >= 97 THEN c - 87 ELSE c - 48

HexChars == (48 .. 57) \cup (97 .. 102)
DecChars == 48 .. 57

Numeral(text, w, chars, power, x) ==
  /\ Len(text) > w /\ \A j \in w + 1 .. Len(text) : text[j] \in chars
  /\ Len(text) > w + 1 => text[w + 1] # 48
  /\ SumFunction([j \in 0 .. Len(text) - w - 1 |->
                    DigitValue(text[Len(text) - j]) * power[j]]) = x

\* What the printers make the kernel print is the number they were given, in
\* its usual form: "0x" and hexadecimal digits, or a sign if it is negative and
\* decimal digits.
Shows(text) ==
  IF call.op = "put_hex"
  THEN text[1] = 48 /\ text[2] = 120 /\ Numeral(text, 2, HexChars, Sixteens, Arg(1))
  ELSE IF Arg(1) < 0 THEN text[1] = 45 /\ Numeral(text, 1, DecChars, Tens, -Arg(1))
  ELSE Numeral(text, 0, DecChars, Tens, Arg(1))

\* -v overflows for the least int64_t, and what is printed is garbage for one of
\* the outcomes (io.c:74).
Negatable == ~(call.op = "put_dec" /\ Arg(1) = -IntMax - 1)

PrintedValue ==
  pc = "returned" /\ call.op \in {"put_hex", "put_dec"} /\ ~torn /\ Negatable => Shows(console)

\* Whatever a wrapper is asked for is what the kernel sees: number, order and
\* count of the parameters (syscall.h:75-155; mach.c and mem.c for the rest).
KernelSeesCall ==
  pc = "returned" /\ call.op \in Traps \cup {"read"} =>
    /\ seen.name = call.op
    /\ \A k \in DOMAIN call.args : k \in DOMAIN seen.args /\ seen.args[k] = call.args[k]

\* Every function returns, and panic halts, however little the kernel prints.
CallsEnd == []<>Ended
=============================================================================
