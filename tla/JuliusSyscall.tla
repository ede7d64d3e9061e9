---------------------------- MODULE JuliusSyscall ----------------------------
(***************************************************************************)
(* How julius-libc enters the kernel (julius/syscall.h): a wrapper loads a  *)
(* number and up to six arguments into registers and executes syscall,      *)
(* which overwrites rcx and r11 before the kernel looks at anything.        *)
(***************************************************************************)
EXTENDS Integers, Sequences

CONSTANT Junk   \* what a register or a stack slot holds if nobody loaded it

Registers == {"rax", "rdi", "rsi", "rdx", "r10", "r8", "r9", "rcx", "r11"}

BSD_SYSCALL(n) == 33554432 + n    \* 0x2000000 | n
MACH_TRAP(n) == -n

\* Faulty variant: the convention of C functions, not of system calls.
CallOrder == <<"rdi", "rsi", "rdx", "rcx", "r8", "r9">>

\* The registers julius_syscall1..6 load, in the order of their arguments.
ArgOrder == <<"rdi", "rsi", "rdx", "r10", "r8", "r9">>

\* The registers as the stub for Len(args) arguments leaves them.
Stub(nr, args) ==
  [r \in Registers |->
    IF r = "rax" THEN nr
    ELSE IF \E k \in DOMAIN args : ArgOrder[k] = r
         THEN args[CHOOSE k \in DOMAIN args : ArgOrder[k] = r]
         ELSE Junk]

-----------------------------------------------------------------------------
(* The wrappers *)

MachTaskSelf  == Stub(MACH_TRAP(28), <<>>)
MachHostSelf  == Stub(MACH_TRAP(20), <<>>)
MachReplyPort == Stub(MACH_TRAP(26), <<>>)

SysRead(fd, buf, count)  == Stub(BSD_SYSCALL(3), <<fd, buf, count>>)
SysWrite(fd, buf, count) == Stub(BSD_SYSCALL(4), <<fd, buf, count>>)

VmAllocate(task, addr, size, flags) == Stub(MACH_TRAP(10), <<task, addr, size, flags>>)
VmDeallocate(task, addr, size) == Stub(MACH_TRAP(12), <<task, addr, size>>)

\* The seventh parameter of the trap, notify, is not passed.
MachMsg(msg, option, sendSize, rcvSize, rcvName, timeout) ==
  Stub(MACH_TRAP(31), <<msg, option, sendSize, rcvSize, rcvName, timeout>>)

PortAllocate(task, right, name) == Stub(MACH_TRAP(16), <<task, right, name>>)
PortInsertRight(task, name, poly, type) ==
  Stub(BSD_SYSCALL(536), <<task, name, poly, type>>)
TaskSetBootstrapPort(task, port) == Stub(MACH_TRAP(88), <<task, port>>)

-----------------------------------------------------------------------------
(* The kernel's side, as docs/syscall-abi.md tabulates it: number, name and *)
(* how many parameters it takes.                                           *)

KernelTable ==
  {<<33554435, "read", 3>>, <<33554436, "write", 3>>, <<33554968, "port_insert_right", 4>>,
   <<-10, "vm_allocate", 4>>, <<-12, "vm_deallocate", 3>>, <<-16, "port_allocate", 3>>,
   <<-20, "host_self", 0>>, <<-26, "reply_port", 0>>, <<-28, "task_self", 0>>,
   <<-31, "mach_msg", 7>>, <<-88, "set_bootstrap_port", 2>>}

KernelOrder == <<"rdi", "rsi", "rdx", "r10", "r8", "r9">>

\* What syscall does to the registers on the way in.
Clobbered(regs) == [regs EXCEPT !["rcx"] = Junk, !["r11"] = Junk]

\* The call the kernel takes the registers for.  A parameter past the sixth is
\* whatever the caller's stack holds.
KernelSees(regs) ==
  LET known == {e \in KernelTable : e[1] = regs["rax"]}
  IN IF known = {} THEN [name |-> "unknown", args |-> <<>>]
     ELSE LET entry == CHOOSE e \in known : TRUE
          IN [name |-> entry[2],
              args |-> [k \in 1 .. entry[3] |->
                         IF k <= 6 THEN Clobbered(regs)[KernelOrder[k]] ELSE Junk]]
=============================================================================
