# JULIUS OS: TLA+ models, checks and proofs

Specifications of the parts of JULIUS OS that are code in this repository: the
heap, the string functions, the console output and the system call stubs of
julius-libc; julius-init (PID 1) with its Mach service loop; the JuliusSerial
UART driver; the panic log parser; and the build scripts with the launchers.
XNU, I/O Kit, the UART, the compilers and QEMU are not in the repository; they
appear only as far as this code can observe them.

## Inventory

| component | source | state it keeps | operations | who it talks to |
|---|---|---|---|---|
| heap | `libc/src/mem.c` 58-115 | `heap_base`, `heap_ptr`, `heap_end` | `julius_mem_init`, `julius_malloc`, `julius_calloc`; `julius_free` does nothing | the kernel (`mach_vm_allocate`), `julius_panic` |
| julius-init | `init/src/main.c` | `g_bootstrap_port`, rights on the port, the receive buffer | `julius_start`, `setup_bootstrap_port`, `service_loop` | heap, Mach IPC, every task that inherits the bootstrap port |
| Mach wrappers | `libc/src/mach.c` | none of their own; queues in the kernel | send, receive, port calls | kernel |
| system call stubs | `libc/include/julius/syscall.h` | registers | `julius_syscall0` to `6` | kernel |
| JuliusSerial | `kexts/JuliusSerial` | `_mmioMap`, `_regs`; in the device, FIFOs, divisors, enable bits | `start`, `stop`, `putChar`, `putString`, `getChar`, `setBaud` | I/O Kit, other kexts, the PL011 |
| console I/O | `libc/src/io.c` | the bytes of the printers' buffers | `read`, `write`, `puts`, number printers, `julius_panic` | kernel |
| memory and strings | `libc/src/mem.c` 117-157 | the caller's memory | `strlen`, `memcpy`, `memset`, `memcmp`, `strcmp`, `strcpy` | |
| panic log parser | `tools/panic-parse.py` | section flag and four lists | one step per line of the log, then the report | `atos`, `llvm-symbolizer` |
| build pipeline | `build/*.sh` | artifacts in `build/out`, `build/obj` and `/tmp` | one script per artifact | one another through files |
| launchers | `build/run-qemu-*.sh` | none | start QEMU | the artifacts |
| environment check | `tools/check-env.sh` | none | prints what is installed | |

What is hard in each, and what makes it correct:

- **Heap.** A block belongs to one caller, wholly inside mapped memory, however
  extensions, refusals by the kernel and a late `julius_mem_init` follow each
  other. The arithmetic is in `size_t` and wraps.
- **julius-init.** PID 1 must not panic or return once children can exist; it
  must answer each PING once, and must not let one client stop it for the
  others. The hard cases are kernel calls that fail half way through the boot,
  clients that die between request and reply, and full queues on both sides.
- **JuliusSerial.** Other kexts call a driver that takes no lock, and `stop` may
  come while they are inside. Registers must be touched only while mapped, the
  FIFO must not overflow, rates must change only at rest, and no polling loop
  may run for ever, on broken hardware either.
- **Memory, strings, console.** Pointer loops over buffers that exactly fit, or
  do not: terminators, overlapping copies, bytes above 127, the extreme numbers,
  a kernel that prints less than it was asked to.
- **Stubs.** `syscall` overwrites the register in which C functions get their
  fourth argument; numbers, order and count of the parameters must be what the
  kernel expects.
- **Panic parser.** Which lines belong to the description, the backtrace and
  the kext list when sections repeat.
- **Build pipeline.** Which architecture an artifact was built for and whether
  it is up to date, when a build is interrupted or a step is skipped.

## Modules

| module | models | notes |
|---|---|---|
| `BlockAllocator` | what a heap that never frees promises | abstract |
| `JuliusHeap` | the bump allocator | implements `BlockAllocator` |
| `JuliusHeapProofs` | theorems about `JuliusHeap` | TLAPS |
| `SumTheorems` | sums over finite sets of any size | TLAPS, for the heap and the libc |
| `MachIPC` | ports with bounded queues, `send_simple`, `recv_simple` | the kernel side is external |
| `JuliusInit` | `julius_start` and `service_loop` | instantiates `JuliusHeap` and `MachIPC` |
| `PingService` | what a client of init may rely on | abstract |
| `JuliusSystem` | init with its clients | extends `JuliusInit`, implements `PingService` |
| `JuliusSystemProofs` | theorems about `JuliusSystem`: start and panics | TLAPS |
| `PingProofs` | theorems about `JuliusSystem`: the account of PINGs | TLAPS, extends `JuliusSystemProofs` |
| `PL011` | the UART | external, except for the register accessors |
| `JuliusSerial` | the driver, its callers and the I/O Kit thread | extends `PL011` |
| `JuliusSerialProofs` | theorems about `JuliusSerial` | TLAPS |
| `JuliusSyscall` | the stubs and wrappers, registers as they leave them and as the kernel reads them | the kernel side is external |
| `JuliusLibc` | string functions, console I/O, number printers, panic | extends `JuliusSyscall` |
| `MCJuliusLibc` | small numbers | for TLC |
| `JuliusLibcProofs` | theorems about `JuliusLibc` | TLAPS |
| `PanicParse` | `parse_panic_log` and the report | |
| `MCPanicParse` | kinds of lines | for TLC |
| `PanicParseProofs` | theorems about `PanicParse` | TLAPS |
| `BuildPipeline` | build scripts, launchers, and the developer who uses them | |
| `MCBuildPipeline` | symmetry of the architectures | for TLC |
| `BuildPipelineProofs` | theorems about `BuildPipeline` | TLAPS |

### Heap

`heap` is the record of the three static pointers. `regions` is what the kernel
has mapped, `blocks` remembers what was handed out, with what was asked for
(`size`) next to what was cut off (`len`), and `dirty` is the set of addresses
that need not read as zero. An action is one call. `Allocate` is
`julius_malloc`: initialise if nobody has, round, cut off if the request fits,
else map `Extent(size)` bytes at any free page-aligned place (`VmChoices`) or
return NULL. The failure of the first region is `julius_panic`. `Calloc`
multiplies in `size_t` and clears what malloc returns. `Write` is the store of
an owner; without it nothing could show that a later call leaves blocks alone.
Arithmetic is modulo `WordMod`. Adding to a pointer past the end of the address
space is undefined in C, so `Overruns` then admits either result of the test.

### julius-init and its clients

`pc` names the call that `julius_start` or `service_loop` makes next, and each
action is one kernel call with the test of its result. Calls that are checked
may fail. `MemInit` and `SelfTest` are the heap's own actions. `queue` and
`live` are the kernel's ports. `Requests` enumerates what a client can send:
PINGs with each kind of reply right and with none, an id init has no case for,
and a message too long for the receive buffer, which the kernel consumes and
reports as an error.

The repository contains no client yet. `JuliusSystem` takes the smallest one
`main.c` allows: a thread with one reply port. `Window` says how many PONGs it
lets come before it sends another PING. Clients may die at any moment, and
their reply port with them.

`asked` and `answered` are history. `PingsServed` maps them to `PingService`,
where a PONG needs an unanswered PING; `PingsAccounted` adds that each
unanswered PING is in one place of the system, so that none is lost.

### JuliusSerial

One step is one access to a register or one use of `_regs`, by one thread.
Callers are threads of other kexts; `Kit` is the I/O Kit thread that runs
`start` and `stop`. `after` is where `hw_init` or `putString` returns to.
`mapped` is the mapping, `regs` the pointer: `stop` drops one before the other.
`Fault` is an access through a stale pointer, after which nothing more happens.

A polling loop of 100000 waits of a microsecond is `Polls` rounds of `Round`
microseconds, and every round counts, whether the transmitter is sending or not, as
in the code. What keeps a working UART from looking broken is how long a character
takes: `CharRounds` computes it from the divisors in use, ten bits of 16 clocks
times the divisor each, and `waited` counts the rounds a thread has waited for a
transmitter that could move since this last took up a character. When the time of a
character is over, it is out (`Overdue`). No more is assumed of the UART's speed,
and it may always be faster. The transmitter may stop for good (`Break`); the
timeouts are there for that. FIFO contents are counts: the driver looks only at
full, empty and busy. The writes to IMSC and ICR never vary and belong to `HwLine`.
`start` and `stop` announce themselves with one character each.

### Memory, strings, console, stubs

`mem` is one byte-addressed memory: the caller's bytes, the string literals of
`io.c`, and a frame with the number printers' buffer and the byte below it.
`p`, `q`, `n` and `v` are the locals of the function that runs, and `pc` is the
loop or call it is in; a step is one iteration, or one system call. A program
calls one function at a time, with any arguments a correct caller may pass
(`Strings`, `Area`); it may pass NULL to `julius_puts`. `before` is the memory
at the call, so that a property can relate the two. `Write` lets the kernel
print any part of what it is told to, or nothing. `back` is where `julius_puts`
returns to, since both printers and `julius_panic` call it. Negating the least
number is undefined in C, and `Absolute` takes both outcomes builds produce.

`JuliusSyscall` says which register each stub loads with what, that `syscall`
then overwrites `rcx` and `r11`, and what the kernel makes of the rest
according to the table in `docs/syscall-abi.md`. `Junk` is the content of a
register or stack slot nobody loaded.

### Panic parser

A line is the set of the patterns it matches, and what is collected from it is
its number in the log, so that "twice", "in order" and "all of them" can be
said. `ReadLine` is one iteration of the loop: `Describe` is what it does before
it looks for a backtrace, `Header` and `Frames` the two ways it goes on.
`PrintReport` may come after any line: a log may end anywhere.

### Build pipeline and launchers

A file is a record of the architecture and the versions of the sources that went
into it. A script is the sequence of its commands that read or write a file another
one uses; `todo` is what is left of the running one, with the scripts it calls in
place. Each command may fail (`Fail`), and `set -e` ends the scripts; what was
written stays. A make that ends well writes the kernel (`MakeKernel`), or leaves one
that is there already (`KeepKernel`): the script asks for no more than that the file
exists. kextcache takes a staged kext of the architecture it is told; with any other
it may take or leave it (`CacheKernel`). `Edit` changes sources at any time, between
two commands of a build too. `Launch` picks up whatever artifacts are there.

## Runs

| run | question | bounds | distinct states |
|---|---|---|---|
| `heap` | is every block mapped, disjoint, zeroed, kept, and is waste bounded? | 18 addresses, 4-byte regions, 2-byte alignment, 3 calls, with requests of 0, 1, 3 and 5 bytes | 150,659 |
| `heap_wide` | is the request covered over the whole of `size_t`? (no) | 5-bit words, 2 calls | |
| `system` | does init boot and serve safely over every failure, and is every PING answered in the end? | 2 clients of 2 messages, queues of 2, window 2 | 169,677 |
| `system_eager` | does the loop keep serving when a client does not collect? (no) | 1 client, queues of 1 | |
| `serial` | is the driver correct for callers that take turns, and is no character given up while the UART works? | 2 callers of 2 calls, FIFO of 2, strings of 1 and 3, 9600 and 200 baud besides the first rate, timeouts of 3 rounds | 803,429 |
| `serial_free` | does putString return even under interference and on a broken UART? | 2 callers of 1 call, FIFO of 1, timeouts of 2 rounds | 612,507 |
| `serial_race` | can two callers of putChar lose a character? (yes) | as `serial_free` | |
| `serial_stop` | can a call fault during stop? (yes) | as `serial_free` | |
| `serial_idle` | are settings changed only when all was sent? (no) | 2 callers of 2 calls, FIFO of 2, two rates, timeouts of 2 rounds | |
| `libc` | do the functions stay in their buffers, and compute, print and pass on what they should? | 4 bytes of the values 0, 1 and 200; 2 hexadecimal and 3 decimal digits | 123,993 |
| `panic_parse` | what is collected from which lines, and what of it is printed? | 6 lines of 9 kinds, 2 description lines printed | 1,195,742 |
| `build` | does what is built and launched fit together? | 2 architectures, 3 scripts, 2 edits | 9,569,619 |

Runs marked "no" or "yes" end in a counterexample, listed under *Findings*.

*Why the bounds are enough.* A heap of three calls has every order of an initial
region, an extension (of both kinds: a fresh region of the usual size, and one of
twice the request), a refusal and a block that fits the tail. The sizes include 0,
one that rounding changes, one that fills a region and one that exceeds it. Two
clients suffice for one client's messages to stand before another's and for one to
die while the other waits; queues of 2 fill up with 2 messages each. In the driver,
strings of 3 exceed the FIFO of 2, so that putChar must wait; two callers and the
I/O Kit thread give every pair of calls that can meet. A timeout of 3 rounds of 33
milliseconds is longer than the 50 milliseconds of a character at 200 baud, by less
than a round: the last round in which the character can still be on its way is the
last but one of the loop, as near as `Quick` lets it come. At 9600 baud it is out
within one round. The timeout of 2 in the other runs takes all the values the code
distinguishes: positive, zero and below. Four bytes hold two strings that overlap, touch or share a
terminator, and two areas that overlap in either direction; 200 is negative as a
`char`, 1 and 200 compare differently as signed and unsigned. With two hexadecimal
digits the buffer is four bytes, which a full number overflows exactly as sixteen
digits overflow eighteen bytes; -128 to 127 has the extra negative number, and
numbers with a zero inside and at the end. Six lines are two panics, or two
backtraces with a frame and a blank line each. Three scripts are one for the other
architecture, one that fails or is skipped, and the full build or launch after them.

*Deadlock* is not checked: in each model bounded callers come to an end, init
and the libc stop after a panic, the driver after a fault, the parser after its
report, and the developer when the scripts and edits allowed are used up.

*Fairness.* `system`: init and the kernel keep running (`InitStep`), a
waiting send completes when there is room, and a client that is not sending
collects its replies. Nothing makes a client ask. All of it is weak fairness:
Mach wakes a sender when its destination has room, and init is the only
receiver on its port. `serial`: a thread inside the driver runs on (nothing in
it blocks), `start` and `stop` are carried through, and the transmitter sends
what it holds while it is enabled and not broken. There is no fairness on
callers, on `stop`, or on characters arriving. `libc`: a function that was
called is executed (`WF_vars(Body)`); nothing obliges a program to call.

*Faulty variants.* Next to an operator, a module may define one or more faulty
variants of it, each a slip one could make there. No action uses them. Each
property of a passing run is violated when one is put in the place of the
original:

| property | variant |
|---|---|
| `BlocksMapped`, `PromisesKept` | `RoundDown`, `NoRounding` |
| `BlocksDisjoint` | `BumpUnrounded`: the pointer moves by the size before rounding |
| `HeapInv` | `StaleEnd`: `heap_end` stays in the old region |
| `CallocZeroed`, `WritesSurvive` | `CallocClearsOne`, `CallocClearsPast` |
| `WasteBounded` | `AlwaysOverruns`: the test for room is missing |
| `RefusalLosesNothing` | `CarveForgetsTail`: a refusal drops the region in use |
| system `TypeOK`, `PingAnswered` | `RecvLeavesLoop`: an error ends the loop |
| `PanicsOnlyEarly` | `LazyMemInit`: the heap is left to the self-test |
| `BootstrapBacked` | `InsertRightUnchecked` |
| `ReplyNeverBlocks`, `PingsServed` | `RecvFallsThrough`: an error dispatches the old message |
| `PingsAccounted` | `DispatchInverted`: the reply port is tested the wrong way round |
| serial `TypeOK` | `WaitPastZero` |
| `NoFault` | `StopUnmapsFirst` |
| `NoOverrun`, `PutStringReturns` | `PollSkipped`, `PollForever` |
| `OneRate` | `FbrdAfterLine` |
| `NoEmptyRead` | `GetCharBlind` |
| `CharactersIntact` | `NoBusyWait` |
| `CallsReturn` | `DrainInverted` |
| `GivenUpOnlyWhenBroken` | `CheckHasty`: a timeout as short as a character at the first rate |
| libc `TypeOK` | `MemsetInt`: the int is stored unconverted |
| `StaysInBounds` | `PutDecPastEnd`: the terminator goes one past the buffer |
| `CopiesExact` | `StrcpyUnterminated` |
| `AnswersExact` | `MemcmpSigned` |
| `PrintsWhole` | `StrLenPostTest`: `do ... while` for `while` |
| `PrintedValue` | `DecDigitSign`: the sign of what is left of the number |
| `KernelSeesCall` | `CallOrder`: the registers of C calls |
| `CallsEnd` | `PanicAgain`: a panic that cannot print panics |
| `FramesExact` | `FramesToBlank`: any blank line ends the backtrace |
| `DescriptionKept` | `InsideStill`: a panic does not end the backtrace before it |
| `FirstPanicTold` | `StartPanicAnew`: a panic starts the description anew |
| parser `TypeOK` | `ReadLineFromZero` |
| `FullBuildCurrent` | `AllScriptInitFirst` |
| `PartsFit` | `CompileInitOnce`: existing objects are kept |
| `LaunchAfterBuild` | `InstallAnyInit` |
| build `TypeOK` | `FailIgnored`: no `set -e` |

## Findings

1. `heap_wide`: a size within 15 of 2^64 rounds to 0 (`mem.c:88`), and the
   product in calloc wraps (`mem.c:111`); the block returned is shorter than
   asked for, where `mem.h:17` promises NULL.
2. `system_eager`: init replies without a timeout (`main.c:136`). A client that
   keeps sending before it collects fills its reply port, then the bootstrap
   port; it and init wait for each other, and no other client is served.
3. `serial_race`: nothing is held between the poll and the write of `putChar`,
   so that two callers overrun the FIFO.
4. `serial_stop`: `stop` unmaps the registers under a caller; `setBaud` does not
   even test `_regs`.
5. `serial_idle`: `hw_init` disables the UART, then waits for it to finish;
   queued characters cannot leave, the wait times out, and they go out at the
   new rate.

Further divergences, visible in the code, or in an exception or a condition of a
property:

- `putChar` drops the character when the FIFO gets room in the round in which the
  timeout reaches 0 (`JuliusSerial.cpp:168`). A working UART comes this far only
  at 100 baud and below, where a character takes the 100 milliseconds of the
  timeout: `GivenUpOnlyWhenBroken` fails at 75 baud, which `Quick` excludes.
- The driver calls of other kexts (`JuliusSerial.h:63`) collide in two more ways
  than `serial_race` shows, if `Serialised` is FALSE. Of two threads in `setBaud`
  one enables the UART while the other writes divisors (`CharactersIntact`
  fails), where `JuliusSerial.cpp:37` wants it disabled. Of two threads in
  `getChar` the second reads an empty FIFO and returns true (`NoEmptyRead` fails),
  where `JuliusSerial.h:65` says false.
- `io.c:53` says that `buf` has room for the prefix and 16 digits, but with 16
  digits the prefix begins one byte below `buf` (`io.c:65`). `StaysInBounds` says
  that this is the only stray store of the library, and its theorem proves it.
- `panic-parse.py:118` says that lines before the backtrace are collected; those
  behind one that a blank line has ended are too. `DescriptionKept` holds of both.
- A blank line that directly follows the heading of a second backtrace ends it,
  and its frames are not collected (`panic-parse.py:142`); in the first backtrace
  it is skipped. `FramesExact` says exactly which frames are lost.
- `build-kernel.sh:111` takes any kernel of the right name for the one it has just
  built (line 116), one of another architecture too (`KeepKernel`).
- FBRD is computed without the factor of 16 (`JuliusSerial.cpp:51`): 21 for
  115200 baud, where `docs/pexpert.md:125` says 1.
- `main.c:106` says that the loop acknowledges messages; it acknowledges PINGs
  only.
- `mach.c:24` says that 0 is passed for the seventh argument of `mach_msg`, and
  line 38 that it is pushed on the stack. Nothing is passed.
- The quick start of the top-level README builds no ramdisk, and the launcher
  then starts without a root device (`run-qemu-x86.sh:61`); neither launcher
  checks that the kernelcache is of its architecture, although
  `run-qemu-arm64.sh:22` calls it the ARM64 build.
- `build-libc.sh` and `build-init.sh` name outputs without the architecture in
  their heading comments; the files they write have it.

## Proofs

All theorems are proved by TLAPS for arbitrary constants that satisfy the named
assumptions of the modules. Every invariant and every action property the
passing runs check, and both refinements, is one of them; TLC found each
inductive invariant true on a small instance first.

**Heap** (`HeapAssumption`, and `NoWrap`: no size computation wraps and no
pointer passes the end of the address space; `heap_wide` shows that this is
needed). The inductive invariant is `HeapInv`. `BlocksDisjoint` alone is not
inductive: a block handed out next could overlap an old one unless the bytes
from `heap_ptr` to `heap_end` are the end of one mapped region that no block
reaches into (`SoundHeap`), all regions lie below `AddrTop`, and `heap_ptr` is
aligned. The proof goes from facts about rounding and regions to `Bump`,
`Carve`, `Allocate` and the actions. `HeapImplementsAllocator` adds that each
step hands out one block or none, and so refines `BlockAllocator`.
`CallocIsZeroed` and `StoresSurvive` are inductive together relative to
`HeapInv`: a new region's bytes, the bytes an owner stores and the bytes calloc
clears are each apart from every other block (`Clear`, `Apart`).
`RefusalsLoseNothing` shows that NULL is returned only when the kernel refused.
`RequestsCovered` is the other side of the run `heap_wide`: under `NoWrap` every
block covers what its caller asked for, so that a size near 2^64 or a product
beyond it is the only way to a block too short.

`WasteIsBounded` needs two accounts at once (`Paid`). `WasteBounded` alone says
nothing of the region in use, which is what the next extension leaves behind.
So the regions left behind *and the part of the current one that is handed out*
cost at most twice the bytes handed out and a region per initialisation; and if
all of the current region is counted, one region more. An extension passes from
the second account to the first: the request that did not fit was longer than
the tail it abandons, and is itself served. A second `julius_mem_init` abandons
a region for nothing and pays with the region the bound grants each. The sums
are over sets of any size (`SumTheorems`).

**System** (`InitAssumption`, among it that the self-test fits the first
region). `IInv` is type correctness with `Progress`: what `julius_start` has
achieved at each place. The point is `RoomForSelfTest`, which travels from
`julius_mem_init` to the self-test: after that, malloc takes neither of its two
paths that could return NULL or panic. `NoLatePanic` and `PortBacked` follow.

`PingProofs` goes on from there with `Ledger`. `PingsAccounted` alone is not
inductive: that a PING in the queue still has its sender's name, and that a
reply port is live exactly while its client is, must be carried along
(`Traced`). The steps are arithmetic over the three places a PING can be
(`InFlightParts`, `Balanced`), with lemmas on how appending to a queue and
taking from it changes the number of messages of one client. `NoPingLost` and
the refinement `ServesPings` hold for any clients; `RepliesNeverBlock` needs
`Window <= QLimit` and `Windowed`: the PING in init's hands is itself one of the
at most `Window` that are coming, so that the reply port has room for its PONG.
`system_eager` shows that the assumption is needed.

**Driver** (`SerialAssumption`). `SerialTypes` holds for callers that do as they
like. It needs to know where each thread may be and where it returns to
(`PlaceOK`), since the timeout stays above -2 only if the loop is left at -1.
The others assume `Serialised = TRUE`; the runs `serial_race` and `serial_stop`
show that they need it. `SInv` says that one thread at most is inside (`Turns`),
that the registers are mapped at every place but the outermost
(`Mapping`), and that what this thread has read or written of the device still
holds, although the device moves on by itself (`Remembered`).
Two theorems are about time and assume, besides, that rates are quick (`Quick`):
at each of them a character takes fewer rounds than a polling loop has, which
above 100 baud is so (at 75 baud TLC finds a character given up). The invariant
(`GInv`) adds to `SInv` that the divisors in use are those of one rate, once any
have been set (`Lined`), that the UART is on from `start` to `stop`
outside `hw_init` (`Powered`), and how a timeout relates to what its thread has
waited (`Patient`): the rounds counted so far are rounds in which a transmitter
that works could move, and `waited` has all of them, or begins anew with each
character the transmitter takes up. Since a full FIFO has room as soon as one
character leaves it, the loop of putChar sees at most one character's rounds;
and those are fewer than `Polls`, so that the timeout is still above 0 when the
room comes. `GivenUpForCause` follows, and `RateChangesAtRest` by the same count in
the wait of `hw_init`.

**libc** (`LibcAssumption`). The inductive invariant `LoopInv` gives for each
place of a function what its loop has achieved: how far its pointers have come,
which bytes are copied, compared or seen to be no terminator, and how many
digits of the number are printed, which bounds the rest of it by a power of the
base. From it follow `NoStrayStore`, `CopiesCorrect`, `AnswersCorrect` and, with
a case for each wrapper, `CallsArrive`.

`LibcTypes` is not a matter of types alone: a pointer stays in the memory
because every string ends, the caller's, the literals and what the number
printers leave in their buffer, and because no function stores where a string
that is being printed lies (`StringsEnd`, `LiteralsKept`). With it,
`AllPrinted` follows a panic through its three calls of `julius_puts`: what is on
the console at each place (`PanicInv`), as long as the kernel has refused
nothing. `Text` chooses where a string ends, so the proof first shows that there
is one such place, and that the memory behind a text does not change while it is
printed.

`NumbersPrinted` is about the value. The invariant (`HexMade`, `DecMade`) says
that what is left of the number, times the power of the base reached, plus what
the digits stored so far are worth (`Worth`), is the argument; `DigitAdded` is
the step, with what a character of each loop is worth and that the sum over the
digits grows by one term at its end. Once nothing is left the last digit stored
is the first of the text, and is not zero: what was left before it was less than
the base, and not zero. The least signed integer is excepted, since its negation
is undefined (`io.c:74`).

**Panic parser** (`PanicAssumption`). `FramesExact` talks about the whole log,
the code about one flag. The bridge is `Open`, which says of the log alone what
a backtrace would do with the next line; `LineInv` adds that the flag agrees
with it. `FramesCollected`, `DescriptionCollected` and `TypesHold` follow for
logs of any length over any kinds of line. `FirstPanicReported` then needs that
the report is the lists as they stand (`Reported`), and that the first entry of
the description is a panic no later than any other.

**Build pipeline** (`BuildAssumption`: the marks for a missing and an empty file
are no architectures). `FullBuildCurrent` speaks of the end of a full build, and
`PartsFit` of init and the ramdisk; neither survives a step by itself. `BInv` says
what holds between any two commands, by what is still to be done: since no
command occurs twice in a script and they keep one order (`Rising`), the rest of
a script is its set of commands (`Left`). `Halfway` is what a script that was
started relies on (objects of the architecture it was run for, once it has
compiled them), `Done` and `DoneKernel` what a full build need not do again, and
`Gapless` that it skips nothing: if a command is left, so is all that comes
after it. `Made` is what remains true of files through failures, edits and
builds for another architecture. Edits only raise the version of a source, so
that "no older than when the build started" is kept.

**Sums.** An induction over data cannot be cited here, since the library's
theorem takes the statement as an operator. `SumTheorems` argues by smallest
counterexample instead: a set of numbers that is not empty has a least element
(`WFMin`, which is about sets and first-order), so a class of finite sets has a
smallest one (`SmallestSize`). That gives, for the sum of a function over a
finite set, that it exists, is a number, does not depend on the order, and loses
one term with each element removed.

**Calls are short.** Of the liveness properties, the part that is no matter of
fairness is proved: a measure in the naturals that falls. In the driver
(`StepsLeft`) it is `Polls + 4` for each character still to put, and inside a
loop what its counter, or the receive FIFO, still allows. `EveryPutAdvances`
needs no turns: whatever other threads do, each step of putString takes it
nearer its end. `EveryCallAdvances` needs them, for one reason only: while
`hw_init` empties the receive FIFO, another caller that enables the UART lets
new characters in, and the measure rises (TLC finds this at once if
`Serialised` is FALSE). In the library the measure is lexicographic, the stage a
function has reached before the rounds of its loop, with the three texts of a
panic as so many stages (`StagesLeft`, `RoundsLeft`). `EveryStepCounts` says
that each step lowers it and `EveryCallShort` bounds it by the size of the
memory; that the rounds are a natural number at all is `LibcTypes`, the strings
ending. What fairness adds is only that a function which can step does.

Only model-checked: the liveness properties `PingAnswered`, `CallsReturn`,
`PutStringReturns` and `CallsEnd`, since liveness under fairness is beyond the
prover. `CallsReturn` is not claimed for callers that overlap: the drain loop of
`hw_init` (line 46) has no timeout, and ends only because nobody else enables the
receiver meanwhile.

## Not modelled

- `start.s` sets up the stack and calls `julius_start`; `check-env.sh` prints
  what is installed. Neither keeps state.
- Mach details this code does not distinguish: trailers (whether a header-only
  receive buffer suffices depends on the kernel), right counts, vouchers.
- `setBaud(0)`, and rates for which `16 * baud` exceeds 32 bits: `Bauds` holds
  rates of the hardware.
- Text: the heading of a panic is one character; the layout of the parser's
  report and `symbolize`, which asks a tool about one address, are left out.
- In the build: the mount a failed `build-ramdisk.sh` leaves behind, members of
  deleted sources that `ar rcs` keeps, the symbols left by a build of another
  configuration, the dtrace and AvailabilityVersions steps, the QEMU command
  lines. That the libc's assembly is for x86-64 only, so that compiling it for
  arm64 fails, is one of the failures `Fail` allows.
- What kextcache does with a staged kext of another architecture, which is its
  own affair: `CacheKernel` lets it go either way.
- `build-libc.sh` compiles its files one by one, `CompileLibc` all at once. A
  failure in between leaves some of the objects new; the next build writes every
  one of them again before it archives any.

## Plan

Done: all components with state are modelled, every safety property the passing
runs check is a theorem, and the loops of the library and of the driver are
proved to advance.

If the code changes, in the order of what a change would touch: interrupts in
the driver, which polls (`JuliusSerial.cpp:59`), a lock around it, which would turn
`Serialised` from an assumption into a theorem, and a `julius_free` that frees.
