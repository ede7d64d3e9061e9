---------------------------- MODULE BuildPipeline ----------------------------
(***************************************************************************)
(* The build scripts and the QEMU launchers (src/build/*.sh) of one checkout *)
(* as a developer uses them: one script or launcher at a time, with sources  *)
(* edited at any moment of a build.  A step is one command of a script *)
(* that reads or writes a file of the build; every command can fail, and     *)
(* set -e then ends the script and the scripts that called it.               *)
(*                                                                          *)
(* A file is known by what went into it: an architecture, and the versions  *)
(* of the sources it was made from.                                         *)
(***************************************************************************)
EXTENDS Naturals, Sequences

CONSTANTS
  Archs,      \* what --arch may say
  MaxEdits,   \* bound: edits of the sources
  MaxRuns     \* bound: scripts the developer runs

ASSUME BuildAssumption ==
  /\ "none" \notin Archs /\ "blank" \notin Archs
  /\ MaxEdits \in Nat /\ MaxRuns \in Nat

VARIABLES
  src,          \* version of each part's sources
  obj,          \* build/obj/libc, init and kexts: shared by the architectures
  libc,         \* build/out/libjulius_<arch>.a
  init,         \* build/out/julius-init_<arch>
  kext,         \* build/out/JuliusSerial.kext
  kernel,       \* the kernel in /tmp/julius-xnu-dst
  staging,      \* JuliusSerial.kext in /tmp/julius-kexts
  kernelcache,  \* build/out/julius.kernelcache
  symbols,      \* build/out/kernel.development
  ramdisk,      \* /sbin/init in build/out/julius-ramdisk.dmg
  arch, todo,   \* the script that runs: its --arch, the commands still to execute
  script,       \* ghost: the script run last
  outcome,      \* ghost: "running", "done" or "failed"
  start,        \* ghost: src when it was started
  built,        \* ghost: the architectures scripts were run for
  everFailed,   \* ghost: some script has failed
  kept,         \* ghost: its make has left the kernel of an earlier build
  runs,         \* ghost: how many scripts have been run
  booted        \* what the launcher's machine came to, or "off"

files == <<obj, libc, init, kext, kernel, staging, kernelcache, symbols, ramdisk>>
run == <<arch, todo, script, outcome, start, built, everFailed, kept, runs>>
vars == <<src, files, run, booted>>

Part == {"libc", "init", "kext", "kernel"}
Absent == [arch |-> "none"]
Blank == [arch |-> "blank"]      \* an image, or a bundle, with nothing in it

Init ==
  /\ src = [p \in Part |-> 0]
  /\ obj = [p \in {"libc", "init", "kext"} |-> Absent]
  /\ libc = [a \in Archs |-> Absent] /\ init = [a \in Archs |-> Absent]
  /\ kext = Absent /\ kernel = Absent /\ staging = Absent
  /\ kernelcache = Absent /\ symbols = Absent /\ ramdisk = Absent
  /\ arch \in Archs /\ todo = <<>> /\ script = "none" /\ outcome = "done"
  /\ start = src /\ built = {} /\ everFailed = FALSE /\ kept = FALSE /\ runs = 0 /\ booted = "off"

-----------------------------------------------------------------------------
(* The scripts, as the commands they consist of *)

LibcScript == <<"compile_libc", "archive_libc">>
InitScript == <<"need_libc", "compile_init", "link_init">>
KextScript == <<"make_bundle", "compile_kext", "link_kext">>
KernelScript == <<"make_kernel", "stage_kext", "cache_kernel", "copy_kernel">>
RamdiskScript == <<"need_init", "remove_image", "create_image", "install_init", "detach">>

\* Faulty variant: init before libc.
AllScriptInitFirst(skipKernel) ==
  InitScript \o LibcScript \o KextScript \o (IF skipKernel THEN <<>> ELSE KernelScript)
    \o RamdiskScript

\* build-all.sh, with --skip-kernel and without.
AllScript(skipKernel) ==
  LibcScript \o InitScript \o KextScript \o (IF skipKernel THEN <<>> ELSE KernelScript)
    \o RamdiskScript

Scripts ==
  [libc |-> LibcScript, init |-> InitScript, kexts |-> KextScript, kernel |-> KernelScript,
   ramdisk |-> RamdiskScript, all |-> AllScript(FALSE), skip_kernel |-> AllScript(TRUE)]

-----------------------------------------------------------------------------
(* Commands.  Each leaves every file but the one it writes alone. *)

\* The next command is c, and is done.
Does(c) ==
  /\ todo # <<>> /\ Head(todo) = c
  /\ todo' = Tail(todo)
  /\ outcome' = IF Tail(todo) = <<>> THEN "done" ELSE outcome
  /\ UNCHANGED <<src, arch, script, start, built, everFailed, runs, booted>>

Command(c) == Does(c) /\ UNCHANGED kept

\* The next command runs script s first if the file it makes is missing; that
\* it is there is all that is asked of it.
Need(c, file, s) ==
  /\ todo # <<>> /\ Head(todo) = c
  /\ todo' = (IF file = Absent THEN s ELSE <<>>) \o Tail(todo)
  /\ UNCHANGED <<src, files, arch, script, outcome, start, built, everFailed, kept, runs, booted>>

\* All sources at once: whatever a compilation in between leaves behind, each
\* object file is written anew before any of them is used.
CompileLibc ==
  /\ Command("compile_libc")
  /\ obj' = [obj EXCEPT !["libc"] = [arch |-> arch, libc |-> src["libc"]]]
  /\ UNCHANGED <<libc, init, kext, kernel, staging, kernelcache, symbols, ramdisk>>

ArchiveLibc ==
  /\ Command("archive_libc")
  /\ libc' = [libc EXCEPT ![arch] = obj["libc"]]
  /\ UNCHANGED <<obj, init, kext, kernel, staging, kernelcache, symbols, ramdisk>>

NeedLibc == Need("need_libc", libc[arch], LibcScript)

\* Faulty variant: an object file that is there is not compiled again.
CompileInitOnce ==
  /\ Command("compile_init")
  /\ obj' = [obj EXCEPT !["init"] =
               IF @ # Absent THEN @
               ELSE [arch |-> arch, init |-> src["init"], headers |-> src["libc"]]]
  /\ UNCHANGED <<libc, init, kext, kernel, staging, kernelcache, symbols, ramdisk>>

\* main.c, against the headers of the libc sources.
CompileInit ==
  /\ Command("compile_init")
  /\ obj' = [obj EXCEPT !["init"] =
               [arch |-> arch, init |-> src["init"], headers |-> src["libc"]]]
  /\ UNCHANGED <<libc, init, kext, kernel, staging, kernelcache, symbols, ramdisk>>

LinkInit ==
  /\ Command("link_init")
  /\ init' = [init EXCEPT ![arch] =
                [arch |-> obj["init"].arch, init |-> obj["init"].init,
                 headers |-> obj["init"].headers, lib |-> libc[arch]]]
  /\ UNCHANGED <<obj, libc, kext, kernel, staging, kernelcache, symbols, ramdisk>>

MakeBundle ==
  /\ Command("make_bundle")
  /\ kext' = IF kext = Absent THEN Blank ELSE kext
  /\ UNCHANGED <<obj, libc, init, kernel, staging, kernelcache, symbols, ramdisk>>

CompileKext ==
  /\ Command("compile_kext")
  /\ obj' = [obj EXCEPT !["kext"] = [arch |-> arch, kext |-> src["kext"]]]
  /\ UNCHANGED <<libc, init, kext, kernel, staging, kernelcache, symbols, ramdisk>>

LinkKext ==
  /\ Command("link_kext")
  /\ kext' = obj["kext"]
  /\ UNCHANGED <<obj, libc, init, kernel, staging, kernelcache, symbols, ramdisk>>

\* make writes the kernel.
MakeKernel ==
  /\ Command("make_kernel")
  /\ kernel' = [arch |-> arch, kernel |-> src["kernel"]]
  /\ UNCHANGED <<obj, libc, init, kext, staging, kernelcache, symbols, ramdisk>>

\* make ends well and writes none under the name the script looks for; any
\* kernel that is there already will do.
KeepKernel ==
  /\ kernel # Absent /\ Does("make_kernel") /\ kept' = TRUE
  /\ UNCHANGED files

\* The bundle, if there is one, is copied over what earlier builds have left in
\* the staging directory; an empty one covers nothing.
StageKext ==
  /\ Command("stage_kext")
  /\ staging' = IF kext = Absent \/ (kext = Blank /\ staging # Absent) THEN staging ELSE kext
  /\ UNCHANGED <<obj, libc, init, kext, kernel, kernelcache, symbols, ramdisk>>

\* kextcache -arch takes a staged kext of that architecture; what it does with
\* another one, or an empty one, is its own affair.
CacheKernel ==
  /\ Command("cache_kernel")
  /\ \E k \in {staging} \cup (IF staging.arch = arch THEN {} ELSE {Absent}) :
       kernelcache' = [arch |-> kernel.arch, kernel |-> kernel, kext |-> k]
  /\ UNCHANGED <<obj, libc, init, kext, kernel, staging, symbols, ramdisk>>

CopyKernel ==
  /\ Command("copy_kernel")
  /\ symbols' = kernel
  /\ UNCHANGED <<obj, libc, init, kext, kernel, staging, kernelcache, ramdisk>>

NeedInit == Need("need_init", init[arch], InitScript)

RemoveImage ==
  /\ Command("remove_image")
  /\ ramdisk' = Absent
  /\ UNCHANGED <<obj, libc, init, kext, kernel, staging, kernelcache, symbols>>

CreateImage ==
  /\ Command("create_image")
  /\ ramdisk' = Blank
  /\ UNCHANGED <<obj, libc, init, kext, kernel, staging, kernelcache, symbols>>

\* Faulty variant: some julius-init, whatever its architecture.
InstallAnyInit ==
  /\ Command("install_init")
  /\ ramdisk' = init[CHOOSE a \in Archs : init[a] # Absent]
  /\ UNCHANGED <<obj, libc, init, kext, kernel, staging, kernelcache, symbols>>

InstallInit ==
  /\ Command("install_init")
  /\ ramdisk' = init[arch]
  /\ UNCHANGED <<obj, libc, init, kext, kernel, staging, kernelcache, symbols>>

Detach == Command("detach") /\ UNCHANGED files

Step ==
  \/ CompileLibc \/ ArchiveLibc \/ NeedLibc \/ CompileInit \/ LinkInit
  \/ MakeBundle \/ CompileKext \/ LinkKext
  \/ MakeKernel \/ KeepKernel \/ StageKext \/ CacheKernel \/ CopyKernel
  \/ NeedInit \/ RemoveImage \/ CreateImage \/ InstallInit \/ Detach

\* Faulty variant: without set -e.
FailIgnored ==
  /\ todo # <<>> /\ todo' = Tail(todo)
  /\ outcome' = "failed" /\ everFailed' = TRUE
  /\ UNCHANGED <<src, files, arch, script, start, built, kept, runs, booted>>

\* A command fails and writes nothing; the script ends, and its caller.
Fail ==
  /\ todo # <<>> /\ todo' = <<>>
  /\ outcome' = "failed" /\ everFailed' = TRUE
  /\ UNCHANGED <<src, files, arch, script, start, built, kept, runs, booted>>

-----------------------------------------------------------------------------
(* The developer *)

Run(s, a) ==
  /\ todo = <<>> /\ booted = "off" /\ runs < MaxRuns /\ runs' = runs + 1
  /\ todo' = Scripts[s] /\ arch' = a /\ script' = s
  /\ outcome' = "running" /\ start' = src /\ built' = built \cup {a} /\ kept' = FALSE
  /\ UNCHANGED <<src, files, everFailed, booted>>

Edits == src["libc"] + src["init"] + src["kext"] + src["kernel"]

Edit(p) ==
  /\ booted = "off" /\ Edits < MaxEdits
  /\ src' = [src EXCEPT ![p] = @ + 1]
  /\ UNCHANGED <<files, run, booted>>

\* What the machine of a launcher comes to: the kernel of another architecture
\* does not start, and without a ramdisk there is no root device, as without
\* a program of this architecture in it there is no PID 1.
Boots(a) ==
  IF kernelcache.arch # a THEN "wrong_kernel"
  ELSE IF ramdisk = Absent THEN "no_root"
  ELSE IF ramdisk = Blank THEN "no_init"
  ELSE IF ramdisk.arch # a THEN "wrong_init"
  ELSE "init"

\* run-qemu-<arch>.sh asks for a kernelcache and takes a ramdisk if there is one.
Launch(a) ==
  /\ todo = <<>> /\ booted = "off" /\ kernelcache # Absent
  /\ booted' = Boots(a)
  /\ UNCHANGED <<src, files, run>>

Quit == booted # "off" /\ booted' = "off" /\ UNCHANGED <<src, files, run>>

Next ==
  \/ Step \/ Fail \/ Quit
  \/ \E a \in Archs : Launch(a) \/ \E s \in DOMAIN Scripts : Run(s, a)
  \/ \E p \in Part : Edit(p)

Spec == Init /\ [][Next]_vars

-----------------------------------------------------------------------------
(* Properties *)

Tagged(f) == f.arch \in Archs \cup {"none", "blank"}

\* Whether a script runs is what todo says.
TypeOK ==
  /\ src \in [Part -> 0 .. MaxEdits] /\ start \in [Part -> 0 .. MaxEdits]
  /\ \A f \in {obj[p] : p \in DOMAIN obj} \cup {kext, kernel, staging, kernelcache, symbols, ramdisk} :
       Tagged(f)
  /\ \A a \in Archs : Tagged(libc[a]) /\ Tagged(init[a])
  /\ outcome \in {"running", "done", "failed"} /\ (outcome = "running") = (todo # <<>>)
  /\ arch \in Archs /\ built \subseteq Archs /\ everFailed \in BOOLEAN /\ kept \in BOOLEAN

\* Once build-all.sh has ended well, the library, init, the kext and the
\* ramdisk, and unless the kernel was skipped the kext in the kernelcache, are of
\* its architecture and hold no source older than when it started, whatever was
\* there before, and whatever was edited meanwhile (build-all.sh:46-64).  So is
\* the kernel, if make has written one.
FullBuildCurrent ==
  outcome = "done" /\ script \in {"all", "skip_kernel"} =>
    /\ libc[arch].arch = arch /\ libc[arch].libc >= start["libc"]
    /\ init[arch].arch = arch /\ init[arch].init >= start["init"]
    /\ init[arch].headers >= start["libc"] /\ init[arch].lib.libc >= start["libc"]
    /\ ramdisk = init[arch]
    /\ kext.arch = arch /\ kext.kext >= start["kext"]
    /\ script = "all" =>
         /\ ~kept => kernelcache.arch = arch /\ kernelcache.kernel.kernel >= start["kernel"]
         /\ kernelcache.kext.arch = arch /\ kernelcache.kext.kext >= start["kext"]
         /\ symbols = kernelcache.kernel

\* Though the object files and the ramdisk are shared by the architectures and
\* survive failed builds, no init is linked from parts of two of them; and an
\* init is never linked against a library newer than the headers it was compiled
\* with.  An older one it may well be: build-init.sh:25 asks only whether there
\* is a library.
PartsFit ==
  /\ \A f \in {init[a] : a \in Archs} \cup {ramdisk} :
       f.arch \in Archs => f.lib.arch = f.arch /\ f.lib.libc <= f.headers
  /\ \A a \in Archs : init[a] # Absent => init[a].arch = a

\* Right after a full build whose make wrote a kernel the system boots to init;
\* a kernel or an init of the wrong architecture is met only where scripts have
\* been run for another one; and a ramdisk without init only after a failure
\* (build-ramdisk.sh:34, run-qemu-x86.sh:35, 61, run-qemu-arm64.sh:22).
LaunchAfterBuild ==
  [][\A a \in Archs : Launch(a) =>
       /\ outcome = "done" /\ script = "all" /\ a = arch /\ ~kept => booted' = "init"
       /\ booted' \in {"wrong_kernel", "wrong_init"} => built # {a}
       /\ booted' = "no_init" => everFailed]_vars
=============================================================================
