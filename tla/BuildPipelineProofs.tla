------------------------- MODULE BuildPipelineProofs -------------------------
(* Proofs that the build scripts leave what they promise, for any set of    *)
(* architectures and any number of runs and edits.  What is left of a       *)
(* script is looked at as the set of its commands: their order in todo is   *)
(* always that of build-all.sh, with scripts called in between too.         *)
EXTENDS BuildPipeline, TLAPS

Rank(c) ==
  CASE c = "compile_libc" -> 1
    [] c = "archive_libc" -> 2
    [] c = "need_libc"    -> 3
    [] c = "compile_init" -> 4
    [] c = "link_init"    -> 5
    [] c = "make_bundle"  -> 6
    [] c = "compile_kext" -> 7
    [] c = "link_kext"    -> 8
    [] c = "make_kernel"  -> 9
    [] c = "stage_kext"   -> 10
    [] c = "cache_kernel" -> 11
    [] c = "copy_kernel"  -> 12
    [] c = "need_init"    -> 13
    [] c = "remove_image" -> 14
    [] c = "create_image" -> 15
    [] c = "install_init" -> 16
    [] OTHER              -> 17

LibcPart == {"compile_libc", "archive_libc"}
InitPart == {"need_libc", "compile_init", "link_init"}
KextPart == {"make_bundle", "compile_kext", "link_kext"}
KernelPart == {"make_kernel", "stage_kext", "cache_kernel", "copy_kernel"}
RamdiskPart == {"need_init", "remove_image", "create_image", "install_init", "detach"}
Commands == LibcPart \cup InitPart \cup KextPart \cup KernelPart \cup RamdiskPart

Contents(q) == {q[i] : i \in 1 .. Len(q)}

\* No command of q comes after one it ought to precede.
Rising(q) ==
  /\ q \in Seq(Commands)
  /\ \A i, j \in 1 .. Len(q) : i < j => Rank(q[i]) < Rank(q[j])

Left == Contents(todo)

-----------------------------------------------------------------------------
(* The inductive invariant *)

Shape ==
  /\ TypeOK
  /\ DOMAIN obj = {"libc", "init", "kext"} /\ DOMAIN libc = Archs /\ DOMAIN init = Archs
  /\ Rising(todo)
  /\ \A p \in Part : start[p] <= src[p]

\* What the files that are there were made from.
Made ==
  /\ obj["libc"] = Absent \/ (obj["libc"].arch \in Archs /\ obj["libc"].libc \in 0 .. src["libc"])
  /\ \A a \in Archs :
       /\ libc[a] = Absent \/ (libc[a].arch = a /\ libc[a].libc \in 0 .. src["libc"])
       /\ init[a] = Absent \/ (/\ init[a].arch = a /\ init[a].lib.arch = a
                               /\ init[a].lib.libc <= init[a].headers)
  /\ ramdisk \in {Absent, Blank} \/ (/\ ramdisk.arch \in built /\ ramdisk.lib.arch = ramdisk.arch
                                     /\ ramdisk.lib.libc <= ramdisk.headers)
  /\ kernel = Absent \/ kernel.arch \in built
  /\ kernelcache = Absent \/ kernelcache.arch \in built

\* What a script relies on between two of its commands.
ForItsArch == todo # <<>> => arch \in built

LibcObjects ==
  "archive_libc" \in Left /\ "compile_libc" \notin Left => obj["libc"].arch = arch

LibcThere ==
  /\ "need_libc" \in Left => "compile_init" \in Left
  /\ "compile_init" \in Left =>
       "need_libc" \in Left \/ "archive_libc" \in Left \/ libc[arch] # Absent

InitObjects ==
  "link_init" \in Left /\ "compile_init" \notin Left =>
    /\ "compile_libc" \notin Left /\ "archive_libc" \notin Left /\ "need_libc" \notin Left
    /\ obj["init"].arch = arch
    /\ libc[arch] # Absent /\ libc[arch].libc <= obj["init"].headers

KernelBuilt ==
  "cache_kernel" \in Left /\ "make_kernel" \notin Left => kernel # Absent

ImageFilled ==
  /\ "need_init" \in Left \/ "create_image" \in Left => "install_init" \in Left
  /\ ramdisk = Blank => everFailed \/ "install_init" \in Left

Halfway ==
  ForItsArch /\ LibcObjects /\ LibcThere /\ InitObjects /\ KernelBuilt /\ ImageFilled

InFull == script \in {"all", "skip_kernel"} /\ outcome # "failed"

\* What build-all.sh need not do any more has been done, for its architecture
\* and from sources no older than when it was started.
Done ==
  InFull =>
    /\ "compile_libc" \notin Left => obj["libc"].arch = arch /\ obj["libc"].libc >= start["libc"]
    /\ "archive_libc" \notin Left => libc[arch].arch = arch /\ libc[arch].libc >= start["libc"]
    /\ "compile_init" \notin Left => /\ obj["init"].arch = arch /\ obj["init"].init >= start["init"]
                                     /\ obj["init"].headers >= start["libc"]
    /\ "link_init" \notin Left => /\ init[arch].arch = arch /\ init[arch].init >= start["init"]
                                  /\ init[arch].headers >= start["libc"]
                                  /\ init[arch].lib.libc >= start["libc"]
    /\ "compile_kext" \notin Left => obj["kext"].arch = arch /\ obj["kext"].kext >= start["kext"]
    /\ "link_kext" \notin Left => kext.arch = arch /\ kext.kext >= start["kext"]
    /\ "install_init" \notin Left => ramdisk = init[arch]

DoneKernel ==
  InFull /\ script = "all" =>
    /\ "make_kernel" \notin Left /\ ~kept =>
         kernel.arch = arch /\ kernel.kernel >= start["kernel"]
    /\ "stage_kext" \notin Left => staging.arch = arch /\ staging.kext >= start["kext"]
    /\ "cache_kernel" \notin Left =>
         /\ ~kept => kernelcache.arch = arch /\ kernelcache.kernel.kernel >= start["kernel"]
         /\ kernelcache.kext.arch = arch /\ kernelcache.kext.kext >= start["kext"]
         /\ kernelcache.kernel = kernel
    /\ "copy_kernel" \notin Left => symbols = kernelcache.kernel

FullPart == IF script = "all" THEN Commands ELSE Commands \ KernelPart

\* Nothing of build-all.sh is skipped.
Gapless ==
  InFull => /\ Left \subseteq FullPart
            /\ \A c \in Left : \A d \in FullPart : Rank(c) < Rank(d) => d \in Left

BInv == Shape /\ Made /\ Halfway /\ Done /\ DoneKernel /\ Gapless

-----------------------------------------------------------------------------
(* Commands in order *)

LEMMA RankType == \A c \in Commands : Rank(c) \in Nat
BY DEF Commands, LibcPart, InitPart, KextPart, KernelPart, RamdiskPart, Rank

LEMMA HeadIn ==
  ASSUME NEW q \in Seq(Commands), q # <<>>
  PROVE  /\ Head(q) \in Contents(q) /\ Head(q) = q[1] /\ Contents(q) \subseteq Commands
         /\ Tail(q) \in Seq(Commands) /\ Len(q) \in Nat /\ Len(Tail(q)) = Len(q) - 1
         /\ \A i \in 1 .. Len(q) - 1 : Tail(q)[i] = q[i + 1]
         /\ 1 \in 1 .. Len(q)
BY DEF Contents

LEMMA Pop ==
  ASSUME NEW q, Rising(q), q # <<>>
  PROVE  /\ Rising(Tail(q)) /\ Head(q) \in Contents(q)
         /\ Contents(Tail(q)) = Contents(q) \ {Head(q)}
         /\ \A d \in Contents(q) \ {Head(q)} : Rank(Head(q)) < Rank(d)
<1>0. q \in Seq(Commands)
  BY DEF Rising
<1>1. /\ Head(q) \in Contents(q) /\ Head(q) = q[1] /\ Contents(q) \subseteq Commands
      /\ Tail(q) \in Seq(Commands) /\ Len(q) \in Nat /\ Len(Tail(q)) = Len(q) - 1
      /\ \A i \in 1 .. Len(q) - 1 : Tail(q)[i] = q[i + 1]
      /\ 1 \in 1 .. Len(q)
  BY <1>0, HeadIn
<1>2. \A i, j \in 1 .. Len(q) : i < j => Rank(q[i]) < Rank(q[j])
  BY DEF Rising
<1>3. Rising(Tail(q))
  BY <1>1, <1>2 DEF Rising
<1>4. \A i \in 1 .. Len(q) : i # 1 => Rank(Head(q)) < Rank(q[i])
  BY <1>1, <1>2
<1>5. \A d \in Contents(q) \ {Head(q)} : Rank(Head(q)) < Rank(d)
  BY <1>1, <1>4 DEF Contents
<1>6. \A i \in 1 .. Len(q) : i # 1 => q[i] # Head(q)
  BY <1>0, <1>1, <1>4, RankType
<1>7. ASSUME NEW d \in Contents(Tail(q)) PROVE d \in Contents(q) \ {Head(q)}
  <2>1. PICK i \in 1 .. Len(q) - 1 : d = q[i + 1]
    BY <1>1, <1>7 DEF Contents
  <2>2. i + 1 \in 1 .. Len(q) /\ i + 1 # 1
    BY <1>1
  <2> QED
    BY <1>6, <2>1, <2>2 DEF Contents
<1>8. ASSUME NEW d \in Contents(q) \ {Head(q)} PROVE d \in Contents(Tail(q))
  <2>1. PICK i \in 1 .. Len(q) : d = q[i]
    BY <1>8 DEF Contents
  <2>2. i # 1
    BY <1>1, <1>8, <2>1
  <2>3. i - 1 \in 1 .. Len(Tail(q)) /\ Tail(q)[i - 1] = d
    BY <1>1, <2>1, <2>2
  <2> QED
    BY <2>3 DEF Contents
<1> QED
  BY <1>1, <1>3, <1>5, <1>7, <1>8

LEMMA Prepend ==
  ASSUME NEW s, NEW q, Rising(s), Rising(q),
         \A c \in Contents(s), d \in Contents(q) : Rank(c) < Rank(d)
  PROVE  Rising(s \o q) /\ Contents(s \o q) = Contents(s) \cup Contents(q)
<1> DEFINE r == s \o q
<1>1. /\ s \in Seq(Commands) /\ q \in Seq(Commands)
      /\ r \in Seq(Commands) /\ Len(r) = Len(s) + Len(q) /\ Len(s) \in Nat /\ Len(q) \in Nat
      /\ \A i \in 1 .. Len(s) : r[i] = s[i]
      /\ \A i \in 1 .. Len(q) : r[Len(s) + i] = q[i]
  BY DEF Rising
<1> HIDE DEF r
<1>2. ASSUME NEW i \in 1 .. Len(r)
      PROVE  \/ i \in 1 .. Len(s) /\ r[i] = s[i]
             \/ i - Len(s) \in 1 .. Len(q) /\ r[i] = q[i - Len(s)]
  <2>1. CASE i <= Len(s)
    BY <1>1, <2>1
  <2>2. CASE i > Len(s)
    <3>1. i - Len(s) \in 1 .. Len(q) /\ Len(s) + (i - Len(s)) = i
      BY <1>1, <2>2
    <3> QED
      BY <1>1, <3>1
  <2> QED
    BY <1>1, <2>1, <2>2
<1>3. Contents(r) \subseteq Contents(s) \cup Contents(q)
  BY <1>2 DEF Contents
<1>4. Contents(s) \subseteq Contents(r)
  BY <1>1 DEF Contents
<1>5. Contents(q) \subseteq Contents(r)
  <2>1. \A i \in 1 .. Len(q) : Len(s) + i \in 1 .. Len(r)
    BY <1>1
  <2> QED
    BY <1>1, <2>1 DEF Contents
<1>6. ASSUME NEW i \in 1 .. Len(r), NEW j \in 1 .. Len(r), i < j
      PROVE  Rank(r[i]) < Rank(r[j])
  <2>1. CASE i <= Len(s) /\ j > Len(s)
    <3>1. i \in 1 .. Len(s) /\ r[i] \in Contents(s)
      BY <1>1, <2>1 DEF Contents
    <3>2. j - Len(s) \in 1 .. Len(q) /\ r[j] = q[j - Len(s)]
      BY <1>1, <1>2, <2>1
    <3>3. r[j] \in Contents(q)
      BY <3>2 DEF Contents
    <3> QED
      BY <3>1, <3>3
  <2>2. CASE j <= Len(s)
    <3>1. i \in 1 .. Len(s) /\ j \in 1 .. Len(s)
      BY <1>1, <1>6, <2>2
    <3> QED
      BY <1>1, <1>6, <3>1 DEF Rising
  <2>3. CASE i > Len(s)
    <3>1. /\ i - Len(s) \in 1 .. Len(q) /\ j - Len(s) \in 1 .. Len(q)
          /\ i - Len(s) < j - Len(s)
          /\ Len(s) + (i - Len(s)) = i /\ Len(s) + (j - Len(s)) = j
      BY <1>1, <1>6, <2>3
    <3> QED
      BY <1>1, <3>1 DEF Rising
  <2> QED
    BY <1>1, <2>1, <2>2, <2>3
<1>7. Rising(r) /\ Contents(r) = Contents(s) \cup Contents(q)
  BY <1>1, <1>3, <1>4, <1>5, <1>6 DEF Rising
<1> QED
  BY <1>7 DEF r

LEMMA EmptyRises == Rising(<<>>) /\ Contents(<<>>) = {}
BY DEF Rising, Contents

LEMMA LibcRises == Rising(LibcScript) /\ Contents(LibcScript) = LibcPart
<1>1. /\ LibcScript \in Seq(Commands) /\ Len(LibcScript) = 2
      /\ LibcScript[1] = "compile_libc" /\ LibcScript[2] = "archive_libc"
  BY DEF LibcScript, Commands, LibcPart
<1>2. 1 .. Len(LibcScript) = {1, 2}
  BY <1>1
<1>3. Contents(LibcScript) = LibcPart
  BY <1>1, <1>2 DEF Contents, LibcPart
<1>4. \A i \in 1 .. Len(LibcScript) : Rank(LibcScript[i]) = i
  BY <1>1, <1>2 DEF Rank
<1> QED
  BY <1>1, <1>3, <1>4 DEF Rising

LEMMA InitRises == Rising(InitScript) /\ Contents(InitScript) = InitPart
<1>1. /\ InitScript \in Seq(Commands) /\ Len(InitScript) = 3
      /\ InitScript[1] = "need_libc" /\ InitScript[2] = "compile_init" /\ InitScript[3] = "link_init"
  BY DEF InitScript, Commands, InitPart
<1>2. 1 .. Len(InitScript) = {1, 2, 3}
  BY <1>1
<1>3. Contents(InitScript) = InitPart
  BY <1>1, <1>2 DEF Contents, InitPart
<1>4. \A i \in 1 .. Len(InitScript) : Rank(InitScript[i]) = i + 2
  BY <1>1, <1>2 DEF Rank
<1> QED
  BY <1>1, <1>3, <1>4 DEF Rising

LEMMA KextRises == Rising(KextScript) /\ Contents(KextScript) = KextPart
<1>1. /\ KextScript \in Seq(Commands) /\ Len(KextScript) = 3
      /\ KextScript[1] = "make_bundle" /\ KextScript[2] = "compile_kext" /\ KextScript[3] = "link_kext"
  BY DEF KextScript, Commands, KextPart
<1>2. 1 .. Len(KextScript) = {1, 2, 3}
  BY <1>1
<1>3. Contents(KextScript) = KextPart
  BY <1>1, <1>2 DEF Contents, KextPart
<1>4. \A i \in 1 .. Len(KextScript) : Rank(KextScript[i]) = i + 5
  BY <1>1, <1>2 DEF Rank
<1> QED
  BY <1>1, <1>3, <1>4 DEF Rising

LEMMA KernelRises == Rising(KernelScript) /\ Contents(KernelScript) = KernelPart
<1>1. /\ KernelScript \in Seq(Commands) /\ Len(KernelScript) = 4
      /\ KernelScript[1] = "make_kernel" /\ KernelScript[2] = "stage_kext" /\ KernelScript[3] = "cache_kernel" /\ KernelScript[4] = "copy_kernel"
  BY DEF KernelScript, Commands, KernelPart
<1>2. 1 .. Len(KernelScript) = {1, 2, 3, 4}
  BY <1>1
<1>3. Contents(KernelScript) = KernelPart
  BY <1>1, <1>2 DEF Contents, KernelPart
<1>4. \A i \in 1 .. Len(KernelScript) : Rank(KernelScript[i]) = i + 8
  BY <1>1, <1>2 DEF Rank
<1> QED
  BY <1>1, <1>3, <1>4 DEF Rising

LEMMA RamdiskRises == Rising(RamdiskScript) /\ Contents(RamdiskScript) = RamdiskPart
<1>1. /\ RamdiskScript \in Seq(Commands) /\ Len(RamdiskScript) = 5
      /\ RamdiskScript[1] = "need_init" /\ RamdiskScript[2] = "remove_image" /\ RamdiskScript[3] = "create_image" /\ RamdiskScript[4] = "install_init" /\ RamdiskScript[5] = "detach"
  BY DEF RamdiskScript, Commands, RamdiskPart
<1>2. 1 .. Len(RamdiskScript) = {1, 2, 3, 4, 5}
  BY <1>1
<1>3. Contents(RamdiskScript) = RamdiskPart
  BY <1>1, <1>2 DEF Contents, RamdiskPart
<1>4. \A i \in 1 .. Len(RamdiskScript) : Rank(RamdiskScript[i]) = i + 12
  BY <1>1, <1>2 DEF Rank
<1> QED
  BY <1>1, <1>3, <1>4 DEF Rising

LEMMA AllRises ==
  ASSUME NEW skip \in BOOLEAN
  PROVE  /\ Rising(AllScript(skip))
         /\ Contents(AllScript(skip)) = IF skip THEN Commands \ KernelPart ELSE Commands
<1> DEFINE K == IF skip THEN <<>> ELSE KernelScript
           k == IF skip THEN {} ELSE KernelPart
<1> USE DEF LibcPart, InitPart, KextPart, KernelPart, RamdiskPart, Commands, Rank
<1>1. Rising(LibcScript \o InitScript) /\ Contents(LibcScript \o InitScript) = LibcPart \cup InitPart
  BY LibcRises, InitRises, Prepend
<1>2. /\ Rising(LibcScript \o InitScript \o KextScript)
      /\ Contents(LibcScript \o InitScript \o KextScript) = LibcPart \cup InitPart \cup KextPart
  BY <1>1, KextRises, Prepend
<1>3. Rising(K) /\ Contents(K) = k
  BY KernelRises, EmptyRises
<1>4. /\ Rising(LibcScript \o InitScript \o KextScript \o K)
      /\ Contents(LibcScript \o InitScript \o KextScript \o K)
           = LibcPart \cup InitPart \cup KextPart \cup k
  <2> HIDE DEF K
  <2> QED
    BY <1>2, <1>3, Prepend
<1>5. /\ Rising(LibcScript \o InitScript \o KextScript \o K \o RamdiskScript)
      /\ Contents(LibcScript \o InitScript \o KextScript \o K \o RamdiskScript)
           = LibcPart \cup InitPart \cup KextPart \cup k \cup RamdiskPart
  <2> HIDE DEF K
  <2> QED
    BY <1>4, RamdiskRises, Prepend
<1>6. AllScript(skip) = LibcScript \o InitScript \o KextScript \o K \o RamdiskScript
  BY DEF AllScript
<1> QED
  BY <1>5, <1>6

LEMMA ScriptsRise ==
  ASSUME NEW s \in DOMAIN Scripts
  PROVE  /\ Rising(Scripts[s]) /\ Scripts[s] # <<>>
         /\ Contents(Scripts[s]) \in {LibcPart, InitPart, KextPart, KernelPart, RamdiskPart,
                                      Commands, Commands \ KernelPart}
         /\ s = "all" => Contents(Scripts[s]) = Commands
         /\ s = "skip_kernel" => Contents(Scripts[s]) = Commands \ KernelPart
<1>1. s \in {"libc", "init", "kexts", "kernel", "ramdisk", "all", "skip_kernel"}
  BY DEF Scripts
<1>2. /\ Rising(Scripts[s])
      /\ Contents(Scripts[s]) \in {LibcPart, InitPart, KextPart, KernelPart, RamdiskPart,
                                   Commands, Commands \ KernelPart}
      /\ s = "all" => Contents(Scripts[s]) = Commands
      /\ s = "skip_kernel" => Contents(Scripts[s]) = Commands \ KernelPart
  <2>1. /\ Scripts["libc"] = LibcScript /\ Scripts["init"] = InitScript
        /\ Scripts["kexts"] = KextScript /\ Scripts["kernel"] = KernelScript
        /\ Scripts["ramdisk"] = RamdiskScript
        /\ Scripts["all"] = AllScript(FALSE) /\ Scripts["skip_kernel"] = AllScript(TRUE)
    BY DEF Scripts
  <2>2. Rising(AllScript(FALSE)) /\ Contents(AllScript(FALSE)) = Commands
    BY AllRises
  <2>3. Rising(AllScript(TRUE)) /\ Contents(AllScript(TRUE)) = Commands \ KernelPart
    BY AllRises
  <2> QED
    BY <1>1, <2>1, <2>2, <2>3, LibcRises, InitRises, KextRises, KernelRises, RamdiskRises
<1>3. Contents(Scripts[s]) # {}
  BY <1>2 DEF LibcPart, InitPart, KextPart, KernelPart, RamdiskPart, Commands
<1> QED
  BY <1>2, <1>3, EmptyRises

-----------------------------------------------------------------------------
(* Steps *)

LEMMA Popped ==
  ASSUME BInv, NEW c, Does(c)
  PROVE  /\ Rising(todo)' /\ todo # <<>> /\ c \in Left /\ Left' = Left \ {c} /\ Left \subseteq Commands
         /\ \A d \in Left \ {c} : Rank(c) < Rank(d)
         /\ outcome = "running" /\ outcome' = IF todo' = <<>> THEN "done" ELSE "running"
         /\ UNCHANGED <<src, arch, script, start, built, everFailed>>
         /\ Gapless'
<1>1. todo # <<>> /\ Head(todo) = c /\ todo' = Tail(todo) /\ Rising(todo)
  BY DEF Does, BInv, Shape
<1>2. /\ Rising(Tail(todo)) /\ c \in Left /\ Contents(Tail(todo)) = Left \ {c}
      /\ \A d \in Left \ {c} : Rank(c) < Rank(d)
  BY <1>1, Pop DEF Left
<1>3. Left \subseteq Commands
  BY <1>1, HeadIn DEF Left, Rising
<1>4. outcome = "running"
  BY <1>1 DEF BInv, Shape, TypeOK
<1>5. /\ Rising(todo)' /\ Left' = Left \ {c} /\ UNCHANGED <<script, arch>>
      /\ outcome' = IF todo' = <<>> THEN "done" ELSE "running"
  BY <1>1, <1>2, <1>4 DEF Left, Does
<1>6. Gapless'
  <2>1. SUFFICES ASSUME InFull', Gapless
                 PROVE  /\ Left' \subseteq FullPart
                        /\ \A d \in Left' : \A e \in FullPart : Rank(d) < Rank(e) => e \in Left'
    BY <1>5 DEF Gapless, FullPart, BInv
  <2>2. InFull
    BY <1>4, <1>5, <2>1 DEF InFull
  <2>3. ASSUME NEW d \in Left \ {c}, NEW e \in FullPart, Rank(d) < Rank(e)
        PROVE  e \in Left \ {c}
    <3>1. Rank(c) < Rank(d) /\ c \in Commands /\ d \in Commands /\ e \in Commands
      BY <1>2, <1>3, <2>3 DEF FullPart
    <3>2. e # c
      BY <2>3, <3>1, RankType
    <3> QED
      BY <2>1, <2>2, <2>3, <3>2 DEF Gapless
  <2> QED
    BY <1>5, <2>1, <2>2, <2>3 DEF Gapless
<1> QED
  BY <1>1, <1>2, <1>3, <1>4, <1>5, <1>6 DEF Does

LEMMA Absences ==
  ASSUME NEW a \in Archs
  PROVE  a # "none" /\ a # "blank" /\ Absent.arch = "none" /\ Blank.arch = "blank"
         /\ Absent # Blank
BY BuildAssumption DEF Absent, Blank

TaggedFiles ==
  /\ DOMAIN obj = {"libc", "init", "kext"} /\ DOMAIN libc = Archs /\ DOMAIN init = Archs
  /\ \A p \in {"libc", "init", "kext"} : Tagged(obj[p])
  /\ Tagged(kext) /\ Tagged(kernel) /\ Tagged(staging) /\ Tagged(kernelcache)
  /\ Tagged(symbols) /\ Tagged(ramdisk)
  /\ \A a \in Archs : Tagged(libc[a]) /\ Tagged(init[a])

\* What most steps need of the types.
Facts ==
  /\ arch \in Archs /\ arch # "none" /\ arch # "blank" /\ TaggedFiles
  /\ DOMAIN obj = {"libc", "init", "kext"} /\ DOMAIN libc = Archs /\ DOMAIN init = Archs
  /\ \A p \in Part : src[p] \in Nat /\ start[p] \in Nat /\ start[p] <= src[p]
  /\ Part = {"libc", "init", "kext", "kernel"}
  /\ Absent.arch = "none" /\ Blank.arch = "blank"

LEMMA BInvFacts ==
  ASSUME BInv
  PROVE  Facts
BY BuildAssumption, Absences DEF BInv, Shape, TypeOK, Facts, TaggedFiles, Part, Absent, Blank

LEMMA ShapeStep ==
  ASSUME BInv, NEW c, Does(c), TaggedFiles', kept' \in {kept, TRUE}
  PROVE  Shape'
<1>1. /\ Rising(todo)' /\ outcome = "running" /\ outcome' = IF todo' = <<>> THEN "done" ELSE "running"
      /\ UNCHANGED <<src, arch, script, start, built, everFailed>>
  BY Popped
<1>2. \A f \in {obj'[p] : p \in DOMAIN obj'} \cup {kext', kernel', staging', kernelcache', symbols', ramdisk'} :
        Tagged(f)
  BY DEF TaggedFiles
<1>3. TypeOK'
  BY <1>1, <1>2 DEF BInv, Shape, TypeOK, TaggedFiles
<1> QED
  BY <1>1, <1>3 DEF BInv, Shape, TaggedFiles

LEMMA CompileLibcStep ==
  ASSUME BInv, CompileLibc
  PROVE  BInv'
<1>1. Does("compile_libc") /\ UNCHANGED kept
  BY DEF CompileLibc, Command
<1>2. /\ todo # <<>> /\ outcome = "running" /\ "compile_libc" \in Left /\ Left' = Left \ {"compile_libc"}
      /\ UNCHANGED <<src, arch, script, start, built, everFailed, kept>> /\ Gapless'
  BY <1>1, Popped
<1>4. Facts
  BY BInvFacts
<1>5. Shape'
  <2>1. TaggedFiles'
    BY <1>2, <1>4 DEF CompileLibc, TaggedFiles, Tagged, Facts
  <2> QED
    BY <1>1, <2>1, ShapeStep
<1>6. Made'
  BY <1>2, <1>4 DEF CompileLibc, Made, Halfway, ForItsArch, LibcObjects, InitObjects, KernelBuilt, Facts, BInv, Absent, Blank
<1>7. Halfway'
  <2>1. ForItsArch'
    BY <1>2, <1>4 DEF CompileLibc, Halfway, ForItsArch, BInv
  <2>2. LibcObjects'
    BY <1>2, <1>4 DEF CompileLibc, Halfway, LibcObjects, Facts, BInv
  <2>3. LibcThere'
    BY <1>2, <1>4 DEF CompileLibc, Halfway, LibcThere, Made, Facts, Absent, BInv
  <2>4. InitObjects'
    BY <1>2, <1>4 DEF CompileLibc, Halfway, InitObjects, LibcThere, Made, Facts, Absent, BInv
  <2>5. KernelBuilt'
    BY <1>2, <1>4 DEF CompileLibc, Halfway, KernelBuilt, Facts, BInv
  <2>6. ImageFilled'
    BY <1>2, <1>4 DEF CompileLibc, Halfway, ImageFilled, Made, Facts, Absent, Blank, BInv
  <2> QED
    BY <2>1, <2>2, <2>3, <2>4, <2>5, <2>6 DEF Halfway
<1>8. Done'
  BY <1>2, <1>4 DEF CompileLibc, Done, InFull, Gapless, FullPart, KernelPart, Facts, BInv, Absent
<1>9. DoneKernel'
  BY <1>2, <1>4 DEF CompileLibc, Done, DoneKernel, InFull, Gapless, FullPart, Facts, BInv, Absent, Blank
<1> QED
  BY <1>2, <1>5, <1>6, <1>7, <1>8, <1>9 DEF BInv

LEMMA ArchiveLibcStep ==
  ASSUME BInv, ArchiveLibc
  PROVE  BInv'
<1>1. Does("archive_libc") /\ UNCHANGED kept
  BY DEF ArchiveLibc, Command
<1>2. /\ todo # <<>> /\ outcome = "running" /\ "archive_libc" \in Left /\ Left' = Left \ {"archive_libc"}
      /\ UNCHANGED <<src, arch, script, start, built, everFailed, kept>> /\ Gapless'
  BY <1>1, Popped
<1>3. \A d \in Left : d \notin {"compile_libc"}
  BY <1>1, Popped DEF Rank
<1>4. Facts
  BY BInvFacts
<1>5. Shape'
  <2>1. TaggedFiles'
    BY <1>2, <1>4 DEF ArchiveLibc, TaggedFiles, Tagged, Facts
  <2> QED
    BY <1>1, <2>1, ShapeStep
<1>6. Made'
  BY <1>2, <1>3, <1>4 DEF ArchiveLibc, Made, Halfway, ForItsArch, LibcObjects, InitObjects, KernelBuilt, Facts, BInv, Absent, Blank
<1>7. Halfway'
  <2>1. ForItsArch'
    BY <1>2, <1>3, <1>4 DEF ArchiveLibc, Halfway, ForItsArch, BInv
  <2>2. LibcObjects'
    BY <1>2, <1>3, <1>4 DEF ArchiveLibc, Halfway, LibcObjects, Facts, BInv
  <2>3. LibcThere'
    BY <1>2, <1>3, <1>4 DEF ArchiveLibc, Halfway, LibcThere, LibcObjects, Made, Facts, Absent, BInv
  <2>4. InitObjects'
    BY <1>2, <1>3, <1>4 DEF ArchiveLibc, Halfway, InitObjects, LibcThere, Made, Facts, Absent, BInv
  <2>5. KernelBuilt'
    BY <1>2, <1>3, <1>4 DEF ArchiveLibc, Halfway, KernelBuilt, Facts, BInv
  <2>6. ImageFilled'
    BY <1>2, <1>3, <1>4 DEF ArchiveLibc, Halfway, ImageFilled, Made, Facts, Absent, Blank, BInv
  <2> QED
    BY <2>1, <2>2, <2>3, <2>4, <2>5, <2>6 DEF Halfway
<1>8. Done'
  BY <1>2, <1>3, <1>4 DEF ArchiveLibc, Done, InFull, Gapless, FullPart, KernelPart, Facts, BInv, Absent
<1>9. DoneKernel'
  BY <1>2, <1>3, <1>4 DEF ArchiveLibc, Done, DoneKernel, InFull, Gapless, FullPart, Facts, BInv, Absent, Blank
<1> QED
  BY <1>2, <1>5, <1>6, <1>7, <1>8, <1>9 DEF BInv

LEMMA CompileInitStep ==
  ASSUME BInv, CompileInit
  PROVE  BInv'
<1>1. Does("compile_init") /\ UNCHANGED kept
  BY DEF CompileInit, Command
<1>2. /\ todo # <<>> /\ outcome = "running" /\ "compile_init" \in Left /\ Left' = Left \ {"compile_init"}
      /\ UNCHANGED <<src, arch, script, start, built, everFailed, kept>> /\ Gapless'
  BY <1>1, Popped
<1>3. \A d \in Left : d \notin {"compile_libc", "archive_libc", "need_libc"}
  BY <1>1, Popped DEF Rank
<1>4. Facts
  BY BInvFacts
<1>5. Shape'
  <2>1. TaggedFiles'
    BY <1>2, <1>4 DEF CompileInit, TaggedFiles, Tagged, Facts
  <2> QED
    BY <1>1, <2>1, ShapeStep
<1>6. Made'
  BY <1>2, <1>3, <1>4 DEF CompileInit, Made, Halfway, ForItsArch, LibcObjects, InitObjects, KernelBuilt, Facts, BInv, Absent, Blank
<1>7. Halfway'
  <2>1. ForItsArch'
    BY <1>2, <1>3, <1>4 DEF CompileInit, Halfway, ForItsArch, BInv
  <2>2. LibcObjects'
    BY <1>2, <1>3, <1>4 DEF CompileInit, Halfway, LibcObjects, Facts, BInv
  <2>3. LibcThere'
    BY <1>2, <1>3, <1>4 DEF CompileInit, Halfway, LibcThere, Made, Facts, Absent, BInv
  <2>4. InitObjects'
    BY <1>2, <1>3, <1>4 DEF CompileInit, Halfway, InitObjects, LibcThere, Made, Facts, Absent, BInv
  <2>5. KernelBuilt'
    BY <1>2, <1>3, <1>4 DEF CompileInit, Halfway, KernelBuilt, Facts, BInv
  <2>6. ImageFilled'
    BY <1>2, <1>3, <1>4 DEF CompileInit, Halfway, ImageFilled, Made, Facts, Absent, Blank, BInv
  <2> QED
    BY <2>1, <2>2, <2>3, <2>4, <2>5, <2>6 DEF Halfway
<1>8. Done'
  BY <1>2, <1>3, <1>4 DEF CompileInit, Done, InFull, Gapless, FullPart, KernelPart, Facts, BInv, Absent
<1>9. DoneKernel'
  BY <1>2, <1>3, <1>4 DEF CompileInit, Done, DoneKernel, InFull, Gapless, FullPart, Facts, BInv, Absent, Blank
<1> QED
  BY <1>2, <1>5, <1>6, <1>7, <1>8, <1>9 DEF BInv

LEMMA LinkInitStep ==
  ASSUME BInv, LinkInit
  PROVE  BInv'
<1>1. Does("link_init") /\ UNCHANGED kept
  BY DEF LinkInit, Command
<1>2. /\ todo # <<>> /\ outcome = "running" /\ "link_init" \in Left /\ Left' = Left \ {"link_init"}
      /\ UNCHANGED <<src, arch, script, start, built, everFailed, kept>> /\ Gapless'
  BY <1>1, Popped
<1>3. \A d \in Left : d \notin {"compile_libc", "archive_libc", "need_libc", "compile_init"}
  BY <1>1, Popped DEF Rank
<1>4. Facts
  BY BInvFacts
<1>5. Shape'
  <2>1. TaggedFiles'
    BY <1>2, <1>4 DEF LinkInit, TaggedFiles, Tagged, Facts
  <2> QED
    BY <1>1, <2>1, ShapeStep
<1>6. Made'
  BY <1>2, <1>3, <1>4 DEF LinkInit, Made, Halfway, ForItsArch, LibcObjects, InitObjects, KernelBuilt, Facts, BInv, Absent, Blank
<1>7. Halfway'
  <2>1. ForItsArch'
    BY <1>2, <1>3, <1>4 DEF LinkInit, Halfway, ForItsArch, BInv
  <2>2. LibcObjects'
    BY <1>2, <1>3, <1>4 DEF LinkInit, Halfway, LibcObjects, Facts, BInv
  <2>3. LibcThere'
    BY <1>2, <1>3, <1>4 DEF LinkInit, Halfway, LibcThere, Made, Facts, Absent, BInv
  <2>4. InitObjects'
    BY <1>2, <1>3, <1>4 DEF LinkInit, Halfway, InitObjects, LibcThere, Made, Facts, Absent, BInv
  <2>5. KernelBuilt'
    BY <1>2, <1>3, <1>4 DEF LinkInit, Halfway, KernelBuilt, Facts, BInv
  <2>6. ImageFilled'
    BY <1>2, <1>3, <1>4 DEF LinkInit, Halfway, ImageFilled, Made, Facts, Absent, Blank, BInv
  <2> QED
    BY <2>1, <2>2, <2>3, <2>4, <2>5, <2>6 DEF Halfway
<1>a. InFull => "install_init" \in Left
  <2>1. "install_init" \in FullPart
    BY DEF FullPart, Commands, KernelPart, RamdiskPart
  <2>2. Rank("link_init") < Rank("install_init")
    BY DEF Rank
  <2> QED
    BY <1>2, <2>1, <2>2 DEF BInv, Gapless
<1>8. Done'
  BY <1>2, <1>3, <1>a, <1>4 DEF LinkInit, Done, InFull, Gapless, FullPart, KernelPart, Facts, BInv, Absent
<1>9. DoneKernel'
  BY <1>2, <1>3, <1>4 DEF LinkInit, Done, DoneKernel, InFull, Gapless, FullPart, Facts, BInv, Absent, Blank
<1> QED
  BY <1>2, <1>5, <1>6, <1>7, <1>8, <1>9 DEF BInv

LEMMA MakeBundleStep ==
  ASSUME BInv, MakeBundle
  PROVE  BInv'
<1>1. Does("make_bundle") /\ UNCHANGED kept
  BY DEF MakeBundle, Command
<1>2. /\ todo # <<>> /\ outcome = "running" /\ "make_bundle" \in Left /\ Left' = Left \ {"make_bundle"}
      /\ UNCHANGED <<src, arch, script, start, built, everFailed, kept>> /\ Gapless'
  BY <1>1, Popped
<1>3. \A d \in Left : d \notin {"compile_libc", "archive_libc", "need_libc", "compile_init",
                               "link_init"}
  BY <1>1, Popped DEF Rank
<1>4. Facts
  BY BInvFacts
<1>5. Shape'
  <2>1. TaggedFiles'
    BY <1>2, <1>4 DEF MakeBundle, TaggedFiles, Tagged, Facts
  <2> QED
    BY <1>1, <2>1, ShapeStep
<1>6. Made'
  BY <1>2, <1>3, <1>4 DEF MakeBundle, Made, Halfway, ForItsArch, LibcObjects, InitObjects, KernelBuilt, Facts, BInv, Absent, Blank
<1>7. Halfway'
  <2>1. ForItsArch'
    BY <1>2, <1>3, <1>4 DEF MakeBundle, Halfway, ForItsArch, BInv
  <2>2. LibcObjects'
    BY <1>2, <1>3, <1>4 DEF MakeBundle, Halfway, LibcObjects, Facts, BInv
  <2>3. LibcThere'
    BY <1>2, <1>3, <1>4 DEF MakeBundle, Halfway, LibcThere, Made, Facts, Absent, BInv
  <2>4. InitObjects'
    BY <1>2, <1>3, <1>4 DEF MakeBundle, Halfway, InitObjects, LibcThere, Made, Facts, Absent, BInv
  <2>5. KernelBuilt'
    BY <1>2, <1>3, <1>4 DEF MakeBundle, Halfway, KernelBuilt, Facts, BInv
  <2>6. ImageFilled'
    BY <1>2, <1>3, <1>4 DEF MakeBundle, Halfway, ImageFilled, Made, Facts, Absent, Blank, BInv
  <2> QED
    BY <2>1, <2>2, <2>3, <2>4, <2>5, <2>6 DEF Halfway
<1>8. Done'
  BY <1>2, <1>3, <1>4 DEF MakeBundle, Done, InFull, Gapless, FullPart, KernelPart, Facts, BInv, Absent
<1>9. DoneKernel'
  BY <1>2, <1>3, <1>4 DEF MakeBundle, Done, DoneKernel, InFull, Gapless, FullPart, Facts, BInv, Absent, Blank
<1> QED
  BY <1>2, <1>5, <1>6, <1>7, <1>8, <1>9 DEF BInv

LEMMA CompileKextStep ==
  ASSUME BInv, CompileKext
  PROVE  BInv'
<1>1. Does("compile_kext") /\ UNCHANGED kept
  BY DEF CompileKext, Command
<1>2. /\ todo # <<>> /\ outcome = "running" /\ "compile_kext" \in Left /\ Left' = Left \ {"compile_kext"}
      /\ UNCHANGED <<src, arch, script, start, built, everFailed, kept>> /\ Gapless'
  BY <1>1, Popped
<1>3. \A d \in Left : d \notin {"compile_libc", "archive_libc", "need_libc", "compile_init",
                               "link_init", "make_bundle"}
  BY <1>1, Popped DEF Rank
<1>4. Facts
  BY BInvFacts
<1>5. Shape'
  <2>1. TaggedFiles'
    BY <1>2, <1>4 DEF CompileKext, TaggedFiles, Tagged, Facts
  <2> QED
    BY <1>1, <2>1, ShapeStep
<1>6. Made'
  BY <1>2, <1>3, <1>4 DEF CompileKext, Made, Halfway, ForItsArch, LibcObjects, InitObjects, KernelBuilt, Facts, BInv, Absent, Blank
<1>7. Halfway'
  <2>1. ForItsArch'
    BY <1>2, <1>3, <1>4 DEF CompileKext, Halfway, ForItsArch, BInv
  <2>2. LibcObjects'
    BY <1>2, <1>3, <1>4 DEF CompileKext, Halfway, LibcObjects, Facts, BInv
  <2>3. LibcThere'
    BY <1>2, <1>3, <1>4 DEF CompileKext, Halfway, LibcThere, Made, Facts, Absent, BInv
  <2>4. InitObjects'
    BY <1>2, <1>3, <1>4 DEF CompileKext, Halfway, InitObjects, LibcThere, Made, Facts, Absent, BInv
  <2>5. KernelBuilt'
    BY <1>2, <1>3, <1>4 DEF CompileKext, Halfway, KernelBuilt, Facts, BInv
  <2>6. ImageFilled'
    BY <1>2, <1>3, <1>4 DEF CompileKext, Halfway, ImageFilled, Made, Facts, Absent, Blank, BInv
  <2> QED
    BY <2>1, <2>2, <2>3, <2>4, <2>5, <2>6 DEF Halfway
<1>8. Done'
  BY <1>2, <1>3, <1>4 DEF CompileKext, Done, InFull, Gapless, FullPart, KernelPart, Facts, BInv, Absent
<1>9. DoneKernel'
  BY <1>2, <1>3, <1>4 DEF CompileKext, Done, DoneKernel, InFull, Gapless, FullPart, Facts, BInv, Absent, Blank
<1> QED
  BY <1>2, <1>5, <1>6, <1>7, <1>8, <1>9 DEF BInv

LEMMA LinkKextStep ==
  ASSUME BInv, LinkKext
  PROVE  BInv'
<1>1. Does("link_kext") /\ UNCHANGED kept
  BY DEF LinkKext, Command
<1>2. /\ todo # <<>> /\ outcome = "running" /\ "link_kext" \in Left /\ Left' = Left \ {"link_kext"}
      /\ UNCHANGED <<src, arch, script, start, built, everFailed, kept>> /\ Gapless'
  BY <1>1, Popped
<1>3. \A d \in Left : d \notin {"compile_libc", "archive_libc", "need_libc", "compile_init",
                               "link_init", "make_bundle", "compile_kext"}
  BY <1>1, Popped DEF Rank
<1>4. Facts
  BY BInvFacts
<1>5. Shape'
  <2>1. TaggedFiles'
    BY <1>2, <1>4 DEF LinkKext, TaggedFiles, Tagged, Facts
  <2> QED
    BY <1>1, <2>1, ShapeStep
<1>6. Made'
  BY <1>2, <1>3, <1>4 DEF LinkKext, Made, Halfway, ForItsArch, LibcObjects, InitObjects, KernelBuilt, Facts, BInv, Absent, Blank
<1>7. Halfway'
  <2>1. ForItsArch'
    BY <1>2, <1>3, <1>4 DEF LinkKext, Halfway, ForItsArch, BInv
  <2>2. LibcObjects'
    BY <1>2, <1>3, <1>4 DEF LinkKext, Halfway, LibcObjects, Facts, BInv
  <2>3. LibcThere'
    BY <1>2, <1>3, <1>4 DEF LinkKext, Halfway, LibcThere, Made, Facts, Absent, BInv
  <2>4. InitObjects'
    BY <1>2, <1>3, <1>4 DEF LinkKext, Halfway, InitObjects, LibcThere, Made, Facts, Absent, BInv
  <2>5. KernelBuilt'
    BY <1>2, <1>3, <1>4 DEF LinkKext, Halfway, KernelBuilt, Facts, BInv
  <2>6. ImageFilled'
    BY <1>2, <1>3, <1>4 DEF LinkKext, Halfway, ImageFilled, Made, Facts, Absent, Blank, BInv
  <2> QED
    BY <2>1, <2>2, <2>3, <2>4, <2>5, <2>6 DEF Halfway
<1>8. Done'
  BY <1>2, <1>3, <1>4 DEF LinkKext, Done, InFull, Gapless, FullPart, KernelPart, Facts, BInv, Absent
<1>9. DoneKernel'
  BY <1>2, <1>3, <1>4 DEF LinkKext, Done, DoneKernel, InFull, Gapless, FullPart, Facts, BInv, Absent, Blank
<1> QED
  BY <1>2, <1>5, <1>6, <1>7, <1>8, <1>9 DEF BInv

LEMMA MakeKernelStep ==
  ASSUME BInv, MakeKernel
  PROVE  BInv'
<1>1. Does("make_kernel") /\ UNCHANGED kept
  BY DEF MakeKernel, Command
<1>2. /\ todo # <<>> /\ outcome = "running" /\ "make_kernel" \in Left /\ Left' = Left \ {"make_kernel"}
      /\ UNCHANGED <<src, arch, script, start, built, everFailed, kept>> /\ Gapless'
  BY <1>1, Popped
<1>3. \A d \in Left : d \notin {"compile_libc", "archive_libc", "need_libc", "compile_init",
                               "link_init", "make_bundle", "compile_kext", "link_kext"}
  BY <1>1, Popped DEF Rank
<1>4. Facts
  BY BInvFacts
<1>5. Shape'
  <2>1. TaggedFiles'
    BY <1>2, <1>4 DEF MakeKernel, TaggedFiles, Tagged, Facts
  <2> QED
    BY <1>1, <2>1, ShapeStep
<1>6. Made'
  BY <1>2, <1>3, <1>4 DEF MakeKernel, Made, Halfway, ForItsArch, LibcObjects, InitObjects, KernelBuilt, Facts, BInv, Absent, Blank
<1>7. Halfway'
  <2>1. ForItsArch'
    BY <1>2, <1>3, <1>4 DEF MakeKernel, Halfway, ForItsArch, BInv
  <2>2. LibcObjects'
    BY <1>2, <1>3, <1>4 DEF MakeKernel, Halfway, LibcObjects, Facts, BInv
  <2>3. LibcThere'
    BY <1>2, <1>3, <1>4 DEF MakeKernel, Halfway, LibcThere, Made, Facts, Absent, BInv
  <2>4. InitObjects'
    BY <1>2, <1>3, <1>4 DEF MakeKernel, Halfway, InitObjects, LibcThere, Made, Facts, Absent, BInv
  <2>5. KernelBuilt'
    BY <1>2, <1>3, <1>4 DEF MakeKernel, Halfway, KernelBuilt, Facts, BInv
  <2>6. ImageFilled'
    BY <1>2, <1>3, <1>4 DEF MakeKernel, Halfway, ImageFilled, Made, Facts, Absent, Blank, BInv
  <2> QED
    BY <2>1, <2>2, <2>3, <2>4, <2>5, <2>6 DEF Halfway
<1>a. InFull /\ script = "all" => "cache_kernel" \in Left /\ "copy_kernel" \in Left
  <2>1. script = "all" => "cache_kernel" \in FullPart /\ "copy_kernel" \in FullPart
    BY DEF FullPart, Commands, KernelPart
  <2>2. Rank("make_kernel") < Rank("cache_kernel") /\ Rank("make_kernel") < Rank("copy_kernel")
    BY DEF Rank
  <2> QED
    BY <1>2, <2>1, <2>2 DEF BInv, Gapless
<1>8. Done'
  BY <1>2, <1>3, <1>4 DEF MakeKernel, Done, InFull, Gapless, FullPart, KernelPart, Facts, BInv, Absent
<1>9. DoneKernel'
  BY <1>2, <1>3, <1>a, <1>4 DEF MakeKernel, Done, DoneKernel, InFull, Gapless, FullPart, Facts, BInv, Absent, Blank
<1> QED
  BY <1>2, <1>5, <1>6, <1>7, <1>8, <1>9 DEF BInv

LEMMA KeepKernelStep ==
  ASSUME BInv, KeepKernel
  PROVE  BInv'
<1>1. Does("make_kernel") /\ kept' = TRUE /\ kernel # Absent /\ UNCHANGED files
  BY DEF KeepKernel
<1>2. /\ todo # <<>> /\ outcome = "running" /\ "make_kernel" \in Left /\ Left' = Left \ {"make_kernel"}
      /\ UNCHANGED <<src, arch, script, start, built, everFailed>> /\ Gapless'
  BY <1>1, Popped
<1>3. \A d \in Left : d \notin {"compile_libc", "archive_libc", "need_libc", "compile_init",
                               "link_init", "make_bundle", "compile_kext", "link_kext"}
  BY <1>1, Popped DEF Rank
<1>4. Facts
  BY BInvFacts
<1>5. Shape'
  <2>1. TaggedFiles'
    BY <1>1, <1>2, <1>4 DEF TaggedFiles, Tagged, Facts, files
  <2> QED
    BY <1>1, <2>1, ShapeStep
<1>6. Made'
  BY <1>1, <1>2, <1>3, <1>4 DEF Made, Halfway, ForItsArch, LibcObjects, InitObjects, KernelBuilt, Facts, BInv, Absent, Blank, files
<1>7. Halfway'
  <2>1. ForItsArch'
    BY <1>1, <1>2, <1>3, <1>4 DEF Halfway, ForItsArch, BInv, files
  <2>2. LibcObjects'
    BY <1>1, <1>2, <1>3, <1>4 DEF Halfway, LibcObjects, Facts, BInv, files
  <2>3. LibcThere'
    BY <1>1, <1>2, <1>3, <1>4 DEF Halfway, LibcThere, Made, Facts, Absent, BInv, files
  <2>4. InitObjects'
    BY <1>1, <1>2, <1>3, <1>4 DEF Halfway, InitObjects, LibcThere, Made, Facts, Absent, BInv, files
  <2>5. KernelBuilt'
    BY <1>1, <1>2, <1>3, <1>4 DEF Halfway, KernelBuilt, Facts, BInv, files
  <2>6. ImageFilled'
    BY <1>1, <1>2, <1>3, <1>4 DEF Halfway, ImageFilled, Made, Facts, Absent, Blank, BInv, files
  <2> QED
    BY <2>1, <2>2, <2>3, <2>4, <2>5, <2>6 DEF Halfway
<1>a. InFull /\ script = "all" => "cache_kernel" \in Left /\ "copy_kernel" \in Left
  <2>1. script = "all" => "cache_kernel" \in FullPart /\ "copy_kernel" \in FullPart
    BY DEF FullPart, Commands, KernelPart
  <2>2. Rank("make_kernel") < Rank("cache_kernel") /\ Rank("make_kernel") < Rank("copy_kernel")
    BY DEF Rank
  <2> QED
    BY <1>1, <1>2, <2>1, <2>2 DEF BInv, Gapless
<1>8. Done'
  BY <1>1, <1>2, <1>3, <1>4 DEF Done, InFull, Gapless, FullPart, KernelPart, Facts, BInv, Absent, files
<1>9. DoneKernel'
  BY <1>1, <1>2, <1>3, <1>a, <1>4 DEF Done, DoneKernel, InFull, Gapless, FullPart, Facts, BInv, Absent, Blank, files
<1> QED
  BY <1>1, <1>2, <1>5, <1>6, <1>7, <1>8, <1>9 DEF BInv

LEMMA StageKextStep ==
  ASSUME BInv, StageKext
  PROVE  BInv'
<1>1. Does("stage_kext") /\ UNCHANGED kept
  BY DEF StageKext, Command
<1>2. /\ todo # <<>> /\ outcome = "running" /\ "stage_kext" \in Left /\ Left' = Left \ {"stage_kext"}
      /\ UNCHANGED <<src, arch, script, start, built, everFailed, kept>> /\ Gapless'
  BY <1>1, Popped
<1>3. \A d \in Left : d \notin {"compile_libc", "archive_libc", "need_libc", "compile_init",
                               "link_init", "make_bundle", "compile_kext", "link_kext",
                               "make_kernel"}
  BY <1>1, Popped DEF Rank
<1>4. Facts
  BY BInvFacts
<1>5. Shape'
  <2>1. TaggedFiles'
    BY <1>2, <1>4 DEF StageKext, TaggedFiles, Tagged, Facts
  <2> QED
    BY <1>1, <2>1, ShapeStep
<1>6. Made'
  BY <1>2, <1>3, <1>4 DEF StageKext, Made, Halfway, ForItsArch, LibcObjects, InitObjects, KernelBuilt, Facts, BInv, Absent, Blank
<1>7. Halfway'
  <2>1. ForItsArch'
    BY <1>2, <1>3, <1>4 DEF StageKext, Halfway, ForItsArch, BInv
  <2>2. LibcObjects'
    BY <1>2, <1>3, <1>4 DEF StageKext, Halfway, LibcObjects, Facts, BInv
  <2>3. LibcThere'
    BY <1>2, <1>3, <1>4 DEF StageKext, Halfway, LibcThere, Made, Facts, Absent, BInv
  <2>4. InitObjects'
    BY <1>2, <1>3, <1>4 DEF StageKext, Halfway, InitObjects, LibcThere, Made, Facts, Absent, BInv
  <2>5. KernelBuilt'
    BY <1>2, <1>3, <1>4 DEF StageKext, Halfway, KernelBuilt, Facts, BInv
  <2>6. ImageFilled'
    BY <1>2, <1>3, <1>4 DEF StageKext, Halfway, ImageFilled, Made, Facts, Absent, Blank, BInv
  <2> QED
    BY <2>1, <2>2, <2>3, <2>4, <2>5, <2>6 DEF Halfway
<1>8. Done'
  BY <1>2, <1>3, <1>4 DEF StageKext, Done, InFull, Gapless, FullPart, KernelPart, Facts, BInv, Absent
<1>9. DoneKernel'
  BY <1>2, <1>3, <1>4 DEF StageKext, Done, DoneKernel, InFull, Gapless, FullPart, Facts, BInv, Absent, Blank
<1> QED
  BY <1>2, <1>5, <1>6, <1>7, <1>8, <1>9 DEF BInv

LEMMA CacheKernelStep ==
  ASSUME BInv, CacheKernel
  PROVE  BInv'
<1>1. Does("cache_kernel") /\ UNCHANGED kept
  BY DEF CacheKernel, Command
<1>2. /\ todo # <<>> /\ outcome = "running" /\ "cache_kernel" \in Left /\ Left' = Left \ {"cache_kernel"}
      /\ UNCHANGED <<src, arch, script, start, built, everFailed, kept>> /\ Gapless'
  BY <1>1, Popped
<1>3. \A d \in Left : d \notin {"compile_libc", "archive_libc", "need_libc", "compile_init",
                               "link_init", "make_bundle", "compile_kext", "link_kext",
                               "make_kernel", "stage_kext"}
  BY <1>1, Popped DEF Rank
<1>4. Facts
  BY BInvFacts
<1>5. Shape'
  <2>1. TaggedFiles'
    BY <1>2, <1>4 DEF CacheKernel, TaggedFiles, Tagged, Facts
  <2> QED
    BY <1>1, <2>1, ShapeStep
<1>6. Made'
  BY <1>2, <1>3, <1>4 DEF CacheKernel, Made, Halfway, ForItsArch, LibcObjects, InitObjects, KernelBuilt, Facts, BInv, Absent, Blank
<1>7. Halfway'
  <2>1. ForItsArch'
    BY <1>2, <1>3, <1>4 DEF CacheKernel, Halfway, ForItsArch, BInv
  <2>2. LibcObjects'
    BY <1>2, <1>3, <1>4 DEF CacheKernel, Halfway, LibcObjects, Facts, BInv
  <2>3. LibcThere'
    BY <1>2, <1>3, <1>4 DEF CacheKernel, Halfway, LibcThere, Made, Facts, Absent, BInv
  <2>4. InitObjects'
    BY <1>2, <1>3, <1>4 DEF CacheKernel, Halfway, InitObjects, LibcThere, Made, Facts, Absent, BInv
  <2>5. KernelBuilt'
    BY <1>2, <1>3, <1>4 DEF CacheKernel, Halfway, KernelBuilt, Facts, BInv
  <2>6. ImageFilled'
    BY <1>2, <1>3, <1>4 DEF CacheKernel, Halfway, ImageFilled, Made, Facts, Absent, Blank, BInv
  <2> QED
    BY <2>1, <2>2, <2>3, <2>4, <2>5, <2>6 DEF Halfway
<1>a. InFull /\ script = "all" => "copy_kernel" \in Left
  <2>1. script = "all" => "copy_kernel" \in FullPart
    BY DEF FullPart, Commands, KernelPart
  <2>2. Rank("cache_kernel") < Rank("copy_kernel")
    BY DEF Rank
  <2> QED
    BY <1>2, <2>1, <2>2 DEF BInv, Gapless
<1>8. Done'
  BY <1>2, <1>3, <1>4 DEF CacheKernel, Done, InFull, Gapless, FullPart, KernelPart, Facts, BInv, Absent
<1>9. DoneKernel'
  BY <1>2, <1>3, <1>a, <1>4 DEF CacheKernel, Done, DoneKernel, InFull, Gapless, FullPart, Facts, BInv, Absent, Blank
<1> QED
  BY <1>2, <1>5, <1>6, <1>7, <1>8, <1>9 DEF BInv

LEMMA CopyKernelStep ==
  ASSUME BInv, CopyKernel
  PROVE  BInv'
<1>1. Does("copy_kernel") /\ UNCHANGED kept
  BY DEF CopyKernel, Command
<1>2. /\ todo # <<>> /\ outcome = "running" /\ "copy_kernel" \in Left /\ Left' = Left \ {"copy_kernel"}
      /\ UNCHANGED <<src, arch, script, start, built, everFailed, kept>> /\ Gapless'
  BY <1>1, Popped
<1>3. \A d \in Left : d \notin {"compile_libc", "archive_libc", "need_libc", "compile_init",
                               "link_init", "make_bundle", "compile_kext", "link_kext",
                               "make_kernel", "stage_kext", "cache_kernel"}
  BY <1>1, Popped DEF Rank
<1>4. Facts
  BY BInvFacts
<1>5. Shape'
  <2>1. TaggedFiles'
    BY <1>2, <1>4 DEF CopyKernel, TaggedFiles, Tagged, Facts
  <2> QED
    BY <1>1, <2>1, ShapeStep
<1>6. Made'
  BY <1>2, <1>3, <1>4 DEF CopyKernel, Made, Halfway, ForItsArch, LibcObjects, InitObjects, KernelBuilt, Facts, BInv, Absent, Blank
<1>7. Halfway'
  <2>1. ForItsArch'
    BY <1>2, <1>3, <1>4 DEF CopyKernel, Halfway, ForItsArch, BInv
  <2>2. LibcObjects'
    BY <1>2, <1>3, <1>4 DEF CopyKernel, Halfway, LibcObjects, Facts, BInv
  <2>3. LibcThere'
    BY <1>2, <1>3, <1>4 DEF CopyKernel, Halfway, LibcThere, Made, Facts, Absent, BInv
  <2>4. InitObjects'
    BY <1>2, <1>3, <1>4 DEF CopyKernel, Halfway, InitObjects, LibcThere, Made, Facts, Absent, BInv
  <2>5. KernelBuilt'
    BY <1>2, <1>3, <1>4 DEF CopyKernel, Halfway, KernelBuilt, Facts, BInv
  <2>6. ImageFilled'
    BY <1>2, <1>3, <1>4 DEF CopyKernel, Halfway, ImageFilled, Made, Facts, Absent, Blank, BInv
  <2> QED
    BY <2>1, <2>2, <2>3, <2>4, <2>5, <2>6 DEF Halfway
<1>8. Done'
  BY <1>2, <1>3, <1>4 DEF CopyKernel, Done, InFull, Gapless, FullPart, KernelPart, Facts, BInv, Absent
<1>9. DoneKernel'
  BY <1>2, <1>3, <1>4 DEF CopyKernel, Done, DoneKernel, InFull, Gapless, FullPart, Facts, BInv, Absent, Blank
<1> QED
  BY <1>2, <1>5, <1>6, <1>7, <1>8, <1>9 DEF BInv

LEMMA RemoveImageStep ==
  ASSUME BInv, RemoveImage
  PROVE  BInv'
<1>1. Does("remove_image") /\ UNCHANGED kept
  BY DEF RemoveImage, Command
<1>2. /\ todo # <<>> /\ outcome = "running" /\ "remove_image" \in Left /\ Left' = Left \ {"remove_image"}
      /\ UNCHANGED <<src, arch, script, start, built, everFailed, kept>> /\ Gapless'
  BY <1>1, Popped
<1>3. \A d \in Left : d \notin {"compile_libc", "archive_libc", "need_libc", "compile_init",
                               "link_init", "make_bundle", "compile_kext", "link_kext",
                               "make_kernel", "stage_kext", "cache_kernel", "copy_kernel",
                               "need_init"}
  BY <1>1, Popped DEF Rank
<1>4. Facts
  BY BInvFacts
<1>5. Shape'
  <2>1. TaggedFiles'
    BY <1>2, <1>4 DEF RemoveImage, TaggedFiles, Tagged, Facts
  <2> QED
    BY <1>1, <2>1, ShapeStep
<1>6. Made'
  BY <1>2, <1>3, <1>4 DEF RemoveImage, Made, Halfway, ForItsArch, LibcObjects, InitObjects, KernelBuilt, Facts, BInv, Absent, Blank
<1>7. Halfway'
  <2>1. ForItsArch'
    BY <1>2, <1>3, <1>4 DEF RemoveImage, Halfway, ForItsArch, BInv
  <2>2. LibcObjects'
    BY <1>2, <1>3, <1>4 DEF RemoveImage, Halfway, LibcObjects, Facts, BInv
  <2>3. LibcThere'
    BY <1>2, <1>3, <1>4 DEF RemoveImage, Halfway, LibcThere, Made, Facts, Absent, BInv
  <2>4. InitObjects'
    BY <1>2, <1>3, <1>4 DEF RemoveImage, Halfway, InitObjects, LibcThere, Made, Facts, Absent, BInv
  <2>5. KernelBuilt'
    BY <1>2, <1>3, <1>4 DEF RemoveImage, Halfway, KernelBuilt, Facts, BInv
  <2>6. ImageFilled'
    BY <1>2, <1>3, <1>4 DEF RemoveImage, Halfway, ImageFilled, Made, Facts, Absent, Blank, BInv
  <2> QED
    BY <2>1, <2>2, <2>3, <2>4, <2>5, <2>6 DEF Halfway
<1>a. InFull => "install_init" \in Left
  <2>1. "install_init" \in FullPart
    BY DEF FullPart, Commands, KernelPart, RamdiskPart
  <2>2. Rank("remove_image") < Rank("install_init")
    BY DEF Rank
  <2> QED
    BY <1>2, <2>1, <2>2 DEF BInv, Gapless
<1>8. Done'
  BY <1>2, <1>3, <1>a, <1>4 DEF RemoveImage, Done, InFull, Gapless, FullPart, KernelPart, Facts, BInv, Absent
<1>9. DoneKernel'
  BY <1>2, <1>3, <1>4 DEF RemoveImage, Done, DoneKernel, InFull, Gapless, FullPart, Facts, BInv, Absent, Blank
<1> QED
  BY <1>2, <1>5, <1>6, <1>7, <1>8, <1>9 DEF BInv

LEMMA CreateImageStep ==
  ASSUME BInv, CreateImage
  PROVE  BInv'
<1>1. Does("create_image") /\ UNCHANGED kept
  BY DEF CreateImage, Command
<1>2. /\ todo # <<>> /\ outcome = "running" /\ "create_image" \in Left /\ Left' = Left \ {"create_image"}
      /\ UNCHANGED <<src, arch, script, start, built, everFailed, kept>> /\ Gapless'
  BY <1>1, Popped
<1>3. \A d \in Left : d \notin {"compile_libc", "archive_libc", "need_libc", "compile_init",
                               "link_init", "make_bundle", "compile_kext", "link_kext",
                               "make_kernel", "stage_kext", "cache_kernel", "copy_kernel",
                               "need_init", "remove_image"}
  BY <1>1, Popped DEF Rank
<1>4. Facts
  BY BInvFacts
<1>5. Shape'
  <2>1. TaggedFiles'
    BY <1>2, <1>4 DEF CreateImage, TaggedFiles, Tagged, Facts
  <2> QED
    BY <1>1, <2>1, ShapeStep
<1>6. Made'
  BY <1>2, <1>3, <1>4 DEF CreateImage, Made, Halfway, ForItsArch, LibcObjects, InitObjects, KernelBuilt, Facts, BInv, Absent, Blank
<1>7. Halfway'
  <2>1. ForItsArch'
    BY <1>2, <1>3, <1>4 DEF CreateImage, Halfway, ForItsArch, BInv
  <2>2. LibcObjects'
    BY <1>2, <1>3, <1>4 DEF CreateImage, Halfway, LibcObjects, Facts, BInv
  <2>3. LibcThere'
    BY <1>2, <1>3, <1>4 DEF CreateImage, Halfway, LibcThere, Made, Facts, Absent, BInv
  <2>4. InitObjects'
    BY <1>2, <1>3, <1>4 DEF CreateImage, Halfway, InitObjects, LibcThere, Made, Facts, Absent, BInv
  <2>5. KernelBuilt'
    BY <1>2, <1>3, <1>4 DEF CreateImage, Halfway, KernelBuilt, Facts, BInv
  <2>6. ImageFilled'
    BY <1>2, <1>3, <1>4 DEF CreateImage, Halfway, ImageFilled, Made, Facts, Absent, Blank, BInv
  <2> QED
    BY <2>1, <2>2, <2>3, <2>4, <2>5, <2>6 DEF Halfway
<1>a. InFull => "install_init" \in Left
  <2>1. "install_init" \in FullPart
    BY DEF FullPart, Commands, KernelPart, RamdiskPart
  <2>2. Rank("create_image") < Rank("install_init")
    BY DEF Rank
  <2> QED
    BY <1>2, <2>1, <2>2 DEF BInv, Gapless
<1>8. Done'
  BY <1>2, <1>3, <1>a, <1>4 DEF CreateImage, Done, InFull, Gapless, FullPart, KernelPart, Facts, BInv, Absent
<1>9. DoneKernel'
  BY <1>2, <1>3, <1>4 DEF CreateImage, Done, DoneKernel, InFull, Gapless, FullPart, Facts, BInv, Absent, Blank
<1> QED
  BY <1>2, <1>5, <1>6, <1>7, <1>8, <1>9 DEF BInv

LEMMA InstallInitStep ==
  ASSUME BInv, InstallInit
  PROVE  BInv'
<1>1. Does("install_init") /\ UNCHANGED kept
  BY DEF InstallInit, Command
<1>2. /\ todo # <<>> /\ outcome = "running" /\ "install_init" \in Left /\ Left' = Left \ {"install_init"}
      /\ UNCHANGED <<src, arch, script, start, built, everFailed, kept>> /\ Gapless'
  BY <1>1, Popped
<1>3. \A d \in Left : d \notin {"compile_libc", "archive_libc", "need_libc", "compile_init",
                               "link_init", "make_bundle", "compile_kext", "link_kext",
                               "make_kernel", "stage_kext", "cache_kernel", "copy_kernel",
                               "need_init", "remove_image", "create_image"}
  BY <1>1, Popped DEF Rank
<1>4. Facts
  BY BInvFacts
<1>5. Shape'
  <2>1. TaggedFiles'
    BY <1>2, <1>4 DEF InstallInit, TaggedFiles, Tagged, Facts
  <2> QED
    BY <1>1, <2>1, ShapeStep
<1>6. Made'
  BY <1>2, <1>3, <1>4 DEF InstallInit, Made, Halfway, ForItsArch, LibcObjects, InitObjects, KernelBuilt, Facts, BInv, Absent, Blank
<1>7. Halfway'
  <2>1. ForItsArch'
    BY <1>2, <1>3, <1>4 DEF InstallInit, Halfway, ForItsArch, BInv
  <2>2. LibcObjects'
    BY <1>2, <1>3, <1>4 DEF InstallInit, Halfway, LibcObjects, Facts, BInv
  <2>3. LibcThere'
    BY <1>2, <1>3, <1>4 DEF InstallInit, Halfway, LibcThere, Made, Facts, Absent, BInv
  <2>4. InitObjects'
    BY <1>2, <1>3, <1>4 DEF InstallInit, Halfway, InitObjects, LibcThere, Made, Facts, Absent, BInv
  <2>5. KernelBuilt'
    BY <1>2, <1>3, <1>4 DEF InstallInit, Halfway, KernelBuilt, Facts, BInv
  <2>6. ImageFilled'
    BY <1>2, <1>3, <1>4 DEF InstallInit, Halfway, ImageFilled, Made, Facts, Absent, Blank, BInv
  <2> QED
    BY <2>1, <2>2, <2>3, <2>4, <2>5, <2>6 DEF Halfway
<1>8. Done'
  BY <1>2, <1>3, <1>4 DEF InstallInit, Done, InFull, Gapless, FullPart, KernelPart, Facts, BInv, Absent
<1>9. DoneKernel'
  BY <1>2, <1>3, <1>4 DEF InstallInit, Done, DoneKernel, InFull, Gapless, FullPart, Facts, BInv, Absent, Blank
<1> QED
  BY <1>2, <1>5, <1>6, <1>7, <1>8, <1>9 DEF BInv

LEMMA DetachStep ==
  ASSUME BInv, Detach
  PROVE  BInv'
<1>1. Does("detach") /\ UNCHANGED kept
  BY DEF Detach, Command
<1>2. /\ todo # <<>> /\ outcome = "running" /\ "detach" \in Left /\ Left' = Left \ {"detach"}
      /\ UNCHANGED <<src, arch, script, start, built, everFailed, kept>> /\ Gapless'
  BY <1>1, Popped
<1>3. \A d \in Left : d \notin {"compile_libc", "archive_libc", "need_libc", "compile_init",
                               "link_init", "make_bundle", "compile_kext", "link_kext",
                               "make_kernel", "stage_kext", "cache_kernel", "copy_kernel",
                               "need_init", "remove_image", "create_image", "install_init"}
  BY <1>1, Popped DEF Rank
<1>4. Facts
  BY BInvFacts
<1>5. Shape'
  <2>1. TaggedFiles'
    BY <1>2, <1>4 DEF Detach, TaggedFiles, Tagged, Facts, files
  <2> QED
    BY <1>1, <2>1, ShapeStep
<1>6. Made'
  BY <1>2, <1>3, <1>4 DEF Detach, Made, Halfway, ForItsArch, LibcObjects, InitObjects, KernelBuilt, Facts, BInv, Absent, Blank, files
<1>7. Halfway'
  <2>1. ForItsArch'
    BY <1>2, <1>3, <1>4 DEF Detach, Halfway, ForItsArch, BInv, files
  <2>2. LibcObjects'
    BY <1>2, <1>3, <1>4 DEF Detach, Halfway, LibcObjects, Facts, BInv, files
  <2>3. LibcThere'
    BY <1>2, <1>3, <1>4 DEF Detach, Halfway, LibcThere, Made, Facts, Absent, BInv, files
  <2>4. InitObjects'
    BY <1>2, <1>3, <1>4 DEF Detach, Halfway, InitObjects, LibcThere, Made, Facts, Absent, BInv, files
  <2>5. KernelBuilt'
    BY <1>2, <1>3, <1>4 DEF Detach, Halfway, KernelBuilt, Facts, BInv, files
  <2>6. ImageFilled'
    BY <1>2, <1>3, <1>4 DEF Detach, Halfway, ImageFilled, Made, Facts, Absent, Blank, BInv, files
  <2> QED
    BY <2>1, <2>2, <2>3, <2>4, <2>5, <2>6 DEF Halfway
<1>8. Done'
  BY <1>2, <1>3, <1>4 DEF Detach, Done, InFull, Gapless, FullPart, KernelPart, Facts, BInv, Absent, files
<1>9. DoneKernel'
  BY <1>2, <1>3, <1>4 DEF Detach, Done, DoneKernel, InFull, Gapless, FullPart, Facts, BInv, Absent, Blank, files
<1> QED
  BY <1>2, <1>5, <1>6, <1>7, <1>8, <1>9 DEF BInv

\* A script called because a file is missing comes before the rest of its
\* caller.
LEMMA Called ==
  ASSUME BInv, NEW c \in Commands, NEW file, NEW s, Need(c, file, s), Rising(s),
         \A d \in Contents(s) : Rank(d) < Rank(c)
  PROVE  /\ Rising(todo)' /\ todo # <<>> /\ c \in Left /\ Left \subseteq Commands
         /\ Left' = (Left \ {c}) \cup (IF file = Absent THEN Contents(s) ELSE {})
         /\ \A d \in Left \ {c} : Rank(c) < Rank(d)
         /\ todo' = <<>> => Left' = {}
         /\ outcome = "running"
         /\ UNCHANGED <<src, files, arch, script, outcome, start, built, everFailed, kept>>
<1> DEFINE t == IF file = Absent THEN s ELSE <<>>
<1>1. todo # <<>> /\ Head(todo) = c /\ todo' = t \o Tail(todo) /\ Rising(todo)
  BY DEF Need, BInv, Shape
<1>2. /\ Rising(Tail(todo)) /\ c \in Left /\ Contents(Tail(todo)) = Left \ {c}
      /\ \A d \in Left \ {c} : Rank(c) < Rank(d)
  BY <1>1, Pop DEF Left
<1>3. Left \subseteq Commands
  BY <1>1, HeadIn DEF Left, Rising
<1>4. /\ Rising(t) /\ Contents(t) = IF file = Absent THEN Contents(s) ELSE {}
      /\ \A d \in Contents(t) : Rank(d) < Rank(c) /\ d \in Commands
  <2>1. Contents(s) \subseteq Commands
    BY DEF Contents, Rising
  <2> QED
    BY <2>1, EmptyRises
<1> HIDE DEF t
<1>5. \A d \in Contents(t), e \in Contents(Tail(todo)) : Rank(d) < Rank(e)
  BY <1>2, <1>3, <1>4, RankType
<1>6. Rising(todo') /\ Contents(todo') = Contents(t) \cup (Left \ {c})
  BY <1>1, <1>2, <1>4, <1>5, Prepend
<1>7. todo' = <<>> => Contents(todo') = {}
  BY EmptyRises
<1>8. outcome = "running"
  BY <1>1 DEF BInv, Shape, TypeOK
<1> QED
  BY <1>1, <1>2, <1>3, <1>4, <1>6, <1>7, <1>8 DEF Need, Left

LEMMA GaplessCall ==
  ASSUME BInv, NEW c \in Commands, Left' = Left \ {c}, Left \subseteq Commands, c \in Left,
         \A d \in Left \ {c} : Rank(c) < Rank(d), UNCHANGED <<script, outcome>>
  PROVE  Gapless'
<1>1. ASSUME InFull, NEW d \in Left \ {c}, NEW e \in FullPart, Rank(d) < Rank(e)
      PROVE  e \in Left \ {c}
  <2>1. Rank(c) < Rank(d) /\ d \in Commands /\ e \in Commands
    BY <1>1 DEF FullPart
  <2>2. e # c
    BY <1>1, <2>1, RankType
  <2> QED
    BY <1>1, <2>2 DEF Gapless, BInv
<1> QED
  BY <1>1 DEF Gapless, FullPart, InFull, BInv

LEMMA NeedLibcStep ==
  ASSUME BInv, NeedLibc
  PROVE  BInv'
<1>1. \A d \in Contents(LibcScript) : Rank(d) < Rank("need_libc")
  BY LibcRises DEF LibcPart, Rank
<1>2. /\ Rising(todo)' /\ todo # <<>> /\ "need_libc" \in Left /\ Left \subseteq Commands
      /\ Left' = (Left \ {"need_libc"}) \cup (IF libc[arch] = Absent THEN LibcPart ELSE {})
      /\ \A d \in Left \ {"need_libc"} : Rank("need_libc") < Rank(d)
      /\ todo' = <<>> => Left' = {}
      /\ outcome = "running"
      /\ UNCHANGED <<src, files, arch, script, outcome, start, built, everFailed, kept>>
  BY <1>1, Called, LibcRises DEF NeedLibc, Commands, InitPart
<1>3. "compile_libc" \notin Left /\ "archive_libc" \notin Left
  BY <1>2 DEF Rank
<1>4. Facts
  BY BInvFacts
<1>5. Shape'
  BY <1>2 DEF BInv, Shape, TypeOK, Halfway, LibcThere, files
<1>6. Made'
  BY <1>2 DEF BInv, Made, files
<1>7. Halfway'
  BY <1>2, <1>3, <1>4 DEF BInv, Halfway, ForItsArch, LibcObjects, LibcThere, InitObjects, KernelBuilt,
                     ImageFilled, LibcPart, files
<1>8. InFull => libc[arch] # Absent
  BY <1>3, <1>4 DEF BInv, Done, Facts
<1>9. Done' /\ DoneKernel'
  BY <1>2, <1>8 DEF BInv, Done, DoneKernel, InFull, files
<1>10. Gapless'
  <2>1. CASE InFull
    BY <1>2, <1>8, <2>1, GaplessCall DEF Commands, InitPart
  <2> QED
    BY <1>2, <2>1 DEF Gapless, InFull
<1> QED
  BY <1>5, <1>6, <1>7, <1>9, <1>10 DEF BInv

LEMMA NeedInitStep ==
  ASSUME BInv, NeedInit
  PROVE  BInv'
<1>1. \A d \in Contents(InitScript) : Rank(d) < Rank("need_init")
  BY InitRises DEF InitPart, Rank
<1>2. /\ Rising(todo)' /\ todo # <<>> /\ "need_init" \in Left /\ Left \subseteq Commands
      /\ Left' = (Left \ {"need_init"}) \cup (IF init[arch] = Absent THEN InitPart ELSE {})
      /\ \A d \in Left \ {"need_init"} : Rank("need_init") < Rank(d)
      /\ todo' = <<>> => Left' = {}
      /\ outcome = "running"
      /\ UNCHANGED <<src, files, arch, script, outcome, start, built, everFailed, kept>>
  BY <1>1, Called, InitRises DEF NeedInit, Commands, RamdiskPart
<1>3. \A d \in Left : d \notin {"compile_libc", "archive_libc", "need_libc", "compile_init",
                               "link_init", "make_kernel", "cache_kernel"}
  BY <1>2 DEF Rank
<1>4. Facts
  BY BInvFacts
<1>5. Shape'
  BY <1>2 DEF BInv, Shape, TypeOK, Halfway, ImageFilled, files
<1>6. Made'
  BY <1>2 DEF BInv, Made, files
<1>7. Halfway'
  BY <1>2, <1>3, <1>4 DEF BInv, Halfway, ForItsArch, LibcObjects, LibcThere, InitObjects, KernelBuilt,
                     ImageFilled, InitPart, files
<1>8. InFull => init[arch] # Absent
  BY <1>3, <1>4 DEF BInv, Done, Facts
<1>9. Done' /\ DoneKernel'
  BY <1>2, <1>8 DEF BInv, Done, DoneKernel, InFull, files
<1>10. Gapless'
  <2>1. CASE InFull
    BY <1>2, <1>8, <2>1, GaplessCall DEF Commands, RamdiskPart
  <2> QED
    BY <1>2, <2>1 DEF Gapless, InFull
<1> QED
  BY <1>5, <1>6, <1>7, <1>9, <1>10 DEF BInv
LEMMA FailStep ==
  ASSUME BInv, Fail
  PROVE  BInv'
<1>1. /\ todo' = <<>> /\ outcome' = "failed" /\ everFailed' = TRUE
      /\ UNCHANGED <<src, files, arch, script, start, built, kept>>
  BY DEF Fail
<1>2. Left' = {} /\ Rising(todo)'
  BY <1>1, EmptyRises DEF Left
<1>3. Shape'
  BY <1>1, <1>2 DEF BInv, Shape, TypeOK, files
<1>4. Made'
  BY <1>1 DEF BInv, Made, files
<1>5. Halfway'
  BY <1>1, <1>2 DEF Halfway, ForItsArch, LibcObjects, LibcThere, InitObjects, KernelBuilt, ImageFilled
<1>6. Done' /\ DoneKernel' /\ Gapless'
  BY <1>1 DEF Done, DoneKernel, Gapless, InFull
<1> QED
  BY <1>3, <1>4, <1>5, <1>6 DEF BInv

LEMMA RunStep ==
  ASSUME BInv, NEW s \in DOMAIN Scripts, NEW a \in Archs, Run(s, a)
  PROVE  BInv'
<1>1. /\ todo = <<>> /\ todo' = Scripts[s] /\ arch' = a /\ script' = s /\ outcome' = "running"
      /\ start' = src /\ built' = built \cup {a} /\ kept' = FALSE
      /\ UNCHANGED <<src, files, everFailed>>
  BY DEF Run
<1>2. /\ Rising(todo)' /\ todo' # <<>> /\ Left = {}
      /\ Left' \in {LibcPart, InitPart, KextPart, KernelPart, RamdiskPart,
                    Commands, Commands \ KernelPart}
      /\ s = "all" => Left' = Commands
      /\ s = "skip_kernel" => Left' = Commands \ KernelPart
  BY <1>1, ScriptsRise, EmptyRises DEF Left
<1>3. Facts
  BY BInvFacts
<1>4. Shape'
  <2>1. TypeOK'
    BY <1>1, <1>2 DEF BInv, Shape, TypeOK, files
  <2>2. \A p \in Part : start'[p] <= src'[p]
    BY <1>1, <1>3 DEF Facts
  <2> QED
    BY <1>1, <1>2, <2>1, <2>2 DEF BInv, Shape, files
<1>5. Made'
  BY <1>1 DEF BInv, Made, files
<1>6. Halfway'
  <2>1. ForItsArch' /\ LibcObjects' /\ KernelBuilt' /\ ImageFilled'
    BY <1>1, <1>2 DEF BInv, Halfway, ForItsArch, LibcObjects, KernelBuilt, ImageFilled, files, LibcPart,
                      InitPart, KextPart, KernelPart, RamdiskPart, Commands
  <2>2. LibcThere' /\ InitObjects'
    BY <1>1, <1>2 DEF LibcThere, InitObjects, LibcPart, InitPart, KextPart, KernelPart, RamdiskPart,
                      Commands
  <2> QED
    BY <2>1, <2>2 DEF Halfway
<1>7. ASSUME InFull' PROVE Left' = FullPart'
  BY <1>1, <1>2, <1>7 DEF InFull, FullPart
<1>8. Gapless'
  BY <1>7 DEF Gapless
<1>9. Done' /\ DoneKernel'
  BY <1>7 DEF Done, DoneKernel, FullPart, Commands, LibcPart, InitPart, KextPart, KernelPart, RamdiskPart
<1> QED
  BY <1>4, <1>5, <1>6, <1>8, <1>9 DEF BInv

LEMMA EditStep ==
  ASSUME BInv, NEW p \in Part, Edit(p)
  PROVE  BInv'
<1>1. /\ src' = [src EXCEPT ![p] = @ + 1] /\ Edits < MaxEdits
      /\ UNCHANGED <<files, arch, todo, script, outcome, start, built, everFailed, kept>>
  BY DEF Edit, run
<1>2. /\ src \in [Part -> 0 .. MaxEdits] /\ start \in [Part -> 0 .. MaxEdits]
      /\ \A q \in Part : start[q] <= src[q]
  BY DEF BInv, Shape, TypeOK
<1>3. /\ src' \in [Part -> 0 .. MaxEdits]
      /\ \A q \in Part : src[q] <= src'[q] /\ start[q] <= src'[q] /\ src[q] \in Nat /\ src'[q] \in Nat
  <2>1. src[p] < MaxEdits
    BY <1>1, <1>2, BuildAssumption DEF Edits, Part
  <2> QED
    BY <1>1, <1>2, <2>1, BuildAssumption
<1>4. Left' = Left /\ Rising(todo)'
  BY <1>1 DEF Left, BInv, Shape
<1>5. Shape'
  BY <1>1, <1>3, <1>4 DEF BInv, Shape, TypeOK, files
<1>6. Made'
  BY <1>1, <1>3 DEF BInv, Made, files, Part
<1>7. Halfway'
  BY <1>1, <1>4 DEF BInv, Halfway, ForItsArch, LibcObjects, LibcThere, InitObjects, KernelBuilt,
                    ImageFilled, files
<1>8. Done' /\ DoneKernel' /\ Gapless'
  BY <1>1, <1>4 DEF BInv, Done, DoneKernel, Gapless, InFull, FullPart, files
<1> QED
  BY <1>5, <1>6, <1>7, <1>8 DEF BInv

LEMMA IdleStep ==
  ASSUME BInv, UNCHANGED <<src, files, run>>
  PROVE  BInv'
<1>1. UNCHANGED <<src, files, arch, todo, script, outcome, start, built, everFailed, kept>>
  BY DEF run
<1>2. Left' = Left /\ Rising(todo)'
  BY <1>1 DEF Left, BInv, Shape
<1>3. Shape' /\ Made'
  BY <1>1, <1>2 DEF BInv, Shape, Made, TypeOK, files
<1>4. Halfway'
  BY <1>1, <1>2 DEF BInv, Halfway, ForItsArch, LibcObjects, LibcThere, InitObjects, KernelBuilt,
                    ImageFilled, files
<1>5. Done' /\ DoneKernel' /\ Gapless'
  BY <1>1, <1>2 DEF BInv, Done, DoneKernel, Gapless, InFull, FullPart, files
<1> QED
  BY <1>3, <1>4, <1>5 DEF BInv

LEMMA Preserved ==
  ASSUME BInv, [Next]_vars
  PROVE  BInv'
<1>1. CASE Step
  BY <1>1, CompileLibcStep, ArchiveLibcStep, NeedLibcStep, CompileInitStep, LinkInitStep, MakeBundleStep,
     CompileKextStep, LinkKextStep, MakeKernelStep, KeepKernelStep, StageKextStep, CacheKernelStep,
     CopyKernelStep, NeedInitStep, RemoveImageStep, CreateImageStep, InstallInitStep, DetachStep DEF Step
<1>2. CASE Fail
  BY <1>2, FailStep
<1>3. CASE Quit \/ \E a \in Archs : Launch(a)
  BY <1>3, IdleStep DEF Quit, Launch
<1>4. CASE \E a \in Archs : \E s \in DOMAIN Scripts : Run(s, a)
  BY <1>4, RunStep
<1>5. CASE \E p \in Part : Edit(p)
  BY <1>5, EditStep
<1>6. CASE UNCHANGED vars
  BY <1>6, IdleStep DEF vars
<1> QED
  BY <1>1, <1>2, <1>3, <1>4, <1>5, <1>6 DEF Next

LEMMA Initially ==
  ASSUME Init
  PROVE  BInv
<1>1. Left = {} /\ Rising(todo)
  BY EmptyRises DEF Init, Left
<1>2. Shape
  <2>1. \A f \in {obj[p] : p \in DOMAIN obj} \cup {kext, kernel, staging, kernelcache, symbols, ramdisk} :
          f = Absent
    BY DEF Init
  <2>2. TypeOK
    <3>a. 0 \in 0 .. MaxEdits
      BY BuildAssumption
    <3>b. src = [p \in Part |-> 0] /\ start = src
      BY DEF Init
    <3>1. src \in [Part -> 0 .. MaxEdits] /\ start \in [Part -> 0 .. MaxEdits]
      BY <3>a, <3>b
    <3>4. arch \in Archs /\ built \subseteq Archs /\ everFailed \in BOOLEAN /\ kept \in BOOLEAN
      BY DEF Init
    <3>2. Tagged(Absent) /\ \A a \in Archs : libc[a] = Absent /\ init[a] = Absent
      BY DEF Init, Tagged, Absent
    <3>3. outcome \in {"running", "done", "failed"} /\ (outcome = "running") = (todo # <<>>)
      BY DEF Init
    <3> QED
      BY <2>1, <3>1, <3>2, <3>3, <3>4 DEF TypeOK
  <2> QED
    BY <1>1, <2>2, BuildAssumption DEF Init, Shape
<1>3. Made /\ Halfway
  BY <1>1, BuildAssumption DEF Init, Made, Halfway, ForItsArch, LibcObjects, LibcThere, InitObjects,
        KernelBuilt, ImageFilled, Absent, Blank
<1>4. Done /\ DoneKernel /\ Gapless
  BY DEF Init, Done, DoneKernel, Gapless, InFull
<1> QED
  BY <1>2, <1>3, <1>4 DEF BInv

-----------------------------------------------------------------------------
(* Theorems *)

\* build/*.sh: the inductive invariant, from which the four theorems below follow.
THEOREM BuildInvariant == Spec => []BInv
BY Initially, Preserved, PTL DEF Spec

\* build/*.sh: the files are always those of some architecture, or missing,
\* and a script runs exactly while it has commands left.
THEOREM BuildTypes == Spec => []TypeOK
<1>1. BInv => TypeOK
  BY DEF BInv, Shape
<1> QED
  BY <1>1, BuildInvariant, PTL

\* build-all.sh:46-64: what a full build leaves is of its architecture and as
\* new as the sources it found, whatever earlier builds have left behind; the
\* kernel is so where make has written one.
THEOREM FullBuildIsCurrent == Spec => []FullBuildCurrent
<1>1. ASSUME BInv, outcome = "done", script \in {"all", "skip_kernel"}
      PROVE  FullBuildCurrent
  <2>1. todo = <<>>
    BY <1>1 DEF BInv, Shape, TypeOK
  <2>2. Left = {}
    BY <2>1, EmptyRises DEF Left
  <2> QED
    BY <1>1, <2>2 DEF BInv, Done, DoneKernel, InFull, FullBuildCurrent
<1>2. BInv => FullBuildCurrent
  BY <1>1 DEF FullBuildCurrent
<1> QED
  BY <1>2, BuildInvariant, PTL

\* build-init.sh, build-ramdisk.sh: no init, in the ramdisk or not, is put
\* together from parts of two architectures, though they share their places, and
\* none from headers older than its library, whatever failed before.
THEOREM PartsAlwaysFit == Spec => []PartsFit
<1>1. ASSUME BInv PROVE PartsFit
  <2>1. Facts
    BY <1>1, BInvFacts
  <2>2. \A a \in Archs : init[a] # Absent => init[a].arch = a
    BY <1>1 DEF BInv, Made
  <2>3. ASSUME NEW f \in {init[a] : a \in Archs} \cup {ramdisk}, f.arch \in Archs
        PROVE  f.lib.arch = f.arch /\ f.lib.libc <= f.headers
    <3>1. f # Absent /\ f # Blank
      BY <2>1, <2>3, BuildAssumption DEF Facts
    <3> QED
      BY <1>1, <2>3, <3>1 DEF BInv, Made
  <2> QED
    BY <1>1, <2>2, <2>3 DEF BInv, Made, PartsFit
<1> QED
  BY <1>1, BuildInvariant, PTL

\* run-qemu-x86.sh, run-qemu-arm64.sh: right after a full build whose make
\* wrote a kernel its system boots to init; a launcher meets files of another
\* architecture only where a script was run for another one, and a ramdisk
\* without init only after a failure.
THEOREM LaunchesAsBuilt == Spec => LaunchAfterBuild
<1>1. ASSUME BInv, NEW a \in Archs, Launch(a)
      PROVE  /\ outcome = "done" /\ script = "all" /\ a = arch /\ ~kept => booted' = "init"
             /\ booted' \in {"wrong_kernel", "wrong_init"} => built # {a}
             /\ booted' = "no_init" => everFailed
  <2>1. todo = <<>> /\ kernelcache # Absent /\ booted' = Boots(a)
    BY <1>1 DEF Launch
  <2>2. Left = {} /\ Facts /\ a # "none" /\ a # "blank"
    BY <1>1, <2>1, EmptyRises, BInvFacts, Absences DEF Left
  <2>3. ASSUME outcome = "done", script = "all", a = arch, ~kept
        PROVE  booted' = "init"
    <3>1. /\ init[arch].arch = arch /\ ramdisk = init[arch] /\ kernelcache.arch = arch
      BY <1>1, <2>2, <2>3 DEF BInv, Done, DoneKernel, InFull
    <3> QED
      BY <2>1, <2>2, <2>3, <3>1 DEF Boots, Facts
  <2>4. ASSUME booted' \in {"wrong_kernel", "wrong_init"}
        PROVE  built # {a}
    <3>1. kernelcache.arch # a \/ (ramdisk \notin {Absent, Blank} /\ ramdisk.arch # a)
      BY <2>1, <2>4 DEF Boots
    <3> QED
      BY <1>1, <2>1, <3>1 DEF BInv, Made
  <2>5. ASSUME booted' = "no_init"
        PROVE  everFailed
    BY <1>1, <2>1, <2>2, <2>5 DEF Boots, BInv, Halfway, ImageFilled
  <2> QED
    BY <2>3, <2>4, <2>5
<1>2. BInv /\ [Next]_vars =>
        [\A a \in Archs : Launch(a) =>
             /\ outcome = "done" /\ script = "all" /\ a = arch /\ ~kept => booted' = "init"
             /\ booted' \in {"wrong_kernel", "wrong_init"} => built # {a}
             /\ booted' = "no_init" => everFailed]_vars
  BY <1>1
<1> QED
  BY <1>2, BuildInvariant, PTL DEF Spec, LaunchAfterBuild
=============================================================================
