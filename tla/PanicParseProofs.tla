-------------------------- MODULE PanicParseProofs --------------------------
(***************************************************************************)
(* What the panic log parser collects, for every log: the backtraces'       *)
(* frames and kexts, and the description.                                   *)
(***************************************************************************)
EXTENDS PanicParse, TLAPS

\* No list names a line that has not been read.
Types ==
  /\ log \in Seq(Line) /\ in_backtrace \in BOOLEAN
  /\ backtrace_frames \in Seq(Read) /\ kext_list \in Seq(Read)
  /\ raw_panic_text \in Seq(Read) /\ panic_summary \in Seq(Read)

\* in_backtrace says that a backtrace would go on with the next line.
Open ==
  \E h \in 1 .. Len(log) :
    /\ "header" \in log[h]
    /\ \A j \in h + 1 .. Len(log) :
         /\ "panic" \notin log[j]
         /\ "blank" \in log[j] => \A f \in Taken(backtrace_frames) : j < f

\* What exactly the description consists of: the lines from the first panic on
\* that are in no backtrace, in order, those that start a panic twice, and the
\* diagnoses of these lines.
ExactDescription ==
  LET described == {i \in Read : (\E s \in 1 .. i : "panic" \in log[s]) /\ ~InBacktrace(i)}
  IN /\ Taken(raw_panic_text) = described
     /\ \A j, k \in DOMAIN raw_panic_text :
          j < k => \/ raw_panic_text[j] < raw_panic_text[k]
                   \/ /\ raw_panic_text[j] = raw_panic_text[k] /\ k = j + 1
                      /\ "panic" \in log[raw_panic_text[j]]
     /\ \A j \in DOMAIN raw_panic_text :
          "panic" \in log[raw_panic_text[j]] =>
            \E k \in {j - 1, j + 1} \cap DOMAIN raw_panic_text : raw_panic_text[k] = raw_panic_text[j]
     /\ Taken(panic_summary) = {i \in described : "known" \in log[i]} /\ Increasing(panic_summary)

LineInv == Types /\ (in_backtrace <=> Open) /\ FramesExact

-----------------------------------------------------------------------------
(* Lists of line numbers *)

\* What collecting the line just read does to a list of earlier lines.
LEMMA Collected ==
  ASSUME NEW m \in Nat, NEW s \in Seq(1 .. m), NEW when \in BOOLEAN
  PROVE  /\ Collect(s, when, m + 1) \in Seq(1 .. m + 1)
         /\ Taken(Collect(s, when, m + 1)) = Taken(s) \cup (IF when THEN {m + 1} ELSE {})
         /\ Increasing(s) => Increasing(Collect(s, when, m + 1))
         /\ Taken(s) \subseteq 1 .. m
<1>1. Taken(s) \subseteq 1 .. m /\ s \in Seq(1 .. m + 1)
  BY DEF Taken
<1>2. CASE when
  <2> DEFINE longer == Append(s, m + 1)
  <2>1. Collect(s, when, m + 1) = longer
    BY <1>2 DEF Collect
  <2>2. /\ Len(s) \in Nat /\ DOMAIN s = 1 .. Len(s)
        /\ longer \in Seq(1 .. m + 1)
        /\ DOMAIN longer = 1 .. Len(s) + 1
        /\ \A k \in 1 .. Len(s) : longer[k] = s[k] /\ s[k] \in 1 .. m
        /\ longer[Len(s) + 1] = m + 1
    BY <1>1
  <2> HIDE DEF longer
  <2>3. Taken(longer) = Taken(s) \cup {m + 1}
    <3>1. Taken(longer) = {longer[k] : k \in 1 .. Len(s) + 1} /\ Taken(s) = {s[k] : k \in 1 .. Len(s)}
      BY <2>2 DEF Taken
    <3>2. ASSUME NEW k \in 1 .. Len(s) + 1
          PROVE  longer[k] \in Taken(s) \cup {m + 1}
      <4>1. CASE k \in 1 .. Len(s)
        BY <2>2, <3>1, <4>1
      <4>2. CASE k = Len(s) + 1
        BY <2>2, <4>2
      <4> QED BY <2>2, <4>1, <4>2
    <3>3. ASSUME NEW k \in 1 .. Len(s)
          PROVE  s[k] \in Taken(longer)
      <4>1. k \in 1 .. Len(s) + 1 /\ s[k] = longer[k]
        BY <2>2
      <4> QED BY <3>1, <4>1
    <3>4. m + 1 \in Taken(longer)
      <4>1. Len(s) + 1 \in 1 .. Len(s) + 1
        BY <2>2
      <4> QED BY <2>2, <3>1, <4>1
    <3> QED BY <3>1, <3>2, <3>3, <3>4
  <2>4. ASSUME Increasing(s)
        PROVE  Increasing(longer)
    <3>1. ASSUME NEW j \in 1 .. Len(s) + 1, NEW k \in 1 .. Len(s) + 1, j < k
          PROVE  longer[j] < longer[k]
      <4>1. j \in 1 .. Len(s) /\ longer[j] = s[j] /\ s[j] \in 1 .. m
        <5>1. Len(s) \in Nat
          BY <2>2
        <5>2. j \in 1 .. Len(s)
          BY <3>1, <5>1
        <5> QED BY <2>2, <5>2
      <4>2. CASE k \in 1 .. Len(s)
        BY <2>2, <2>4, <3>1, <4>1, <4>2 DEF Increasing
      <4>3. CASE k = Len(s) + 1
        BY <2>2, <4>1, <4>3
      <4> QED BY <2>2, <4>2, <4>3
    <3> QED BY <2>2, <3>1 DEF Increasing
  <2> QED BY <1>1, <1>2, <2>1, <2>2, <2>3, <2>4
<1>3. CASE ~when
  BY <1>1, <1>3 DEF Collect
<1> QED BY <1>2, <1>3

LEMMA NoneTaken ==
  ASSUME NEW S, NEW s \in Seq(S)
  PROVE  s = <<>> <=> Taken(s) = {}
<1>1. s = <<>> => Taken(s) = {}
  BY DEF Taken
<1>2. ASSUME s # <<>>
      PROVE  Taken(s) # {}
  <2>1. 1 \in DOMAIN s
    BY <1>2
  <2> QED BY <2>1 DEF Taken
<1> QED BY <1>1, <1>2

LEMMA TakenAppend ==
  ASSUME NEW S, NEW s \in Seq(S), NEW x \in S
  PROVE  Taken(Append(s, x)) = Taken(s) \cup {x}
<1>1. /\ Len(s) \in Nat /\ DOMAIN s = 1 .. Len(s)
      /\ DOMAIN Append(s, x) = 1 .. Len(s) + 1
      /\ \A k \in 1 .. Len(s) : Append(s, x)[k] = s[k]
      /\ Append(s, x)[Len(s) + 1] = x
  OBVIOUS
<1> QED BY <1>1 DEF Taken

LEMMA TakenNext ==
  ASSUME NEW m \in Nat, NEW s \in Seq(1 .. m + 1)
  PROVE  Taken(Append(s, m + 1)) = Taken(s) \cup {m + 1}
BY TakenAppend

-----------------------------------------------------------------------------
(* Reading a line *)

\* The log grows at its end, and what was collected stays.
LEMMA Reading ==
  ASSUME Types, NEW l \in Line, log' = Append(log, l)
  PROVE  /\ Len(log) \in Nat /\ Len(log') = Len(log) + 1 /\ log' \in Seq(Line)
         /\ Read' = 1 .. Len(log) + 1
         /\ log'[Len(log) + 1] = l
         /\ \A j \in 1 .. Len(log) : log'[j] = log[j]
BY DEF Types, Read

\* Whether an earlier line was in a backtrace is not affected, and the line
\* just read is in one if the last was and it starts no panic.
LEMMA Backtraces ==
  ASSUME Types, in_backtrace <=> Open, NEW CONSTANT m \in Nat, m = Len(log),
         NEW l \in Line, log' = Append(log, l), NEW when \in BOOLEAN,
         backtrace_frames' = Collect(backtrace_frames, when, m + 1)
  PROVE  /\ \A k \in 1 .. m : InBacktrace(k)' <=> InBacktrace(k)
         /\ InBacktrace(m + 1)' <=> Inside(l)
<1>1. /\ m \in Nat /\ log'[m + 1] = l /\ \A j \in 1 .. m : log'[j] = log[j]
  BY Reading
<1>2. \A b \in 1 .. m : (\A f \in Taken(backtrace_frames)' : b < f)
                          <=> (\A f \in Taken(backtrace_frames) : b < f)
  <2>1. Taken(backtrace_frames)' = Taken(Collect(backtrace_frames, when, m + 1))
    BY DEF Taken
  <2>2. Taken(Collect(backtrace_frames, when, m + 1))
          = Taken(backtrace_frames) \cup (IF when THEN {m + 1} ELSE {})
    <3>1. backtrace_frames \in Seq(1 .. m)
      BY <1>1 DEF Types, Read
    <3> QED BY <3>1, Collected
  <2> QED BY <1>1, <2>1, <2>2
<1>3. ASSUME NEW k \in 1 .. m
      PROVE  InBacktrace(k)' <=> InBacktrace(k)
  <2>1. ASSUME NEW h \in 1 .. k - 1
        PROVE  /\ "header" \in log'[h] <=> "header" \in log[h]
               /\ (\A j \in h + 1 .. k : "panic" \notin log'[j])
                    <=> (\A j \in h + 1 .. k : "panic" \notin log[j])
               /\ (\A b \in h + 1 .. k - 1 : "blank" \in log'[b] =>
                      \A f \in Taken(backtrace_frames)' : b < f)
                    <=> (\A b \in h + 1 .. k - 1 : "blank" \in log[b] =>
                           \A f \in Taken(backtrace_frames) : b < f)
    <3>1. h \in 1 .. m
      BY <1>1
    <3>2. \A j \in h + 1 .. k : j \in 1 .. m
      BY <1>1
    <3>3. \A b \in h + 1 .. k - 1 : b \in 1 .. m
      BY <1>1
    <3> QED BY <1>1, <1>2, <3>1, <3>2, <3>3
  <2>2. InBacktrace(k)' <=>
          \E h \in 1 .. k - 1 :
            /\ "header" \in log'[h]
            /\ \A j \in h + 1 .. k : "panic" \notin log'[j]
            /\ \A b \in h + 1 .. k - 1 : "blank" \in log'[b] =>
                 \A f \in Taken(backtrace_frames)' : b < f
    BY DEF InBacktrace
  <2> QED BY <2>1, <2>2 DEF InBacktrace
<1>4. InBacktrace(m + 1)' <=> Inside(l)
  <2>1. /\ (m + 1) - 1 = m
        /\ \A h \in 1 .. m : \A j \in h + 1 .. m + 1 : j \in 1 .. m \/ j = m + 1
        /\ \A h \in 1 .. m : m + 1 \in h + 1 .. m + 1
        /\ \A h \in 1 .. m : \A j \in h + 1 .. m : j \in 1 .. m /\ j \in h + 1 .. m + 1
    BY <1>1
  <2>2. InBacktrace(m + 1)' <=>
          \E h \in 1 .. m :
            /\ "header" \in log[h]
            /\ "panic" \notin l
            /\ \A j \in h + 1 .. m : "panic" \notin log[j]
            /\ \A b \in h + 1 .. m : "blank" \in log[b] =>
                 \A f \in Taken(backtrace_frames) : b < f
    <3>1. ASSUME NEW h \in 1 .. m
          PROVE  (\A j \in h + 1 .. m + 1 : "panic" \notin log'[j]) <=>
                   "panic" \notin l /\ \A j \in h + 1 .. m : "panic" \notin log[j]
      <4>1. \A j \in h + 1 .. m + 1 : j \in h + 1 .. m \/ j = m + 1
        BY <1>1
      <4> QED BY <1>1, <2>1, <4>1
    <3>2. ASSUME NEW h \in 1 .. m
          PROVE  (\A b \in h + 1 .. m : "blank" \in log'[b] =>
                    \A f \in Taken(backtrace_frames)' : b < f) <=>
                 (\A b \in h + 1 .. m : "blank" \in log[b] =>
                    \A f \in Taken(backtrace_frames) : b < f)
      BY <1>1, <1>2, <2>1
    <3>3. InBacktrace(m + 1)' <=>
            \E h \in 1 .. m :
              /\ "header" \in log'[h]
              /\ \A j \in h + 1 .. m + 1 : "panic" \notin log'[j]
              /\ \A b \in h + 1 .. m : "blank" \in log'[b] =>
                   \A f \in Taken(backtrace_frames)' : b < f
      BY <2>1 DEF InBacktrace
    <3>4. \A h \in 1 .. m : log'[h] = log[h]
      BY <1>1
    <3> QED BY <3>1, <3>2, <3>3, <3>4
  <2>3. Open <=> \E h \in 1 .. m :
                   /\ "header" \in log[h]
                   /\ \A j \in h + 1 .. m : "panic" \notin log[j]
                   /\ \A b \in h + 1 .. m : "blank" \in log[b] =>
                        \A f \in Taken(backtrace_frames) : b < f
    BY DEF Open
  <2> QED BY <2>2, <2>3 DEF Inside
<1> QED BY <1>3, <1>4

\* The lists of frames and kexts, and in_backtrace, after a line.
LEMMA Listed ==
  ASSUME Types, NEW CONSTANT m \in Nat, m = Len(log), NEW l \in Line, log' = Append(log, l),
         Header(l) \/ Frames(l, m + 1)
  PROVE  /\ backtrace_frames' =
              Collect(backtrace_frames, "header" \notin l /\ Inside(l) /\ "frame" \in l, m + 1)
         /\ kext_list' =
              Collect(kext_list, "header" \notin l /\ Inside(l) /\ "kext" \in l, m + 1)
         /\ in_backtrace' = ("header" \in l \/
              (Inside(l) /\ ~("blank" \in l /\ backtrace_frames' # <<>>)))
<1>1. CASE Header(l)
  BY <1>1 DEF Header, Collect
<1>2. CASE Frames(l, m + 1)
  <2>1. /\ "header" \notin l
        /\ backtrace_frames' = Collect(backtrace_frames, Inside(l) /\ "frame" \in l, m + 1)
        /\ kext_list' = Collect(kext_list, Inside(l) /\ "kext" \in l, m + 1)
        /\ in_backtrace' = (Inside(l) /\ ~("blank" \in l /\ backtrace_frames' # <<>>))
    BY <1>2 DEF Frames
  <2> QED BY <2>1 DEF Collect
<1> QED BY <1>1, <1>2

\* The parser is in a backtrace exactly if one would go on with the next line.
LEMMA StaysOpen ==
  ASSUME Types, in_backtrace <=> Open, NEW CONSTANT m \in Nat, m = Len(log),
         NEW l \in Line, log' = Append(log, l), Header(l) \/ Frames(l, m + 1)
  PROVE  in_backtrace' <=> Open'
<1>1. /\ Len(log') = m + 1 /\ log'[m + 1] = l /\ \A j \in 1 .. m : log'[j] = log[j]
  BY Reading
<1>2. /\ Taken(backtrace_frames) \subseteq 1 .. m
      /\ Taken(backtrace_frames)' \subseteq Taken(backtrace_frames) \cup {m + 1}
      /\ Taken(backtrace_frames) \subseteq Taken(backtrace_frames)'
      /\ backtrace_frames' = <<>> <=> Taken(backtrace_frames)' = {}
  <2>1. PICK w \in BOOLEAN : backtrace_frames' = Collect(backtrace_frames, w, m + 1)
    BY Listed
  <2>2. Taken(backtrace_frames)' = Taken(Collect(backtrace_frames, w, m + 1))
    BY <2>1 DEF Taken
  <2>3. backtrace_frames' \in Seq(1 .. m + 1)
    BY <2>1, Collected DEF Types, Read
  <2>4. backtrace_frames' = <<>> <=> Taken(backtrace_frames') = {}
    BY <2>3, NoneTaken
  <2>5. Taken(backtrace_frames)' = Taken(backtrace_frames')
    BY DEF Taken
  <2>6. backtrace_frames \in Seq(1 .. m)
    BY DEF Types, Read
  <2>7. /\ Taken(backtrace_frames) \subseteq 1 .. m
        /\ Taken(Collect(backtrace_frames, w, m + 1))
             = Taken(backtrace_frames) \cup (IF w THEN {m + 1} ELSE {})
    BY <2>6, Collected
  <2> QED BY <2>2, <2>4, <2>5, <2>7
<1>3. Open' <=>
        \E h \in 1 .. m + 1 :
          /\ "header" \in log'[h]
          /\ \A j \in h + 1 .. m + 1 :
               /\ "panic" \notin log'[j]
               /\ "blank" \in log'[j] => \A f \in Taken(backtrace_frames)' : j < f
  BY <1>1 DEF Open
<1>4. CASE "header" \in l
  <2>1. in_backtrace'
    BY <1>4, Listed
  <2>2. m + 1 \in 1 .. m + 1 /\ \A j \in (m + 1) + 1 .. m + 1 : FALSE
    OBVIOUS
  <2> QED BY <1>1, <1>3, <1>4, <2>1, <2>2
<1>5. CASE "header" \notin l
  <2>1. in_backtrace' <=> Open /\ "panic" \notin l /\ ("blank" \in l => Taken(backtrace_frames)' = {})
    BY <1>2, <1>5, Listed DEF Inside
  <2>2. ASSUME NEW h \in 1 .. m
        PROVE  (/\ "header" \in log'[h]
                /\ \A j \in h + 1 .. m + 1 :
                     /\ "panic" \notin log'[j]
                     /\ "blank" \in log'[j] => \A f \in Taken(backtrace_frames)' : j < f)
               <=>
               (/\ "header" \in log[h]
                /\ \A j \in h + 1 .. m :
                     /\ "panic" \notin log[j]
                     /\ "blank" \in log[j] => \A f \in Taken(backtrace_frames) : j < f
                /\ "panic" \notin l /\ ("blank" \in l => Taken(backtrace_frames)' = {}))
    <3>1. /\ \A j \in h + 1 .. m + 1 : j \in h + 1 .. m \/ j = m + 1
          /\ \A j \in h + 1 .. m : j \in h + 1 .. m + 1 /\ j \in 1 .. m /\ j < m + 1
          /\ m + 1 \in h + 1 .. m + 1
      OBVIOUS
    <3>2. (\A f \in Taken(backtrace_frames)' : m + 1 < f) <=> Taken(backtrace_frames)' = {}
      BY <1>2
    <3>3. \A j \in h + 1 .. m : (\A f \in Taken(backtrace_frames)' : j < f)
                                  <=> (\A f \in Taken(backtrace_frames) : j < f)
      BY <1>2, <3>1
    <3> QED BY <1>1, <3>1, <3>2, <3>3
  <2>3. Open' <=>
          \E h \in 1 .. m :
            /\ "header" \in log'[h]
            /\ \A j \in h + 1 .. m + 1 :
                 /\ "panic" \notin log'[j]
                 /\ "blank" \in log'[j] => \A f \in Taken(backtrace_frames)' : j < f
    <3>1. \A h \in 1 .. m + 1 : h \in 1 .. m \/ h = m + 1
      OBVIOUS
    <3>2. 1 .. m \subseteq 1 .. m + 1
      OBVIOUS
    <3> QED BY <1>1, <1>3, <1>5, <3>1, <3>2
  <2>4. Open <=>
          \E h \in 1 .. m :
            /\ "header" \in log[h]
            /\ \A j \in h + 1 .. m :
                 /\ "panic" \notin log[j]
                 /\ "blank" \in log[j] => \A f \in Taken(backtrace_frames) : j < f
    BY DEF Open
  <2> QED BY <2>1, <2>2, <2>3, <2>4
<1> QED BY <1>4, <1>5

\* One more line: its frame and its kext are collected if it is in a backtrace.
LEMMA CollectsLine ==
  ASSUME LineInv, NEW CONSTANT m \in Nat, m = Len(log),
         NEW l \in Line, log' = Append(log, l), Header(l) \/ Frames(l, m + 1)
  PROVE  /\ FramesExact'
         /\ backtrace_frames' \in Seq(1 .. m + 1) /\ kext_list' \in Seq(1 .. m + 1)
<1>1. /\ Read = 1 .. m /\ Read' = 1 .. m + 1
      /\ log'[m + 1] = l /\ \A j \in 1 .. m : log'[j] = log[j]
  BY Reading DEF LineInv, Read
<1>2. /\ \A k \in 1 .. m : InBacktrace(k)' <=> InBacktrace(k)
      /\ InBacktrace(m + 1)' <=> Inside(l)
  BY Listed, Backtraces DEF LineInv
<1>3. /\ \A i \in 1 .. m + 1 : i \in 1 .. m \/ i = m + 1
      /\ m + 1 \in 1 .. m + 1 /\ 1 .. m \subseteq 1 .. m + 1 /\ m + 1 \notin 1 .. m
  OBVIOUS
<1> DEFINE wf == "header" \notin l /\ Inside(l) /\ "frame" \in l
<1> DEFINE wk == "header" \notin l /\ Inside(l) /\ "kext" \in l
<1>4. /\ wf \in BOOLEAN /\ wk \in BOOLEAN
      /\ backtrace_frames \in Seq(1 .. m) /\ kext_list \in Seq(1 .. m)
      /\ backtrace_frames' = Collect(backtrace_frames, wf, m + 1)
      /\ kext_list' = Collect(kext_list, wk, m + 1)
  BY <1>1, Listed DEF LineInv, Types
<1>5. /\ Taken(backtrace_frames) =
           {i \in 1 .. m : "frame" \in log[i] /\ "header" \notin log[i] /\ InBacktrace(i)}
      /\ Taken(kext_list) =
           {i \in 1 .. m : "kext" \in log[i] /\ "header" \notin log[i] /\ InBacktrace(i)}
      /\ Increasing(backtrace_frames) /\ Increasing(kext_list)
  BY <1>1 DEF LineInv, FramesExact
<1>6. Taken(backtrace_frames)' = {i \in 1 .. m + 1 :
        "frame" \in log'[i] /\ "header" \notin log'[i] /\ InBacktrace(i)'}
  <2>1. Taken(backtrace_frames)' = Taken(Collect(backtrace_frames, wf, m + 1))
    BY <1>4 DEF Taken
  <2>2. Taken(Collect(backtrace_frames, wf, m + 1))
          = Taken(backtrace_frames) \cup (IF wf THEN {m + 1} ELSE {})
    BY <1>4, Collected
  <2> QED BY <1>1, <1>2, <1>3, <1>5, <2>1, <2>2
<1>7. Taken(kext_list)' = {i \in 1 .. m + 1 :
        "kext" \in log'[i] /\ "header" \notin log'[i] /\ InBacktrace(i)'}
  <2>1. Taken(kext_list)' = Taken(Collect(kext_list, wk, m + 1))
    BY <1>4 DEF Taken
  <2>2. Taken(Collect(kext_list, wk, m + 1)) = Taken(kext_list) \cup (IF wk THEN {m + 1} ELSE {})
    BY <1>4, Collected
  <2> QED BY <1>1, <1>2, <1>3, <1>5, <2>1, <2>2
<1>8. Increasing(backtrace_frames)' /\ Increasing(kext_list)'
  <2>1. Increasing(backtrace_frames') /\ Increasing(kext_list')
    BY <1>4, <1>5, Collected
  <2> QED BY <2>1 DEF Increasing
<1>9. backtrace_frames' \in Seq(1 .. m + 1) /\ kext_list' \in Seq(1 .. m + 1)
  BY <1>4, Collected
<1> QED BY <1>1, <1>6, <1>7, <1>8, <1>9 DEF FramesExact

-----------------------------------------------------------------------------
(* The description *)

\* A list in which a line may follow itself, and only one that starts a panic.
Ordered(list, lines) ==
  \A j, k \in DOMAIN list :
    j < k => \/ list[j] < list[k]
             \/ list[j] = list[k] /\ k = j + 1 /\ "panic" \in lines[list[j]]

\* A line that starts a panic is there twice.
Doubled(list, lines) ==
  \A j \in DOMAIN list :
    "panic" \in lines[list[j]] =>
      \E k \in {j - 1, j + 1} \cap DOMAIN list : list[k] = list[j]

\* Some line read so far starts a panic.
PanicRead == \E s \in 1 .. Len(log) : "panic" \in log[s]

LEMMA Begun ==
  ASSUME Types, ExactDescription
  PROVE  raw_panic_text # <<>> <=> PanicRead
<1> DEFINE described == {i \in Read : (\E s \in 1 .. i : "panic" \in log[s]) /\ ~InBacktrace(i)}
<1>1. /\ Taken(raw_panic_text) = described
      /\ raw_panic_text = <<>> <=> Taken(raw_panic_text) = {}
      /\ Len(log) \in Nat /\ Read = 1 .. Len(log)
  <2>1. raw_panic_text \in Seq(Read) /\ Len(log) \in Nat /\ Read = 1 .. Len(log)
    BY DEF Types, Read
  <2>2. Taken(raw_panic_text) = described
    BY DEF ExactDescription
  <2>3. raw_panic_text = <<>> <=> Taken(raw_panic_text) = {}
    BY <2>1, NoneTaken
  <2> QED BY <2>1, <2>2, <2>3
<1>2. ASSUME NEW i \in described
      PROVE  PanicRead
  BY <1>1 DEF PanicRead
<1>3. ASSUME NEW s \in 1 .. Len(log), "panic" \in log[s]
      PROVE  s \in described
  <2>1. ~InBacktrace(s)
    BY <1>1, <1>3 DEF InBacktrace
  <2> QED BY <1>1, <1>3, <2>1
<1> QED BY <1>1, <1>2, <1>3 DEF PanicRead

\* A list of earlier lines, with the line just read once if it starts no panic
\* and twice if it does.
LEMMA Extended ==
  ASSUME NEW m \in Nat, NEW s \in Seq(1 .. m), NEW old, NEW new,
         \A j \in 1 .. m : new[j] = old[j], Ordered(s, old), Doubled(s, old)
  PROVE  /\ Ordered(s, new) /\ Doubled(s, new)
         /\ "panic" \notin new[m + 1] =>
              Ordered(Append(s, m + 1), new) /\ Doubled(Append(s, m + 1), new)
         /\ "panic" \in new[m + 1] =>
              /\ Ordered(Append(Append(s, m + 1), m + 1), new)
              /\ Doubled(Append(Append(s, m + 1), m + 1), new)
<1> DEFINE c == Len(s)
<1> DEFINE once == Append(s, m + 1)
<1> DEFINE twice == Append(once, m + 1)
<1>1. /\ c \in Nat /\ DOMAIN s = 1 .. c
      /\ \A k \in 1 .. c : s[k] \in 1 .. m
  OBVIOUS
<1>2. /\ once \in Seq(1 .. m + 1) /\ DOMAIN once = 1 .. c + 1 /\ Len(once) = c + 1
      /\ once[c + 1] = m + 1 /\ \A k \in 1 .. c : once[k] = s[k]
  BY <1>1
<1>3. /\ DOMAIN twice = 1 .. c + 2 /\ twice[c + 2] = m + 1
      /\ \A k \in 1 .. c + 1 : twice[k] = once[k]
  BY <1>1, <1>2
<1> HIDE DEF c, once, twice
<1>4. /\ 1 .. c \subseteq 1 .. c + 1 /\ 1 .. c + 1 \subseteq 1 .. c + 2
      /\ \A k \in 1 .. c + 1 : k \in 1 .. c \/ k = c + 1
      /\ \A k \in 1 .. c + 2 : k \in 1 .. c \/ k = c + 1 \/ k = c + 2
      /\ c + 1 \in 1 .. c + 1 /\ c + 1 \in 1 .. c + 2 /\ c + 2 \in 1 .. c + 2
      /\ \A i \in 1 .. m : i < m + 1
      /\ \A k \in 1 .. c : ~(c + 1 < k) /\ ~(c + 2 < k)
      /\ ~(c + 2 < c + 1) /\ ~(c + 1 < c + 1) /\ ~(c + 2 < c + 2)
  BY <1>1
<1>5. \A k \in 1 .. c : new[s[k]] = old[s[k]]
  BY <1>1
<1>6. /\ \A j, k \in 1 .. c :
           j < k => \/ s[j] < s[k]
                    \/ s[j] = s[k] /\ k = j + 1 /\ "panic" \in new[s[j]]
      /\ \A j \in 1 .. c : "panic" \in new[s[j]] =>
           \E k \in {j - 1, j + 1} \cap 1 .. c : s[k] = s[j]
  BY <1>1, <1>5 DEF Ordered, Doubled
<1>7. Ordered(s, new) /\ Doubled(s, new)
  BY <1>1, <1>6 DEF Ordered, Doubled
<1>8. Ordered(once, new)
  <2>1. ASSUME NEW j \in 1 .. c + 1, NEW k \in 1 .. c + 1, j < k
        PROVE  \/ once[j] < once[k]
               \/ once[j] = once[k] /\ k = j + 1 /\ "panic" \in new[once[j]]
    <3>1. j \in 1 .. c
      BY <1>4, <2>1
    <3>2. CASE k \in 1 .. c
      BY <1>2, <1>6, <2>1, <3>1, <3>2
    <3>3. CASE k = c + 1
      BY <1>1, <1>2, <1>4, <3>1, <3>3
    <3> QED BY <1>4, <3>2, <3>3
  <2> QED BY <1>2, <2>1 DEF Ordered
<1>9. ASSUME "panic" \notin new[m + 1]
      PROVE  Doubled(once, new)
  <2>1. ASSUME NEW j \in 1 .. c + 1, "panic" \in new[once[j]]
        PROVE  \E k \in {j - 1, j + 1} \cap 1 .. c + 1 : once[k] = once[j]
    <3>1. j \in 1 .. c
      BY <1>2, <1>4, <1>9, <2>1
    <3>2. PICK k \in {j - 1, j + 1} \cap 1 .. c : s[k] = s[j]
      BY <1>2, <1>6, <2>1, <3>1
    <3> QED BY <1>2, <1>4, <3>1, <3>2
  <2> QED BY <1>2, <2>1 DEF Doubled
<1>10. ASSUME "panic" \in new[m + 1]
       PROVE  Ordered(twice, new) /\ Doubled(twice, new)
  <2>1. \A k \in 1 .. c : twice[k] = s[k]
    BY <1>2, <1>3, <1>4
  <2>2. twice[c + 1] = m + 1 /\ twice[c + 2] = m + 1
    BY <1>2, <1>3, <1>4
  <2>3. ASSUME NEW j \in 1 .. c + 2, NEW k \in 1 .. c + 2, j < k
        PROVE  \/ twice[j] < twice[k]
               \/ twice[j] = twice[k] /\ k = j + 1 /\ "panic" \in new[twice[j]]
    <3>1. CASE j \in 1 .. c /\ k \in 1 .. c
      BY <1>6, <2>1, <2>3, <3>1
    <3>2. CASE j \in 1 .. c /\ k \notin 1 .. c
      <4>1. twice[k] = m + 1
        BY <1>4, <2>2, <3>2
      <4> QED BY <1>1, <1>4, <2>1, <3>2, <4>1
    <3>3. CASE j = c + 1
      <4>1. k = c + 2
        BY <1>4, <2>3, <3>3
      <4>2. k = j + 1
        BY <1>1, <3>3, <4>1
      <4> QED BY <1>10, <2>2, <3>3, <4>1, <4>2
    <3>4. CASE j = c + 2
      BY <1>4, <2>3, <3>4
    <3> QED BY <1>4, <3>1, <3>2, <3>3, <3>4
  <2>4. ASSUME NEW j \in 1 .. c + 2, "panic" \in new[twice[j]]
        PROVE  \E k \in {j - 1, j + 1} \cap 1 .. c + 2 : twice[k] = twice[j]
    <3>1. CASE j \in 1 .. c
      <4>1. PICK k \in {j - 1, j + 1} \cap 1 .. c : s[k] = s[j]
        BY <1>6, <2>1, <2>4, <3>1
      <4> QED BY <1>4, <2>1, <3>1, <4>1
    <3>2. CASE j = c + 1
      <4>1. c + 2 \in {j - 1, j + 1} \cap 1 .. c + 2
        BY <1>1, <1>4, <3>2
      <4> QED BY <2>2, <3>2, <4>1
    <3>3. CASE j = c + 2
      <4>1. c + 1 \in {j - 1, j + 1} \cap 1 .. c + 2
        BY <1>1, <1>4, <3>3
      <4> QED BY <2>2, <3>3, <4>1
    <3> QED BY <1>4, <3>1, <3>2, <3>3
  <2> QED BY <1>3, <2>3, <2>4 DEF Ordered, Doubled
<1> QED BY <1>7, <1>8, <1>9, <1>10 DEF once, twice

\* One more line: it is collected if a panic has been read and it is in no
\* backtrace, twice if it starts a panic, and so is its diagnosis, once.
LEMMA DescribesLine ==
  ASSUME LineInv, ExactDescription, NEW CONSTANT m \in Nat, m = Len(log),
         NEW l \in Line, log' = Append(log, l), Header(l) \/ Frames(l, m + 1),
         Describe(l, m + 1)
  PROVE  /\ ExactDescription'
         /\ raw_panic_text' \in Seq(1 .. m + 1) /\ panic_summary' \in Seq(1 .. m + 1)
<1> DEFINE t == StartPanic(l, m + 1)
<1> DEFINE d == Describing(l, m + 1)
<1> DEFINE described == {i \in 1 .. m : (\E s \in 1 .. i : "panic" \in log[s]) /\ ~InBacktrace(i)}
<1> DEFINE describedNext ==
      {i \in 1 .. m + 1 : (\E s \in 1 .. i : "panic" \in log'[s]) /\ ~InBacktrace(i)'}
<1>1. /\ Read = 1 .. m /\ Read' = 1 .. m + 1
      /\ log'[m + 1] = l /\ \A j \in 1 .. m : log'[j] = log[j]
  BY Reading DEF LineInv, Read
<1>2. /\ \A k \in 1 .. m : InBacktrace(k)' <=> InBacktrace(k)
      /\ InBacktrace(m + 1)' <=> Inside(l)
  BY Listed, Backtraces DEF LineInv
<1>3. /\ raw_panic_text \in Seq(1 .. m) /\ panic_summary \in Seq(1 .. m)
      /\ raw_panic_text' = Collect(t, d, m + 1)
      /\ panic_summary' = Collect(panic_summary, d /\ "known" \in l, m + 1)
  BY <1>1 DEF LineInv, Types, Describe
<1>4. t # <<>> <=> PanicRead \/ "panic" \in l
  <2>1. raw_panic_text # <<>> <=> PanicRead
    BY Begun DEF LineInv
  <2>2. CASE "panic" \in l
    <3>1. t = Append(raw_panic_text, m + 1)
      BY <2>2 DEF StartPanic, Collect
    <3>2. t # <<>>
      <4>1. Len(t) = Len(raw_panic_text) + 1 /\ Len(raw_panic_text) \in Nat
        BY <1>3, <3>1
      <4>2. Len(<<>>) = 0
        OBVIOUS
      <4> HIDE DEF t
      <4> QED BY <4>1, <4>2
    <3> QED BY <2>2, <3>2
  <2>3. CASE "panic" \notin l
    BY <2>1, <2>3 DEF StartPanic, Collect
  <2> QED BY <2>2, <2>3
<1>5. d <=> (PanicRead \/ "panic" \in l) /\ ~Inside(l)
  BY <1>4 DEF Describing
<1>6. /\ \A i \in 1 .. m + 1 : i \in 1 .. m \/ i = m + 1
      /\ m + 1 \in 1 .. m + 1 /\ 1 .. m \subseteq 1 .. m + 1 /\ m + 1 \notin 1 .. m
      /\ \A i \in 1 .. m : \A s \in 1 .. i : s \in 1 .. m
  OBVIOUS
<1>7. describedNext = described \cup (IF d THEN {m + 1} ELSE {})
  <2>1. m + 1 \in describedNext <=> d
    <3>1. (\E s \in 1 .. m + 1 : "panic" \in log'[s]) <=> PanicRead \/ "panic" \in l
      BY <1>1, <1>6 DEF PanicRead
    <3> HIDE DEF d
    <3> QED BY <1>2, <1>5, <1>6, <3>1
  <2>2. ASSUME NEW i \in 1 .. m
        PROVE  i \in describedNext <=> i \in described
    <3>1. (\E s \in 1 .. i : "panic" \in log'[s]) <=> (\E s \in 1 .. i : "panic" \in log[s])
      BY <1>1, <1>6
    <3> QED BY <1>2, <1>6, <3>1
  <2>3. describedNext \subseteq 1 .. m + 1 /\ described \subseteq 1 .. m
    OBVIOUS
  <2> HIDE DEF d, described, describedNext
  <2> QED BY <1>6, <2>1, <2>2, <2>3
<1>8. /\ Taken(raw_panic_text) = described
      /\ Taken(panic_summary) = {i \in described : "known" \in log[i]}
      /\ Increasing(panic_summary)
      /\ Ordered(raw_panic_text, log) /\ Doubled(raw_panic_text, log)
  BY <1>1 DEF ExactDescription, Ordered, Doubled
<1>9. "panic" \in l => d
  BY <1>5 DEF Inside
<1>10. /\ Taken(raw_panic_text)' = describedNext /\ raw_panic_text' \in Seq(1 .. m + 1)
       /\ Ordered(raw_panic_text', log') /\ Doubled(raw_panic_text', log')
  <2>1. CASE "panic" \in l
    <3>1. t = Append(raw_panic_text, m + 1) /\ raw_panic_text' = Append(t, m + 1)
      BY <1>3, <1>9, <2>1 DEF StartPanic, Collect
    <3> HIDE DEF t, d, described, describedNext
    <3>2. raw_panic_text \in Seq(1 .. m + 1) /\ t \in Seq(1 .. m + 1)
      <4>1. raw_panic_text \in Seq(1 .. m) /\ 1 .. m \subseteq 1 .. m + 1
        BY <1>3, <1>6
      <4>2. raw_panic_text \in Seq(1 .. m + 1)
        BY <4>1
      <4> QED BY <1>6, <3>1, <4>2
    <3>3. /\ Taken(t) = Taken(raw_panic_text) \cup {m + 1}
          /\ Taken(Append(t, m + 1)) = Taken(t) \cup {m + 1}
      <4>1. Taken(Append(raw_panic_text, m + 1)) = Taken(raw_panic_text) \cup {m + 1}
        BY <3>2, TakenNext
      <4>2. Taken(Append(t, m + 1)) = Taken(t) \cup {m + 1}
        BY <3>2, TakenNext
      <4> QED BY <3>1, <4>1, <4>2
    <3>4. Taken(raw_panic_text)' = Taken(Append(t, m + 1))
      BY <3>1 DEF Taken
    <3>5. raw_panic_text' \in Seq(1 .. m + 1)
      BY <3>1, <3>2
    <3>6. Ordered(raw_panic_text', log') /\ Doubled(raw_panic_text', log')
      <4>1. /\ Ordered(Append(Append(raw_panic_text, m + 1), m + 1), log')
            /\ Doubled(Append(Append(raw_panic_text, m + 1), m + 1), log')
        BY <1>1, <1>3, <1>8, <2>1, Extended
      <4> QED BY <3>1, <4>1
    <3>7. described \cup {m + 1} = describedNext
      BY <1>7, <1>9, <2>1
    <3> QED BY <1>8, <3>3, <3>4, <3>5, <3>6, <3>7
  <2>2. CASE "panic" \notin l
    <3>1. raw_panic_text' = Collect(raw_panic_text, d, m + 1)
      BY <1>3, <2>2 DEF StartPanic, Collect
    <3>2. d \in BOOLEAN
      BY DEF Describing
    <3> HIDE DEF d, t, described, describedNext
    <3>3. /\ raw_panic_text' \in Seq(1 .. m + 1)
          /\ Taken(Collect(raw_panic_text, d, m + 1))
               = Taken(raw_panic_text) \cup (IF d THEN {m + 1} ELSE {})
      BY <1>3, <3>1, <3>2, Collected
    <3>4. Taken(raw_panic_text)' = Taken(Collect(raw_panic_text, d, m + 1))
      BY <3>1 DEF Taken
    <3>5. raw_panic_text' = raw_panic_text \/ raw_panic_text' = Append(raw_panic_text, m + 1)
      BY <3>1 DEF Collect
    <3>6. Ordered(raw_panic_text', log') /\ Doubled(raw_panic_text', log')
      <4>1. /\ Ordered(raw_panic_text, log') /\ Doubled(raw_panic_text, log')
            /\ Ordered(Append(raw_panic_text, m + 1), log')
            /\ Doubled(Append(raw_panic_text, m + 1), log')
        BY <1>1, <1>3, <1>8, <2>2, Extended
      <4> QED BY <3>5, <4>1
    <3> QED BY <1>7, <1>8, <3>3, <3>4, <3>6
  <2> QED BY <2>1, <2>2
<1>11. /\ Taken(panic_summary)' = {i \in describedNext : "known" \in log'[i]}
       /\ Increasing(panic_summary)' /\ panic_summary' \in Seq(1 .. m + 1)
  <2> DEFINE w == d /\ "known" \in l
  <2>1. w \in BOOLEAN /\ (w <=> d /\ "known" \in l)
    BY <1>5
  <2>2. described \subseteq 1 .. m
    OBVIOUS
  <2>3. panic_summary' = Collect(panic_summary, w, m + 1)
    BY <1>3
  <2> HIDE DEF d, t, described, describedNext, w
  <2>4. /\ panic_summary' \in Seq(1 .. m + 1)
        /\ Taken(Collect(panic_summary, w, m + 1))
             = Taken(panic_summary) \cup (IF w THEN {m + 1} ELSE {})
        /\ Increasing(panic_summary')
    BY <1>3, <1>8, <2>1, <2>3, Collected
  <2>5. Taken(panic_summary)' = Taken(Collect(panic_summary, w, m + 1))
    BY <2>3 DEF Taken
  <2>6. {i \in describedNext : "known" \in log'[i]}
          = {i \in described : "known" \in log[i]} \cup (IF w THEN {m + 1} ELSE {})
    BY <1>1, <1>6, <1>7, <2>1, <2>2
  <2>7. Increasing(panic_summary)'
    BY <2>4 DEF Increasing
  <2> QED BY <1>8, <2>4, <2>5, <2>6, <2>7
<1>12. ExactDescription'
  <2>1. describedNext = {i \in Read' : (\E s \in 1 .. i : "panic" \in log'[s]) /\ ~InBacktrace(i)'}
    BY <1>1
  <2>2. /\ \A j, k \in DOMAIN raw_panic_text' :
             j < k => \/ raw_panic_text'[j] < raw_panic_text'[k]
                      \/ /\ raw_panic_text'[j] = raw_panic_text'[k] /\ k = j + 1
                         /\ "panic" \in log'[raw_panic_text'[j]]
        /\ \A j \in DOMAIN raw_panic_text' :
             "panic" \in log'[raw_panic_text'[j]] =>
               \E k \in {j - 1, j + 1} \cap DOMAIN raw_panic_text' :
                 raw_panic_text'[k] = raw_panic_text'[j]
    BY <1>10 DEF Ordered, Doubled
  <2> HIDE DEF describedNext
  <2> QED BY <1>10, <1>11, <2>1, <2>2 DEF ExactDescription
<1> QED BY <1>10, <1>11, <1>12

-----------------------------------------------------------------------------
(* Theorems *)

LEMMA ReadLineHolds ==
  ASSUME LineInv, ExactDescription, ReadLine
  PROVE  LineInv' /\ ExactDescription'
<1> DEFINE m == Len(log)
<1>1. PICK l \in Line : /\ log' = Append(log, l) /\ Describe(l, m + 1)
                        /\ Header(l) \/ Frames(l, m + 1)
  BY DEF ReadLine
<1>2. /\ Read' = 1 .. m + 1 /\ log' \in Seq(Line)
  BY <1>1, Reading DEF LineInv
<1>3. /\ FramesExact'
      /\ backtrace_frames' \in Seq(1 .. m + 1) /\ kext_list' \in Seq(1 .. m + 1)
  BY <1>1, CollectsLine
<1>4. in_backtrace' <=> Open'
  BY <1>1, StaysOpen DEF LineInv
<1>5. /\ ExactDescription'
      /\ raw_panic_text' \in Seq(1 .. m + 1) /\ panic_summary' \in Seq(1 .. m + 1)
  BY <1>1, DescribesLine
<1>6. in_backtrace' \in BOOLEAN
  BY <1>1 DEF Header, Frames, Inside, LineInv, Types
<1> QED BY <1>2, <1>3, <1>4, <1>5, <1>6 DEF LineInv, Types

LEMMA Collecting == Spec => [](LineInv /\ ExactDescription)
<1>1. Init => LineInv /\ ExactDescription
  <2> SUFFICES ASSUME Init
               PROVE  LineInv /\ ExactDescription
    OBVIOUS
  <2>1. Len(log) = 0 /\ Read = {} /\ Taken(<<>>) = {} /\ Increasing(<<>>)
    BY DEF Init, Read, Taken, Increasing
  <2>2. Types
    <3>1. <<>> \in Seq(Line) /\ <<>> \in Seq(Read) /\ FALSE \in BOOLEAN
      OBVIOUS
    <3> QED BY <3>1 DEF Init, Types
  <2>3. ~Open
    BY <2>1 DEF Open
  <2>4. FramesExact
    BY <2>1 DEF Init, FramesExact
  <2>5. ExactDescription
    BY <2>1 DEF Init, ExactDescription
  <2> QED BY <2>2, <2>3, <2>4, <2>5 DEF Init, LineInv
<1>2. LineInv /\ ExactDescription /\ [Next]_vars => LineInv' /\ ExactDescription'
  <2> SUFFICES ASSUME LineInv, ExactDescription, [Next]_vars
               PROVE  LineInv' /\ ExactDescription'
    OBVIOUS
  <2>1. CASE ReadLine
    BY <2>1, ReadLineHolds
  <2>2. CASE UNCHANGED <<log, in_backtrace, raw_panic_text, panic_summary, backtrace_frames,
                         kext_list>>
    <3>1. /\ log' = log /\ in_backtrace' = in_backtrace
          /\ raw_panic_text' = raw_panic_text /\ panic_summary' = panic_summary
          /\ backtrace_frames' = backtrace_frames /\ kext_list' = kext_list
      BY <2>2
    <3>2. Read' = Read /\ (Types' <=> Types)
      BY <3>1 DEF Read, Types
    <3>3. /\ Taken(raw_panic_text)' = Taken(raw_panic_text)
          /\ Taken(panic_summary)' = Taken(panic_summary)
          /\ Taken(backtrace_frames)' = Taken(backtrace_frames)
          /\ Taken(kext_list)' = Taken(kext_list)
          /\ Increasing(panic_summary)' <=> Increasing(panic_summary)
          /\ Increasing(backtrace_frames)' <=> Increasing(backtrace_frames)
          /\ Increasing(kext_list)' <=> Increasing(kext_list)
      BY <3>1 DEF Taken, Increasing
    <3>4. /\ \A i : InBacktrace(i)' <=> InBacktrace(i)
          /\ Open' <=> Open
      BY <3>1, <3>3 DEF InBacktrace, Open
    <3>5. FramesExact'
      BY <3>1, <3>2, <3>3, <3>4 DEF LineInv, FramesExact
    <3>6. ExactDescription'
      BY <3>1, <3>2, <3>3, <3>4 DEF ExactDescription
    <3> QED BY <3>1, <3>2, <3>4, <3>5, <3>6 DEF LineInv
  <2> QED BY <2>1, <2>2 DEF Next, PrintReport, vars
<1> QED BY <1>1, <1>2, PTL DEF Spec

\* From any log the parser collects the frames and the kexts of its backtraces,
\* from all of their lines and no other line, in order and once each
\* (panic-parse.py:126-143).
THEOREM FramesCollected == Spec => []FramesExact
BY Collecting, PTL DEF LineInv

\* From any log the parser keeps as its description every line from a panic to the
\* next backtrace, no line before the first panic and none out of a backtrace, in
\* order, and the diagnosis of each once (panic-parse.py:114-123).
THEOREM DescriptionCollected == Spec => []DescriptionKept
<1>1. ASSUME ExactDescription
      PROVE  DescriptionKept
  <2> DEFINE since == {i \in Read : \E s \in 1 .. i : "panic" \in log[s]}
             described == {i \in Read : (\E s \in 1 .. i : "panic" \in log[s]) /\ ~InBacktrace(i)}
  <2>1. \A i \in Read : InBacktrace(i) => Behind(i)
    BY DEF InBacktrace, Behind
  <2>2. /\ {i \in since : ~Behind(i)} \subseteq described
        /\ described = {i \in since : ~InBacktrace(i)}
    BY <2>1
  <2>3. /\ Taken(raw_panic_text) = described
        /\ Taken(panic_summary) = {i \in described : "known" \in log[i]}
    BY <1>1 DEF ExactDescription
  <2>4. /\ Increasing(panic_summary)
        /\ \A j, k \in DOMAIN raw_panic_text :
             j < k => \/ raw_panic_text[j] < raw_panic_text[k]
                      \/ /\ raw_panic_text[j] = raw_panic_text[k] /\ k = j + 1
                         /\ "panic" \in log[raw_panic_text[j]]
    BY <1>1 DEF ExactDescription
  <2> HIDE DEF described
  <2> QED
    BY <2>2, <2>3, <2>4 DEF DescriptionKept
<1> QED
  BY <1>1, Collecting, PTL

\* Every line a list names has been read.
THEOREM TypesHold == Spec => []TypeOK
<1>1. LineInv => TypeOK
  BY DEF LineInv, Types, TypeOK
<1> QED BY <1>1, Collecting, PTL

\* The report is what the lists hold.
Reported ==
  report # <<>> =>
    report = <<SubSeq(raw_panic_text, 1, IF Len(raw_panic_text) < Shown
                                         THEN Len(raw_panic_text) ELSE Shown),
               panic_summary, backtrace_frames, kext_list>>

LEMMA ReportsLists == Spec => []Reported
<1>1. Init => Reported
  BY DEF Init, Reported
<1>2. Reported /\ [Next]_vars => Reported'
  BY DEF Reported, Next, ReadLine, PrintReport, vars
<1> QED
  BY <1>1, <1>2, PTL DEF Spec

\* The first entry of the description is the first panic of the log.
LEMMA FirstEntry ==
  ASSUME LineInv, ExactDescription, NEW s \in Read, "panic" \in log[s]
  PROVE  /\ Len(raw_panic_text) \in Nat \ {0}
         /\ raw_panic_text[1] <= s /\ "panic" \in log[raw_panic_text[1]]
         /\ "known" \in log[s] => s \in Taken(panic_summary)
<1> DEFINE described == {i \in Read : (\E p \in 1 .. i : "panic" \in log[p]) /\ ~InBacktrace(i)}
           first == raw_panic_text[1]
<1>1. /\ Taken(raw_panic_text) = described
      /\ Taken(panic_summary) = {i \in described : "known" \in log[i]}
      /\ \A j, k \in DOMAIN raw_panic_text :
           j < k => raw_panic_text[j] < raw_panic_text[k] \/ raw_panic_text[j] = raw_panic_text[k]
  BY DEF ExactDescription
<1>2. raw_panic_text \in Seq(Read) /\ log \in Seq(Line) /\ Read \subseteq Nat \ {0}
  BY DEF LineInv, Types, Read
<1>3. ASSUME NEW p \in Read, "panic" \in log[p]
      PROVE  p \in described
  <2>1. p \in Nat \ {0}
    BY <1>2
  <2>2. \A h \in 1 .. p - 1 : p \in h + 1 .. p
    BY <2>1
  <2>3. ~InBacktrace(p)
    BY <1>3, <2>2 DEF InBacktrace
  <2>4. p \in 1 .. p
    BY <2>1
  <2> QED
    BY <1>3, <2>3, <2>4
<1> HIDE DEF described
<1>4. PICK j \in DOMAIN raw_panic_text : raw_panic_text[j] = s
  BY <1>1, <1>3 DEF Taken
<1>5. /\ Len(raw_panic_text) \in Nat \ {0} /\ 1 \in DOMAIN raw_panic_text
      /\ DOMAIN raw_panic_text = 1 .. Len(raw_panic_text) /\ first \in Read
  BY <1>2, <1>4
<1>a. \A k \in DOMAIN raw_panic_text : raw_panic_text[k] \in Nat
  <2>1. \A i \in Read : i \in Nat
    BY DEF Read
  <2>2. \A k \in DOMAIN raw_panic_text : raw_panic_text[k] \in Read
    BY <1>2
  <2> QED
    BY <2>1, <2>2
<1>6. ASSUME NEW p \in described
      PROVE  first <= p
  <2>1. PICK k \in DOMAIN raw_panic_text : raw_panic_text[k] = p
    BY <1>1 DEF Taken
  <2>2. k = 1 \/ 1 < k
    BY <1>5
  <2>3. first < p \/ first = p
    BY <1>1, <1>5, <2>1, <2>2
  <2>4. p \in Nat /\ first \in Nat
    BY <1>a, <1>5, <2>1
  <2> QED
    BY <2>3, <2>4
<1>7. "panic" \in log[first]
  <2>1. first \in described
    BY <1>1, <1>5 DEF Taken
  <2>2. PICK p \in 1 .. first : "panic" \in log[p]
    BY <2>1 DEF described
  <2>3. p \in Read
    BY <1>2, <1>5, <2>2 DEF Read
  <2>4. first <= p
    BY <1>3, <1>6, <2>2, <2>3
  <2>5. p \in Nat /\ p <= first /\ first \in Nat
    BY <1>a, <1>5, <2>2
  <2>6. p = first
    BY <2>4, <2>5
  <2> QED
    BY <2>2, <2>6
<1>8. first <= s
  BY <1>3, <1>6
<1> QED
  BY <1>1, <1>3, <1>5, <1>7, <1>8

\* The report starts with the first panic of the log, however many follow, and
\* has the diagnosis of every line that starts one (panic-parse.py:154).
THEOREM FirstPanicReported == Spec => []FirstPanicTold
<1>1. ASSUME LineInv, ExactDescription, Reported, report # <<>>,
             NEW s \in Read, "panic" \in log[s]
      PROVE  /\ Shown > 0 => report[1] # <<>> /\ report[1][1] <= s /\ "panic" \in log[report[1][1]]
             /\ "known" \in log[s] => s \in Taken(report[2])
  <2>1. /\ Len(raw_panic_text) \in Nat \ {0}
        /\ raw_panic_text[1] <= s /\ "panic" \in log[raw_panic_text[1]]
        /\ "known" \in log[s] => s \in Taken(panic_summary)
    BY <1>1, FirstEntry
  <2> DEFINE n == IF Len(raw_panic_text) < Shown THEN Len(raw_panic_text) ELSE Shown
  <2>2. report[1] = SubSeq(raw_panic_text, 1, n) /\ report[2] = panic_summary
    BY <1>1 DEF Reported
  <2>3. ASSUME Shown > 0
        PROVE  report[1] # <<>> /\ report[1][1] = raw_panic_text[1]
    <3>1. n \in 1 .. Len(raw_panic_text) /\ raw_panic_text \in Seq(Read)
      BY <1>1, <2>1, <2>3, PanicAssumption DEF LineInv, Types
    <3> HIDE DEF n
    <3>2. Len(SubSeq(raw_panic_text, 1, n)) = n /\ SubSeq(raw_panic_text, 1, n)[1] = raw_panic_text[1]
      BY <2>1, <3>1
    <3> QED
      BY <2>1, <2>2, <3>1, <3>2
  <2> QED
    BY <2>1, <2>2, <2>3
<1>2. LineInv /\ ExactDescription /\ Reported => FirstPanicTold
  BY <1>1 DEF FirstPanicTold
<1> QED
  BY <1>2, Collecting, ReportsLists, PTL
=============================================================================
