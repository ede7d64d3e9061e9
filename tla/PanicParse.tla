----------------------------- MODULE PanicParse -----------------------------
(***************************************************************************)
(* The panic log parser (parse_panic_log in tools/panic-parse.py): one pass *)
(* over the lines of a console log, and the report it prints at the end.    *)
(*                                                                          *)
(* A line is the set of the patterns it matches; what the parser collects   *)
(* from a line is represented by the line's number in the log.              *)
(***************************************************************************)
EXTENDS Naturals, Sequences

CONSTANTS
  Line,        \* the kinds of line a log may hold
  MaxLines,    \* bound: length of a log
  Shown        \* description lines the report prints (5 in the code)

Pattern == {"panic", "known", "header", "frame", "kext", "blank"}

ASSUME PanicAssumption ==
  /\ Line \subseteq SUBSET Pattern
  /\ \A l \in Line : "blank" \in l => l = {"blank"}
  /\ MaxLines \in Nat /\ Shown \in Nat

VARIABLES
  log,               \* the lines read so far
  in_backtrace,
  raw_panic_text,    \* lines collected as the description
  panic_summary,     \* lines whose diagnosis was collected
  backtrace_frames,  \* lines collected as frames
  kext_list,         \* lines collected as loaded kexts
  report             \* what was printed, none until the log has ended

vars == <<log, in_backtrace, raw_panic_text, panic_summary, backtrace_frames, kext_list, report>>

Init ==
  /\ log = <<>> /\ in_backtrace = FALSE
  /\ raw_panic_text = <<>> /\ panic_summary = <<>>
  /\ backtrace_frames = <<>> /\ kext_list = <<>>
  /\ report = <<>>

Collect(list, when, i) == IF when THEN Append(list, i) ELSE list

\* Faulty variant: a panic starts the description anew.
StartPanicAnew(l, i) == IF "panic" \in l THEN <<i>> ELSE raw_panic_text

\* A line that starts a panic is collected here and once more by Describe.
StartPanic(l, i) == Collect(raw_panic_text, "panic" \in l, i)

\* Faulty variant: a panic does not end the backtrace before it.
InsideStill(l) == in_backtrace

\* Past this, is the parser inside a backtrace?  A panic leaves it.
Inside(l) == in_backtrace /\ "panic" \notin l

Describing(l, i) == StartPanic(l, i) # <<>> /\ ~Inside(l)

Describe(l, i) ==
  /\ raw_panic_text' = Collect(StartPanic(l, i), Describing(l, i), i)
  /\ panic_summary' = Collect(panic_summary, Describing(l, i) /\ "known" \in l, i)

\* A line that names a backtrace opens one, and nothing else is looked for in it.
Header(l) ==
  /\ "header" \in l
  /\ in_backtrace' = TRUE
  /\ UNCHANGED <<backtrace_frames, kext_list>>

\* Faulty variant: any blank line ends the backtrace.
FramesToBlank(l, i) ==
  /\ "header" \notin l
  /\ backtrace_frames' = Collect(backtrace_frames, Inside(l) /\ "frame" \in l, i)
  /\ kext_list' = Collect(kext_list, Inside(l) /\ "kext" \in l, i)
  /\ in_backtrace' = (Inside(l) /\ "blank" \notin l)

\* Frames and kexts of a line in a backtrace.  A blank line ends it, if any
\* frame has been collected by then.
Frames(l, i) ==
  /\ "header" \notin l
  /\ backtrace_frames' = Collect(backtrace_frames, Inside(l) /\ "frame" \in l, i)
  /\ kext_list' = Collect(kext_list, Inside(l) /\ "kext" \in l, i)
  /\ in_backtrace' = (Inside(l) /\ ~("blank" \in l /\ backtrace_frames' # <<>>))

\* Faulty variant: lines counted from zero.
ReadLineFromZero ==
  /\ report = <<>> /\ Len(log) < MaxLines
  /\ \E l \in Line :
       /\ log' = Append(log, l)
       /\ Describe(l, Len(log))
       /\ Header(l) \/ Frames(l, Len(log))
  /\ UNCHANGED report

ReadLine ==
  /\ report = <<>> /\ Len(log) < MaxLines
  /\ \E l \in Line :
       /\ log' = Append(log, l)
       /\ Describe(l, Len(log) + 1)
       /\ Header(l) \/ Frames(l, Len(log) + 1)
  /\ UNCHANGED report

\* The log ends anywhere, and the report is printed.
PrintReport ==
  /\ report = <<>>
  /\ report' = <<SubSeq(raw_panic_text, 1, IF Len(raw_panic_text) < Shown
                                           THEN Len(raw_panic_text) ELSE Shown),
                 panic_summary, backtrace_frames, kext_list>>
  /\ UNCHANGED <<log, in_backtrace, raw_panic_text, panic_summary, backtrace_frames, kext_list>>

Next == ReadLine \/ PrintReport

Spec == Init /\ [][Next]_vars

-----------------------------------------------------------------------------
(* Properties *)

Taken(list) == {list[k] : k \in DOMAIN list}
Increasing(list) == \A j, k \in DOMAIN list : j < k => list[j] < list[k]
Read == 1 .. Len(log)

TypeOK ==
  /\ log \in Seq(Line) /\ in_backtrace \in BOOLEAN
  /\ raw_panic_text \in Seq(Read) /\ panic_summary \in Seq(Read)
  /\ backtrace_frames \in Seq(Read) /\ kext_list \in Seq(Read)

\* Line i is in a backtrace: since a line that names one there has been no
\* panic, and no blank line that some collected frame of the log precedes.
InBacktrace(i) ==
  \E h \in 1 .. i - 1 :
    /\ "header" \in log[h]
    /\ \A j \in h + 1 .. i : "panic" \notin log[j]
    /\ \A b \in h + 1 .. i - 1 : "blank" \in log[b] => \A f \in Taken(backtrace_frames) : b < f

\* Frames and kexts are collected from the backtraces, from all of their lines
\* and from no other line, in order and once each (panic-parse.py:126-143).
\* Once any frame has been collected, a blank line ends every later backtrace
\* at once, before its first frame even.
FramesExact ==
  /\ Taken(backtrace_frames) =
       {i \in Read : "frame" \in log[i] /\ "header" \notin log[i] /\ InBacktrace(i)}
  /\ Taken(kext_list) =
       {i \in Read : "kext" \in log[i] /\ "header" \notin log[i] /\ InBacktrace(i)}
  /\ Increasing(backtrace_frames) /\ Increasing(kext_list)

\* Line i comes behind the heading of a backtrace, and since that heading no
\* line has started a panic.
Behind(i) ==
  \E h \in 1 .. i - 1 : "header" \in log[h] /\ \A j \in h + 1 .. i : "panic" \notin log[j]

\* Whatever comes between, the description keeps every line from a panic to the
\* heading of the next backtrace, takes none from before the first panic and none
\* out of a backtrace, and has them in order, only lines that start a panic more
\* than once.  Each one that names a known cause adds its diagnosis, once, and
\* nothing else does (panic-parse.py:114-123).  Lines behind a backtrace are left
\* open: the comment at line 118 leaves them out, and the code takes them.
DescriptionKept ==
  LET since == {i \in Read : \E s \in 1 .. i : "panic" \in log[s]}
  IN /\ {i \in since : ~Behind(i)} \subseteq Taken(raw_panic_text)
     /\ Taken(raw_panic_text) \subseteq {i \in since : ~InBacktrace(i)}
     /\ \A j, k \in DOMAIN raw_panic_text :
          j < k => \/ raw_panic_text[j] < raw_panic_text[k]
                   \/ /\ raw_panic_text[j] = raw_panic_text[k] /\ k = j + 1
                      /\ "panic" \in log[raw_panic_text[j]]
     /\ Taken(panic_summary) = {i \in Taken(raw_panic_text) : "known" \in log[i]}
     /\ Increasing(panic_summary)

\* However many panics and lines follow, the message printed starts with the
\* first panic of the log, and the diagnosis of every panic line is printed,
\* though few lines of the description are (panic-parse.py:154).
FirstPanicTold ==
  report # <<>> =>
    \A s \in Read : "panic" \in log[s] =>
      /\ Shown > 0 => report[1] # <<>> /\ report[1][1] <= s /\ "panic" \in log[report[1][1]]
      /\ "known" \in log[s] => s \in Taken(report[2])
=============================================================================
