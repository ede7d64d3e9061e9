---------------------------- MODULE MCPanicParse ----------------------------
(* The kinds of line TLC builds logs from.                                  *)
EXTENDS PanicParse

\* Among them a panic in the middle of a frame's line, and a heading that
\* repeats the panic.
Lines == {{"panic"}, {"panic", "known"}, {"known"}, {"header"}, {"frame"}, {"kext"}, {"blank"},
          {"panic", "frame"}, {"panic", "header"}}
=============================================================================
