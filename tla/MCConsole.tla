----------------------------- MODULE MCConsole -----------------------------
(* Console for TLC, with the characters of its run.                          *)
EXTENDS Console

InkChars == {"a", "esc", "lf", "cr", "tab", "[", "1", "2", ";", "A", "J", "K", "L", "M", "P", "@", "r", "del"}
============================================================================
