------------------------------- MODULE MCPipe -------------------------------
(* Pipe for TLC: a creator and two more processes, a ring of three bytes.    *)
EXTENDS Pipe, TLC

CONSTANTS t1, t2, t3

Others == Permutations(Task \ {t1})
============================================================================
