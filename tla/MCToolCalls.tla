------------------------------ MODULE MCToolCalls ------------------------------
(***************************************************************************)
(* Instances of ToolCalls for TLC.                                         *)
(***************************************************************************)
EXTENDS ToolCalls, TLC

CONSTANTS c1, c2, c3

\* Calls differ only in their names, as long as no liveness is asked for.
Symmetry == Permutations(Calls)

\* The tool that uses the lock most: up to three requests in two sections; its
\* error paths end after one or two of them, as the other tools do.
LockUsers == {"get_option_chain"}
=============================================================================
