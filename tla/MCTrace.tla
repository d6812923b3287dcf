------------------------------- MODULE MCTrace -------------------------------
(***************************************************************************)
(* Two q-cli processes, one of them possibly a retry whose first attempt   *)
(* timed out, one handler of another tool, one manual reset.               *)
(***************************************************************************)
EXTENDS Trace
==============================================================================
