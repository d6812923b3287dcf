--------------------------- MODULE MCRemoteInspect ---------------------------
(***************************************************************************)
(* Every call graph over three names, every choice of functions and denied *)
(* functions among them, every order of the source's names; the budget is  *)
(* one name short of the largest graph.                                    *)
(***************************************************************************)
EXTENDS RemoteInspect
==============================================================================
