----------------------------- MODULE MCSession -----------------------------
(***************************************************************************)
(* Two q-cli clients and scripts of up to three statements, chosen so that *)
(* every kind of statement is met in every position that matters and so    *)
(* that a readonly caller can race a redefinition.  The clients are        *)
(* interchangeable, in the specification and in every property.            *)
(***************************************************************************)
EXTENDS Session, TLC

Interchangeable == Permutations(Clients)

Scripts == { <<>>,
             <<"write", "read">>, <<"write", "raise", "read">>, <<"write", "junk">>,
             <<"call", "call">>, <<"define">>, <<"covert", "call">>, <<"read", "hang">>,
             <<"unbalanced">> }

\* A query goes the way of a block: a few of them do.
MCJobs ==
  {j \in [stmts : Scripts, mode : {"query", "each", "block"},
          readonly : BOOLEAN, dry : BOOLEAN, timed : {TRUE}] :
     j.mode = "query" => j.stmts \in {<<>>, <<"write", "junk">>, <<"call", "call">>}}

\* For liveness: some clients wait for ever, and few scripts.
LivenessJobs ==
  {j \in [stmts : {<<"read", "raise">>, <<"read", "hang">>, <<"call">>}, mode : {"each", "block"},
          readonly : BOOLEAN, dry : BOOLEAN, timed : BOOLEAN] :
     /\ j.readonly <=> j.stmts = <<"call">>
     /\ j.dry => j.mode = "each" /\ j.stmts = <<"read", "raise">>}
============================================================================
