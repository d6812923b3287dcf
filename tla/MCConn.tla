------------------------------- MODULE MCConn -------------------------------
(***************************************************************************)
(* Conn on a small clock: --timeout below the establishment cap, above     *)
(* both caps, and none; two addresses, one partial call per transfer, two  *)
(* round trips.                                                            *)
(***************************************************************************)
EXTENDS Conn

\* README.md:100 "Query round-trip exceeded --timeout" is exit 5: a round
\* trip that goes on has not exceeded it.
RoundTripIsBounded ==
  phase \in RoundTripPhases /\ timeout # None => elapsed <= timeout
=============================================================================
