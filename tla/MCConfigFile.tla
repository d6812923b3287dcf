----------------------------- MODULE MCConfigFile -----------------------------
(***************************************************************************)
(* Three q-cli processes in a directory, in one above it or with           *)
(* $Q_CLI_CONFIG, two profile names and two targets; a file may start with *)
(* two lines for one name, the last of them without a value.               *)
(***************************************************************************)
EXTENDS ConfigFile, FiniteSets, TLC

CONSTANTS n1, n2, v1, v2, inner, outer

Entry(n, v) == [name |-> n, value |-> v]

MCWalk == inner :> <<inner, outer>> @@ outer :> <<outer>>

MCTemplate == <<Entry(n1, v1)>>

MCHandWritten == { <<>>, <<Entry(n1, v1), Entry(n1, v2)>>,
                   <<Entry(n2, v2), Entry(n1, v1), Entry(n1, NoValue)>> }

\* At most one file is there at the start; the others are yet to be written.
MCInit == ConfigInit /\ Cardinality({f \in Files : exists[f]}) <= 1

MCSpec == MCInit /\ [][ConfigNext]_configVars

Alike == Permutations(Procs)
===============================================================================
