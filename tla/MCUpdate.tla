------------------------------- MODULE MCUpdate -------------------------------
(***************************************************************************)
(* Two processes and five releases: of every version, with every kind of   *)
(* asset, one without any that fits and one whose tag does not parse.      *)
(***************************************************************************)
EXTENDS Update, TLC

A(kind, fits, holds) == [kind |-> kind, fits |-> fits, holds |-> holds]

MCReleases ==
  { [version |-> 1, parses |-> TRUE,
     assets |-> <<A("checksum", TRUE, FALSE), A("zip", TRUE, TRUE)>>],
    [version |-> 2, parses |-> TRUE,
     assets |-> <<A("zip", FALSE, TRUE), A("tar", TRUE, FALSE), A("tar", TRUE, TRUE)>>],
    [version |-> 2, parses |-> TRUE, assets |-> <<A("zip", FALSE, TRUE)>>],
    [version |-> 3, parses |-> TRUE, assets |-> <<A("binary", TRUE, TRUE)>>],
    [version |-> 1, parses |-> FALSE, assets |-> <<A("tar", TRUE, TRUE)>>] }

Symmetry == Permutations(Updaters)
===============================================================================
