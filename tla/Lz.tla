---------------------------------- MODULE Lz ----------------------------------
(***************************************************************************)
(* What a compressed kdb+ IPC payload means, one token at a time: a        *)
(* literal is a byte, and a run repeats what stands at an earlier place,   *)
(* overlapping what it is writing itself if it is long enough.  The place  *)
(* is given by a hash of two bytes: it is the last start of a token where  *)
(* two bytes with that hash stand, or the beginning if there is none.      *)
(*                                                                         *)
(* There is no table and no cursor here: Decompress has them.              *)
(***************************************************************************)
EXTENDS Integers, Sequences

CONSTANTS
  Bytes,      \* values of a byte
  Hash,       \* the hash of two bytes, their exclusive or
  Extras      \* values of a run's second byte: its length less 2

VARIABLES
  size,       \* length the output is to have
  out,        \* the output so far; its first byte is at position 0
  starts,     \* positions at which a token began
  outcome     \* "running", "done" or "failed"

vars == <<size, out, starts, outcome>>

At(p) == out[p + 1]

\* The starts of tokens where two bytes with hash h stand.
Places(h) ==
  {p \in starts : p + 1 < Len(out) /\ Hash[<<At(p), At(p + 1)>>] = h}

Place(h) ==
  IF Places(h) = {} THEN 0
  ELSE CHOOSE p \in Places(h) : \A q \in Places(h) : q <= p

Init == /\ size \in Nat
        /\ out = <<>>
        /\ starts = {}
        /\ outcome = "running"

Literal(b) == /\ outcome = "running" /\ Len(out) < size
              /\ out' = Append(out, b)
              /\ starts' = starts \cup {Len(out)}
              /\ UNCHANGED <<size, outcome>>

Run(h, length) ==
  /\ outcome = "running" /\ out # <<>> /\ Len(out) + length <= size
  /\ LET from == Place(h)
         period == Len(out) - from
     IN out' = out \o [i \in 1 .. length |-> At(from + ((i - 1) % period))]
  /\ starts' = starts \cup {Len(out)}
  /\ UNCHANGED <<size, outcome>>

Finish == /\ outcome = "running" /\ Len(out) = size
          /\ outcome' = "done"
          /\ UNCHANGED <<size, out, starts>>

\* The payload is cut off, or asks for what is not there or does not fit.
Fail == /\ outcome = "running" /\ (Len(out) < size \/ out = <<>>)
        /\ outcome' = "failed"
        /\ UNCHANGED <<size, out, starts>>

Next == \/ \E b \in Bytes : Literal(b)
        \/ \E h \in Bytes, extra \in Extras : Run(h, extra + 2)
        \/ Finish \/ Fail

Spec == Init /\ [][Next]_vars
===============================================================================
