------------------------------ MODULE Decompress ------------------------------
(***************************************************************************)
(* k::decompress (src/k.rs): the decoder of compressed IPC payloads, loop  *)
(* by loop.  It rebuilds, from the output alone, the table of positions    *)
(* that the encoder used; every later run resolves through it, so one      *)
(* position hashed too many or too few garbles the rest.                   *)
(*                                                                         *)
(* The payload is read strictly forwards, so it is not kept: each byte is  *)
(* chosen when it is read, and `left` says how many remain.  Of the bits   *)
(* of a control byte only the present one is kept, as `kind`.             *)
(***************************************************************************)
EXTENDS Integers, Sequences

CONSTANTS
  Bytes,      \* values of a byte
  Hash,       \* the hash of two bytes, their exclusive or
  Extras,     \* values of a run's second byte: its length less 2
  Sizes,      \* values of the size word
  Lengths,    \* lengths of the payload
  MaxSize     \* the 1 GB of k.rs:823

ASSUME BytesAssumption ==
  /\ Hash \in [Bytes \X Bytes -> Bytes]
  /\ Extras \subseteq Nat
ASSUME LengthsAssumption == Sizes \subseteq Nat /\ Lengths \subseteq Nat /\ MaxSize \in Nat

VARIABLES
  pc,         \* the loop the decoder is in
  size,       \* the size word
  left,       \* bytes of the payload not yet read
  dst,        \* the output so far; its first byte is at position 0
  bit,        \* the present bit of the control byte, from 1; 0: none left
  kind,       \* what that bit says of the present token: "literal" or "run"
  refPos, remaining,   \* the copy loop
  table,      \* hash_table
  hashPos, hashEnd,    \* the hash loop
  starts, complete     \* history: where the complete tokens began, and the
                       \* length of what they wrote

input  == <<size, left>>
copy   == <<refPos, remaining>>
hashes == <<table, hashPos>>
tokens == <<starts, complete>>
vars   == <<pc, input, dst, bit, kind, copy, hashes, hashEnd, tokens>>

DstLen == size - 8
At(p) == dst[p + 1]
-------------------------------------------------------------------------------
Init ==
  /\ pc = "start"
  /\ size \in Sizes /\ left \in Lengths
  /\ dst = <<>>
  /\ bit = 0 /\ kind = "literal"
  /\ refPos = 0 /\ remaining = 0
  /\ table = [h \in Bytes |-> 0]
  /\ hashPos = 0 /\ hashEnd = 0
  /\ starts = {} /\ complete = 0

Fail == /\ pc' = "failed"
        /\ UNCHANGED <<input, dst, bit, kind, copy, hashes, hashEnd, tokens>>

Start ==
  /\ pc = "start"
  /\ IF left < 4 \/ size < 8 \/ size > MaxSize
       THEN Fail
       ELSE /\ pc' = "tokens"
            /\ left' = left - 4
            /\ UNCHANGED <<size, dst, bit, kind, copy, hashes, hashEnd, tokens>>

Finish ==
  /\ pc = "tokens" /\ Len(dst) = DstLen
  /\ pc' = "done"
  /\ UNCHANGED <<input, dst, bit, kind, copy, hashes, hashEnd, tokens>>

InToken == pc = "tokens" /\ Len(dst) < DstLen

ReadControl ==
  /\ InToken /\ bit = 0
  /\ IF left = 0
       THEN Fail
       ELSE /\ left' = left - 1
            /\ bit' = 1
            /\ UNCHANGED <<pc, size, dst, kind, copy, hashes, hashEnd, tokens>>

Literal ==
  /\ InToken /\ bit > 0
  /\ IF left = 0
       THEN Fail
       ELSE /\ \E b \in Bytes : dst' = Append(dst, b)
            /\ left' = left - 1
            /\ kind' = "literal"
            /\ hashEnd' = Len(dst) + 1
            /\ pc' = "hash"
            /\ UNCHANGED <<size, bit, copy, hashes, tokens>>

\* Mutants: the whole run is hashed, and a run may begin where nothing is.
RunHashEndAll(extra) == Len(dst) + extra + 2
WrittenOrNext(p) == p <= Len(dst)

\* Only the first two bytes of a run are hashed.
RunHashEnd(extra) == Len(dst) + 2

Written(p) == p < Len(dst)

\* A run: a hash, which selects where to copy from, and an extra length.
Run(h, extra) ==
  /\ InToken /\ bit > 0
  /\ IF left < 2 \/ ~Written(table[h])
       THEN Fail
       ELSE /\ left' = left - 2
            /\ kind' = "run"
            /\ refPos' = table[h]
            /\ remaining' = extra + 2
            /\ hashEnd' = RunHashEnd(extra)
            /\ pc' = "copy"
            /\ UNCHANGED <<size, dst, bit, hashes, tokens>>

Full == Len(dst) >= DstLen

\* One byte of a run; it may be one that the run itself has written.
Copy ==
  /\ pc = "copy" /\ remaining > 0
  /\ IF Full \/ refPos >= DstLen
       THEN Fail
       ELSE /\ dst' = Append(dst, At(refPos))
            /\ refPos' = refPos + 1
            /\ remaining' = remaining - 1
            /\ UNCHANGED <<pc, input, bit, kind, hashes, hashEnd, tokens>>

CopyEnds ==
  /\ pc = "copy" /\ remaining = 0
  /\ pc' = "hash"
  /\ UNCHANGED <<input, dst, bit, kind, copy, hashes, hashEnd, tokens>>

\* Mutant: the cursor stays where it is.
HashPairAgain ==
  /\ pc = "hash" /\ hashPos + 1 < hashEnd
  /\ table' = [table EXCEPT ![Hash[<<At(hashPos), At(hashPos + 1)>>]] = hashPos]
  /\ UNCHANGED <<pc, input, dst, bit, kind, copy, hashPos, hashEnd, tokens>>

HashPair ==
  /\ pc = "hash" /\ hashPos + 1 < hashEnd
  /\ table' = [table EXCEPT ![Hash[<<At(hashPos), At(hashPos + 1)>>]] = hashPos]
  /\ hashPos' = hashPos + 1
  /\ UNCHANGED <<pc, input, dst, bit, kind, copy, hashEnd, tokens>>

\* The rest of a run is skipped, and the next bit is up.
HashEnds ==
  /\ pc = "hash" /\ hashPos + 1 >= hashEnd
  /\ hashPos' = IF kind = "run" THEN Len(dst) ELSE hashPos
  /\ bit' = (bit + 1) % 9
  /\ starts' = starts \cup {complete} /\ complete' = Len(dst)
  /\ pc' = "tokens"
  /\ UNCHANGED <<input, dst, kind, copy, table, hashEnd>>

Next == \/ Start \/ Finish \/ ReadControl
        \/ Literal \/ \E h \in Bytes, extra \in Extras : Run(h, extra)
        \/ Copy \/ CopyEnds \/ HashPair \/ HashEnds

Spec == Init /\ [][Next]_vars

\* A sequential program goes on.
FairSpec == Spec /\ WF_vars(Next)
-------------------------------------------------------------------------------
\* Every variable has its type, and no more is written than is asked for.
TypeOK ==
  /\ pc \in {"start", "tokens", "copy", "hash", "done", "failed"}
  /\ size \in Sizes /\ left \in Nat
  /\ pc \notin {"start", "failed"} => size >= 8
  /\ dst \in Seq(Bytes)
  /\ size >= 8 => Len(dst) <= DstLen
  /\ bit \in 0 .. 8 /\ kind \in {"literal", "run"}
  /\ refPos \in Nat /\ remaining \in Nat
  /\ table \in [Bytes -> Nat] /\ hashPos \in Nat /\ hashEnd \in Nat
  /\ starts \subseteq Nat /\ complete \in Nat

\* The two loops never read a byte that has not been written, whatever the
\* payload says: no index is out of bounds, and no byte of the output comes
\* from the zeros it was created with (k.rs:835, "never an out-of-bounds
\* panic").
ReadsOnlyWritten ==
  /\ pc = "copy" /\ remaining > 0 => refPos < Len(dst)
  /\ pc = "hash" /\ hashPos + 1 < hashEnd => hashPos + 1 < Len(dst)

\* What Lz speaks of: the length asked for, the bytes of the complete tokens,
\* and how decoding ends.
Asked   == IF size < 8 THEN 0 ELSE DstLen
Decoded == SubSeq(dst, 1, complete)
Outcome == IF pc \in {"done", "failed"} THEN pc ELSE "running"

\* The decoder means what the format means: its table finds the last start of
\* a token, and copying byte by byte repeats what a run overlaps.
Format == INSTANCE Lz WITH size <- Asked, out <- Decoded, outcome <- Outcome

\* Lz's Spec.
ImplementsFormat == Format!Spec

\* Whatever the payload, decoding ends.
Ends == <>(pc \in {"done", "failed"})
===============================================================================
