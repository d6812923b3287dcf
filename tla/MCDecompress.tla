----------------------------- MODULE MCDecompress -----------------------------
(***************************************************************************)
(* Bytes of one bit and every payload for outputs of up to ten of them: a  *)
(* run can overlap itself, follow another and be referred to by a later    *)
(* one, and a second control byte is read.                                 *)
(***************************************************************************)
EXTENDS Decompress

MCBytes == {0, 1}

MCHash == [p \in MCBytes \X MCBytes |-> (p[1] + p[2]) % 2]
===============================================================================
