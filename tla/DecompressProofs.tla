--------------------------- MODULE DecompressProofs ---------------------------
(***************************************************************************)
(* The decoder's indices stay in bounds for every payload, every size of   *)
(* output and every hash function, whatever values the bytes take; what it *)
(* writes is what the format, Lz, says the payload means; and the lengths  *)
(* bound the steps that it takes.                                          *)
(***************************************************************************)
EXTENDS Decompress, TLAPS

\* What the hash loop is told to hash has been written by the time it runs: a
\* run is hashed for two bytes, and it writes at least two.
HashEndWritten ==
  /\ pc = "copy" => hashEnd <= Len(dst) + remaining
  /\ pc = "hash" => hashEnd <= Len(dst)

IInv == TypeOK /\ ReadsOnlyWritten /\ HashEndWritten

LEMMA InitIInv == Init => IInv
<1> SUFFICES ASSUME Init PROVE IInv
  OBVIOUS
<1>1. table \in [Bytes -> Nat]
  BY DEF Init
<1>2. dst \in Seq(Bytes) /\ Len(dst) = 0
  BY DEF Init
<1>3. size \in Nat /\ left \in Nat
  BY LengthsAssumption DEF Init
<1> QED
  BY <1>1, <1>2, <1>3
     DEF Init, IInv, TypeOK, ReadsOnlyWritten, HashEndWritten, DstLen

\* What is read of the output is a byte.
LEMMA AtType ==
  ASSUME TypeOK, NEW p \in Nat, p < Len(dst)
  PROVE  At(p) \in Bytes
BY DEF TypeOK, At

LEMMA NextIInv == IInv /\ [Next]_vars => IInv'
<1> SUFFICES ASSUME IInv, [Next]_vars PROVE IInv'
  OBVIOUS
<1> USE LengthsAssumption DEF input, copy, hashes, tokens
<1>0. CASE Fail
  BY <1>0 DEF Fail, IInv, TypeOK, ReadsOnlyWritten, HashEndWritten, DstLen
<1>1. CASE Start
  <2>1. CASE left < 4 \/ size < 8 \/ size > MaxSize
    <3>1. Fail
      BY <1>1, <2>1 DEF Start
    <3> QED
      BY <1>0, <3>1
  <2>2. CASE ~(left < 4 \/ size < 8 \/ size > MaxSize)
    <3>1. /\ pc' = "tokens" /\ left' = left - 4
          /\ size' = size /\ dst' = dst /\ bit' = bit /\ kind' = kind
          /\ refPos' = refPos /\ remaining' = remaining
          /\ table' = table /\ hashPos' = hashPos /\ hashEnd' = hashEnd
          /\ starts' = starts /\ complete' = complete
      BY <1>1, <2>2 DEF Start
    <3> QED
      BY <2>2, <3>1 DEF IInv, TypeOK, ReadsOnlyWritten, HashEndWritten, DstLen
  <2> QED
    BY <2>1, <2>2
<1>2. CASE Finish
  BY <1>2 DEF Finish, IInv, TypeOK, ReadsOnlyWritten, HashEndWritten, DstLen
<1>3. CASE ReadControl
  <2>1. CASE left = 0
    <3>1. Fail
      BY <1>3, <2>1 DEF ReadControl
    <3> QED
      BY <1>0, <3>1
  <2>2. CASE left # 0
    <3>1. /\ left' = left - 1 /\ bit' = 1
          /\ pc' = pc /\ size' = size /\ dst' = dst /\ kind' = kind
          /\ refPos' = refPos /\ remaining' = remaining
          /\ table' = table /\ hashPos' = hashPos /\ hashEnd' = hashEnd
          /\ starts' = starts /\ complete' = complete
      BY <1>3, <2>2 DEF ReadControl
    <3> QED
      BY <2>2, <3>1 DEF IInv, TypeOK, ReadsOnlyWritten, HashEndWritten, DstLen
  <2> QED
    BY <2>1, <2>2
<1>4. CASE Literal
  <2>1. CASE left = 0
    <3>1. Fail
      BY <1>4, <2>1 DEF Literal
    <3> QED
      BY <1>0, <3>1
  <2>2. CASE left # 0
    <3>1. PICK b \in Bytes : dst' = Append(dst, b)
      BY <1>4, <2>2 DEF Literal
    <3>2. dst' \in Seq(Bytes) /\ Len(dst') = Len(dst) + 1
      BY <3>1 DEF IInv, TypeOK
    <3>3. /\ left' = left - 1 /\ kind' = "literal" /\ pc' = "hash"
          /\ hashEnd' = Len(dst) + 1 /\ size' = size /\ bit' = bit
          /\ refPos' = refPos /\ remaining' = remaining
          /\ table' = table /\ hashPos' = hashPos
          /\ starts' = starts /\ complete' = complete
      BY <1>4, <2>2 DEF Literal
    <3>4. pc = "tokens" /\ Len(dst) < DstLen
      BY <1>4 DEF Literal, InToken
    <3> QED
      BY <2>2, <3>2, <3>3, <3>4
         DEF IInv, TypeOK, ReadsOnlyWritten, HashEndWritten, DstLen
  <2> QED
    BY <2>1, <2>2
<1>5. ASSUME NEW h \in Bytes, NEW extra \in Extras, Run(h, extra)
      PROVE  IInv'
  <2>1. CASE left < 2 \/ ~Written(table[h])
    <3>1. Fail
      BY <1>5, <2>1 DEF Run
    <3> QED
      BY <1>0, <3>1
  <2>2. CASE left >= 2 /\ Written(table[h])
    <3>1. table[h] \in Nat /\ extra \in Nat
      BY BytesAssumption DEF IInv, TypeOK
    <3>2. /\ left' = left - 2 /\ kind' = "run" /\ pc' = "copy"
          /\ refPos' = table[h] /\ remaining' = extra + 2
          /\ hashEnd' = Len(dst) + 2 /\ table[h] < Len(dst)
          /\ size' = size /\ dst' = dst /\ bit' = bit
          /\ table' = table /\ hashPos' = hashPos
          /\ starts' = starts /\ complete' = complete
      BY <1>5, <2>2 DEF Run, RunHashEnd, Written, IInv, TypeOK
    <3>3. pc = "tokens"
      BY <1>5 DEF Run, InToken
    <3> QED
      BY <2>2, <3>1, <3>2, <3>3
         DEF IInv, TypeOK, ReadsOnlyWritten, HashEndWritten, DstLen
  <2> QED
    BY <2>1, <2>2 DEF IInv, TypeOK
<1>6. CASE Copy
  <2>1. CASE Full \/ refPos >= DstLen
    <3>1. Fail
      BY <1>6, <2>1 DEF Copy
    <3> QED
      BY <1>0, <3>1
  <2>2. CASE ~(Full \/ refPos >= DstLen)
    <3>1. At(refPos) \in Bytes
      BY <1>6, AtType DEF Copy, IInv, TypeOK, ReadsOnlyWritten
    <3>2. dst' = Append(dst, At(refPos))
      BY <1>6, <2>2 DEF Copy
    <3>3. dst' \in Seq(Bytes) /\ Len(dst') = Len(dst) + 1
      BY <3>1, <3>2 DEF IInv, TypeOK
    <3>4. /\ refPos' = refPos + 1 /\ remaining' = remaining - 1
          /\ pc' = pc /\ size' = size /\ left' = left
          /\ bit' = bit /\ kind' = kind
          /\ table' = table /\ hashPos' = hashPos /\ hashEnd' = hashEnd
          /\ starts' = starts /\ complete' = complete
      BY <1>6, <2>2 DEF Copy
    <3>5. pc = "copy" /\ remaining > 0 /\ ~(Len(dst) >= DstLen)
      BY <1>6, <2>2 DEF Copy, Full
    <3> QED
      BY <3>3, <3>4, <3>5 DEF IInv, TypeOK, ReadsOnlyWritten, HashEndWritten, DstLen
  <2> QED
    BY <2>1, <2>2
<1>7. CASE CopyEnds
  BY <1>7 DEF CopyEnds, IInv, TypeOK, ReadsOnlyWritten, HashEndWritten, DstLen
<1>8. CASE HashPair
  <2>1. At(hashPos) \in Bytes /\ At(hashPos + 1) \in Bytes
    BY <1>8, AtType DEF HashPair, IInv, TypeOK, ReadsOnlyWritten
  <2>2. Hash[<<At(hashPos), At(hashPos + 1)>>] \in Bytes
    BY <2>1, BytesAssumption
  <2>3. table' \in [Bytes -> Nat]
    BY <1>8, <2>2 DEF HashPair, IInv, TypeOK
  <2>4. /\ hashPos' = hashPos + 1
        /\ pc' = pc /\ size' = size /\ left' = left /\ dst' = dst
        /\ bit' = bit /\ kind' = kind /\ hashEnd' = hashEnd
        /\ refPos' = refPos /\ remaining' = remaining
        /\ starts' = starts /\ complete' = complete
    BY <1>8 DEF HashPair
  <2>5. pc = "hash"
    BY <1>8 DEF HashPair
  <2> QED
    BY <2>3, <2>4, <2>5
       DEF IInv, TypeOK, ReadsOnlyWritten, HashEndWritten, DstLen
<1>9. CASE HashEnds
  BY <1>9 DEF HashEnds, IInv, TypeOK, ReadsOnlyWritten, HashEndWritten, DstLen
<1>10. CASE UNCHANGED vars
  BY <1>10 DEF vars, IInv, TypeOK, ReadsOnlyWritten, HashEndWritten, DstLen
<1> QED
  BY <1>1, <1>2, <1>3, <1>4, <1>5, <1>6, <1>7, <1>8, <1>9, <1>10 DEF Next

\* k::decompress keeps every variable in its type and never writes more bytes
\* than the size word asks for.
THEOREM TypeCorrect == Spec => []TypeOK
<1>1. IInv => TypeOK
  BY DEF IInv
<1> QED
  BY InitIInv, NextIInv, <1>1, PTL DEF Spec

\* No index of the copy loop or of the hash loop of k::decompress reaches a
\* byte that has not been written.
THEOREM InBounds == Spec => []ReadsOnlyWritten
<1>1. IInv => ReadsOnlyWritten
  BY DEF IInv
<1> QED
  BY InitIInv, NextIInv, <1>1, PTL DEF Spec

------------------------------------------------------------------------------

\* The hash of the two bytes at p.
Pair(p) == Hash[<<At(p), At(p + 1)>>]

\* The starts of tokens that the hash loop has passed, that of the present
\* token included.
Hashed == {p \in starts \cup {complete} : p < hashPos}

\* The table holds the last of them for each hash.
TableIsLast ==
  \A h \in Bytes :
    \/ table[h] = 0 /\ \A p \in Hashed : Pair(p) # h
    \/ /\ table[h] \in Hashed /\ Pair(table[h]) = h
       /\ \A p \in Hashed : Pair(p) = h => p <= table[h]

\* Where the hash loop stands: it has passed every start but that of a literal
\* which had nothing after it, and no other position.
Cursor ==
  /\ complete <= Len(dst)
  /\ \A p \in starts : p < complete /\ (p + 1 < complete => p < hashPos)
  /\ \A p \in Hashed : p + 1 < Len(dst)
  /\ hashPos < complete => hashPos \in starts
  /\ pc \in {"start", "tokens"} => complete = Len(dst) /\ hashPos <= complete
  /\ pc = "start" => complete = 0
  /\ pc \in {"copy", "hash"} => complete < DstLen
  /\ pc = "copy" =>
       /\ kind = "run" /\ hashEnd = complete + 2 /\ hashPos <= complete
       /\ \A p \in starts : p < hashPos => p + 1 < complete
  /\ pc = "hash" =>
       /\ hashEnd = IF kind = "run" THEN complete + 2 ELSE complete + 1
       /\ hashPos + 1 <= hashEnd
       /\ kind = "literal" => Len(dst) = complete + 1

\* The run for hash h, as far as it has been copied, repeats what stands at
\* the place that the format gives h.
Repeats(h, extra) ==
  LET from   == Format!Place(h)
      copied == Len(dst) - complete
  IN /\ from \in 0 .. complete - 1
     /\ copied + remaining = extra + 2
     /\ refPos = from + copied
     /\ \A i \in 1 .. copied :
          dst[complete + i] = Decoded[from + ((i - 1) % (complete - from)) + 1]

Copying ==
  /\ pc = "copy" \/ (pc = "hash" /\ kind = "run") =>
       \E h \in Bytes, extra \in Extras : Repeats(h, extra)
  /\ pc = "hash" /\ kind = "run" => remaining = 0

\* What ImplementsFormat needs beside IInv.
Meaning == Cursor /\ TableIsLast /\ Copying

------------------------------------------------------------------------------
LEMMA SameRemainder ==
  ASSUME NEW n \in Nat, n > 0, NEW a \in Nat, a >= n
  PROVE  (a - n) % n = a % n
<1> DEFINE q == a \div n
           p == (a - n) \div n
<1>1. a = n * q + (a % n) /\ a - n = n * p + ((a - n) % n)
  OBVIOUS
<1>2. q \in Int /\ p \in Int /\ a % n \in 0 .. n - 1 /\ (a - n) % n \in 0 .. n - 1
  OBVIOUS
<1> HIDE DEF q, p
<1>3. n * (p + 1) + ((a - n) % n) = n * q + (a % n)
  <2>1. n * (p + 1) = n * p + n
    BY <1>2
  <2> QED
    BY <1>1, <1>2, <2>1
<1>4. \A i, j \in Int, r, s \in 0 .. n - 1 : n * i + r = n * j + s => r = s
  OBVIOUS
<1> QED
  BY <1>2, <1>3, <1>4

LEMMA SequencesEqual ==
  ASSUME NEW R, NEW s \in Seq(R), NEW t \in Seq(R), Len(s) = Len(t),
         \A i \in 1 .. Len(s) : s[i] = t[i]
  PROVE  s = t
OBVIOUS

\* The bytes of the complete tokens are those the decoder has written first.
LEMMA DecodedIs ==
  ASSUME NEW d \in Seq(Bytes), NEW n \in Nat, n <= Len(d)
  PROVE  /\ SubSeq(d, 1, n) \in Seq(Bytes) /\ Len(SubSeq(d, 1, n)) = n
         /\ \A i \in 1 .. n : SubSeq(d, 1, n)[i] = d[i]
OBVIOUS

\* What is written later changes nothing of it.
Grows == Len(dst') >= Len(dst) /\ \A i \in 1 .. Len(dst) : dst'[i] = dst[i]

LEMMA SameDecoded ==
  ASSUME TypeOK, TypeOK', complete' = complete, complete <= Len(dst), Grows
  PROVE  Decoded' = Decoded
<1>1. dst \in Seq(Bytes) /\ dst' \in Seq(Bytes) /\ complete \in Nat
      /\ Len(dst) \in Nat /\ Len(dst') \in Nat
  BY DEF TypeOK
<1>2. complete <= Len(dst')
  BY <1>1 DEF Grows
<1>3. /\ Decoded \in Seq(Bytes) /\ Len(Decoded) = complete
      /\ \A i \in 1 .. complete : Decoded[i] = dst[i]
  BY <1>1, DecodedIs DEF Decoded
<1>4. /\ Decoded' \in Seq(Bytes) /\ Len(Decoded') = complete
      /\ \A i \in 1 .. complete : Decoded'[i] = dst'[i]
  BY <1>1, <1>2, DecodedIs DEF Decoded
<1>5. \A i \in 1 .. complete : dst'[i] = dst[i]
  BY <1>1 DEF Grows
<1> QED
  BY <1>3, <1>4, <1>5, SequencesEqual

LEMMA SamePlace ==
  ASSUME Decoded' = Decoded, starts' = starts, NEW h
  PROVE  Format!Place(h)' = Format!Place(h)
BY DEF Format!Place, Format!Places, Format!At

LEMMA PlaceIsTable ==
  ASSUME TypeOK, Cursor, TableIsLast, pc = "tokens", NEW h \in Bytes
  PROVE  Format!Place(h) = table[h]
<1>1. /\ dst \in Seq(Bytes) /\ complete \in Nat /\ complete = Len(dst)
      /\ hashPos \in Nat /\ hashPos <= complete /\ starts \subseteq Nat
  BY DEF TypeOK, Cursor
<1>2. /\ Len(Decoded) = complete
      /\ \A i \in 1 .. complete : Decoded[i] = dst[i]
  BY <1>1, DecodedIs DEF Decoded
<1>3. Hashed = {p \in starts : p + 1 < complete}
  <2>1. \A p \in Hashed : p \in starts /\ p + 1 < complete
    BY <1>1 DEF Hashed, Cursor
  <2>2. \A p \in starts : p + 1 < complete => p \in Hashed
    BY <1>1 DEF Hashed, Cursor
  <2> QED
    BY <2>1, <2>2
<1>4. \A p \in Nat : p + 1 < complete =>
        Hash[<<Format!At(p), Format!At(p + 1)>>] = Pair(p)
  BY <1>1, <1>2 DEF Format!At, Pair, At
<1>5. Format!Places(h) = {p \in Hashed : Pair(p) = h}
  BY <1>1, <1>2, <1>3, <1>4 DEF Format!Places
<1>6. CASE table[h] = 0 /\ \A p \in Hashed : Pair(p) # h
  BY <1>5, <1>6 DEF Format!Place
<1>7. CASE /\ table[h] \in Hashed /\ Pair(table[h]) = h
           /\ \A p \in Hashed : Pair(p) = h => p <= table[h]
  <2> DEFINE P == {p \in Hashed : Pair(p) = h}
             last == CHOOSE p \in P : \A q \in P : q <= p
  <2>1. table[h] \in P /\ \A q \in P : q <= table[h]
    BY <1>7
  <2>2. P \subseteq Nat
    BY <1>1, <1>3
  <2>3. Format!Place(h) = last
    BY <1>5, <2>1 DEF Format!Place
  <2> HIDE DEF P
  <2>4. last \in P /\ \A q \in P : q <= last
    BY <2>1
  <2>5. last <= table[h] /\ table[h] <= last
    BY <2>1, <2>4
  <2>6. last \in Nat /\ table[h] \in Nat
    BY <2>1, <2>2, <2>4
  <2> HIDE DEF last
  <2> QED
    BY <2>3, <2>5, <2>6
<1> QED
  BY <1>6, <1>7 DEF TableIsLast

\* A step that neither writes nor hashes.
LEMMA NothingHashed ==
  ASSUME dst' = dst, table' = table, hashPos' = hashPos,
         starts' = starts, complete' = complete
  PROVE  /\ Hashed' = Hashed /\ (TableIsLast => TableIsLast')
         /\ Decoded' = Decoded /\ \A h : Format!Place(h)' = Format!Place(h)
<1>1. Hashed' = Hashed
  BY DEF Hashed
<1>2. TableIsLast => TableIsLast'
  BY <1>1 DEF TableIsLast, Pair, At
<1>3. Decoded' = Decoded
  BY DEF Decoded
<1>4. \A h : Format!Place(h)' = Format!Place(h)
  BY <1>3, SamePlace
<1> QED
  BY <1>1, <1>2, <1>3, <1>4

LEMMA MeaningFirst == Init => Meaning
<1> SUFFICES ASSUME Init PROVE Meaning
  OBVIOUS
<1>1. dst = <<>> /\ starts = {} /\ complete = 0 /\ hashPos = 0 /\ pc = "start"
      /\ table = [h \in Bytes |-> 0] /\ Len(dst) = 0
  BY DEF Init
<1>2. Hashed = {}
  BY <1>1 DEF Hashed
<1> QED
  BY <1>1, <1>2 DEF Meaning, Cursor, TableIsLast, Copying

LEMMA FailKeeps ==
  ASSUME Meaning, Fail
  PROVE  Meaning'
<1>1. /\ dst' = dst /\ table' = table /\ hashPos' = hashPos /\ starts' = starts
      /\ complete' = complete /\ pc' = "failed"
  BY DEF Fail, hashes, tokens
<1> QED
  BY <1>1, NothingHashed DEF Meaning, Cursor, Copying

LEMMA RunKeeps ==
  ASSUME IInv, IInv', Meaning, NEW h \in Bytes, NEW extra \in Extras, Run(h, extra)
  PROVE  Meaning'
<1>1. CASE Fail
  BY <1>1, FailKeeps
<1>2. CASE ~Fail
  <2>1. table[h] \in Nat /\ extra \in Nat /\ TypeOK /\ complete \in Nat
    BY BytesAssumption DEF IInv, TypeOK
  <2>2. /\ pc = "tokens" /\ kind' = "run" /\ pc' = "copy" /\ Len(dst) < DstLen
        /\ refPos' = table[h] /\ remaining' = extra + 2
        /\ hashEnd' = Len(dst) + 2 /\ table[h] < Len(dst)
        /\ size' = size /\ dst' = dst /\ table' = table /\ hashPos' = hashPos
        /\ starts' = starts /\ complete' = complete
    BY <1>2, <2>1 DEF Run, RunHashEnd, Written, InToken, hashes, tokens
  <2>3. TableIsLast' /\ Format!Place(h)' = table[h] /\ Hashed' = Hashed
    BY <2>1, <2>2, NothingHashed, PlaceIsTable DEF Meaning
  <2>4. complete = Len(dst) /\ hashPos <= complete
    BY <2>2 DEF Meaning, Cursor
  <2>5. \A p \in starts : p < hashPos => p + 1 < complete
    BY <2>4 DEF Meaning, Cursor, Hashed
  <2>6. Cursor'
    BY <2>2, <2>3, <2>4, <2>5 DEF Meaning, Cursor, DstLen
  <2>7. Repeats(h, extra)'
    BY <2>1, <2>2, <2>3, <2>4 DEF Repeats
  <2>8. Copying'
    BY <2>2, <2>7 DEF Copying
  <2> QED
    BY <2>3, <2>6, <2>8 DEF Meaning
<1> QED
  BY <1>1, <1>2

\* Writing keeps what has been hashed.
LEMMA WritingKeepsTable ==
  ASSUME IInv, IInv', Meaning, Grows, table' = table, hashPos' = hashPos,
         starts' = starts, complete' = complete
  PROVE  /\ Hashed' = Hashed /\ TableIsLast' /\ Decoded' = Decoded
         /\ \A h : Format!Place(h)' = Format!Place(h)
<1>1. Hashed' = Hashed
  BY DEF Hashed
<1>2. Hashed \subseteq Nat /\ Len(dst) \in Nat /\ TypeOK /\ TypeOK'
  <2>1. TypeOK /\ TypeOK'
    BY DEF IInv
  <2>2. starts \subseteq Nat /\ complete \in Nat /\ Len(dst) \in Nat
    BY <2>1 DEF TypeOK
  <2> QED
    BY <2>1, <2>2 DEF Hashed
<1>3. \A p \in Hashed : Pair(p)' = Pair(p)
  <2> TAKE p \in Hashed
  <2>1. p \in Nat /\ p + 1 < Len(dst)
    BY <1>2 DEF Meaning, Cursor
  <2>2. p + 1 \in 1 .. Len(dst) /\ p + 1 + 1 \in 1 .. Len(dst)
    BY <1>2, <2>1
  <2>3. dst'[p + 1] = dst[p + 1] /\ dst'[p + 1 + 1] = dst[p + 1 + 1]
    BY <2>2 DEF Grows
  <2> QED
    BY <2>3 DEF Pair, At
<1>4. TableIsLast'
  <2> SUFFICES ASSUME NEW h \in Bytes
               PROVE  \/ table[h] = 0 /\ \A p \in Hashed : Pair(p)' # h
                      \/ /\ table[h] \in Hashed /\ Pair(table[h])' = h
                         /\ \A p \in Hashed : Pair(p)' = h => p <= table[h]
    BY <1>1 DEF TableIsLast, Pair, At
  <2> QED
    BY <1>3 DEF Meaning, TableIsLast
<1>5. complete <= Len(dst)
  BY DEF Meaning, Cursor
<1>6. Decoded' = Decoded
  BY <1>2, <1>5, SameDecoded
<1>7. \A h : Format!Place(h)' = Format!Place(h)
  BY <1>6, SamePlace
<1> QED
  BY <1>1, <1>4, <1>6, <1>7

LEMMA Appending ==
  ASSUME TypeOK, NEW b \in Bytes, dst' = Append(dst, b)
  PROVE  Grows /\ Len(dst') = Len(dst) + 1 /\ dst'[Len(dst) + 1] = b /\ Len(dst) \in Nat
BY DEF TypeOK, Grows

LEMMA LiteralKeeps ==
  ASSUME IInv, IInv', Meaning, Literal
  PROVE  Meaning'
<1>1. CASE Fail
  BY <1>1, FailKeeps
<1>2. CASE ~Fail
  <2>1. PICK b \in Bytes : dst' = Append(dst, b)
    BY <1>2 DEF Literal
  <2>2. /\ pc = "tokens" /\ kind' = "literal" /\ pc' = "hash" /\ Len(dst) < DstLen
        /\ hashEnd' = Len(dst) + 1 /\ size' = size /\ table' = table /\ hashPos' = hashPos
        /\ starts' = starts /\ complete' = complete
    BY <1>2 DEF Literal, InToken, hashes, tokens
  <2>3. Grows /\ Len(dst') = Len(dst) + 1 /\ Len(dst) \in Nat
    BY <2>1, Appending DEF IInv
  <2>4. TableIsLast' /\ Hashed' = Hashed
    BY <2>2, <2>3, WritingKeepsTable
  <2>5. complete = Len(dst) /\ hashPos <= complete /\ hashPos \in Nat /\ complete \in Nat
        /\ starts \subseteq Nat
    BY <2>2 DEF Meaning, Cursor, IInv, TypeOK
  <2>6. Cursor'
    BY <2>2, <2>3, <2>4, <2>5 DEF Meaning, Cursor, DstLen, Hashed
  <2>7. Copying'
    BY <2>2 DEF Copying
  <2> QED
    BY <2>4, <2>6, <2>7 DEF Meaning
<1> QED
  BY <1>1, <1>2

\* The byte copied is the one the format repeats, also when the run overlaps
\* what it has written itself.
LEMMA NextRepeated ==
  ASSUME IInv, Meaning, NEW h \in Bytes, NEW extra \in Extras, Repeats(h, extra)
  PROVE  At(refPos) = Decoded[Format!Place(h)
                        + ((Len(dst) - complete) % (complete - Format!Place(h))) + 1]
<1> DEFINE from == Format!Place(h)
           copied == Len(dst) - complete
           period == complete - from
<1>1. /\ dst \in Seq(Bytes) /\ complete \in Nat /\ Len(dst) \in Nat /\ complete <= Len(dst)
      /\ from \in Nat /\ period \in Nat /\ period > 0 /\ copied \in Nat
      /\ refPos = from + copied
      /\ \A i \in 1 .. copied : dst[complete + i] = Decoded[from + ((i - 1) % period) + 1]
  <2>1. /\ dst \in Seq(Bytes) /\ complete \in Nat /\ complete <= Len(dst)
    BY DEF IInv, TypeOK, Meaning, Cursor
  <2>2. /\ from \in 0 .. complete - 1 /\ refPos = from + copied
        /\ \A i \in 1 .. copied :
             dst[complete + i] = Decoded[from + ((i - 1) % period) + 1]
    BY DEF Repeats
  <2>3. Len(dst) \in Nat
    BY <2>1
  <2> HIDE DEF from
  <2>4. from \in Nat /\ period \in Nat /\ period > 0 /\ copied \in Nat
    BY <2>1, <2>2, <2>3
  <2> QED
    BY <2>1, <2>2, <2>3, <2>4
<1>2. complete = from + period
  BY <1>1
<1> HIDE DEF from, copied, period
<1>3. CASE copied < period
  <2>1. copied % period = copied
    BY <1>1, <1>3
  <2>2. from + copied + 1 \in 1 .. complete
    BY <1>1, <1>2, <1>3
  <2>3. Decoded[from + copied + 1] = dst[from + copied + 1]
    BY <1>1, <2>2, DecodedIs DEF Decoded
  <2> QED
    BY <1>1, <2>1, <2>3 DEF At, from, copied, period
<1>4. CASE copied >= period
  <2>1. copied - period + 1 \in 1 .. copied
    BY <1>1, <1>4
  <2>2. dst[complete + (copied - period + 1)]
          = Decoded[from + (((copied - period + 1) - 1) % period) + 1]
    BY <1>1, <2>1
  <2>3. /\ complete + (copied - period + 1) = refPos + 1
        /\ (copied - period + 1) - 1 = copied - period
    BY <1>1, <1>2
  <2>4. (copied - period) % period = copied % period
    BY <1>1, <1>4, SameRemainder
  <2> QED
    BY <2>2, <2>3, <2>4 DEF At, from, copied, period
<1> QED
  BY <1>1, <1>3, <1>4

LEMMA CopyKeeps ==
  ASSUME IInv, IInv', Meaning, Copy
  PROVE  Meaning'
<1>1. CASE Fail
  BY <1>1, FailKeeps
<1>2. CASE ~Fail
  <2>1. /\ pc = "copy" /\ pc' = "copy" /\ remaining > 0 /\ dst' = Append(dst, At(refPos))
        /\ refPos' = refPos + 1 /\ remaining' = remaining - 1
        /\ size' = size /\ kind' = kind /\ hashEnd' = hashEnd /\ table' = table
        /\ hashPos' = hashPos /\ starts' = starts /\ complete' = complete
    BY <1>2 DEF Copy, input, hashes, tokens
  <2>2. At(refPos) \in Bytes
    BY <2>1, AtType DEF IInv, TypeOK, ReadsOnlyWritten
  <2>3. /\ Grows /\ Len(dst') = Len(dst) + 1 /\ dst'[Len(dst) + 1] = At(refPos)
        /\ Len(dst) \in Nat
    BY <2>1, <2>2, Appending DEF IInv
  <2>4. /\ TableIsLast' /\ Hashed' = Hashed /\ Decoded' = Decoded
        /\ \A h : Format!Place(h)' = Format!Place(h)
    BY <2>1, <2>3, WritingKeepsTable
  <2>5. /\ complete \in Nat /\ complete <= Len(dst) /\ remaining \in Nat /\ starts \subseteq Nat
        /\ hashPos \in Nat /\ refPos \in Nat
    BY DEF Meaning, Cursor, IInv, TypeOK
  <2>6. Cursor'
    BY <2>1, <2>3, <2>4, <2>5 DEF Meaning, Cursor, DstLen, Hashed
  <2>7. PICK h \in Bytes, extra \in Extras : Repeats(h, extra)
    BY <2>1 DEF Meaning, Copying
  <2>8. Repeats(h, extra)'
    <3> DEFINE from == Format!Place(h)
    <3>1. /\ from \in 0 .. complete - 1 /\ refPos = from + (Len(dst) - complete)
          /\ (Len(dst) - complete) + remaining = extra + 2
          /\ \A i \in 1 .. Len(dst) - complete :
               dst[complete + i] = Decoded[from + ((i - 1) % (complete - from)) + 1]
      BY <2>7 DEF Repeats
    <3>2. At(refPos) = Decoded[from + ((Len(dst) - complete) % (complete - from)) + 1]
      BY <2>7, NextRepeated
    <3>3. Format!Place(h)' = from
      BY <2>4
    <3> HIDE DEF from
    <3>4. (Len(dst') - complete) + (remaining - 1) = extra + 2
      BY <2>3, <2>5, <3>1, BytesAssumption
    <3>5. ASSUME NEW i \in 1 .. Len(dst') - complete
          PROVE  dst'[complete + i] = Decoded[from + ((i - 1) % (complete - from)) + 1]
      <4>1. CASE i = Len(dst) - complete + 1
        <5>1. complete + i = Len(dst) + 1 /\ i - 1 = Len(dst) - complete
          BY <2>3, <2>5, <4>1
        <5> QED
          BY <2>3, <3>2, <5>1
      <4>2. CASE i # Len(dst) - complete + 1
        <5>1. i \in 1 .. Len(dst) - complete /\ complete + i \in 1 .. Len(dst)
          BY <2>3, <2>5, <4>2
        <5>2. dst'[complete + i] = dst[complete + i]
          BY <2>3, <5>1 DEF Grows
        <5> QED
          BY <3>1, <5>1, <5>2
      <4> QED
        BY <4>1, <4>2
    <3>6. refPos + 1 = from + (Len(dst') - complete)
      BY <2>3, <2>5, <3>1
    <3> QED
      BY <2>1, <2>4, <3>1, <3>3, <3>4, <3>5, <3>6 DEF Repeats
  <2>9. Copying'
    BY <2>1, <2>8 DEF Copying
  <2> QED
    BY <2>4, <2>6, <2>9 DEF Meaning
<1> QED
  BY <1>1, <1>2

LEMMA HashPairKeeps ==
  ASSUME IInv, IInv', Meaning, HashPair
  PROVE  Meaning'
<1>1. /\ pc = "hash" /\ pc' = "hash" /\ hashPos + 1 < hashEnd /\ hashPos' = hashPos + 1
      /\ table' = [table EXCEPT ![Pair(hashPos)] = hashPos]
      /\ size' = size /\ kind' = kind /\ hashEnd' = hashEnd /\ dst' = dst
      /\ refPos' = refPos /\ remaining' = remaining
      /\ starts' = starts /\ complete' = complete
  BY DEF HashPair, input, copy, tokens, Pair
<1>2. /\ complete \in Nat /\ Len(dst) \in Nat /\ hashPos \in Nat /\ starts \subseteq Nat
      /\ hashEnd \in Nat /\ hashEnd <= Len(dst) /\ table \in [Bytes -> Nat]
      /\ hashEnd <= complete + 2
  BY <1>1 DEF Meaning, Cursor, IInv, TypeOK, HashEndWritten
<1>3. hashPos \in starts \cup {complete} /\ hashPos + 1 >= complete
  BY <1>1, <1>2 DEF Meaning, Cursor
<1>4. Hashed' = Hashed \cup {hashPos}
  <2>1. \A p : p \in Hashed' <=> p \in starts \cup {complete} /\ p < hashPos + 1
    BY <1>1 DEF Hashed
  <2>2. \A p \in starts \cup {complete} : p < hashPos + 1 <=> p < hashPos \/ p = hashPos
    BY <1>2
  <2>3. \A p : p \in Hashed <=> p \in starts \cup {complete} /\ p < hashPos
    BY DEF Hashed
  <2> QED
    BY <1>3, <2>1, <2>2, <2>3
<1>5. \A p : Pair(p)' = Pair(p)
  BY <1>1 DEF Pair, At
<1>6. Pair(hashPos) \in Bytes
  <2>1. hashPos + 1 < Len(dst)
    BY <1>1, <1>2
  <2>2. At(hashPos) \in Bytes /\ At(hashPos + 1) \in Bytes
    BY <1>2, <2>1, AtType DEF IInv
  <2> QED
    BY <2>2, BytesAssumption DEF Pair
<1>7. TableIsLast'
  <2> SUFFICES ASSUME NEW g \in Bytes
               PROVE  \/ table'[g] = 0 /\ \A p \in Hashed' : Pair(p) # g
                      \/ /\ table'[g] \in Hashed' /\ Pair(table'[g]) = g
                         /\ \A p \in Hashed' : Pair(p) = g => p <= table'[g]
    BY <1>5 DEF TableIsLast
  <2>1. CASE g = Pair(hashPos)
    <3>1. table'[g] = hashPos
      BY <1>1, <1>2, <1>6, <2>1
    <3>2. \A p \in Hashed' : p <= hashPos
      <4>1. \A p \in Hashed : p \in Nat /\ p < hashPos
        BY <1>2 DEF Hashed
      <4> QED
        BY <1>2, <1>4, <4>1
    <3> QED
      BY <1>4, <2>1, <3>1, <3>2
  <2>2. CASE g # Pair(hashPos)
    <3>1. table'[g] = table[g]
      BY <1>1, <1>2, <2>2
    <3> QED
      BY <1>4, <2>2, <3>1 DEF Meaning, TableIsLast
  <2> QED
    BY <2>1, <2>2
<1>8. Cursor'
  BY <1>1, <1>2, <1>3, <1>4 DEF Meaning, Cursor, DstLen
<1>9. Copying'
  <2>1. Decoded' = Decoded /\ \A h : Format!Place(h)' = Format!Place(h)
    BY <1>1, SamePlace DEF Decoded
  <2>2. \A h, extra : Repeats(h, extra) => Repeats(h, extra)'
    BY <1>1, <2>1 DEF Repeats
  <2> QED
    BY <1>1, <2>2 DEF Meaning, Copying
<1> QED
  BY <1>7, <1>8, <1>9 DEF Meaning

LEMMA HashEndsKeeps ==
  ASSUME IInv, IInv', Meaning, HashEnds
  PROVE  Meaning'
<1>1. /\ pc = "hash" /\ pc' = "tokens" /\ hashPos + 1 >= hashEnd
      /\ hashPos' = IF kind = "run" THEN Len(dst) ELSE hashPos
      /\ table' = table /\ size' = size /\ dst' = dst
      /\ starts' = starts \cup {complete} /\ complete' = Len(dst)
  BY DEF HashEnds, input
<1>2. /\ complete \in Nat /\ Len(dst) \in Nat /\ hashPos \in Nat /\ starts \subseteq Nat
      /\ hashEnd \in Nat /\ hashEnd <= Len(dst) /\ kind \in {"literal", "run"}
      /\ \A p \in starts : p < complete
  BY <1>1 DEF Meaning, Cursor, IInv, TypeOK, HashEndWritten
<1>3. kind = "literal" => hashPos = complete /\ Len(dst) = complete + 1
  BY <1>1, <1>2 DEF Meaning, Cursor
<1>4. kind = "run" => hashPos = complete + 1 /\ Len(dst) >= complete + 2
  BY <1>1, <1>2 DEF Meaning, Cursor
<1>5. Hashed' = Hashed
  <2>1. \A p : p \in Hashed <=> p \in starts \cup {complete} /\ p < hashPos
    BY DEF Hashed
  <2>2. \A p : p \in Hashed' <=> p \in starts \cup {complete, Len(dst)} /\ p < hashPos'
    BY <1>1 DEF Hashed
  <2>3. CASE kind = "literal"
    <3>1. hashPos' = hashPos
      BY <1>1, <2>3
    <3>2. ~(Len(dst) < hashPos)
      BY <1>2, <1>3, <2>3
    <3> QED
      BY <2>1, <2>2, <3>1, <3>2
  <2>4. CASE kind = "run"
    <3>1. hashPos' = Len(dst) /\ ~(Len(dst) < Len(dst))
      BY <1>1, <1>2, <2>4
    <3>2. \A p \in starts \cup {complete} : p < Len(dst) /\ p < hashPos
      BY <1>2, <1>4, <2>4
    <3> QED
      BY <2>1, <2>2, <3>1, <3>2
  <2> QED
    BY <1>2, <2>3, <2>4
<1>6. TableIsLast'
  BY <1>1, <1>5 DEF Meaning, TableIsLast, Pair, At
<1>7. Cursor'
  <2>1. CASE kind = "literal"
    BY <1>1, <1>2, <1>3, <1>5, <2>1 DEF Meaning, Cursor
  <2>2. CASE kind = "run"
    BY <1>1, <1>2, <1>4, <1>5, <2>2 DEF Meaning, Cursor
  <2> QED
    BY <1>2, <2>1, <2>2
<1>8. Copying'
  BY <1>1 DEF Copying
<1> QED
  BY <1>6, <1>7, <1>8 DEF Meaning

LEMMA StillKeeps ==
  ASSUME IInv, Meaning, Start \/ Finish \/ ReadControl \/ CopyEnds \/ UNCHANGED vars
  PROVE  Meaning'
<1>1. CASE Fail
  BY <1>1, FailKeeps
<1>2. CASE ~Fail
  <2>1. /\ dst' = dst /\ table' = table /\ hashPos' = hashPos /\ starts' = starts
        /\ complete' = complete /\ size' = size /\ kind' = kind /\ hashEnd' = hashEnd
        /\ refPos' = refPos /\ remaining' = remaining
        /\ \/ pc' = pc
           \/ pc = "start" /\ pc' = "tokens"
           \/ pc = "tokens" /\ pc' = "done"
           \/ pc = "copy" /\ pc' = "hash" /\ remaining = 0
    BY <1>2 DEF Start, Finish, ReadControl, CopyEnds, InToken, vars, input, copy, hashes, tokens
  <2>2. /\ Hashed' = Hashed /\ TableIsLast' /\ Decoded' = Decoded
        /\ \A h : Format!Place(h)' = Format!Place(h)
    BY <2>1, NothingHashed DEF Meaning
  <2>3. /\ complete \in Nat /\ hashPos \in Nat /\ hashEnd \in Nat /\ starts \subseteq Nat
    BY DEF IInv, TypeOK
  <2>4. Cursor'
    BY <2>1, <2>2, <2>3 DEF Meaning, Cursor, DstLen
  <2>5. \A h, extra : Repeats(h, extra) => Repeats(h, extra)'
    BY <2>1, <2>2 DEF Repeats
  <2>6. Copying'
    BY <2>1, <2>5 DEF Meaning, Cursor, Copying
  <2> QED
    BY <2>2, <2>4, <2>6 DEF Meaning
<1> QED
  BY <1>1, <1>2

LEMMA MeaningKept == IInv /\ IInv' /\ Meaning /\ [Next]_vars => Meaning'
<1> SUFFICES ASSUME IInv, IInv', Meaning, [Next]_vars PROVE Meaning'
  OBVIOUS
<1>1. CASE Start \/ Finish \/ ReadControl \/ CopyEnds \/ UNCHANGED vars
  BY <1>1, StillKeeps
<1>2. CASE Literal
  BY <1>2, LiteralKeeps
<1>3. CASE \E h \in Bytes, extra \in Extras : Run(h, extra)
  BY <1>3, RunKeeps
<1>4. CASE Copy
  BY <1>4, CopyKeeps
<1>5. CASE HashPair
  BY <1>5, HashPairKeeps
<1>6. CASE HashEnds
  BY <1>6, HashEndsKeeps
<1> QED
  BY <1>1, <1>2, <1>3, <1>4, <1>5, <1>6 DEF Next
------------------------------------------------------------------------------
LEMMA Joined ==
  ASSUME NEW R, NEW s \in Seq(R), NEW n \in Nat, NEW f \in [1 .. n -> R]
  PROVE  /\ s \o f \in Seq(R) /\ Len(s \o f) = Len(s) + n
         /\ \A i \in 1 .. Len(s) : (s \o f)[i] = s[i]
         /\ \A i \in 1 .. n : (s \o f)[Len(s) + i] = f[i]
<1>1. f \in Seq(R) /\ Len(f) = n
  OBVIOUS
<1> QED
  BY <1>1

LEMMA DecodedType ==
  ASSUME IInv, Meaning
  PROVE  /\ Decoded \in Seq(Bytes) /\ Len(Decoded) = complete
         /\ \A i \in 1 .. complete : Decoded[i] = dst[i]
<1>1. dst \in Seq(Bytes) /\ complete \in Nat /\ complete <= Len(dst)
  BY DEF IInv, TypeOK, Meaning, Cursor
<1> QED
  BY <1>1, DecodedIs DEF Decoded

LEMMA FormatFirst == Init => Format!Init
<1> SUFFICES ASSUME Init PROVE Format!Init
  OBVIOUS
<1>1. Asked \in Nat
  BY LengthsAssumption DEF Init, Asked, DstLen
<1>2. Decoded = <<>>
  BY DEF Init, Decoded
<1>3. starts = {} /\ Outcome = "running"
  BY DEF Init, Outcome
<1> QED
  BY <1>1, <1>2, <1>3 DEF Format!Init

LEMMA FailFails ==
  ASSUME IInv, Meaning, Fail, pc \in {"start", "tokens", "copy"},
         pc = "tokens" => Len(dst) < DstLen
  PROVE  Format!Next
<1>1. /\ pc' = "failed" /\ size' = size /\ dst' = dst
      /\ starts' = starts /\ complete' = complete
  BY DEF Fail, input, tokens
<1>2. Asked' = Asked /\ Decoded' = Decoded /\ Outcome = "running" /\ Outcome' = "failed"
  BY <1>1 DEF Asked, Decoded, Outcome, DstLen
<1>3. Len(Decoded) < Asked \/ Decoded = <<>>
  <2>1. CASE pc = "start"
    <3>1. Len(Decoded) = 0 /\ Decoded \in Seq(Bytes)
      BY <2>1, DecodedType DEF Meaning, Cursor
    <3> QED
      BY <3>1
  <2>2. CASE pc \in {"tokens", "copy"}
    <3>1. complete < DstLen
      BY <2>2 DEF Meaning, Cursor
    <3>2. size >= 8
      BY <2>2 DEF IInv, TypeOK
    <3>3. size \in Nat
      BY LengthsAssumption DEF IInv, TypeOK
    <3> QED
      BY <3>1, <3>2, <3>3, DecodedType DEF Asked
  <2> QED
    BY <2>1, <2>2
<1>4. Format!Fail
  BY <1>1, <1>2, <1>3 DEF Format!Fail
<1> QED
  BY <1>4 DEF Format!Next

LEMMA NothingMeant ==
  ASSUME Decoded' = Decoded, size' = size, starts' = starts, Outcome' = Outcome
  PROVE  UNCHANGED Format!vars
BY DEF Format!vars, Asked, DstLen

LEMMA StillMeans ==
  ASSUME IInv, Meaning, Start \/ ReadControl \/ CopyEnds \/ HashPair
  PROVE  [Format!Next]_(Format!vars)
<1>1. CASE Fail
  <2>1. pc \in {"start", "tokens"} /\ (pc = "tokens" => Len(dst) < DstLen)
    BY <1>1 DEF Start, ReadControl, CopyEnds, HashPair, InToken, Fail
  <2> QED
    BY <1>1, <2>1, FailFails
<1>2. CASE ~Fail
  <2>1. /\ dst' = dst /\ complete' = complete /\ size' = size /\ starts' = starts
        /\ \/ pc' = pc
           \/ pc = "start" /\ pc' = "tokens"
           \/ pc = "copy" /\ pc' = "hash"
    BY <1>2 DEF Start, ReadControl, CopyEnds, HashPair, InToken, input, copy, hashes, tokens
  <2>2. Decoded' = Decoded /\ Outcome' = Outcome
    BY <2>1 DEF Decoded, Outcome
  <2> QED
    BY <2>1, <2>2, NothingMeant
<1> QED
  BY <1>1, <1>2

LEMMA WritingMeans ==
  ASSUME IInv, IInv', Meaning, Literal \/ Copy \/ \E h \in Bytes, extra \in Extras : Run(h, extra)
  PROVE  [Format!Next]_(Format!vars)
<1>1. CASE Fail
  <2>1. pc \in {"tokens", "copy"} /\ (pc = "tokens" => Len(dst) < DstLen)
    BY DEF Literal, Copy, Run, InToken
  <2> QED
    BY <1>1, <2>1, FailFails
<1>2. CASE ~Fail
  <2>1. /\ complete' = complete /\ size' = size /\ starts' = starts
        /\ pc \in {"tokens", "copy"} /\ pc' \in {"copy", "hash"}
    BY <1>2 DEF Literal, Copy, Run, InToken, input, hashes, tokens
  <2>2. Grows
    <3>1. CASE Literal
      BY <1>2, <3>1, Appending DEF Literal, IInv
    <3>2. CASE Copy
      <4>1. At(refPos) \in Bytes
        BY <3>2, AtType DEF Copy, IInv, TypeOK, ReadsOnlyWritten
      <4> QED
        BY <1>2, <3>2, <4>1, Appending DEF Copy, IInv
    <3>3. CASE \E h \in Bytes, extra \in Extras : Run(h, extra)
      <4>1. dst' = dst /\ Len(dst) \in Nat
        BY <1>2, <3>3 DEF Run, IInv, TypeOK
      <4> QED
        BY <4>1 DEF Grows
    <3> QED
      BY <3>1, <3>2, <3>3
  <2>3. complete <= Len(dst)
    BY DEF Meaning, Cursor
  <2>4. Decoded' = Decoded /\ Outcome' = Outcome
    BY <2>1, <2>2, <2>3, SameDecoded DEF Outcome, IInv
  <2> QED
    BY <2>1, <2>4, NothingMeant
<1> QED
  BY <1>1, <1>2

LEMMA FinishMeans ==
  ASSUME IInv, Meaning, Finish
  PROVE  Format!Next
<1>1. /\ pc = "tokens" /\ pc' = "done" /\ Len(dst) = DstLen /\ size' = size
      /\ dst' = dst /\ starts' = starts /\ complete' = complete
  BY DEF Finish, input, tokens
<1>2. Asked' = Asked /\ Decoded' = Decoded /\ Outcome = "running" /\ Outcome' = "done"
  BY <1>1 DEF Asked, Decoded, Outcome, DstLen
<1>3. Len(Decoded) = Asked
  <2>1. size >= 8 /\ size \in Nat /\ complete = Len(dst)
    BY <1>1, LengthsAssumption DEF IInv, TypeOK, Meaning, Cursor
  <2> QED
    BY <1>1, <2>1, DecodedType DEF Asked
<1>4. Format!Finish
  BY <1>1, <1>2, <1>3 DEF Format!Finish
<1> QED
  BY <1>4 DEF Format!Next

\* The end of a token is the step the format takes for it.
LEMMA TokenMeans ==
  ASSUME IInv, IInv', Meaning, Meaning', HashEnds
  PROVE  Format!Next
<1>1. /\ pc = "hash" /\ pc' = "tokens" /\ size' = size /\ dst' = dst
      /\ starts' = starts \cup {complete} /\ complete' = Len(dst)
      /\ hashPos + 1 >= hashEnd
  BY DEF HashEnds, input
<1>2. /\ complete \in Nat /\ Len(dst) \in Nat /\ dst \in Seq(Bytes) /\ size \in Nat
      /\ size >= 8 /\ complete < DstLen /\ Len(dst) <= DstLen
      /\ kind \in {"literal", "run"}
  BY <1>1, LengthsAssumption DEF IInv, TypeOK, Meaning, Cursor
<1>3. /\ Decoded \in Seq(Bytes) /\ Len(Decoded) = complete
      /\ \A i \in 1 .. complete : Decoded[i] = dst[i]
  BY DecodedType
<1>4. /\ Decoded' \in Seq(Bytes) /\ Len(Decoded') = Len(dst)
      /\ \A i \in 1 .. Len(dst) : Decoded'[i] = dst[i]
  BY <1>1, <1>2, DecodedIs DEF Decoded
<1>5. Asked = DstLen /\ Asked' = Asked /\ Outcome = "running" /\ Outcome' = "running"
  BY <1>1, <1>2 DEF Asked, DstLen, Outcome
<1>6. CASE kind = "literal"
  <2>1. Len(dst) = complete + 1
    BY <1>1, <1>6 DEF Meaning, Cursor
  <2> DEFINE b == dst[complete + 1]
  <2>2. b \in Bytes
    BY <1>2, <2>1
  <2> HIDE DEF b
  <2>3. /\ Append(Decoded, b) \in Seq(Bytes) /\ Len(Append(Decoded, b)) = complete + 1
        /\ \A i \in 1 .. complete : Append(Decoded, b)[i] = Decoded[i]
        /\ Append(Decoded, b)[complete + 1] = b
    BY <1>2, <1>3, <2>2
  <2>4. \A i \in 1 .. complete + 1 : i \in 1 .. complete \/ i = complete + 1
    BY <1>2
  <2>5. \A i \in 1 .. Len(dst) : Decoded'[i] = Append(Decoded, b)[i]
    BY <1>3, <1>4, <2>1, <2>3, <2>4 DEF b
  <2>6. Decoded' = Append(Decoded, b)
    BY <1>4, <2>1, <2>3, <2>5, SequencesEqual
  <2>7. Format!Literal(b)
    BY <1>1, <1>2, <1>3, <1>5, <2>6 DEF Format!Literal
  <2> QED
    BY <2>2, <2>7 DEF Format!Next
<1>7. CASE kind = "run"
  <2>1. remaining = 0 /\ \E h \in Bytes, extra \in Extras : Repeats(h, extra)
    BY <1>1, <1>7 DEF Meaning, Copying
  <2>2. PICK h \in Bytes, extra \in Extras : Repeats(h, extra)
    BY <2>1
  <2> DEFINE from == Format!Place(h)
             period == complete - from
             g(i) == Format!At(from + ((i - 1) % period))
             f == [i \in 1 .. extra + 2 |-> g(i)]
  <2>3. /\ from \in Nat /\ period \in Nat /\ period > 0 /\ complete = from + period
        /\ extra \in Nat /\ Len(dst) = complete + (extra + 2)
        /\ \A i \in 1 .. extra + 2 : dst[complete + i] = Decoded[from + ((i - 1) % period) + 1]
    <3>1. /\ from \in 0 .. complete - 1 /\ (Len(dst) - complete) + remaining = extra + 2
          /\ \A i \in 1 .. Len(dst) - complete :
               dst[complete + i] = Decoded[from + ((i - 1) % period) + 1]
      BY <2>2 DEF Repeats
    <3> HIDE DEF from, f, g
    <3>2. extra \in Nat
      BY BytesAssumption
    <3>3. from \in Nat /\ period \in Nat /\ period > 0 /\ complete = from + period
      BY <1>2, <3>1
    <3>4. Len(dst) - complete = extra + 2 /\ Len(dst) = complete + (extra + 2)
      BY <1>2, <2>1, <3>1, <3>2
    <3> QED
      BY <3>1, <3>2, <3>3, <3>4
  <2> HIDE DEF from, period
  <2>4. ASSUME NEW i \in 1 .. extra + 2
        PROVE  /\ g(i) = dst[complete + i]
               /\ dst[complete + i] \in Bytes
    <3>1. dst[complete + i] \in Bytes
      BY <1>2, <2>3
    <3> QED
      BY <2>3, <3>1 DEF Format!At
  <2>5. f \in [1 .. extra + 2 -> Bytes] /\ \A i \in 1 .. extra + 2 : f[i] = dst[complete + i]
    <3> HIDE DEF g
    <3> QED
      BY <2>4
  <2> HIDE DEF f, g
  <2>6. /\ Decoded \o f \in Seq(Bytes) /\ Len(Decoded \o f) = complete + (extra + 2)
        /\ \A i \in 1 .. complete : (Decoded \o f)[i] = dst[i]
        /\ \A i \in 1 .. extra + 2 : (Decoded \o f)[complete + i] = dst[complete + i]
    <3>1. extra + 2 \in Nat /\ f \in [1 .. extra + 2 -> Bytes]
      BY <2>3, <2>5
    <3>2. /\ Decoded \o f \in Seq(Bytes) /\ Len(Decoded \o f) = Len(Decoded) + (extra + 2)
          /\ \A i \in 1 .. Len(Decoded) : (Decoded \o f)[i] = Decoded[i]
          /\ \A i \in 1 .. extra + 2 : (Decoded \o f)[Len(Decoded) + i] = f[i]
      <4> DEFINE n == extra + 2
      <4>1. n \in Nat /\ f \in [1 .. n -> Bytes] /\ Decoded \in Seq(Bytes)
        BY <1>3, <3>1
      <4> HIDE DEF n
      <4>2. /\ Decoded \o f \in Seq(Bytes) /\ Len(Decoded \o f) = Len(Decoded) + n
            /\ \A i \in 1 .. Len(Decoded) : (Decoded \o f)[i] = Decoded[i]
            /\ \A i \in 1 .. n : (Decoded \o f)[Len(Decoded) + i] = f[i]
        BY <4>1, Joined
      <4> QED
        BY <4>2 DEF n
    <3> DEFINE joined == Decoded \o f
    <3>3. Len(Decoded) = complete /\ \A i \in 1 .. complete : Decoded[i] = dst[i]
      BY <1>3
    <3> HIDE DEF joined
    <3>4. /\ joined \in Seq(Bytes) /\ Len(joined) = complete + (extra + 2)
      BY <3>2, <3>3 DEF joined
    <3>5. \A i \in 1 .. complete : joined[i] = dst[i]
      BY <3>2, <3>3 DEF joined
    <3>6. \A i \in 1 .. extra + 2 : joined[complete + i] = dst[complete + i]
      BY <2>5, <3>2, <3>3 DEF joined
    <3> QED
      BY <3>4, <3>5, <3>6 DEF joined
  <2>7. ASSUME NEW i \in 1 .. Len(dst)
        PROVE  Decoded'[i] = (Decoded \o f)[i]
    <3>1. CASE i \in 1 .. complete
      BY <1>4, <2>6, <3>1
    <3>2. CASE i \notin 1 .. complete
      <4>1. i - complete \in 1 .. extra + 2 /\ complete + (i - complete) = i
        BY <1>2, <2>3, <3>2
      <4> QED
        BY <1>4, <2>6, <4>1
    <3> QED
      BY <3>1, <3>2
  <2>8. Decoded' = Decoded \o f
    BY <1>4, <2>3, <2>6, <2>7, SequencesEqual
  <2>9. Decoded # <<>> /\ Len(Decoded) + (extra + 2) <= Asked
    BY <1>2, <1>3, <1>5, <2>3
  <2>10. Format!Run(h, extra + 2)
    BY <1>1, <1>3, <1>5, <2>8, <2>9 DEF Format!Run, f, g, period, from
  <2> QED
    BY <2>10 DEF Format!Next
<1> QED
  BY <1>2, <1>6, <1>7

LEMMA FormatStep ==
  IInv /\ IInv' /\ Meaning /\ Meaning' /\ [Next]_vars => [Format!Next]_(Format!vars)
<1> SUFFICES ASSUME IInv, IInv', Meaning, Meaning', [Next]_vars
             PROVE  [Format!Next]_(Format!vars)
  OBVIOUS
<1>0. CASE UNCHANGED vars
  BY <1>0, NothingMeant DEF vars, input, tokens, Decoded, Outcome
<1>1. CASE Start \/ ReadControl \/ CopyEnds \/ HashPair
  BY <1>1, StillMeans
<1>2. CASE Literal \/ Copy \/ \E h \in Bytes, extra \in Extras : Run(h, extra)
  BY <1>2, WritingMeans
<1>3. CASE Finish
  BY <1>3, FinishMeans
<1>4. CASE HashEnds
  BY <1>4, TokenMeans
<1> QED
  BY <1>0, <1>1, <1>2, <1>3, <1>4 DEF Next

\* k::decompress implements the format: the table it rebuilds gives every run
\* the last start of a token with its hash, and its byte by byte copy repeats
\* what the run overlaps, for every payload.
THEOREM DecoderImplementsFormat == Spec => ImplementsFormat
<1>1. Init => IInv /\ Meaning
  BY InitIInv, MeaningFirst
<1>2. IInv /\ Meaning /\ [Next]_vars => IInv' /\ Meaning'
  BY NextIInv, MeaningKept
<1>3. IInv /\ Meaning /\ [Next]_vars => [Format!Next]_(Format!vars)
  BY <1>2, FormatStep
<1> QED
  BY <1>1, <1>2, <1>3, FormatFirst, PTL DEF Spec, ImplementsFormat, Format!Spec
-------------------------------------------------------------------------------
\* What is left to do at most.  A byte of the payload allows three steps, a
\* byte to be written one and a byte to be hashed another; the loops that a
\* token is still to go through are the rest.
Unwritten == (Asked - Len(dst)) + (Asked - hashPos)

LoopsLeft ==
  CASE pc \in {"start", "tokens"} -> 1 [] pc = "hash" -> 2 [] pc = "copy" -> 3 [] OTHER -> 0

DecoderStepsLeft == 3 * left + Unwritten + LoopsLeft

DecoderAdvances == DecoderStepsLeft \in Nat /\ DecoderStepsLeft' < DecoderStepsLeft

LEMMA DecoderBounds ==
  ASSUME IInv, Meaning, pc \in {"start", "tokens", "copy", "hash"}
  PROVE  /\ Asked \in Nat /\ Len(dst) \in Nat /\ hashPos \in Nat /\ left \in Nat
         /\ Len(dst) <= Asked /\ hashPos <= Len(dst)
<1>1. /\ size \in Nat /\ dst \in Seq(Bytes) /\ Len(dst) \in Nat /\ hashPos \in Nat /\ left \in Nat
      /\ hashEnd \in Nat /\ complete \in Nat /\ complete <= Len(dst)
  BY LengthsAssumption DEF IInv, TypeOK, Meaning, Cursor
<1>2. Asked \in Nat
  BY <1>1 DEF Asked, DstLen
<1>3. Len(dst) <= Asked
  BY <1>1 DEF IInv, TypeOK, Meaning, Cursor, Asked
<1>4. hashPos <= Len(dst)
  <2>1. pc = "hash" => hashPos + 1 <= hashEnd /\ hashEnd <= Len(dst)
    BY DEF IInv, HashEndWritten, Meaning, Cursor
  <2>2. pc # "hash" => hashPos <= complete
    BY DEF Meaning, Cursor
  <2> QED
    BY <1>1, <2>1, <2>2
<1> QED
  BY <1>1, <1>2, <1>3, <1>4

LEMMA DecodingAdvances == IInv /\ Meaning /\ Next => DecoderAdvances
<1> SUFFICES ASSUME IInv, Meaning, Next PROVE DecoderAdvances
  OBVIOUS
<1> USE DEF input, copy, hashes, tokens
<1>1. pc \in {"start", "tokens", "copy", "hash"}
  BY DEF Next, Start, Finish, ReadControl, Literal, Run, Copy, CopyEnds, HashPair, HashEnds,
         InToken
<1>2. /\ Asked \in Nat /\ Len(dst) \in Nat /\ hashPos \in Nat /\ left \in Nat
      /\ Len(dst) <= Asked /\ hashPos <= Len(dst)
  BY <1>1, DecoderBounds
<1>3. Asked' = Asked
  <2>1. size' = size
    BY DEF Next, Start, Finish, ReadControl, Literal, Run, Copy, CopyEnds, HashPair, HashEnds,
           Fail
  <2> QED
    BY <2>1 DEF Asked, DstLen
<1>4. Unwritten \in Nat
  BY <1>2 DEF Unwritten
<1>5. /\ pc \in {"start", "tokens"} => LoopsLeft = 1
      /\ pc = "hash" => LoopsLeft = 2
      /\ pc = "copy" => LoopsLeft = 3
  BY DEF LoopsLeft
<1>6. /\ pc' \in {"done", "failed"} => LoopsLeft' = 0
      /\ pc' = "tokens" => LoopsLeft' = 1
      /\ pc' = "hash" => LoopsLeft' = 2
      /\ pc' = "copy" => LoopsLeft' = 3
  BY DEF LoopsLeft
<1>7. DecoderStepsLeft \in Nat
  BY <1>1, <1>2, <1>4, <1>5 DEF DecoderStepsLeft
<1>8. dst' = dst /\ hashPos' = hashPos => Unwritten' = Unwritten
  BY <1>3 DEF Unwritten
<1> SUFFICES DecoderStepsLeft' < DecoderStepsLeft
  BY <1>7 DEF DecoderAdvances
<1>9. CASE Fail
  BY <1>1, <1>2, <1>4, <1>5, <1>6, <1>8, <1>9 DEF Fail, DecoderStepsLeft
<1>10. CASE ~Fail /\ (Start \/ ReadControl)
  <2>1. /\ dst' = dst /\ hashPos' = hashPos /\ pc' = "tokens" /\ pc \in {"start", "tokens"}
        /\ left' \in {left - 4, left - 1}
    BY <1>10 DEF Start, ReadControl, InToken
  <2> QED
    BY <1>2, <1>4, <1>5, <1>6, <1>8, <2>1 DEF DecoderStepsLeft
<1>11. CASE Finish
  BY <1>2, <1>4, <1>5, <1>6, <1>8, <1>11 DEF Finish, DecoderStepsLeft
<1>12. CASE ~Fail /\ Literal
  <2>1. PICK b : dst' = Append(dst, b)
    BY <1>12 DEF Literal
  <2>2. Len(dst') = Len(dst) + 1
    BY <2>1 DEF IInv, TypeOK
  <2>3. hashPos' = hashPos /\ left' = left - 1 /\ pc = "tokens" /\ pc' = "hash"
    BY <1>12 DEF Literal, InToken
  <2>4. Unwritten' = Unwritten - 1
    BY <1>2, <1>3, <2>2, <2>3 DEF Unwritten
  <2> QED
    BY <1>2, <1>4, <1>5, <1>6, <2>3, <2>4 DEF DecoderStepsLeft
<1>13. CASE ~Fail /\ \E h \in Bytes, extra \in Extras : Run(h, extra)
  <2>1. dst' = dst /\ hashPos' = hashPos /\ left' = left - 2 /\ pc = "tokens" /\ pc' = "copy"
    BY <1>13 DEF Run, InToken
  <2> QED
    BY <1>2, <1>4, <1>5, <1>6, <1>8, <2>1 DEF DecoderStepsLeft
<1>14. CASE ~Fail /\ Copy
  <2>1. dst' = Append(dst, At(refPos))
    BY <1>14 DEF Copy
  <2>2. Len(dst') = Len(dst) + 1
    BY <2>1 DEF IInv, TypeOK
  <2>3. hashPos' = hashPos /\ left' = left /\ pc = "copy" /\ pc' = "copy"
    BY <1>14 DEF Copy
  <2>4. Unwritten' = Unwritten - 1
    BY <1>2, <1>3, <2>2, <2>3 DEF Unwritten
  <2> QED
    BY <1>2, <1>4, <1>5, <1>6, <2>3, <2>4 DEF DecoderStepsLeft
<1>15. CASE CopyEnds
  BY <1>2, <1>4, <1>5, <1>6, <1>8, <1>15 DEF CopyEnds, DecoderStepsLeft
<1>16. CASE HashPair
  <2>1. hashPos' = hashPos + 1 /\ left' = left /\ pc = "hash" /\ pc' = "hash" /\ dst' = dst
    BY <1>16 DEF HashPair
  <2>2. Unwritten' = Unwritten - 1
    BY <1>2, <1>3, <2>1 DEF Unwritten
  <2> QED
    BY <1>2, <1>4, <1>5, <1>6, <2>1, <2>2 DEF DecoderStepsLeft
<1>17. CASE HashEnds
  <2>1. /\ hashPos' \in {hashPos, Len(dst)} /\ left' = left /\ pc = "hash" /\ pc' = "tokens"
        /\ dst' = dst
    BY <1>17 DEF HashEnds
  <2>2. PICK skipped \in Nat : Unwritten' = Unwritten - skipped
    <3>1. Unwritten' = Unwritten \/ Unwritten' = Unwritten - (Len(dst) - hashPos)
      BY <1>2, <1>3, <2>1 DEF Unwritten
    <3> QED
      BY <1>2, <1>4, <3>1
  <2>3. LoopsLeft = 2 /\ LoopsLeft' = 1 /\ left' = left
    BY <1>5, <1>6, <2>1
  <2>4. /\ DecoderStepsLeft = 3 * left + Unwritten + 2
        /\ DecoderStepsLeft' = 3 * left + Unwritten' + 1
    BY <2>3 DEF DecoderStepsLeft
  <2> QED
    BY <1>2, <1>4, <2>1, <2>2, <2>4
<1> QED
  BY <1>9, <1>10, <1>11, <1>12, <1>13, <1>14, <1>15, <1>16, <1>17 DEF Next

\* Whatever the payload says, k::decompress is done after a number of steps that
\* the lengths of the payload and of the output bound: each starts where there
\* are some left and leaves fewer.
THEOREM DecodingGetsShorter == Spec => [][DecoderAdvances]_vars
<1>1. Init => IInv /\ Meaning
  BY InitIInv, MeaningFirst
<1>2. IInv /\ Meaning /\ [Next]_vars => IInv' /\ Meaning'
  BY NextIInv, MeaningKept
<1>3. IInv /\ Meaning /\ [Next]_vars => [DecoderAdvances]_vars
  BY DecodingAdvances
<1> QED
  BY <1>1, <1>2, <1>3, PTL DEF Spec
===============================================================================
