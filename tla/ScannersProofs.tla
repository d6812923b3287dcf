---------------------------- MODULE ScannersProofs ----------------------------
(***************************************************************************)
(* What split_q_script promises of every text, of any lines and any number *)
(* of them.  The code decides by its stack and its flag for strings; that  *)
(* a statement is closed in itself follows because what the present        *)
(* statement and the present line have opened, counted apart, is always    *)
(* what is on the stack.                                                   *)
(***************************************************************************)
EXTENDS Scanners, SequenceTheorems, TLAPS

\* A statement in progress has a line.
CurOK ==
  /\ cur.line = 0 => cur = NoStmt
  /\ pc = "chars" => lineNo >= 1 /\ mode # "comment"

\* Between lines, what is open is what the present statement has opened.
BetweenLines ==
  pc = "line" =>
    /\ Len(stack) = cur.open
    /\ mode = "string" <=> cur.quotes = 1

\* In a line, it is that and what the line has opened.
InLine ==
  pc = "chars" =>
    /\ under = cur.open /\ Len(stack) = under + open
    /\ was = "string" <=> cur.quotes = 1
    /\ mode = "string" <=> (cur.quotes + quotes) % 2 = 1

\* Blanks open nothing.
BlankSoFar ==
  pc = "chars" /\ was = "code" /\ (\A k \in 1 .. Len(line) : k < i => line[k] = "space")
    => mode = "code" /\ open = 0 /\ quotes = 0

IInv == /\ TypeOK /\ CurOK /\ BetweenLines /\ InLine /\ BlankSoFar
        /\ StatementsClosed /\ AcceptedIfClosed

LEMMA InitIInv == Init => IInv
<1> SUFFICES ASSUME Init PROVE IInv
  OBVIOUS
<1> USE LinesAssumption DEF Init
<1>1. TypeOK
  <2>1. /\ line \in Seq(Chars) /\ stmts = <<>> /\ stack = <<>>
        /\ stack \in Seq(Opening \X (1 .. MaxLines))
        /\ stmts \in Seq([line : 1 .. MaxLines, open : Int, quotes : {0, 1}])
    OBVIOUS
  <2>2. cur \in [line : 0 .. MaxLines, open : Int, quotes : {0, 1}]
    BY DEF NoStmt
  <2> QED
    BY <2>1, <2>2 DEF TypeOK
<1>2. cur.line = 0 /\ cur.open = 0 /\ cur.quotes = 0
  BY DEF NoStmt
<1>3. Len(stack) = 0 /\ DOMAIN stmts = {}
  OBVIOUS
<1> QED
  BY <1>1, <1>2, <1>3
     DEF IInv, CurOK, BetweenLines, InLine, BlankSoFar, StatementsClosed,
         AcceptedIfClosed

LEMMA Pop ==
  ASSUME NEW S, NEW s \in Seq(S), s # <<>>
  PROVE  /\ SubSeq(s, 1, Len(s) - 1) \in Seq(S)
         /\ Len(SubSeq(s, 1, Len(s) - 1)) = Len(s) - 1
<1> DEFINE n == Len(s) - 1
<1>1. n \in Nat /\ \A k \in 1 .. n : s[k] \in S
  OBVIOUS
<1> HIDE DEF n
<1>2. /\ SubSeq(s, 1, n) \in Seq(S)
      /\ Len(SubSeq(s, 1, n)) = IF 1 <= n THEN n - 1 + 1 ELSE 0
  BY <1>1, SubSeqProperties
<1>3. Len(SubSeq(s, 1, n)) = n
  BY <1>1, <1>2
<1> QED
  BY <1>2, <1>3 DEF n

LEMMA Flip ==
  ASSUME NEW q \in {0, 1}, NEW r \in {0, 1}
  PROVE  /\ (q + r) % 2 \in {0, 1}
         /\ (q + ((r + 1) % 2)) % 2 = 1 <=> (q + r) % 2 # 1
         /\ (q + 0) % 2 = q
<1>1. /\ (0 + 0) % 2 = 0 /\ (0 + 1) % 2 = 1 /\ (1 + 0) % 2 = 1
      /\ (1 + 1) % 2 = 0
  OBVIOUS
<1>2. q = 0 \/ q = 1
  OBVIOUS
<1>3. r = 0 \/ r = 1
  OBVIOUS
<1> QED
  BY <1>1, <1>2, <1>3

\* Finishing a statement adds it to those that are finished, if there is one.
LEMMA FinishedIs ==
  ASSUME TypeOK, CurOK
  PROVE  /\ Finished \in Seq([line : 1 .. MaxLines, open : Int, quotes : {0, 1}])
         /\ \A k \in DOMAIN Finished :
              Finished[k] = cur \/ (k \in DOMAIN stmts /\ Finished[k] = stmts[k])
<1> DEFINE Stmt == [line : 1 .. MaxLines, open : Int, quotes : {0, 1}]
<1>1. /\ stmts \in Seq(Stmt)
      /\ cur \in [line : 0 .. MaxLines, open : Int, quotes : {0, 1}]
  BY DEF TypeOK
<1>2. CASE cur = NoStmt
  BY <1>1, <1>2 DEF Finished
<1>3. CASE cur # NoStmt
  <2>1. cur.line # 0
    BY <1>3 DEF CurOK
  <2>2. cur \in Stmt
    <3>1. cur.line \in 1 .. MaxLines
      BY <1>1, <2>1, LinesAssumption
    <3>2. cur = [line |-> cur.line, open |-> cur.open, quotes |-> cur.quotes]
      BY <1>1
    <3> QED
      BY <1>1, <3>1, <3>2
  <2>3. Finished = Append(stmts, cur)
    BY <1>3 DEF Finished
  <2>4. /\ Finished \in Seq(Stmt) /\ Len(Finished) = Len(stmts) + 1
        /\ \A k \in 1 .. Len(stmts) : Finished[k] = stmts[k]
        /\ Finished[Len(stmts) + 1] = cur
    BY <1>1, <2>2, <2>3, AppendProperties
  <2>5. DOMAIN stmts = 1 .. Len(stmts)
    BY <1>1
  <2>6. \A k \in DOMAIN Finished : k \in 1 .. Len(stmts) \/ k = Len(stmts) + 1
    BY <1>1, <2>4
  <2> QED
    BY <2>4, <2>5, <2>6
<1> QED
  BY <1>2, <1>3

\* If it is closed, all of them are.
LEMMA FinishedClosed ==
  ASSUME IInv, pc # "refused", cur.open = 0, cur.quotes = 0
  PROVE  \A k \in DOMAIN Finished : Finished[k].open = 0 /\ Finished[k].quotes = 0
<1>1. \A k \in DOMAIN stmts : stmts[k].open = 0 /\ stmts[k].quotes = 0
  BY DEF IInv, StatementsClosed
<1> SUFFICES ASSUME NEW k \in DOMAIN Finished
             PROVE  Finished[k].open = 0 /\ Finished[k].quotes = 0
  OBVIOUS
<1>2. Finished[k] = cur \/ (k \in DOMAIN stmts /\ Finished[k] = stmts[k])
  BY FinishedIs DEF IInv
<1> QED
  BY <1>1, <1>2

LEMMA NextIInv == IInv /\ [Next]_vars => IInv'
<1> SUFFICES ASSUME IInv, [Next]_vars PROVE IInv'
  OBVIOUS
<1> USE LinesAssumption
<1>1. TypeOK /\ CurOK
  BY DEF IInv
<1>0. /\ i \in Nat /\ i >= 1 /\ line \in Seq(Chars) /\ Len(line) \in Nat
      /\ under \in Nat /\ open \in Int
      /\ Len(stack) \in Nat /\ strLine \in 0 .. MaxLines
  BY <1>1 DEF TypeOK
<1>2. ASSUME NEW l \in Lines, Line(l) PROVE IInv'
  <2>0. /\ l \in Seq(Chars) /\ pc = "line" /\ lineNo' = lineNo + 1 /\ line' = l
        /\ lineNo' \in 1 .. MaxLines
        /\ open' = 0 /\ quotes' = 0 /\ code' = {}
    BY <1>1, <1>2 DEF Line, CommentLine, OpensComment, EndMark, SkipLine, EnterLine,
                      Takes, TypeOK
  <2>1. CASE mode' \in {"code", "comment"} /\ mode \in {"code", "comment"}
              /\ pc' = pc /\ UNCHANGED <<scan, strLine, stack, output>>
    BY <1>1, <2>0, <2>1
       DEF scan, output, IInv, TypeOK, CurOK, BetweenLines, InLine, BlankSoFar,
           StatementsClosed, AcceptedIfClosed
  <2>2. CASE EndMark(l)
    <3>1. /\ mode = "code" /\ stack = <<>> /\ strLine = 0
          /\ stmts' = Finished /\ cur' = NoStmt /\ pc' = "accepted"
          /\ i' = i /\ prev' = prev /\ was' = was /\ under' = under
          /\ mode' = mode /\ strLine' = strLine /\ stack' = stack
      BY <2>2 DEF EndMark, TopLevel, Verdict, scan, nesting, IInv, AcceptedIfClosed
    <3>2. cur.open = 0 /\ cur.quotes = 0
      BY <1>1, <2>0, <3>1 DEF IInv, BetweenLines, TypeOK
    <3>3. /\ stmts' \in Seq([line : 1 .. MaxLines, open : Int, quotes : {0, 1}])
          /\ \A k \in DOMAIN stmts' : stmts'[k].open = 0 /\ stmts'[k].quotes = 0
      BY <1>1, <2>0, <3>1, <3>2, FinishedIs, FinishedClosed
    <3> QED
      BY <1>1, <2>0, <3>1, <3>3
         DEF IInv, TypeOK, CurOK, BetweenLines, InLine, BlankSoFar, NoStmt,
             StatementsClosed, AcceptedIfClosed
  <2>3. CASE EnterLine(l)
    <3>1. /\ mode # "comment" /\ i' = 1 /\ prev' = "ws" /\ was' = mode
          /\ under' = Len(stack) /\ pc' = "chars"
          /\ mode' = mode /\ strLine' = strLine /\ stack' = stack
          /\ cur' = cur /\ stmts' = stmts
      BY <2>3 DEF EnterLine, nesting, output
    <3>2. cur.quotes \in {0, 1} /\ (cur.quotes + 0) % 2 = cur.quotes
      BY <1>1, Flip DEF TypeOK
    <3>3. Len(stack) = cur.open /\ (mode = "string" <=> cur.quotes = 1)
      BY <2>0 DEF IInv, BetweenLines
    <3>4. TypeOK' /\ CurOK'
      BY <1>1, <2>0, <3>1 DEF TypeOK, CurOK
    <3>5. InLine'
      <4>1. Len(stack') = under' + open'
        BY <1>1, <2>0, <3>1 DEF TypeOK
      <4>2. mode' = "string" <=> (cur'.quotes + quotes') % 2 = 1
        BY <2>0, <3>1, <3>2, <3>3
      <4> QED
        BY <3>1, <3>3, <4>1, <4>2 DEF InLine
    <3>6. BlankSoFar'
      BY <1>1, <2>0, <3>1 DEF BlankSoFar, TypeOK
    <3> QED
      BY <2>0, <3>1, <3>4, <3>5, <3>6
         DEF IInv, BetweenLines, StatementsClosed, AcceptedIfClosed
  <2>4. CommentLine(l) \/ OpensComment(l) \/ SkipLine(l)
          => /\ mode' \in {"code", "comment"} /\ mode \in {"code", "comment"}
             /\ pc' = pc /\ UNCHANGED <<scan, strLine, stack, output>>
    BY DEF CommentLine, OpensComment, SkipLine, nesting
  <2> QED
    BY <1>2, <2>1, <2>2, <2>3, <2>4 DEF Line
<1>3. ASSUME pc = "chars", pc' = "chars", UNCHANGED <<place, was, under, output>>,
             TypeOK', mode' # "comment", strLine' # 0 <=> mode' = "string",
             Len(stack') = under + open',
             mode' = "string" <=> (cur.quotes + quotes') % 2 = 1, BlankSoFar'
      PROVE  IInv'
  BY <1>3 DEF place, output, IInv, CurOK, BetweenLines, InLine, StatementsClosed,
              AcceptedIfClosed
<1>4. ASSUME pc = "chars"
      PROVE  /\ Len(stack) = under + open
             /\ mode = "string" <=> (cur.quotes + quotes) % 2 = 1
             /\ strLine # 0 <=> mode = "string"
             /\ mode # "comment" /\ lineNo \in 1 .. MaxLines
             /\ cur.quotes \in {0, 1} /\ quotes \in {0, 1}
  BY <1>1, <1>4 DEF IInv, InLine, CurOK, AcceptedIfClosed, TypeOK
\* What stands at i is no blank, so the line is not blank up to there.
<1>5. ASSUME pc = "chars", i <= Len(line), Here # "space", i' = i + 1, line' = line
      PROVE  BlankSoFar'
  <2>1. i \in 1 .. Len(line) /\ i < i' /\ line[i] # "space"
    BY <1>0, <1>5 DEF Here
  <2> QED
    BY <1>5, <2>1 DEF BlankSoFar
<1>6. CASE InString
  <2>1. /\ pc = "chars" /\ pc' = pc
        /\ lineNo' = lineNo /\ line' = line /\ was' = was /\ under' = under
        /\ cur' = cur /\ stmts' = stmts
        /\ mode = "string" /\ mode' = mode /\ strLine' = strLine /\ stack' = stack
        /\ open' = open /\ quotes' = quotes /\ code' = code /\ prev' = prev
        /\ i' \in {i + 1, i + 2}
    BY <1>6 DEF InString, Scanning, place, nesting, output, tally
  <2>2. TypeOK'
    BY <1>1, <2>1 DEF TypeOK
  <2>3. BlankSoFar'
    <3> SUFFICES ASSUME was = "code", \A k \in 1 .. Len(line) : k < i' => line[k] = "space"
                 PROVE  FALSE
      BY <2>1 DEF BlankSoFar
    <3>1. \A k \in 1 .. Len(line) : k < i => line[k] = "space"
      BY <1>0, <2>1
    <3> QED
      BY <2>1, <3>1 DEF IInv, BlankSoFar
  <2> QED
    BY <1>3, <1>4, <2>1, <2>2, <2>3 DEF place, output
<1>7. CASE CloseString \/ OpenString
  <2>1. /\ pc = "chars" /\ pc' = pc
        /\ lineNo' = lineNo /\ line' = line /\ was' = was /\ under' = under
        /\ cur' = cur /\ stmts' = stmts
        /\ i <= Len(line) /\ Here = "quote" /\ i' = i + 1 /\ prev' = "solid"
        /\ stack' = stack /\ open' = open /\ code' = code
        /\ quotes' = (quotes + 1) % 2
        /\ \/ mode = "string" /\ mode' = "code" /\ strLine' = 0
           \/ mode = "code" /\ mode' = "string" /\ strLine' = lineNo
    BY <1>7 DEF CloseString, OpenString, Scanning, place, output
  <2>2. /\ (cur.quotes + quotes') % 2 = 1 <=> (cur.quotes + quotes) % 2 # 1
        /\ quotes' \in {0, 1}
    BY <1>4, <2>1, Flip
  <2>3. TypeOK'
    <3>1. strLine' \in 0 .. MaxLines
      BY <1>4, <2>1
    <3>2. i' \in Nat \ {0}
      BY <1>0, <2>1
    <3> QED
      BY <1>1, <2>1, <2>2, <3>1, <3>2 DEF TypeOK
  <2>4. BlankSoFar'
    BY <1>5, <2>1
  <2>5. Len(stack') = under + open' /\ mode' # "comment"
    BY <1>4, <2>1
  <2>6. strLine' # 0 <=> mode' = "string"
    <3>1. lineNo # 0
      <4>1. lineNo \in 1 .. MaxLines
        BY <1>4, <2>1
      <4> QED
        BY <4>1
    <3>2. CASE mode' = "code" /\ strLine' = 0
      BY <3>2
    <3>3. CASE mode' = "string" /\ strLine' = lineNo
      BY <3>1, <3>3
    <3> QED
      BY <2>1, <3>2, <3>3
  <2>7. mode' = "string" <=> (cur.quotes + quotes') % 2 = 1
    BY <1>4, <2>1, <2>2
  <2> QED
    BY <1>3, <2>1, <2>3, <2>4, <2>5, <2>6, <2>7 DEF place, output
<1>8. CASE Open \/ Close \/ Other
  <2>1. /\ pc = "chars" /\ pc' = pc
        /\ lineNo' = lineNo /\ line' = line /\ was' = was /\ under' = under
        /\ cur' = cur /\ stmts' = stmts
        /\ mode = "code" /\ mode' = mode /\ strLine' = strLine
        /\ i <= Len(line) /\ i' = i + 1 /\ prev' \in {"ws", "solid"}
        /\ quotes' = quotes /\ code' \in {code, code \cup {i}}
    BY <1>8 DEF Open, Close, Other, CodeChar, InCode, Scanning, place, output
  <2>2. /\ stack' \in Seq(Opening \X (1 .. MaxLines)) /\ open' \in Int
        /\ Len(stack') = under + open'
    <3>1. CASE Open
      <4>1. stack' = Append(stack, <<Here, lineNo>>) /\ open' = open + 1
        BY <3>1 DEF Open
      <4>2. <<Here, lineNo>> \in Opening \X (1 .. MaxLines)
        BY <1>4, <2>1, <3>1 DEF Open
      <4> QED
        BY <1>1, <1>4, <2>1, <4>1, <4>2, AppendProperties DEF TypeOK
    <3>2. CASE Close
      <4>1. /\ stack' = SubSeq(stack, 1, Len(stack) - 1) /\ open' = open - 1
            /\ stack # <<>>
        BY <3>2 DEF Close, Matches
      <4>2. /\ stack' \in Seq(Opening \X (1 .. MaxLines))
            /\ Len(stack') = Len(stack) - 1
        BY <1>1, <4>1, Pop DEF TypeOK
      <4> QED
        BY <1>1, <1>4, <2>1, <4>1, <4>2 DEF TypeOK
    <3>3. CASE Other
      BY <1>1, <1>4, <2>1, <3>3 DEF Other, TypeOK
    <3> QED
      BY <1>8, <3>1, <3>2, <3>3
  <2>3. TypeOK'
    BY <1>1, <2>1, <2>2 DEF TypeOK
  <2>4. BlankSoFar'
    <3>1. CASE Here # "space"
      BY <1>5, <2>1, <3>1
    <3>2. CASE Here = "space"
      <4>1. open' = open
        BY <1>8, <3>2 DEF Open, Close, Other, Opening, Closing, Match
      <4>2. ASSUME \A k \in 1 .. Len(line) : k < i' => line[k] = "space"
            PROVE  \A k \in 1 .. Len(line) : k < i => line[k] = "space"
        BY <1>0, <2>1, <4>2
      <4> QED
        BY <2>1, <4>1, <4>2 DEF IInv, BlankSoFar
    <3> QED
      BY <3>1, <3>2
  <2> QED
    BY <1>3, <1>4, <2>1, <2>2, <2>3, <2>4 DEF place, output
<1>9. CASE Mismatch
  BY <1>1, <1>9 DEF Mismatch, place, scan, nesting, output, tally, IInv, TypeOK, CurOK,
      BetweenLines, InLine, BlankSoFar, StatementsClosed, AcceptedIfClosed
<1>10. CASE EndLine
  <2>1. /\ pc = "chars" /\ pc' = "line" /\ lineNo' = lineNo /\ line' = line
        /\ i' = i /\ prev' = prev /\ was' = was /\ under' = under
        /\ mode' = mode /\ strLine' = strLine /\ stack' = stack
        /\ open' = open /\ quotes' = quotes /\ code' \in {{}, code}
    BY <1>10 DEF EndLine, LineScanned, Scanning, place, scan, nesting
  <2>2. /\ under = cur.open /\ Len(stack) = under + open
        /\ was = "string" <=> cur.quotes = 1
    BY <2>1 DEF IInv, InLine
  \* Whichever way the line is taken, these four facts are enough.
  <2>3. ASSUME cur' \in [line : 0 .. MaxLines, open : Int, quotes : {0, 1}],
               stmts' \in Seq([line : 1 .. MaxLines, open : Int, quotes : {0, 1}]),
               cur'.line = 0 => cur' = NoStmt,
               Len(stack) = cur'.open, mode = "string" <=> cur'.quotes = 1,
               \A k \in DOMAIN stmts' : stmts'[k].open = 0 /\ stmts'[k].quotes = 0
        PROVE  IInv'
    <3>1. TypeOK'
      BY <1>1, <2>1, <2>3 DEF TypeOK
    <3> QED
      BY <1>4, <2>1, <2>3, <3>1
         DEF IInv, CurOK, BetweenLines, InLine, BlankSoFar, StatementsClosed,
             AcceptedIfClosed
  <2>4. /\ cur \in [line : 0 .. MaxLines, open : Int, quotes : {0, 1}]
        /\ stmts \in Seq([line : 1 .. MaxLines, open : Int, quotes : {0, 1}])
        /\ \A k \in DOMAIN stmts : stmts[k].open = 0 /\ stmts[k].quotes = 0
    BY <1>1, <2>1 DEF TypeOK, IInv, StatementsClosed
  <2>5. CASE LeavesNothing
    <3>1. cur' = cur /\ stmts' = stmts
      BY <1>10, <2>5 DEF EndLine, output
    <3>2. open = 0 /\ mode = "code" /\ was = "code"
      BY <2>1, <2>5 DEF LeavesNothing, IInv, BlankSoFar
    <3> QED
      BY <1>0, <1>1, <2>2, <2>3, <2>4, <3>1, <3>2 DEF CurOK
  <2>6. CASE ~LeavesNothing /\ (BeginsStatement \/ cur = NoStmt)
    <3>1. cur.open = 0 /\ cur.quotes = 0
      <4>1. CASE BeginsStatement
        BY <1>4, <2>1, <2>2, <4>1 DEF BeginsStatement
      <4>2. CASE cur = NoStmt
        BY <4>2 DEF NoStmt
      <4> QED
        BY <2>6, <4>1, <4>2
    <3>2. /\ cur' = [line |-> lineNo, open |-> open, quotes |-> quotes]
          /\ stmts' \in {stmts, Finished}
      BY <1>10, <2>6 DEF EndLine
    <3>3. /\ stmts' \in Seq([line : 1 .. MaxLines, open : Int, quotes : {0, 1}])
          /\ \A k \in DOMAIN stmts' : stmts'[k].open = 0 /\ stmts'[k].quotes = 0
      BY <1>1, <2>1, <2>4, <3>1, <3>2, FinishedIs, FinishedClosed
    <3>4. mode = "string" <=> quotes = 1
      BY <1>4, <2>1, <3>1
    <3>5. Len(stack) = open
      BY <1>0, <2>2, <3>1
    <3>6. /\ cur' \in [line : 0 .. MaxLines, open : Int, quotes : {0, 1}]
          /\ cur'.line # 0
      BY <1>0, <1>4, <2>1, <3>2
    <3> QED
      BY <2>3, <3>2, <3>3, <3>4, <3>5, <3>6
  <2>7. CASE ~LeavesNothing /\ ~(BeginsStatement \/ cur = NoStmt)
    <3>1. /\ cur' = [cur EXCEPT !.open = cur.open + open,
                                !.quotes = (cur.quotes + quotes) % 2]
          /\ stmts' = stmts
      BY <1>10, <2>7 DEF EndLine
    <3>2. (cur.quotes + quotes) % 2 \in {0, 1}
      BY <1>4, <2>1, Flip
    <3>3. /\ cur' \in [line : 0 .. MaxLines, open : Int, quotes : {0, 1}]
          /\ cur'.line = cur.line /\ cur'.open = cur.open + open
          /\ cur'.quotes = (cur.quotes + quotes) % 2
      <4> DEFINE o == cur.open + open
                 n == (cur.quotes + quotes) % 2
      <4>1. o \in Int /\ n \in {0, 1}
        BY <1>0, <2>4, <3>2
      <4>2. cur' = [cur EXCEPT !.open = o, !.quotes = n]
        BY <3>1
      <4> HIDE DEF o, n
      <4>3. /\ cur' \in [line : 0 .. MaxLines, open : Int, quotes : {0, 1}]
            /\ cur'.line = cur.line /\ cur'.open = o /\ cur'.quotes = n
        BY <2>4, <4>1, <4>2
      <4> QED
        BY <4>3 DEF o, n
    <3>4. cur.line # 0
      BY <1>1, <2>7 DEF CurOK
    <3>5. mode = "string" <=> cur'.quotes = 1
      BY <1>4, <2>1, <3>3
    <3>6. Len(stack) = cur'.open
      BY <2>2, <3>3
    <3> QED
      BY <2>3, <2>4, <3>1, <3>3, <3>4, <3>5, <3>6
  <2> QED
    BY <2>5, <2>6, <2>7
<1>11. CASE EndText
  <2>1. /\ pc = "line" /\ stmts' = Finished /\ cur' = NoStmt
        /\ pc' = IF strLine # 0 \/ stack # <<>> THEN "refused" ELSE "accepted"
        /\ lineNo' = lineNo /\ line' = line
        /\ i' = i /\ prev' = prev /\ was' = was /\ under' = under
        /\ mode' = mode /\ strLine' = strLine /\ stack' = stack
        /\ open' = open /\ quotes' = quotes /\ code' = code
    BY <1>11 DEF EndText, Verdict, place, scan, nesting, tally
  <2>2. stmts' \in Seq([line : 1 .. MaxLines, open : Int, quotes : {0, 1}])
    BY <1>1, <2>1, FinishedIs
  <2>3. cur' \in [line : 0 .. MaxLines, open : Int, quotes : {0, 1}]
    BY <2>1, LinesAssumption DEF NoStmt
  <2>4. TypeOK'
    BY <1>1, <2>1, <2>2, <2>3 DEF TypeOK
  <2>5. StatementsClosed'
    <3> SUFFICES ASSUME pc' = "accepted" PROVE StatementsClosed'
      BY <2>1 DEF StatementsClosed
    <3>1. strLine = 0 /\ stack = <<>>
      BY <2>1
    <3>2. Len(stack) = cur.open /\ mode # "string" /\ cur.quotes # 1
      BY <2>1, <3>1 DEF IInv, BetweenLines, AcceptedIfClosed
    <3>3. cur.quotes \in {0, 1}
      BY <1>1 DEF TypeOK
    <3>4. cur.open = 0 /\ cur.quotes = 0
      BY <3>1, <3>2, <3>3
    <3> QED
      BY <2>1, <3>4, FinishedClosed DEF StatementsClosed
  <2> QED
    BY <2>1, <2>4, <2>5
       DEF IInv, CurOK, BetweenLines, InLine, BlankSoFar, AcceptedIfClosed
<1>12. CASE UNCHANGED vars
  BY <1>1, <1>12 DEF vars, place, scan, nesting, output, tally, IInv, TypeOK, CurOK,
      BetweenLines, InLine, BlankSoFar, StatementsClosed, AcceptedIfClosed
<1> QED
  BY <1>2, <1>6, <1>7, <1>8, <1>9, <1>10, <1>11, <1>12 DEF Next, Char

\* split_q_script keeps every variable in its type.
THEOREM TypeCorrect == Spec => []TypeOK
<1>1. IInv => TypeOK
  BY DEF IInv
<1> QED
  BY InitIInv, NextIInv, <1>1, PTL DEF Spec

\* Every statement that split_q_script hands out is closed in itself, and a
\* script that it accepts leaves nothing open.
THEOREM WellSplitScripts == Spec => []WellSplit
<1>1. IInv => WellSplit
  BY DEF IInv, WellSplit
<1> QED
  BY InitIInv, NextIInv, <1>1, PTL DEF Spec
-------------------------------------------------------------------------------
\* Side by side in a line, the scanners are in the same state.  Only a blank
\* line, which split_q_script skips, is scanned by strip_q_code alone.
InStep ==
  /\ pc = "chars" =>
       /\ tPc = "chars"
       /\ ti = i /\ tPrev = prev /\ tMode = mode /\ depth = Len(stack) /\ out = code
  /\ tPc = "chars" /\ pc # "chars" =>
       \/ pc = "refused"
       \/ /\ pc = "line" /\ Blank(line) /\ tMode = "code" /\ mode = "code"
          /\ depth = Len(stack) /\ out = {} /\ code = {}

\* Blanks are no code.
BlankNoCode ==
  pc = "chars" /\ was = "code"
    /\ (\A k \in 1 .. Len(line) : k < i => line[k] = "space") => code = {}

Agree == StripTypeOK /\ InStep /\ BlankNoCode /\ ScannersAgree

LEMMA InitAgree == ScannersInit => Agree
BY DEF ScannersInit, Init, StripInit, Agree, StripTypeOK, InStep, BlankNoCode,
       ScannersAgree

LEMMA ScannersStep == [ScannersNext]_allVars => [Next]_vars
BY DEF ScannersNext, allVars, BothLine, BothEnd, BothChar, StripAlone,
       Next

LEMMA NextAgree == IInv /\ Agree /\ [ScannersNext]_allVars => Agree'
<1> SUFFICES ASSUME IInv, Agree, [ScannersNext]_allVars PROVE Agree'
  OBVIOUS
<1>0. /\ i \in Nat /\ i >= 1 /\ line \in Seq(Chars) /\ Len(line) \in Nat
      /\ Len(stack) \in Nat /\ depth \in Nat /\ ti \in Nat /\ ti >= 1
      /\ (stack = <<>> <=> Len(stack) = 0)
  BY DEF IInv, TypeOK, Agree, StripTypeOK
<1>1. ASSUME NEW l \in Lines, Line(l), StripLine(l) PROVE Agree'
  <2>1. /\ pc = "line" /\ tPc = "line" /\ line' = l /\ code' = {} /\ out' = {}
        /\ tMode = mode /\ depth = Len(stack)
    BY <1>1 DEF Line, CommentLine, OpensComment, EndMark, SkipLine, EnterLine, Takes,
                StripLine, Agree, ScannersAgree
  <2>2. /\ tMode \in {"code", "string", "comment"}
        /\ ti \in Nat \ {0} /\ tPrev \in {"ws", "solid"} /\ depth \in Nat
    BY DEF Agree, StripTypeOK
  <2>3. Starts(l, "slash") /\ ~Lone(l, "slash") => ~Lone(l, "backslash")
    BY DEF Starts, Lone
  <2>4. Lone(l, "slash") => Starts(l, "slash") /\ ~Lone(l, "backslash")
    BY DEF Starts, Lone
  <2>5. Blank(l) => ~Lone(l, "slash") /\ ~Lone(l, "backslash") /\ ~Starts(l, "slash")
    <3> SUFFICES ASSUME Blank(l), l # <<>> PROVE l[1] = "space"
      BY DEF Lone, Starts
    <3>1. l \in Seq(Chars)
      BY LinesAssumption
    <3> QED
      BY <3>1 DEF Blank
  <2>6. CASE CommentLine(l)
    <3>1. /\ mode = "comment" /\ tMode' = mode' /\ pc' = "line" /\ tPc' = "line"
          /\ depth' = depth /\ stack' = stack /\ ti' = ti /\ tPrev' = tPrev
          /\ mode' \in {"code", "comment"}
      BY <1>1, <2>1, <2>6 DEF CommentLine, StripLine, StripCommentLine, StripOpensComment,
         StripEndMark, StripSkipLine, StripEnterLine
    <3> QED
      BY <2>1, <2>2, <3>1 DEF Agree, StripTypeOK, InStep, BlankNoCode, ScannersAgree
  <2>7. CASE OpensComment(l)
    <3>1. /\ tMode' = "comment" /\ mode' = "comment" /\ pc' = "line" /\ tPc' = "line"
          /\ depth' = depth /\ stack' = stack /\ ti' = ti /\ tPrev' = tPrev
      BY <1>1, <2>1, <2>4, <2>7 DEF OpensComment, StripLine, StripCommentLine,
         StripOpensComment, StripEndMark, StripSkipLine, StripEnterLine
    <3> QED
      BY <2>1, <2>2, <3>1 DEF Agree, StripTypeOK, InStep, BlankNoCode, ScannersAgree
  <2>8. CASE EndMark(l)
    <3>0. mode = "code" /\ stack = <<>> /\ Lone(l, "backslash") /\ depth = 0
      BY <1>0, <2>1, <2>8 DEF EndMark, TopLevel
    <3>1. /\ tMode' = tMode /\ mode' = mode /\ tPc' = "ended"
          /\ pc' \in {"accepted", "refused"}
          /\ depth' = depth /\ stack' = stack /\ ti' = ti /\ tPrev' = tPrev
      BY <1>1, <2>1, <2>3, <2>4, <2>8, <3>0 DEF EndMark, Verdict, nesting, StripLine,
         StripCommentLine, StripOpensComment, StripEndMark, StripSkipLine, StripEnterLine
    <3> QED
      BY <2>1, <2>2, <3>1 DEF Agree, StripTypeOK, InStep, BlankNoCode, ScannersAgree
  <2>9. CASE SkipLine(l) /\ ~Blank(l)
    <3>1. /\ tMode' = tMode /\ mode' = mode /\ tPc' = "line" /\ pc' = "line"
          /\ depth' = depth /\ stack' = stack /\ ti' = ti /\ tPrev' = tPrev
      BY <1>1, <2>1, <2>3, <2>9 DEF SkipLine, nesting, StripLine,
         StripCommentLine, StripOpensComment, StripEndMark, StripSkipLine, StripEnterLine
    <3> QED
      BY <2>1, <2>2, <3>1 DEF Agree, StripTypeOK, InStep, BlankNoCode, ScannersAgree
  <2>10. CASE SkipLine(l) /\ Blank(l)
    <3>1. /\ tMode' = tMode /\ mode' = mode /\ tPc' = "chars" /\ pc' = "line"
          /\ depth' = depth /\ stack' = stack /\ ti' = 1 /\ tPrev' = "ws"
          /\ mode = "code"
      BY <1>1, <2>1, <2>5, <2>10 DEF SkipLine, nesting, StripLine,
         StripCommentLine, StripOpensComment, StripEndMark, StripSkipLine, StripEnterLine
    <3> QED
      BY <2>1, <2>2, <2>10, <3>1
         DEF Agree, StripTypeOK, InStep, BlankNoCode, ScannersAgree, Blank
  <2>11. CASE EnterLine(l)
    <3>1. /\ tMode' = tMode /\ mode' = mode /\ tPc' = "chars" /\ pc' = "chars"
          /\ depth' = depth /\ stack' = stack /\ ti' = 1 /\ tPrev' = "ws"
          /\ i' = 1 /\ prev' = "ws"
      BY <1>0, <1>1, <2>1, <2>4, <2>11 DEF EnterLine, TopLevel, nesting, StripLine,
         StripCommentLine, StripOpensComment, StripEndMark, StripSkipLine, StripEnterLine
    <3> QED
      BY <2>1, <2>2, <3>1 DEF Agree, StripTypeOK, InStep, BlankNoCode, ScannersAgree
  <2> QED
    BY <1>1, <2>6, <2>7, <2>8, <2>9, <2>10, <2>11 DEF Line
<1>2. CASE BothEnd
  <2>1. /\ pc = "line" /\ tPc = "line" /\ tPc' = "ended"
        /\ pc' \in {"accepted", "refused"}
        /\ mode' = mode /\ tMode' = tMode /\ stack' = stack /\ depth' = depth
        /\ code' = code /\ out' = out /\ ti' = ti /\ tPrev' = tPrev
    BY <1>2 DEF BothEnd, EndText, StripEndText, Verdict, nesting, tally
  <2> QED
    BY <2>1 DEF Agree, StripTypeOK, InStep, BlankNoCode, ScannersAgree
<1>3. CASE BothChar
  <2>1. /\ pc = "chars" /\ tPc = "chars" /\ ti = i /\ tPrev = prev /\ tMode = mode
        /\ depth = Len(stack) /\ out = code
    BY <1>3 DEF BothChar, Char, InString, CloseString, OpenString, Open, Close, Mismatch,
       Other, EndLine, InCode, Scanning, LineScanned, Agree, InStep
  <2>10. Char /\ Strip
    BY <1>3, <2>1 DEF BothChar
  <2>2. /\ tMode \in {"code", "string", "comment"} /\ out \subseteq Nat
        /\ tPrev \in {"ws", "solid"}
    BY DEF Agree, StripTypeOK
  <2>3. There = Here
    BY <2>1 DEF There, Here
  \* A step that leaves both in the line, in the same state.
  <2>4. ASSUME pc' = "chars", tPc' = "chars", ti' = i', tPrev' = prev', tMode' = mode',
               depth' = Len(stack'), out' = code', line' = line, was' = was,
               ti' \in {ti + 1, ti + 2}, tPrev' \in {"ws", "solid"},
               tMode' \in {"code", "string"}, depth' \in Nat,
               \/ code' = code
               \/ code' = code \cup {i} /\ i <= Len(line) /\ Here # "space" /\ i' = i + 1
        PROVE  Agree'
    <3>1. StripTypeOK'
      <4>1. ti' \in Nat \ {0}
        BY <1>0, <2>4
      <4>2. out' \subseteq Nat
        BY <1>0, <2>1, <2>2, <2>4
      <4> QED
        BY <2>4, <4>1, <4>2 DEF StripTypeOK
    <3>2. BlankNoCode'
      <4> SUFFICES ASSUME was = "code",
                          \A k \in 1 .. Len(line) : k < i' => line[k] = "space"
                   PROVE  code' = {}
        BY <2>4 DEF BlankNoCode
      <4>1. \A k \in 1 .. Len(line) : k < i => line[k] = "space"
        BY <1>0, <2>1, <2>4
      <4>2. code = {}
        BY <2>1, <4>1 DEF Agree, BlankNoCode
      <4>3. ~(i <= Len(line) /\ Here # "space" /\ i' = i + 1)
        BY <1>0 DEF Here
      <4> QED
        BY <2>4, <4>2, <4>3
    <3> QED
      BY <2>4, <3>1, <3>2 DEF Agree, InStep, ScannersAgree
  <2>5. CASE InString
    <3>0. i <= Len(line) /\ mode = "string" /\ Here # "quote"
      BY <2>5 DEF InString, Scanning
    <3>1. StripInString
      <4>1. ~StripQuote /\ ~StripChar
        BY <2>1, <2>3, <3>0 DEF StripQuote, StripChar
      <4>2. ~StripEndLine
        BY <1>0, <2>1, <3>0 DEF StripEndLine
      <4> QED
        BY <2>10, <4>1, <4>2 DEF Strip
    <3>2. /\ pc' = pc /\ line' = line /\ was' = was /\ prev' = prev /\ mode' = mode
          /\ stack' = stack /\ code' = code /\ mode = "string"
          /\ i' = i + (IF Here = "backslash" THEN 2 ELSE 1)
      BY <2>5 DEF InString, place, nesting, tally
    <3>3. /\ tPc' = tPc /\ tPrev' = tPrev /\ tMode' = tMode /\ depth' = depth
          /\ out' = out /\ ti' = ti + (IF There = "backslash" THEN 2 ELSE 1)
      BY <3>1 DEF StripInString
    <3>4. ti' = i' /\ ti' \in {ti + 1, ti + 2}
      BY <1>0, <2>1, <2>3, <3>2, <3>3
    <3> QED
      BY <1>0, <2>1, <2>2, <2>4, <3>2, <3>3, <3>4
  <2>6. CASE CloseString \/ OpenString
    <3>0. i <= Len(line) /\ Here = "quote"
      BY <2>6 DEF CloseString, OpenString, Scanning
    <3>1. StripQuote
      <4>1. ~StripInString /\ ~StripChar
        BY <2>3, <3>0 DEF StripInString, StripChar
      <4>2. ~IsInlineComment(line, ti, tPrev)
        BY <2>3, <3>0 DEF IsInlineComment, There
      <4>3. ~StripEndLine
        BY <1>0, <2>1, <3>0, <4>2 DEF StripEndLine
      <4> QED
        BY <2>10, <4>1, <4>3 DEF Strip
    <3>2. /\ pc' = pc /\ line' = line /\ was' = was /\ prev' = "solid"
          /\ mode' = IF mode = "string" THEN "code" ELSE "string"
          /\ stack' = stack /\ code' = code /\ i' = i + 1
      BY <2>6 DEF CloseString, OpenString, place, nesting, tally
    <3>3. /\ tPc' = tPc /\ tPrev' = "solid" /\ depth' = depth /\ out' = out
          /\ tMode' = IF tMode = "string" THEN "code" ELSE "string"
          /\ ti' = ti + 1
      BY <3>1 DEF StripQuote
    <3> QED
      BY <1>0, <2>1, <2>2, <2>4, <3>2, <3>3
  <2>7. CASE Open \/ Close \/ Other
    <3>1. StripChar
      BY <2>10, <1>0, <2>1, <2>3, <2>7 DEF Strip, Open, Close, Other, InCode,
         StripInString, StripQuote, StripEndLine, Scanning
    <3>2. /\ pc' = pc /\ line' = line /\ was' = was /\ mode' = mode /\ i' = i + 1
          /\ prev' = IF Here = "space" THEN "ws" ELSE "solid"
          /\ code' = IF Here = "space" THEN code ELSE code \cup {i}
          /\ mode = "code" /\ i <= Len(line)
      BY <2>7 DEF Open, Close, Other, CodeChar, InCode, Scanning, place
    <3>3. /\ tPc' = tPc /\ tMode' = tMode /\ ti' = ti + 1
          /\ tPrev' = IF There = "space" THEN "ws" ELSE "solid"
          /\ out' = IF There = "space" THEN out ELSE out \cup {ti}
      BY <3>1 DEF StripChar
    <3>4. depth' = Len(stack') /\ depth' \in Nat
      <4>1. depth' = CASE Here \in Opening -> depth + 1
                       [] Here \in Closing /\ depth > 0 -> depth - 1
                       [] OTHER -> depth
        BY <2>3, <3>1 DEF StripChar
      <4>2. stack \in Seq(Opening \X (1 .. MaxLines))
        BY DEF IInv, TypeOK
      <4>3. \A c \in Opening : c \notin Closing
        BY DEF Opening, Closing
      <4>4. CASE Open
        <5>1. Here \in Opening /\ stack' = Append(stack, <<Here, lineNo>>)
          BY <4>4 DEF Open
        <5>2. Len(stack') = Len(stack) + 1
          BY <4>2, <5>1
        <5>3. depth' = depth + 1
          BY <4>1, <4>3, <5>1
        <5> QED
          BY <1>0, <2>1, <5>2, <5>3
      <4>5. CASE Close
        <5>1. /\ Here \in Closing /\ Here \notin Opening /\ stack # <<>>
              /\ stack' = SubSeq(stack, 1, Len(stack) - 1)
          BY <4>3, <4>5 DEF Close, Matches
        <5>2. Len(stack') = Len(stack) - 1 /\ Len(stack) > 0
          BY <1>0, <4>2, <5>1, Pop
        <5> QED
          BY <1>0, <2>1, <4>1, <5>1, <5>2
      <4>6. CASE Other
        <5>1. Here \notin Opening /\ Here \notin Closing /\ stack' = stack
          BY <4>6 DEF Other
        <5> QED
          BY <1>0, <2>1, <4>1, <5>1
      <4> QED
        BY <2>7, <4>4, <4>5, <4>6
    <3>5. \/ code' = code
          \/ code' = code \cup {i} /\ i <= Len(line) /\ Here # "space" /\ i' = i + 1
      BY <3>2
    <3> QED
      BY <1>0, <2>1, <2>2, <2>3, <2>4, <3>2, <3>3, <3>4, <3>5
  <2>8. CASE Mismatch
    <3>1. StripChar
      BY <2>10, <1>0, <2>1, <2>3, <2>8 DEF Strip, Mismatch, InCode,
         StripInString, StripQuote, StripEndLine, Scanning
    <3>2. /\ tPc' = tPc /\ tMode' = tMode /\ ti' = ti + 1
          /\ tPrev' \in {"ws", "solid"} /\ out' \in {out, out \cup {ti}}
          /\ depth' = CASE There \in Opening -> depth + 1
                       [] There \in Closing /\ depth > 0 -> depth - 1
                       [] OTHER -> depth
      BY <3>1 DEF StripChar
    <3>3. depth' \in Nat
      BY <1>0, <3>2
    <3>4. pc' = "refused"
      BY <2>8 DEF Mismatch
    <3> QED
      BY <1>0, <2>1, <2>2, <3>2, <3>3, <3>4
         DEF Agree, StripTypeOK, InStep, BlankNoCode, ScannersAgree
  <2>9. CASE EndLine
    <3>1. StripEndLine
      <4>1. CASE i > Len(line)
        <5>1. ~StripScanning
          BY <1>0, <2>1, <4>1 DEF StripScanning
        <5> QED
          BY <2>10, <5>1 DEF Strip, StripInString, StripQuote, StripChar
      <4>2. CASE mode = "code" /\ IsInlineComment(line, i, prev)
        <5>1. ~StripInString /\ ~StripChar
          BY <2>1, <4>2 DEF StripInString, StripChar
        <5>2. ~StripQuote
          BY <2>1, <4>2 DEF StripQuote, IsInlineComment, There
        <5> QED
          BY <2>10, <5>1, <5>2 DEF Strip
      <4> QED
        BY <2>9, <4>1, <4>2 DEF EndLine, LineScanned
    <3>2. /\ pc' = "line" /\ mode' = mode /\ stack' = stack
          /\ code' = IF LeavesNothing THEN {} ELSE code
      BY <2>9 DEF EndLine, nesting
    <3>3. code' = code
      BY <2>1, <3>2 DEF LeavesNothing, Agree, BlankNoCode
    <3>4. /\ tPc' = "line" /\ ti' = ti /\ tPrev' = tPrev /\ tMode' = tMode
          /\ depth' = depth /\ out' = out
      BY <3>1 DEF StripEndLine
    <3> QED
      BY <1>0, <2>1, <2>2, <3>2, <3>3, <3>4
         DEF Agree, StripTypeOK, InStep, BlankNoCode, ScannersAgree
  <2> QED
    BY <2>10, <2>5, <2>6, <2>7, <2>8, <2>9 DEF Char
\* strip_q_code alone is in a blank line, and finds nothing there.
<1>4. CASE StripAlone
  <2>1. /\ tPc = "chars" /\ pc = "line" /\ Blank(line) /\ tMode = "code" /\ mode = "code"
        /\ depth = Len(stack) /\ out = {} /\ code = {}
    BY <1>4 DEF StripAlone, Strip, StripInString, StripQuote, StripChar, StripEndLine,
       StripScanning, Agree, InStep
  <2>2. /\ pc' = pc /\ line' = line /\ mode' = mode /\ stack' = stack /\ code' = code
    BY <1>4 DEF StripAlone, vars, place, nesting, tally
  <2>3. ti <= Len(line) => There = "space"
    BY <1>0, <2>1 DEF Blank, There
  <2>4. CASE StripChar
    <3>1. /\ tPc' = tPc /\ tMode' = tMode /\ ti' = ti + 1 /\ tPrev' = "ws"
          /\ out' = out /\ There = "space"
          /\ depth' = CASE There \in Opening -> depth + 1
                       [] There \in Closing /\ depth > 0 -> depth - 1
                       [] OTHER -> depth
      BY <2>3, <2>4 DEF StripChar, StripScanning
    <3>2. depth' = depth
      BY <3>1 DEF Opening, Closing
    <3> QED
      BY <1>0, <2>1, <2>2, <3>1, <3>2
         DEF Agree, StripTypeOK, InStep, BlankNoCode, ScannersAgree, Blank
  <2>5. CASE StripEndLine
    <3>1. /\ tPc' = "line" /\ ti' = ti /\ tPrev' = tPrev /\ tMode' = tMode
          /\ depth' = depth /\ out' = out
      BY <2>5 DEF StripEndLine
    <3> QED
      BY <1>0, <2>1, <2>2, <3>1
         DEF Agree, StripTypeOK, InStep, BlankNoCode, ScannersAgree
  <2>6. ~StripInString /\ ~StripQuote
    BY <2>1, <2>3 DEF StripInString, StripQuote, StripScanning
  <2> QED
    BY <1>4, <2>4, <2>5, <2>6 DEF StripAlone, Strip
<1>5. CASE UNCHANGED allVars
  BY <1>5 DEF allVars, vars, stripped, place, scan, nesting, output, tally, Agree,
     StripTypeOK, InStep, BlankNoCode, ScannersAgree, Blank
<1> QED
  BY <1>1, <1>2, <1>3, <1>4, <1>5 DEF ScannersNext, BothLine

\* Whatever the text, split_q_script and strip_q_code take the same characters
\* for code, and stop at the same line, until the text is refused.
THEOREM Agreement == ScannersSpec => []ScannersAgree
<1>1. ScannersInit => IInv /\ Agree
  BY InitIInv, InitAgree DEF ScannersInit
<1>2. IInv /\ Agree /\ [ScannersNext]_allVars => (IInv /\ Agree)'
  BY ScannersStep, NextIInv, NextAgree
<1>3. Agree => ScannersAgree
  BY DEF Agree
<1> QED
  BY <1>1, <1>2, <1>3, PTL DEF ScannersSpec
===============================================================================
