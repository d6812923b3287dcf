------------------------------- MODULE Splitter -------------------------------
(***************************************************************************)
(* cmd::split_q_script (src/cmd.rs): a q script is cut into top-level      *)
(* statements, comments are taken out, and a text that leaves a string or  *)
(* a delimiter open is refused before anything of it runs.                 *)
(*                                                                         *)
(* The text is chosen a line at a time, from Lines.  in_block_comment and  *)
(* in_str are never both set, so one variable, `mode`, has both.  Of a     *)
(* statement the model keeps where it starts and what its own characters   *)
(* leave open: `open` and `quotes` count them apart from the stack that    *)
(* the code decides by.  No statement is blank: its first line has code.   *)
(***************************************************************************)
EXTENDS Integers, Sequences

CONSTANTS
  Lines,      \* the lines a text is made of, sequences of Chars
  MaxLines    \* bound: lines of a text

Opening == {"lbrace", "lparen", "lbracket"}
Closing == {"rbrace", "rparen", "rbracket"}
Match   == [c \in Closing |-> CASE c = "rbrace" -> "lbrace"
                               [] c = "rparen" -> "lparen"
                               [] c = "rbracket" -> "lbracket"]

Chars ==
  Opening \cup Closing
    \cup {"quote", "backslash", "slash", "colon", "space", "other"}

ASSUME LinesAssumption == Lines \subseteq Seq(Chars) /\ MaxLines \in Nat

VARIABLES
  pc,         \* "line", "chars", "accepted" or "refused"
  lineNo, line,        \* the present line
  i,          \* index in it, from 1
  prev,       \* prev_ws: "ws" or "solid"
  was,        \* was_in_str, as a mode, and the depth
  under,      \*   at which the line began
  mode,       \* "code", "string" or "comment": what the text is in
  strLine,    \* str_start_line, 0 for none
  stack,      \* delimiter_stack: <<opening character, its line>>
  cur, stmts, \* current_stmt and the statements that are finished
  open, quotes, code   \* history: what the line opened and did not close, its
                       \* quotes, and where it has characters outside strings
                       \* that are passed on to a statement

place   == <<lineNo, line>>
scan    == <<i, prev, was, under>>
nesting == <<mode, strLine, stack>>
output  == <<cur, stmts>>
tally   == <<open, quotes, code>>
vars    == <<pc, place, scan, nesting, output, tally>>

NoStmt == [line |-> 0, open |-> 0, quotes |-> 0]

Lone(l, c) == l # <<>> /\ l[1] = c /\ \A k \in 2 .. Len(l) : l[k] = "space"
Blank(l)   == \A k \in 1 .. Len(l) : l[k] = "space"
Starts(l, c) == l # <<>> /\ l[1] = c

TopLevel == mode = "code" /\ stack = <<>>

\* finish_stmt, as the value of stmts afterwards.
Finished == IF cur = NoStmt THEN stmts ELSE Append(stmts, cur)
-------------------------------------------------------------------------------
Init ==
  /\ pc = "line"
  /\ lineNo = 0 /\ line = <<>>
  /\ i = 1 /\ prev = "ws" /\ was = "code" /\ under = 0
  /\ mode = "code" /\ strLine = 0 /\ stack = <<>>
  /\ cur = NoStmt /\ stmts = <<>>
  /\ open = 0 /\ quotes = 0 /\ code = {}

Takes(l) ==
  /\ pc = "line" /\ lineNo < MaxLines
  /\ lineNo' = lineNo + 1 /\ line' = l
  /\ open' = 0 /\ quotes' = 0 /\ code' = {}

CommentLine(l) ==
  /\ Takes(l) /\ mode = "comment"
  /\ mode' = IF Lone(l, "backslash") THEN "code" ELSE "comment"
  /\ UNCHANGED <<pc, scan, strLine, stack, output>>

OpensComment(l) ==
  /\ Takes(l) /\ mode = "code" /\ Lone(l, "slash")
  /\ mode' = "comment"
  /\ UNCHANGED <<pc, scan, strLine, stack, output>>

\* The checks at the end of the function.
Verdict ==
  pc' = IF strLine # 0 \/ stack # <<>> THEN "refused" ELSE "accepted"

\* A lone backslash, outside everything, ends the script.
EndMark(l) ==
  /\ Takes(l) /\ TopLevel /\ Lone(l, "backslash")
  /\ stmts' = Finished /\ cur' = NoStmt
  /\ Verdict
  /\ UNCHANGED <<scan, nesting>>

SkipLine(l) ==
  /\ Takes(l) /\ mode = "code"
  /\ Starts(l, "slash") \/ Blank(l)
  /\ ~Lone(l, "slash")
  /\ UNCHANGED <<pc, scan, nesting, output>>

EnterLine(l) ==
  /\ Takes(l) /\ mode # "comment"
  /\ mode = "code" => ~Starts(l, "slash") /\ ~Blank(l)
  /\ TopLevel => ~Lone(l, "backslash")
  /\ i' = 1 /\ prev' = "ws" /\ was' = mode /\ under' = Len(stack)
  /\ pc' = "chars"
  /\ UNCHANGED <<nesting, output>>

Line(l) == \/ CommentLine(l) \/ OpensComment(l) \/ EndMark(l)
           \/ SkipLine(l) \/ EnterLine(l)
-------------------------------------------------------------------------------
Scanning == pc = "chars" /\ i <= Len(line)
Here == line[i]

\* is_inline_comment, which both scanners call.
IsInlineComment(l, k, before) ==
  before = "ws" /\ l[k] = "slash" /\ (k < Len(l) => l[k + 1] # "colon")

InString ==
  /\ Scanning /\ mode = "string" /\ Here # "quote"
  /\ i' = i + (IF Here = "backslash" THEN 2 ELSE 1)
  /\ UNCHANGED <<pc, place, prev, was, under, nesting, output, tally>>

\* Mutant: the start of the string is not forgotten.
CloseStringKept ==
  /\ Scanning /\ mode = "string" /\ Here = "quote"
  /\ mode' = "code"
  /\ prev' = "solid" /\ i' = i + 1
  /\ quotes' = (quotes + 1) % 2
  /\ UNCHANGED <<pc, place, was, under, strLine, stack, output, open, code>>

CloseString ==
  /\ Scanning /\ mode = "string" /\ Here = "quote"
  /\ mode' = "code" /\ strLine' = 0
  /\ prev' = "solid" /\ i' = i + 1
  /\ quotes' = (quotes + 1) % 2
  /\ UNCHANGED <<pc, place, was, under, stack, output, open, code>>

OpenString ==
  /\ Scanning /\ mode = "code" /\ Here = "quote"
  /\ mode' = "string" /\ strLine' = lineNo
  /\ prev' = "solid" /\ i' = i + 1
  /\ quotes' = (quotes + 1) % 2
  /\ UNCHANGED <<pc, place, was, under, stack, output, open, code>>

InCode == Scanning /\ mode = "code" /\ Here # "quote" /\ ~IsInlineComment(line, i, prev)

\* A character of the program.
CodeChar ==
  /\ prev' = IF Here = "space" THEN "ws" ELSE "solid"
  /\ i' = i + 1
  /\ code' = IF Here = "space" THEN code ELSE code \cup {i}
  /\ UNCHANGED <<place, was, under, mode, strLine, output, quotes>>

Open ==
  /\ InCode /\ Here \in Opening
  /\ stack' = Append(stack, <<Here, lineNo>>)
  /\ open' = open + 1
  /\ CodeChar
  /\ UNCHANGED pc

Matches == stack # <<>> /\ stack[Len(stack)][1] = Match[Here]

Close ==
  /\ InCode /\ Here \in Closing /\ Matches
  /\ stack' = SubSeq(stack, 1, Len(stack) - 1)
  /\ open' = open - 1
  /\ CodeChar
  /\ UNCHANGED pc

Mismatch ==
  /\ InCode /\ Here \in Closing /\ ~Matches
  /\ pc' = "refused"
  /\ UNCHANGED <<place, scan, nesting, output, tally>>

Other ==
  /\ InCode /\ Here \notin Opening \cup Closing
  /\ CodeChar
  /\ UNCHANGED <<pc, stack, open>>

LineScanned ==
  /\ pc = "chars"
  /\ \/ i > Len(line)
     \/ Scanning /\ mode = "code" /\ IsInlineComment(line, i, prev)

\* What is left of the line when the comment is taken out is blank.
LeavesNothing ==
  mode = "code" /\ was = "code" /\ \A k \in 1 .. Len(line) : k < i => line[k] = "space"

\* Mutant: a line inside a string is taken for one at the top level.
BeginsStatementAnywhere == under = 0 /\ line # <<>> /\ line[1] # "space"

BeginsStatement == was = "code" /\ under = 0 /\ line[1] # "space"

EndLine ==
  /\ LineScanned
  /\ pc' = "line"
  /\ IF LeavesNothing
       THEN UNCHANGED output
       ELSE IF BeginsStatement \/ cur = NoStmt
         THEN /\ stmts' = IF BeginsStatement THEN Finished ELSE stmts
              /\ cur' = [line |-> lineNo, open |-> open, quotes |-> quotes]
         ELSE /\ cur' = [cur EXCEPT !.open = @ + open, !.quotes = (@ + quotes) % 2]
              /\ UNCHANGED stmts
  /\ code' = IF LeavesNothing THEN {} ELSE code
  /\ UNCHANGED <<place, scan, nesting, open, quotes>>

Char == \/ InString \/ CloseString \/ OpenString
        \/ Open \/ Close \/ Mismatch \/ Other \/ EndLine

\* The text may end after any line.
EndText ==
  /\ pc = "line"
  /\ stmts' = Finished /\ cur' = NoStmt
  /\ Verdict
  /\ UNCHANGED <<place, scan, nesting, tally>>

Next == (\E l \in Lines : Line(l)) \/ Char \/ EndText

Spec == Init /\ [][Next]_vars
-------------------------------------------------------------------------------
\* Every variable has its type.
TypeOK ==
  /\ pc \in {"line", "chars", "accepted", "refused"}
  /\ lineNo \in 0 .. MaxLines /\ line \in Seq(Chars)
  /\ i \in Nat \ {0} /\ prev \in {"ws", "solid"}
  /\ was \in {"code", "string"} /\ under \in Nat
  /\ mode \in {"code", "string", "comment"}
  /\ strLine \in 0 .. MaxLines
  /\ stack \in Seq(Opening \X (1 .. MaxLines))
  /\ cur \in [line : 0 .. MaxLines, open : Int, quotes : {0, 1}]
  /\ stmts \in Seq([line : 1 .. MaxLines, open : Int, quotes : {0, 1}])
  /\ open \in Int /\ quotes \in {0, 1} /\ code \subseteq Nat

\* Every statement but the last of a script that is refused is closed in
\* itself: it may be checked and sent alone, and nothing of it is in the next
\* one (cmd.rs:500 to 515).
StatementsClosed ==
  pc # "refused" =>
    \A k \in DOMAIN stmts : stmts[k].open = 0 /\ stmts[k].quotes = 0

\* A script that is accepted leaves no string, no delimiter and no statement
\* open; and none is refused for a string that was closed.
AcceptedIfClosed ==
  /\ pc = "accepted" => mode # "string" /\ stack = <<>> /\ cur = NoStmt
  /\ strLine # 0 <=> mode = "string"

\* What check_readonly is given, and what is sent, are whole statements of a
\* script that leaves nothing open (cmd.rs:500 to 515).
WellSplit == StatementsClosed /\ AcceptedIfClosed
===============================================================================
