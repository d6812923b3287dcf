------------------------------- MODULE Scanners -------------------------------
(***************************************************************************)
(* The program scans q text twice, with two copies of one scanner.  What   *)
(* it sends comes out of split_q_script; what it looks for names of server *)
(* functions in, before it sends, comes out of cmd::strip_q_code, which is *)
(* here beside the other (prepare_run, do_run, inspect_remote_funcs of     *)
(* src/cmd.rs).  They ought to take the same characters of the text for    *)
(* code.                                                                   *)
(*                                                                         *)
(* Both are functions of the text.  They are run side by side, a line and  *)
(* a character at a time, so that the text need not be kept.               *)
(***************************************************************************)
EXTENDS Splitter

VARIABLES
  tPc,        \* strip_q_code: "line", "chars" or "ended"
  ti, tPrev,  \*   i and prev_ws
  tMode,      \*   in_str and in_block_comment, as in mode
  depth,      \*   delim_depth
  out         \*   where the line has characters that are put in `out`

stripped == <<tPc, ti, tPrev, tMode, depth, out>>
allVars  == <<vars, stripped>>

StripInit ==
  /\ tPc = "line" /\ ti = 1 /\ tPrev = "ws" /\ tMode = "code"
  /\ depth = 0 /\ out = {}

StripCommentLine(l) ==
  /\ tMode = "comment"
  /\ tMode' = IF Lone(l, "backslash") THEN "code" ELSE "comment"
  /\ UNCHANGED <<tPc, ti, tPrev, depth>>

StripOpensComment(l) ==
  /\ tMode = "code" /\ Lone(l, "slash")
  /\ tMode' = "comment"
  /\ UNCHANGED <<tPc, ti, tPrev, depth>>

StripEndMark(l) ==
  /\ tMode = "code" /\ depth = 0 /\ Lone(l, "backslash")
  /\ tPc' = "ended"
  /\ UNCHANGED <<ti, tPrev, tMode, depth>>

StripSkipLine(l) ==
  /\ tMode = "code" /\ Starts(l, "slash") /\ ~Lone(l, "slash")
  /\ UNCHANGED <<tPc, ti, tPrev, tMode, depth>>

StripEnterLine(l) ==
  /\ tMode # "comment"
  /\ tMode = "code" => ~Starts(l, "slash")
  /\ tMode = "code" /\ depth = 0 => ~Lone(l, "backslash")
  /\ ti' = 1 /\ tPrev' = "ws"
  /\ tPc' = "chars"
  /\ UNCHANGED <<tMode, depth>>

StripLine(l) ==
  /\ tPc = "line"
  /\ out' = {}
  /\ \/ StripCommentLine(l) \/ StripOpensComment(l) \/ StripEndMark(l)
     \/ StripSkipLine(l) \/ StripEnterLine(l)
-------------------------------------------------------------------------------
StripScanning == tPc = "chars" /\ ti <= Len(line)
There == line[ti]

StripInString ==
  /\ StripScanning /\ tMode = "string" /\ There # "quote"
  /\ ti' = ti + (IF There = "backslash" THEN 2 ELSE 1)
  /\ UNCHANGED <<tPc, tPrev, tMode, depth, out>>

\* Mutant: what stands before a quote counts as if it stood before what follows.
StripQuoteBefore ==
  /\ StripScanning /\ There = "quote"
  /\ tMode' = IF tMode = "string" THEN "code" ELSE "string"
  /\ ti' = ti + 1
  /\ UNCHANGED <<tPc, tPrev, depth, out>>

StripQuote ==
  /\ StripScanning /\ There = "quote"
  /\ tMode' = IF tMode = "string" THEN "code" ELSE "string"
  /\ tPrev' = "solid" /\ ti' = ti + 1
  /\ UNCHANGED <<tPc, depth, out>>

StripChar ==
  /\ StripScanning /\ tMode = "code" /\ There # "quote"
  /\ ~IsInlineComment(line, ti, tPrev)
  /\ depth' = CASE There \in Opening -> depth + 1
                [] There \in Closing /\ depth > 0 -> depth - 1
                [] OTHER -> depth
  /\ out' = IF There = "space" THEN out ELSE out \cup {ti}
  /\ tPrev' = IF There = "space" THEN "ws" ELSE "solid"
  /\ ti' = ti + 1
  /\ UNCHANGED <<tPc, tMode>>

StripEndLine ==
  /\ tPc = "chars"
  /\ \/ ti > Len(line)
     \/ StripScanning /\ tMode = "code" /\ IsInlineComment(line, ti, tPrev)
  /\ tPc' = "line"
  /\ UNCHANGED <<ti, tPrev, tMode, depth, out>>

Strip == StripInString \/ StripQuote \/ StripChar \/ StripEndLine

StripEndText ==
  /\ tPc = "line" /\ tPc' = "ended"
  /\ UNCHANGED <<ti, tPrev, tMode, depth, out>>
-------------------------------------------------------------------------------
ScannersInit == Init /\ StripInit

\* A line is taken by both, and so is the end of the text; a character is, as
\* long as both are in the line.
BothLine    == \E l \in Lines : Line(l) /\ StripLine(l)
BothEnd     == EndText /\ StripEndText
BothChar    == Char /\ IF tPc = "chars" THEN Strip ELSE UNCHANGED stripped
StripAlone  == pc # "chars" /\ pc # "refused" /\ Strip /\ UNCHANGED vars

ScannersNext == BothLine \/ BothEnd \/ BothChar \/ StripAlone

ScannersSpec == ScannersInit /\ [][ScannersNext]_allVars
-------------------------------------------------------------------------------
\* strip_q_code's variables have their types.
StripTypeOK ==
  /\ tPc \in {"line", "chars", "ended"}
  /\ ti \in Nat \ {0} /\ tPrev \in {"ws", "solid"}
  /\ tMode \in {"code", "string", "comment"}
  /\ depth \in Nat /\ out \subseteq Nat

\* As long as split_q_script does not refuse the text, the two scanners agree
\* after every line, on where they are and on which characters of the line are
\* code: none is sent that the other did not see, and none is dropped.  They
\* stop at the same line.
ScannersAgree ==
  /\ pc \in {"line", "accepted"} /\ tPc # "chars" =>
       tMode = mode /\ depth = Len(stack) /\ out = code
  /\ pc = "accepted" => tPc = "ended"
  /\ tPc = "ended" => pc \in {"accepted", "refused"}

===============================================================================
