---------------------------- MODULE SessionProofs ----------------------------
(***************************************************************************)
(* Scripts, for any number of clients, any scripts and any mix of modes    *)
(* and flags: what has begun is always a prefix, and what a client says    *)
(* when it exits is true and stays true.                                   *)
(***************************************************************************)
EXTENDS Session, FiniteSetTheorems, FunctionTheorems, TLAPS

\* Statements after which no other of the script may begin.
Failing == {"raise", "hang", "junk"}

Unfailed(c) == \A i \in Entries(c) : Stmts(c)[log[i].stmt] \notin Failing

Ordered(c) ==
  \A i, j \in Entries(c) : i < j =>
    /\ log[i].stmt < log[j].stmt
    /\ Stmts(c)[log[i].stmt] \notin Failing

\* Before execution nothing has been handed over, and what was refused locally
\* never is.
Starting(c) ==
  /\ pc[c] \notin {"execute", "exited"} => sent[c] = 0 /\ out[c] = NoExit
  /\ pc[c] \in {"prepare", "connect"} => rep[c] = "none" /\ pos[c] = 1
  /\ pc[c] = "inspect" =>
       rep[c] \in {"none", "awaited", "clean", "blocked", "error"} /\ pos[c] = 1
  /\ pc[c] \notin {"prepare", "exited"} \/ sent[c] > 0 => ~RejectedLocally(c)
  /\ job[c].dry => sent[c] = 0 /\ pc[c] # "execute"
  /\ sent[c] = 0 => Begun(c) = {} /\ req[c].kind # "exec"

\* What a message still with the server says, and how far it has got.
Requested(c) ==
  /\ pc[c] # "exited" /\ rep[c] # "awaited" => req[c] = NoReq
  /\ req[c].kind = "probe" => pc[c] \in {"inspect", "exited"}
  /\ req[c].kind = "parse" =>
       pc[c] \in {"validate", "exited"} /\ (pc[c] = "validate" => req[c].from = pos[c])
  /\ req[c].kind = "exec" =>
       /\ pc[c] \in {"execute", "exited"}
       /\ sent[c] = req[c].to
       /\ 1 <= req[c].from /\ req[c].from <= req[c].to
       /\ IF OneMessage(c) THEN req[c].from = 1 /\ req[c].to = Last(c)
                           ELSE req[c].from = req[c].to /\ req[c].from = pos[c]
       /\ busy # c => Begun(c) = 1 .. req[c].from - 1 /\ Unfailed(c)
  /\ busy = c => req[c].kind = "exec"
  /\ busy = c /\ at > 0 =>
       /\ req[c].from <= at /\ at <= req[c].to
       /\ Begun(c) = 1 .. at - 1 /\ Unfailed(c)
       /\ ParsesWhole(c)

\* Where an executing client stands between its messages and during one.
Executing(c) ==
  pc[c] = "execute" =>
    /\ rep[c] \in {"none", "awaited", "ok", "error", "unreadable"}
    /\ out[c] = NoExit
    /\ 1 <= pos[c] /\ pos[c] <= Last(c) + 1
    /\ rep[c] # "none" =>
         pos[c] <= Last(c) /\ sent[c] >= 1 /\ (~OneMessage(c) => sent[c] = pos[c])
    /\ rep[c] = "none" =>
         /\ sent[c] = pos[c] - 1
         /\ Begun(c) = 1 .. pos[c] - 1 /\ Unfailed(c)
         /\ OneMessage(c) => pos[c] = 1 \/ pos[c] = Last(c) + 1
    /\ rep[c] = "ok" =>
         /\ sent[c] = Answered(c) - 1
         /\ Begun(c) = 1 .. Answered(c) - 1 /\ Unfailed(c)
    /\ rep[c] \in {"error", "unreadable"} /\ ~OneMessage(c) =>
         IF Stmts(c)[pos[c]] = "junk" THEN Begun(c) = 1 .. pos[c] - 1
                                      ELSE Begun(c) = 1 .. pos[c]

\* A validating client has found every statement before its position sound.
Validating(c) ==
  pc[c] = "validate" =>
    /\ job[c].dry
    /\ rep[c] \in {"none", "awaited", "ok", "error", "unreadable"}
    /\ 1 <= pos[c] /\ pos[c] <= Last(c) + 1
    /\ \A i \in 1 .. pos[c] - 1 : Stmts(c)[i] # "junk"
    /\ rep[c] # "none" => pos[c] <= Last(c)
    /\ rep[c] = "ok" => Stmts(c)[pos[c]] # "junk"

\* What has begun is a prefix, short of what was sent by one message at most.
Bounded(c) ==
  /\ sent[c] <= Last(c)
  /\ \E k \in 0 .. sent[c] : Begun(c) = 1 .. k
  /\ ~OneMessage(c) /\ sent[c] > 0 => Begun(c) \in {1 .. sent[c] - 1, 1 .. sent[c]}
  /\ Ordered(c)

\* What a client has said.
Exited(c) ==
  pc[c] = "exited" =>
    /\ rep[c] = "none"
    /\ out[c].code \in {0, 1, 2, 4} => req[c] = NoReq
    /\ out[c].code = 2 => /\ Begun(c) = 1 .. sent[c]
                          /\ out[c].line = 0 => sent[c] = 0
    /\ job[c].dry =>
         /\ out[c].code \in {0, 1} => ~Has(c, {"junk"})
         /\ \A i \in 1 .. out[c].line - 1 : Stmts(c)[i] # "junk"
    /\ ~job[c].dry /\ out[c].line > 0 =>
         /\ ~OneMessage(c)
         /\ sent[c] = IF out[c].code = 2 THEN out[c].line - 1 ELSE out[c].line
         /\ out[c].code = 4 =>
              IF Stmts(c)[out[c].line] = "junk" THEN Begun(c) = 1 .. out[c].line - 1
                                                ELSE Begun(c) = 1 .. out[c].line

Way(c) == /\ Starting(c) /\ Requested(c) /\ Executing(c)
          /\ Validating(c) /\ Bounded(c) /\ Exited(c)

IInv == TypeOK /\ \A c \in Clients : Way(c)

\* A step that leaves everything of d as it is.
Spares(d) ==
  /\ pc'[d] = pc[d] /\ pos'[d] = pos[d] /\ rep'[d] = rep[d] /\ out'[d] = out[d]
  /\ req'[d] = req[d] /\ sent'[d] = sent[d]
  /\ busy' = d <=> busy = d
  /\ busy = d => at' = at

\* ... and what it has begun.
Keeps(d) ==
  /\ Begun(d)' = Begun(d)
  /\ Unfailed(d)' <=> Unfailed(d)
  /\ Ordered(d)' <=> Ordered(d)
------------------------------------------------------------------------------
LEMMA Scripted ==
  ASSUME TypeOK, NEW c \in Clients
  PROVE  /\ Stmts(c) \in Seq(Kinds) /\ Last(c) \in Nat
         /\ job[c].mode \in {"query", "each", "block"}
         /\ job[c].dry \in BOOLEAN /\ job[c].readonly \in BOOLEAN
<1>1. job[c] \in [stmts : Seq(Kinds), mode : {"query", "each", "block"},
                  readonly : BOOLEAN, dry : BOOLEAN, timed : BOOLEAN]
  BY JobsAssumption DEF TypeOK
<1> QED
  BY <1>1 DEF Stmts, Last

LEMMA NoneBegun ==
  ASSUME NEW c, Begun(c) = {}
  PROVE  Entries(c) = {} /\ Unfailed(c) /\ Begun(c) = 1 .. 0
<1>1. Entries(c) = {}
  BY DEF Begun
<1> QED
  BY <1>1 DEF Unfailed

LEMMA SameLog ==
  ASSUME job' = job, log' = log, NEW c \in Clients
  PROVE  Keeps(c)
BY DEF Keeps, Begun, Entries, Unfailed, Ordered, Stmts

LEMMA Spared ==
  ASSUME TypeOK, NEW c \in Clients, Way(c), job' = job, Spares(c), Keeps(c)
  PROVE  Way(c)'
<1> USE DEF Spares, Keeps, Stmts, Last, OneMessage, NoReq, NoExit
<1>1. /\ RejectedLocally(c)' <=> RejectedLocally(c)
      /\ Has(c, {"junk"})' <=> Has(c, {"junk"})
      /\ ParsesWhole(c)' <=> ParsesWhole(c)
  BY DEF RejectedLocally, Has, ParsesWhole
<1>2. Starting(c)'
  BY <1>1 DEF Way, Starting
<1>3. Requested(c)'
  BY <1>1 DEF Way, Requested
<1>4. Executing(c)'
  BY DEF Way, Executing, Answered
<1>5. Validating(c)'
  BY DEF Way, Validating
<1>6. Bounded(c)'
  BY DEF Way, Bounded
<1>7. Exited(c)'
  BY <1>1 DEF Way, Exited
<1> QED
  BY <1>2, <1>3, <1>4, <1>5, <1>6, <1>7 DEF Way

\* A step that leaves the server's state alone and spares all but c.
LEMMA OneClient ==
  ASSUME IInv, NEW c \in Clients, job' = job, log' = log,
         \A d \in Clients \ {c} : Spares(d),
         Way(c)'
  PROVE  \A d \in Clients : Way(d)'
<1> TAKE d \in Clients
<1>1. CASE d = c
  BY <1>1
<1>2. CASE d # c
  <2>1. Spares(d) /\ Way(d) /\ TypeOK
    BY <1>2 DEF IInv
  <2>2. Keeps(d)
    BY SameLog
  <2> QED
    BY <2>1, <2>2, Spared
<1> QED
  BY <1>1, <1>2
------------------------------------------------------------------------------
LEMMA PrepareStep ==
  ASSUME IInv, NEW c \in Clients, Prepare(c)
  PROVE  \A d \in Clients : Way(d)'
<1> USE DEF IInv
<1>1. /\ job' = job /\ log' = log /\ pc[c] = "prepare" /\ Way(c) /\ TypeOK
      /\ req' = req /\ sent' = sent /\ busy' = busy /\ at' = at
      /\ pos' = pos /\ rep'[c] = "none"
  BY DEF Prepare, Exit, Goto, server, history, TypeOK, Way, Starting
<1>2. \A d \in Clients \ {c} : Spares(d)
  BY <1>1 DEF Prepare, Exit, Goto, TypeOK, Spares
<1>3. Keeps(c)
  BY <1>1, SameLog
<1>4. CASE RejectedLocally(c)
  <2>1. pc'[c] = "exited" /\ out'[c] = [code |-> 2, line |-> 0]
    BY <1>1, <1>4 DEF Prepare, Exit, Goto, TypeOK
  <2>2. Way(c)'
    BY <1>1, <1>3, <2>1
       DEF Way, Starting, Requested, Executing, Validating, Bounded, Exited, Keeps, Stmts,
           Last, OneMessage, NoReq, NoExit
  <2> QED
    BY <1>1, <1>2, <2>2, OneClient
<1>5. CASE ~RejectedLocally(c)
  <2>1. pc'[c] = "connect" /\ out' = out
    BY <1>1, <1>5 DEF Prepare, Goto, TypeOK
  <2>2. Starting(c)'
    BY <1>1, <1>3, <1>5, <2>1
       DEF Way, Starting, Keeps, Stmts, Last, RejectedLocally, Has, NoExit
  <2>3. Requested(c)'
    BY <1>1, <1>3, <2>1 DEF Way, Starting, Requested, Keeps, Stmts, NoReq
  <2>4. Executing(c)' /\ Validating(c)' /\ Exited(c)'
    BY <2>1 DEF Executing, Validating, Exited
  <2>5. Bounded(c)'
    BY <1>1, <1>3, <2>1 DEF Way, Bounded, Keeps, Stmts, Last, OneMessage
  <2>6. Way(c)'
    BY <2>2, <2>3, <2>4, <2>5 DEF Way
  <2> QED
    BY <1>1, <1>2, <2>6, OneClient
<1> QED
  BY <1>4, <1>5

LEMMA UnknownServerStep ==
  ASSUME IInv, NEW c \in Clients, UnknownServer(c)
  PROVE  \A d \in Clients : Way(d)'
<1>1. TypeOK /\ Way(c) /\ job' = job /\ log' = log /\ busy' = busy /\ at' = at
  BY DEF IInv, UnknownServer, Exit, Goto, server, history
<1>2. \A d \in Clients \ {c} : Spares(d)
  BY <1>1 DEF UnknownServer, Exit, Goto, Spares, TypeOK, server, history
<1>3. Keeps(c)
  BY <1>1, SameLog
<1>4. /\ pc[c] = "prepare" /\ pc'[c] = "exited" /\ out'[c] = [code |-> 2, line |-> 0]
      /\ req' = req /\ sent' = sent /\ pos' = pos /\ rep'[c] = "none"
  BY <1>1 DEF UnknownServer, Exit, Goto, TypeOK, server, history
<1>5. Way(c)'
  BY <1>1, <1>3, <1>4, Scripted DEF Way, Starting, Requested, Executing, Validating,
       Bounded, Exited, Keeps, Stmts, Last, OneMessage, NoReq, NoExit
<1> QED
  BY <1>1, <1>2, <1>5, OneClient

LEMMA OpenStep ==
  ASSUME IInv, NEW c \in Clients, Open(c)
  PROVE  \A d \in Clients : Way(d)'
<1>1. TypeOK /\ Way(c) /\ job' = job /\ log' = log /\ busy' = busy /\ at' = at
  BY DEF IInv, Open, Goto, server, history
<1>2. \A d \in Clients \ {c} : Spares(d)
  BY <1>1 DEF Open, Goto, Spares, TypeOK, server, history
<1>3. Keeps(c)
  BY <1>1, SameLog
<1>4. /\ pc[c] = "connect" /\ pc'[c] \in AfterOpen(c) /\ out' = out
      /\ req' = req /\ sent' = sent /\ pos' = pos /\ rep' = rep
  BY <1>1 DEF Open, Goto, TypeOK, server, history
<1>5. Way(c)'
  <2>1. Starting(c)'
    BY <1>1, <1>3, <1>4, Scripted
       DEF Way, Starting, Keeps, Stmts, Last, OneMessage, NoReq, NoExit,
           AfterOpen, AfterInspection, RejectedLocally, Has
  <2>2. Requested(c)'
    BY <1>1, <1>3, <1>4, Scripted
       DEF Way, Starting, Requested, Keeps, Stmts, Last, OneMessage, NoReq, NoExit,
           AfterOpen, AfterInspection, RejectedLocally, Has
  <2>3. Executing(c)'
    <3>1. Begun(c) = {} /\ Unfailed(c) /\ Begun(c) = 1 .. 0
      BY <1>1, <1>4, NoneBegun DEF Way, Starting
    <3>2. pc'[c] = "execute" => rep'[c] = "none" /\ pos'[c] = 1 /\ sent'[c] = 0 /\ out'[c] = NoExit
      BY <1>1, <1>4 DEF Way, Starting
    <3> QED
      BY <1>1, <1>3, <3>1, <3>2, Scripted
         DEF Executing, Keeps, Stmts, Last, OneMessage, NoReq, NoExit
  <2>4. Validating(c)'
    BY <1>1, <1>3, <1>4, Scripted
       DEF Way, Starting, Validating, Keeps, Stmts, Last, OneMessage, NoReq, NoExit,
           AfterOpen, AfterInspection, RejectedLocally, Has
  <2>5. Bounded(c)'
    BY <1>1, <1>3, <1>4, Scripted
       DEF Way, Starting, Bounded, Keeps, Stmts, Last, OneMessage, NoReq, NoExit,
           AfterOpen, AfterInspection, RejectedLocally, Has
  <2>6. Exited(c)'
    BY <1>1, <1>3, <1>4, Scripted
       DEF Way, Starting, Exited, Keeps, Stmts, Last, OneMessage, NoReq, NoExit,
           AfterOpen, AfterInspection, RejectedLocally, Has
  <2> QED
    BY <2>1, <2>2, <2>3, <2>4, <2>5, <2>6 DEF Way
<1> QED
  BY <1>1, <1>2, <1>5, OneClient

LEMMA OpenFailsStep ==
  ASSUME IInv, NEW c \in Clients, OpenFails(c)
  PROVE  \A d \in Clients : Way(d)'
<1>1. TypeOK /\ Way(c) /\ job' = job /\ log' = log /\ busy' = busy /\ at' = at
  BY DEF IInv, OpenFails, Exit, Goto, server, history
<1>2. \A d \in Clients \ {c} : Spares(d)
  BY <1>1 DEF OpenFails, Exit, Goto, Spares, TypeOK, server, history
<1>3. Keeps(c)
  BY <1>1, SameLog
<1>4. /\ pc[c] = "connect" /\ pc'[c] = "exited" /\ out'[c] = [code |-> 3, line |-> 0]
      /\ req' = req /\ sent' = sent /\ pos' = pos /\ rep'[c] = "none"
  BY <1>1 DEF OpenFails, Exit, Goto, TypeOK, server, history
<1>5. Way(c)'
  BY <1>1, <1>3, <1>4, Scripted DEF Way, Starting, Requested, Executing, Validating,
       Bounded, Exited, Keeps, Stmts, Last, OneMessage, NoReq, NoExit
<1> QED
  BY <1>1, <1>2, <1>5, OneClient

LEMMA SendProbeStep ==
  ASSUME IInv, NEW c \in Clients, SendProbe(c)
  PROVE  \A d \in Clients : Way(d)'
<1>1. TypeOK /\ Way(c) /\ job' = job /\ log' = log /\ busy' = busy /\ at' = at
  BY DEF IInv, SendProbe, Send, server, history
<1>2. \A d \in Clients \ {c} : Spares(d)
  BY <1>1 DEF SendProbe, Send, Spares, TypeOK, server, history
<1>3. Keeps(c)
  BY <1>1, SameLog
<1>4. /\ pc[c] = "inspect" /\ pc' = pc /\ out' = out /\ pos' = pos /\ sent' = sent
      /\ rep[c] = "none" /\ rep'[c] = "awaited" /\ req'[c] = Msg("probe", 0, 0)
  BY <1>1 DEF SendProbe, Send, TypeOK, server, history
<1>5. Way(c)'
  BY <1>1, <1>3, <1>4, Scripted DEF Way, Starting, Requested, Executing, Validating,
       Bounded, Exited, Keeps, Stmts, Last, OneMessage, NoReq, NoExit, Msg,
       RejectedLocally, Has
<1> QED
  BY <1>1, <1>2, <1>5, OneClient

LEMMA SendParseStep ==
  ASSUME IInv, NEW c \in Clients, SendParse(c)
  PROVE  \A d \in Clients : Way(d)'
<1>1. TypeOK /\ Way(c) /\ job' = job /\ log' = log /\ busy' = busy /\ at' = at
  BY DEF IInv, SendParse, Send, server, history
<1>2. \A d \in Clients \ {c} : Spares(d)
  BY <1>1 DEF SendParse, Send, Spares, TypeOK, server, history
<1>3. Keeps(c)
  BY <1>1, SameLog
<1>4. /\ pc[c] = "validate" /\ pc' = pc /\ out' = out /\ pos' = pos /\ sent' = sent
      /\ rep[c] = "none" /\ rep'[c] = "awaited" /\ req'[c] = Msg("parse", pos[c], pos[c])
      /\ pos[c] <= Last(c)
  BY <1>1 DEF SendParse, Send, TypeOK, server, history
<1>5. Way(c)'
  BY <1>1, <1>3, <1>4, Scripted DEF Way, Starting, Requested, Executing, Validating,
       Bounded, Exited, Keeps, Stmts, Last, OneMessage, NoReq, NoExit, Msg,
       RejectedLocally, Has
<1> QED
  BY <1>1, <1>2, <1>5, OneClient

LEMMA SendExecStep ==
  ASSUME IInv, NEW c \in Clients, SendExec(c)
  PROVE  \A d \in Clients : Way(d)'
<1>1. TypeOK /\ Way(c) /\ job' = job /\ log' = log /\ busy' = busy /\ at' = at
  BY DEF IInv, SendExec, Send, server, history
<1>2. \A d \in Clients \ {c} : Spares(d)
  BY <1>1 DEF SendExec, Send, Spares, TypeOK, server, history
<1>3. Keeps(c)
  BY <1>1, SameLog
<1>4. /\ pc[c] = "execute" /\ pc' = pc /\ out' = out /\ pos' = pos
      /\ rep[c] = "none" /\ rep'[c] = "awaited" /\ req'[c] = NextMessage(c)
      /\ sent'[c] = NextMessage(c).to /\ pos[c] <= Last(c)
  BY <1>1 DEF SendExec, Send, TypeOK, server, history
<1>5. Way(c)'
  <2>1. Starting(c)'
    BY <1>1, <1>3, <1>4, Scripted
       DEF Way, Executing, Starting, Keeps, Stmts, Last, OneMessage, NoReq, NoExit,
           NextMessage, Msg, RejectedLocally, Has
  <2>2. Requested(c)'
    <3>1. /\ req[c] = NoReq /\ busy # c /\ sent[c] = pos[c] - 1 /\ 1 <= pos[c]
          /\ Begun(c) = 1 .. pos[c] - 1 /\ Unfailed(c)
          /\ OneMessage(c) => pos[c] = 1
          /\ pos[c] \in Nat /\ Last(c) \in Nat
      BY <1>1, <1>4, Scripted DEF Way, Requested, Executing, NoReq, TypeOK
    <3>2. /\ OneMessage(c)' <=> OneMessage(c)
          /\ Last(c)' = Last(c)
      BY <1>1 DEF OneMessage, Last, Stmts
    <3>3. CASE OneMessage(c)
      <4>1. req'[c] = [kind |-> "exec", from |-> 1, to |-> Last(c)] /\ sent'[c] = Last(c)
        BY <1>4, <3>3 DEF NextMessage, Msg
      <4> QED
        BY <1>1, <1>3, <1>4, <3>1, <3>2, <3>3, <4>1 DEF Requested, Keeps
    <3>4. CASE ~OneMessage(c)
      <4>1. req'[c] = [kind |-> "exec", from |-> pos[c], to |-> pos[c]] /\ sent'[c] = pos[c]
        BY <1>4, <3>4 DEF NextMessage, Msg
      <4> QED
        BY <1>1, <1>3, <1>4, <3>1, <3>2, <3>4, <4>1 DEF Requested, Keeps
    <3> QED
      BY <3>3, <3>4
  <2>3. Executing(c)'
    BY <1>1, <1>3, <1>4, Scripted
       DEF Way, Executing, Keeps, Stmts, Last, OneMessage, NoReq, NoExit,
           NextMessage, Msg, RejectedLocally, Has
  <2>4. Validating(c)'
    BY <1>1, <1>3, <1>4, Scripted
       DEF Way, Executing, Validating, Keeps, Stmts, Last, OneMessage, NoReq, NoExit,
           NextMessage, Msg, RejectedLocally, Has
  <2>5. Bounded(c)'
    <3>1. /\ 1 <= pos[c] /\ Begun(c) = 1 .. pos[c] - 1 /\ Ordered(c)
          /\ OneMessage(c) => pos[c] = 1
          /\ pos[c] \in Nat /\ Last(c) \in Nat
      <4>1. pos[c] \in Nat /\ Last(c) \in Nat
        BY <1>1, Scripted DEF TypeOK
      <4>2. Ordered(c)
        BY <1>1 DEF Way, Bounded
      <4>3. Executing(c)
        BY <1>1 DEF Way
      <4> QED
        BY <1>4, <4>1, <4>2, <4>3 DEF Executing
    <3>2. sent'[c] = IF OneMessage(c) THEN Last(c) ELSE pos[c]
      BY <1>4 DEF NextMessage, Msg
    <3>3. pos[c] - 1 \in 0 .. sent'[c] /\ sent'[c] <= Last(c)
      BY <1>4, <3>1, <3>2
    <3>4. ~OneMessage(c) => Begun(c) = 1 .. sent'[c] - 1
      BY <3>1, <3>2
    <3> QED
      BY <1>1, <1>3, <3>1, <3>3, <3>4 DEF Bounded, Keeps, Stmts, Last, OneMessage, NoReq, NoExit
  <2>6. Exited(c)'
    BY <1>1, <1>3, <1>4, Scripted
       DEF Way, Executing, Exited, Keeps, Stmts, Last, OneMessage, NoReq, NoExit,
           NextMessage, Msg, RejectedLocally, Has
  <2> QED
    BY <2>1, <2>2, <2>3, <2>4, <2>5, <2>6 DEF Way
<1> QED
  BY <1>1, <1>2, <1>5, OneClient

LEMMA FinishStep ==
  ASSUME IInv, NEW c \in Clients, Finish(c)
  PROVE  \A d \in Clients : Way(d)'
<1>1. TypeOK /\ Way(c) /\ job' = job /\ log' = log /\ busy' = busy /\ at' = at
  BY DEF IInv, Finish, Exit, Goto, server, history
<1>2. \A d \in Clients \ {c} : Spares(d)
  BY <1>1 DEF Finish, Exit, Goto, Spares, TypeOK, server, history
<1>3. Keeps(c)
  BY <1>1, SameLog
<1>4. /\ pc[c] \in {"validate", "execute"} /\ pc'[c] = "exited"
      /\ out'[c] \in {[code |-> 0, line |-> 0], [code |-> 1, line |-> 0]}
      /\ rep[c] = "none" /\ pos[c] > Last(c)
      /\ req' = req /\ sent' = sent /\ pos' = pos /\ rep'[c] = "none"
  BY <1>1 DEF Finish, Exit, Goto, TypeOK, server, history
<1>5. Way(c)'
  <2>1. Starting(c)'
    BY <1>1, <1>3, <1>4, Scripted
       DEF Way, Starting, Keeps, Stmts, Last, OneMessage, NoReq, NoExit,
           RejectedLocally, Has
  <2>2. Requested(c)'
    BY <1>1, <1>3, <1>4, Scripted
       DEF Way, Requested, Keeps, Stmts, Last, OneMessage, NoReq, NoExit,
           RejectedLocally, Has
  <2>3. Executing(c)'
    BY <1>1, <1>3, <1>4, Scripted
       DEF Way, Executing, Keeps, Stmts, Last, OneMessage, NoReq, NoExit,
           RejectedLocally, Has
  <2>4. Validating(c)'
    BY <1>1, <1>3, <1>4, Scripted
       DEF Way, Validating, Keeps, Stmts, Last, OneMessage, NoReq, NoExit,
           RejectedLocally, Has
  <2>5. Bounded(c)'
    BY <1>1, <1>3, <1>4, Scripted
       DEF Way, Bounded, Keeps, Stmts, Last, OneMessage, NoReq, NoExit,
           RejectedLocally, Has
  <2>6. Exited(c)'
    <3>1. job[c].dry => ~Has(c, {"junk"})
      <4>1. SUFFICES ASSUME job[c].dry, NEW i \in 1 .. Last(c)
                     PROVE  Stmts(c)[i] # "junk"
        BY DEF Has
      <4>2. pc[c] = "validate" /\ pos[c] \in Nat /\ Last(c) \in Nat
        BY <1>1, <1>4, <4>1, Scripted DEF Way, Starting, TypeOK
      <4>3. i \in 1 .. pos[c] - 1
        BY <1>4, <4>2
      <4> QED
        BY <1>1, <4>2, <4>3 DEF Way, Validating
    <3>2. Has(c, {"junk"})' <=> Has(c, {"junk"})
      BY <1>1 DEF Has, Stmts, Last
    <3>3. out'[c].code \in {0, 1} /\ out'[c].line = 0
      BY <1>4
    <3>4. req[c] = NoReq
      BY <1>1, <1>4 DEF Way, Requested
    <3> QED
      BY <1>1, <1>4, <3>1, <3>2, <3>3, <3>4 DEF Exited
  <2> QED
    BY <2>1, <2>2, <2>3, <2>4, <2>5, <2>6 DEF Way
<1> QED
  BY <1>1, <1>2, <1>5, OneClient

LEMMA OversizeStep ==
  ASSUME IInv, NEW c \in Clients, Oversize(c)
  PROVE  \A d \in Clients : Way(d)'
<1>1. TypeOK /\ Way(c) /\ job' = job /\ log' = log /\ busy' = busy /\ at' = at
  BY DEF IInv, Oversize, Exit, Goto, server, history
<1>2. \A d \in Clients \ {c} : Spares(d)
  BY <1>1 DEF Oversize, Exit, Goto, Spares, TypeOK, server, history
<1>3. Keeps(c)
  BY <1>1, SameLog
<1>4. /\ rep[c] = "none" /\ pc'[c] = "exited"
      /\ out'[c] = [code |-> 2, line |-> ReportedLine(c)]
      /\ pc[c] = "inspect" \/ (pc[c] \in {"validate", "execute"} /\ pos[c] <= Last(c))
      /\ req' = req /\ sent' = sent /\ pos' = pos /\ rep'[c] = "none"
  BY <1>1 DEF Oversize, Exit, Goto, TypeOK, server, history
<1>5. /\ req[c] = NoReq /\ pos[c] \in Nat /\ sent[c] \in Nat
      /\ pc[c] # "execute" => sent[c] = 0 /\ Begun(c) = 1 .. 0
  BY <1>1, <1>4, NoneBegun DEF Way, Starting, Requested, TypeOK
<1>6. pc[c] = "execute" => /\ sent[c] = pos[c] - 1 /\ Begun(c) = 1 .. pos[c] - 1
                           /\ OneMessage(c) => pos[c] = 1
                           /\ ~job[c].dry
  BY <1>1, <1>4, <1>5, Scripted DEF Way, Starting, Executing
<1>7. /\ Stmts(c)' = Stmts(c) /\ (OneMessage(c)' <=> OneMessage(c))
      /\ RejectedLocally(c)' <=> RejectedLocally(c)
  BY <1>1 DEF Stmts, OneMessage, RejectedLocally, Has, Last
<1>8. Way(c)'
  <2>1. Starting(c)' /\ Requested(c)'
    BY <1>1, <1>3, <1>4, <1>5, <1>7 DEF Way, Starting, Requested, Keeps, NoReq
  <2>2. Executing(c)' /\ Validating(c)'
    BY <1>4 DEF Executing, Validating
  <2>3. Bounded(c)'
    BY <1>1, <1>3, <1>4, <1>7 DEF Way, Bounded, Keeps, Last, Stmts
  <2>4. Exited(c)'
    <3> DEFINE line == ReportedLine(c)
    <3>4. out'[c].code = 2 /\ out'[c].line = line
      BY <1>4
    <3>1. CASE pc[c] = "execute"
      BY <1>1, <1>3, <1>4, <1>5, <1>6, <1>7, <3>1 DEF Exited, Keeps, ReportedLine, OneMessage
    <3>2. CASE pc[c] = "validate"
      <4>1. job[c].dry /\ \A i \in 1 .. pos[c] - 1 : Stmts(c)[i] # "junk"
        BY <1>1, <3>2 DEF Way, Validating
      <4>2. \A i \in 1 .. line - 1 : i \in 1 .. pos[c] - 1
        BY <1>5, <3>2 DEF ReportedLine
      <4>3. sent'[c] = 0 /\ Begun(c)' = 1 .. sent'[c]
        BY <1>3, <1>4, <1>5, <3>2 DEF Keeps
      <4> HIDE DEF line
      <4> QED
        BY <1>1, <1>4, <1>5, <1>7, <3>4, <4>1, <4>2, <4>3 DEF Exited
    <3>3. CASE pc[c] = "inspect"
      <4>1. line = 0
        BY <3>3 DEF ReportedLine
      <4>2. sent'[c] = 0 /\ Begun(c)' = 1 .. sent'[c]
        BY <1>3, <1>4, <1>5, <3>3 DEF Keeps
      <4>3. 1 .. out'[c].line - 1 = {} /\ ~(out'[c].line > 0)
        BY <3>4, <4>1
      <4> HIDE DEF line
      <4> QED
        BY <1>1, <1>4, <1>5, <3>4, <4>2, <4>3 DEF Exited
    <3> QED
      BY <1>4, <3>1, <3>2, <3>3
  <2> QED
    BY <2>1, <2>2, <2>3, <2>4 DEF Way
<1> QED
  BY <1>1, <1>2, <1>8, OneClient

LEMMA ReceiveOkStep ==
  ASSUME IInv, NEW c \in Clients, ReceiveOk(c)
  PROVE  \A d \in Clients : Way(d)'
<1>1. TypeOK /\ Way(c) /\ job' = job /\ log' = log /\ busy' = busy /\ at' = at
  BY DEF IInv, ReceiveOk, server, history
<1>2. \A d \in Clients \ {c} : Spares(d)
  BY <1>1 DEF ReceiveOk, Spares, TypeOK, server, history
<1>3. Keeps(c)
  BY <1>1, SameLog
<1>4. /\ pc' = pc /\ out' = out /\ req' = req /\ sent' = sent
      /\ rep[c] = "ok" /\ rep'[c] = "none" /\ pos'[c] = Answered(c)
  BY <1>1 DEF ReceiveOk, TypeOK, server, history
<1>5. /\ pc[c] \in {"validate", "execute"} /\ req[c] = NoReq
      /\ pos[c] \in Nat /\ Last(c) \in Nat
  BY <1>1, <1>4, Scripted DEF Way, Starting, Requested, Exited, TypeOK, Stages
<1>6. Last(c)' = Last(c) /\ (OneMessage(c)' <=> OneMessage(c)) /\ Stmts(c)' = Stmts(c)
  BY <1>1 DEF Last, OneMessage, Stmts
<1>7. Way(c)'
  <2>1. Starting(c)'
    BY <1>1, <1>3, <1>4, Scripted
       DEF Way, Starting, Keeps, Stmts, Last, OneMessage, NoReq, NoExit,
           Answered, RejectedLocally, Has
  <2>2. Requested(c)'
    BY <1>1, <1>4, <1>5 DEF Way, Requested, NoReq
  <2>3. Executing(c)'
    <3>1. SUFFICES ASSUME pc[c] = "execute" PROVE Executing(c)'
      BY <1>4 DEF Executing
    <3>2. /\ sent[c] = Answered(c) - 1 /\ Begun(c) = 1 .. Answered(c) - 1 /\ Unfailed(c)
          /\ 1 <= pos[c] /\ pos[c] <= Last(c) /\ out[c] = NoExit
      BY <1>1, <1>4, <3>1 DEF Way, Executing
    <3>3. Answered(c) = IF OneMessage(c) THEN Last(c) + 1 ELSE pos[c] + 1
      BY <3>1 DEF Answered
    <3> QED
      BY <1>3, <1>4, <1>5, <1>6, <3>1, <3>2, <3>3 DEF Executing, Keeps, NoExit
  <2>4. Validating(c)'
    <3>1. SUFFICES ASSUME pc[c] = "validate" PROVE Validating(c)'
      BY <1>4 DEF Validating
    <3>2. /\ job[c].dry /\ 1 <= pos[c] /\ pos[c] <= Last(c)
          /\ \A i \in 1 .. pos[c] - 1 : Stmts(c)[i] # "junk"
          /\ Stmts(c)[pos[c]] # "junk"
      BY <1>1, <1>4, <3>1 DEF Way, Validating
    <3>3. pos'[c] = pos[c] + 1
      BY <1>4, <3>1 DEF Answered
    <3>4. \A i \in 1 .. pos'[c] - 1 : i \in 1 .. pos[c] - 1 \/ i = pos[c]
      BY <1>5, <3>2, <3>3
    <3> QED
      BY <1>1, <1>4, <1>5, <1>6, <3>1, <3>2, <3>3, <3>4 DEF Validating
  <2>5. Bounded(c)'
    BY <1>1, <1>3, <1>4, Scripted
       DEF Way, Executing, Bounded, Keeps, Stmts, Last, OneMessage, NoReq, NoExit,
           Answered, RejectedLocally, Has
  <2>6. Exited(c)'
    BY <1>1, <1>3, <1>4, Scripted
       DEF Way, Exited, Keeps, Stmts, Last, OneMessage, NoReq, NoExit,
           Answered, RejectedLocally, Has
  <2> QED
    BY <2>1, <2>2, <2>3, <2>4, <2>5, <2>6 DEF Way
<1> QED
  BY <1>1, <1>2, <1>7, OneClient

LEMMA ReceiveErrorStep ==
  ASSUME IInv, NEW c \in Clients, ReceiveError(c)
  PROVE  \A d \in Clients : Way(d)'
<1>1. TypeOK /\ Way(c) /\ job' = job /\ log' = log /\ busy' = busy /\ at' = at
  BY DEF IInv, ReceiveError, Exit, Goto, server, history
<1>2. \A d \in Clients \ {c} : Spares(d)
  BY <1>1 DEF ReceiveError, Exit, Goto, Spares, TypeOK, server, history
<1>3. Keeps(c)
  BY <1>1, SameLog
<1>4. /\ pc'[c] = "exited" /\ out'[c] = [code |-> 4, line |-> ReportedLine(c)]
      /\ rep[c] \in {"error", "unreadable"} /\ rep'[c] = "none"
      /\ req' = req /\ sent' = sent /\ pos' = pos
  BY <1>1 DEF ReceiveError, Exit, Goto, TypeOK, server, history
<1>5. Way(c)'
  BY <1>1, <1>3, <1>4, Scripted DEF Way, Starting, Requested, Executing, Validating,
       Bounded, Exited, Keeps, Stmts, Last, OneMessage, NoReq, NoExit, ReportedLine,
       RejectedLocally, Has
<1> QED
  BY <1>1, <1>2, <1>5, OneClient

LEMMA ReceiveVerdictStep ==
  ASSUME IInv, NEW c \in Clients, ReceiveVerdict(c)
  PROVE  \A d \in Clients : Way(d)'
<1>1. TypeOK /\ Way(c) /\ job' = job /\ log' = log /\ busy' = busy /\ at' = at
  BY DEF IInv, ReceiveVerdict, Exit, Goto, server, history
<1>2. \A d \in Clients \ {c} : Spares(d)
  BY <1>1 DEF ReceiveVerdict, Exit, Goto, Spares, TypeOK, server, history
<1>3. Keeps(c)
  BY <1>1, SameLog
<1>4. /\ pc[c] = "inspect" /\ rep[c] \in {"clean", "blocked"} /\ rep'[c] = "none"
      /\ req' = req /\ sent' = sent /\ pos' = pos
      /\ \/ pc'[c] = "exited" /\ out'[c] = [code |-> 2, line |-> 0]
         \/ pc'[c] = AfterInspection(c) /\ out' = out
  BY <1>1 DEF ReceiveVerdict, Exit, Goto, TypeOK, server, history
<1>5. /\ sent[c] = 0 /\ req[c] = NoReq /\ pos[c] = 1 /\ out[c] = NoExit
      /\ Begun(c) = {} /\ Unfailed(c) /\ Begun(c) = 1 .. 0
  BY <1>1, <1>4, NoneBegun DEF Way, Starting, Requested
<1>6. Way(c)'
  <2>1. Starting(c)'
    BY <1>1, <1>3, <1>4, <1>5, Scripted DEF Way, Starting,
           Keeps, Stmts, Last, OneMessage, NoReq, NoExit,
           AfterInspection, RejectedLocally, Has
  <2>2. Requested(c)'
    BY <1>1, <1>3, <1>4, <1>5, Scripted DEF Way, Requested,
           Keeps, Stmts, Last, OneMessage, NoReq, NoExit,
           AfterInspection, RejectedLocally, Has
  <2>3. Executing(c)'
    BY <1>1, <1>3, <1>4, <1>5, Scripted DEF Way, Executing,
           Keeps, Stmts, Last, OneMessage, NoReq, NoExit,
           AfterInspection, RejectedLocally, Has
  <2>4. Validating(c)'
    BY <1>1, <1>3, <1>4, <1>5, Scripted DEF Way, Validating,
           Keeps, Stmts, Last, OneMessage, NoReq, NoExit,
           AfterInspection, RejectedLocally, Has
  <2>5. Bounded(c)'
    BY <1>1, <1>3, <1>4, <1>5, Scripted DEF Way, Bounded,
           Keeps, Stmts, Last, OneMessage, NoReq, NoExit,
           AfterInspection, RejectedLocally, Has
  <2>6. Exited(c)'
    BY <1>1, <1>3, <1>4, <1>5, Scripted DEF Way, Exited,
           Keeps, Stmts, Last, OneMessage, NoReq, NoExit,
           AfterInspection, RejectedLocally, Has
  <2> QED
    BY <2>1, <2>2, <2>3, <2>4, <2>5, <2>6 DEF Way
<1> QED
  BY <1>1, <1>2, <1>6, OneClient

LEMMA AbandonStep ==
  ASSUME IInv, NEW c \in Clients, NEW code \in {3, 5}, Abandon(c, code)
  PROVE  \A d \in Clients : Way(d)'
<1>1. TypeOK /\ Way(c) /\ job' = job /\ log' = log /\ busy' = busy /\ at' = at
  BY DEF IInv, Abandon, Exit, Goto, server, history
<1>2. \A d \in Clients \ {c} : Spares(d)
  BY <1>1 DEF Abandon, Exit, Goto, Spares, TypeOK, server, history
<1>3. Keeps(c)
  BY <1>1, SameLog
<1>4. /\ rep[c] # "none" /\ rep'[c] = "none" /\ sent' = sent /\ pos' = pos
      /\ pc'[c] = "exited" /\ out'[c] = [code |-> code, line |-> ReportedLine(c)]
      /\ \/ req' = req
         \/ req'[c] = NoReq /\ busy # c
  BY <1>1 DEF Abandon, Exit, Goto, TypeOK, server, history
<1>5. Way(c)'
  <2>1. Starting(c)'
    <3>1. RejectedLocally(c)' <=> RejectedLocally(c)
      BY <1>1 DEF RejectedLocally, Has, Stmts, Last
    <3> QED
      BY <1>1, <1>3, <1>4, <3>1 DEF Way, Starting, Keeps, NoReq
  <2>2. Requested(c)'
    BY <1>1, <1>3, <1>4, Scripted DEF Way, Starting, Requested, Exited,
           Keeps, Stmts, Last, OneMessage, NoReq, NoExit,
           ReportedLine, ParsesWhole, RejectedLocally, Has
  <2>3. Executing(c)'
    BY <1>1, <1>3, <1>4, Scripted DEF Way, Executing,
           Keeps, Stmts, Last, OneMessage, NoReq, NoExit,
           ReportedLine, ParsesWhole, RejectedLocally, Has
  <2>4. Validating(c)'
    BY <1>1, <1>3, <1>4, Scripted DEF Way, Validating,
           Keeps, Stmts, Last, OneMessage, NoReq, NoExit,
           ReportedLine, ParsesWhole, RejectedLocally, Has
  <2>5. Bounded(c)'
    BY <1>1, <1>3, <1>4, Scripted DEF Way, Bounded,
           Keeps, Stmts, Last, OneMessage, NoReq, NoExit,
           ReportedLine, ParsesWhole, RejectedLocally, Has
  <2>6. Exited(c)'
    BY <1>1, <1>3, <1>4, Scripted DEF Way, Starting, Requested, Executing, Validating, Exited,
           Keeps, Stmts, Last, OneMessage, NoReq, NoExit,
           ReportedLine, ParsesWhole, RejectedLocally, Has
  <2> QED
    BY <2>1, <2>2, <2>3, <2>4, <2>5, <2>6 DEF Way
<1> QED
  BY <1>1, <1>2, <1>5, OneClient

LEMMA ServeProbeStep ==
  ASSUME IInv, NEW c \in Clients, ServeProbe(c)
  PROVE  \A d \in Clients : Way(d)'
<1>1. TypeOK /\ Way(c) /\ job' = job /\ log' = log /\ busy' = busy /\ at' = at
  BY DEF IInv, ServeProbe, Reply, server, history
<1>2. \A d \in Clients \ {c} : Spares(d)
  BY <1>1 DEF ServeProbe, Reply, Spares, TypeOK, server, history
<1>3. Keeps(c)
  BY <1>1, SameLog
<1>4. /\ pc' = pc /\ pos' = pos /\ out' = out /\ sent' = sent /\ req'[c] = NoReq
      /\ req[c].kind = "probe" /\ busy # c
      /\ \/ rep[c] = "awaited" /\ rep'[c] \in {"clean", "blocked", "error"}
         \/ rep[c] # "awaited" /\ rep'[c] = rep[c]
  BY <1>1, NoOneAssumption DEF ServeProbe, Reply, TypeOK
<1>5. Way(c)'
  <2>1. Starting(c)'
    BY <1>1, <1>3, <1>4, Scripted DEF Way, Starting,
           Keeps, Stmts, Last, OneMessage, NoReq, NoExit,
           RejectedLocally, Has
  <2>2. Requested(c)'
    BY <1>1, <1>3, <1>4, Scripted DEF Way, Requested,
           Keeps, Stmts, Last, OneMessage, NoReq, NoExit,
           RejectedLocally, Has
  <2>3. Executing(c)'
    BY <1>1, <1>3, <1>4, Scripted DEF Way, Requested, Executing,
           Keeps, Stmts, Last, OneMessage, NoReq, NoExit,
           RejectedLocally, Has
  <2>4. Validating(c)'
    BY <1>1, <1>3, <1>4, Scripted DEF Way, Requested, Validating,
           Keeps, Stmts, Last, OneMessage, NoReq, NoExit,
           Answers, RejectedLocally, Has
  <2>5. Bounded(c)'
    BY <1>1, <1>3, <1>4, Scripted DEF Way, Bounded,
           Keeps, Stmts, Last, OneMessage, NoReq, NoExit,
           RejectedLocally, Has
  <2>6. Exited(c)'
    BY <1>1, <1>3, <1>4, Scripted DEF Way, Exited,
           Keeps, Stmts, Last, OneMessage, NoReq, NoExit,
           RejectedLocally, Has
  <2> QED
    BY <2>1, <2>2, <2>3, <2>4, <2>5, <2>6 DEF Way
<1> QED
  BY <1>1, <1>2, <1>5, OneClient

LEMMA ServeParseStep ==
  ASSUME IInv, NEW c \in Clients, ServeParse(c)
  PROVE  \A d \in Clients : Way(d)'
<1>1. TypeOK /\ Way(c) /\ job' = job /\ log' = log /\ busy' = busy /\ at' = at
  BY DEF IInv, ServeParse, Reply, server, history
<1>2. \A d \in Clients \ {c} : Spares(d)
  BY <1>1 DEF ServeParse, Reply, Spares, TypeOK, server, history
<1>3. Keeps(c)
  BY <1>1, SameLog
<1>4. /\ pc' = pc /\ pos' = pos /\ out' = out /\ sent' = sent /\ req'[c] = NoReq
      /\ req[c].kind = "parse" /\ busy # c
      /\ \/ /\ rep[c] = "awaited"
            /\ rep'[c] \in {"error"} \cup Answers
            /\ Stmts(c)[req[c].from] = "junk" => rep'[c] = "error"
         \/ rep[c] # "awaited" /\ rep'[c] = rep[c]
  BY <1>1, NoOneAssumption DEF ServeParse, Reply, TypeOK, history, Answers
<1>5. Way(c)'
  <2>1. Starting(c)'
    BY <1>1, <1>3, <1>4, Scripted DEF Way, Starting, Requested,
           Keeps, Stmts, Last, OneMessage, NoReq, NoExit,
           Answers, RejectedLocally, Has
  <2>2. Requested(c)'
    BY <1>1, <1>3, <1>4, Scripted DEF Way, Requested,
           Keeps, Stmts, Last, OneMessage, NoReq, NoExit,
           RejectedLocally, Has
  <2>3. Executing(c)'
    BY <1>1, <1>3, <1>4, Scripted DEF Way, Requested, Executing,
           Keeps, Stmts, Last, OneMessage, NoReq, NoExit,
           RejectedLocally, Has
  <2>4. Validating(c)'
    BY <1>1, <1>3, <1>4, Scripted DEF Way, Requested, Validating,
           Keeps, Stmts, Last, OneMessage, NoReq, NoExit,
           Answers, RejectedLocally, Has
  <2>5. Bounded(c)'
    BY <1>1, <1>3, <1>4, Scripted DEF Way, Bounded,
           Keeps, Stmts, Last, OneMessage, NoReq, NoExit,
           RejectedLocally, Has
  <2>6. Exited(c)'
    BY <1>1, <1>3, <1>4, Scripted DEF Way, Exited,
           Keeps, Stmts, Last, OneMessage, NoReq, NoExit,
           RejectedLocally, Has
  <2> QED
    BY <2>1, <2>2, <2>3, <2>4, <2>5, <2>6 DEF Way
<1> QED
  BY <1>1, <1>2, <1>5, OneClient

LEMMA ServeExecStep ==
  ASSUME IInv, NEW c \in Clients, ServeExec(c)
  PROVE  \A d \in Clients : Way(d)'
<1>1. /\ TypeOK /\ Way(c) /\ job' = job /\ log' = log /\ sent' = sent
      /\ pc' = pc /\ pos' = pos /\ out' = out
      /\ busy = NoOne /\ req[c].kind = "exec" /\ busy # c
  BY NoOneAssumption DEF IInv, ServeExec, Reply, client, server, history
<1>2. Keeps(c)
  BY <1>1, SameLog
<1>3. \A d \in Clients \ {c} : Spares(d)
  BY <1>1, NoOneAssumption DEF ServeExec, Reply, Spares, TypeOK, client, server
<1>4. /\ Begun(c) = 1 .. req[c].from - 1 /\ Unfailed(c)
      /\ 1 <= req[c].from /\ req[c].from <= req[c].to /\ sent[c] = req[c].to
      /\ pc[c] \in {"execute", "exited"}
      /\ pc[c] = "execute" => rep[c] = "awaited"
      /\ ~OneMessage(c) => req[c].from = req[c].to /\ req[c].from = pos[c]
      /\ pos[c] \in Nat /\ req[c].from \in Nat /\ req[c].to \in Nat
  BY <1>1 DEF Way, Requested, TypeOK, NoReq
<1>5. CASE ParsesWhole(c)
  <2>1. busy' = c /\ at' = req[c].from /\ rep' = rep /\ req' = req
    BY <1>1, <1>5 DEF ServeExec, client
  <2>2. ParsesWhole(c)'
    BY <1>1, <1>5, <2>1 DEF ParsesWhole, Stmts
  <2>3. Way(c)'
    <3>1. Starting(c)'
      BY <1>1, <1>2, <1>4, <2>1, <2>2, Scripted DEF Way, Starting,
             Keeps, Stmts, Last, OneMessage, NoReq, NoExit,
             RejectedLocally, Has, Answered
    <3>2. Requested(c)'
      BY <1>1, <1>2, <1>4, <2>1, <2>2, Scripted DEF Way, Requested,
             Keeps, Stmts, Last, OneMessage, NoReq, NoExit,
             RejectedLocally, Has, Answered
    <3>3. Executing(c)'
      BY <1>1, <1>2, <1>4, <2>1, <2>2, Scripted DEF Way, Executing,
             Keeps, Stmts, Last, OneMessage, NoReq, NoExit,
             RejectedLocally, Has, Answered
    <3>4. Validating(c)'
      BY <1>1, <1>2, <1>4, <2>1, <2>2, Scripted DEF Way, Validating,
             Keeps, Stmts, Last, OneMessage, NoReq, NoExit,
             RejectedLocally, Has, Answered
    <3>5. Bounded(c)'
      BY <1>1, <1>2, <1>4, <2>1, <2>2, Scripted DEF Way, Bounded,
             Keeps, Stmts, Last, OneMessage, NoReq, NoExit,
             RejectedLocally, Has, Answered
    <3>6. Exited(c)'
      BY <1>1, <1>2, <1>4, <2>1, <2>2, Scripted DEF Way, Exited,
             Keeps, Stmts, Last, OneMessage, NoReq, NoExit,
             RejectedLocally, Has, Answered
    <3> QED
      BY <3>1, <3>2, <3>3, <3>4, <3>5, <3>6 DEF Way
  <2>4. \A d \in Clients : Way(d)'
    BY <1>1, <1>3, <2>3, OneClient DEF IInv
  <2> QED
    BY <2>4
<1>6. CASE ~ParsesWhole(c)
  <2>1. /\ busy' = busy /\ at' = at /\ req'[c] = NoReq
        /\ \/ rep[c] = "awaited" /\ rep'[c] = "error"
           \/ rep[c] # "awaited" /\ rep'[c] = rep[c]
    BY <1>1, <1>6 DEF ServeExec, Reply, TypeOK, server
  <2>2. ~OneMessage(c) => Stmts(c)[pos[c]] = "junk"
    BY <1>4, <1>6 DEF ParsesWhole
  <2>3. Way(c)'
    <3>1. Starting(c)'
      BY <1>1, <1>2, <1>4, <2>1, <2>2, Scripted DEF Way, Starting,
             Keeps, Stmts, Last, OneMessage, NoReq, NoExit,
             RejectedLocally, Has, Answered
    <3>2. Requested(c)'
      BY <1>1, <1>2, <1>4, <2>1, <2>2, Scripted DEF Way, Requested,
             Keeps, Stmts, Last, OneMessage, NoReq, NoExit,
             RejectedLocally, Has, Answered
    <3>3. Executing(c)'
      BY <1>1, <1>2, <1>4, <2>1, <2>2, Scripted DEF Way, Executing,
             Keeps, Stmts, Last, OneMessage, NoReq, NoExit,
             RejectedLocally, Has, Answered
    <3>4. Validating(c)'
      BY <1>1, <1>2, <1>4, <2>1, <2>2, Scripted DEF Way, Validating,
             Keeps, Stmts, Last, OneMessage, NoReq, NoExit,
             RejectedLocally, Has, Answered
    <3>5. Bounded(c)'
      BY <1>1, <1>2, <1>4, <2>1, <2>2, Scripted DEF Way, Bounded,
             Keeps, Stmts, Last, OneMessage, NoReq, NoExit,
             RejectedLocally, Has, Answered
    <3>6. Exited(c)'
      BY <1>1, <1>2, <1>4, <2>1, <2>2, Scripted DEF Way, Exited,
             Keeps, Stmts, Last, OneMessage, NoReq, NoExit,
             RejectedLocally, Has, Answered
    <3> QED
      BY <3>1, <3>2, <3>3, <3>4, <3>5, <3>6 DEF Way
  <2> QED
    BY <1>1, <1>3, <2>3, OneClient DEF IInv
<1> QED
  BY <1>5, <1>6

LEMMA CrashStep ==
  ASSUME IInv, Crash
  PROVE  \A d \in Clients : Way(d)'
<1> TAKE c \in Clients
<1>1. /\ TypeOK /\ Way(c) /\ job' = job /\ log' = log /\ sent' = sent
      /\ pc' = pc /\ pos' = pos /\ out' = out /\ rep' = rep
      /\ busy' # c /\ req'[c] = NoReq
  BY NoOneAssumption DEF IInv, Crash, Done, client, server, history
<1>2. Keeps(c)
  BY <1>1, SameLog
<1>3. Way(c)'
  <2>1. Starting(c)'
    BY <1>1, <1>2, Scripted DEF Way, Starting,
           Keeps, Stmts, Last, OneMessage, NoReq, NoExit,
           RejectedLocally, Has, Answered
  <2>2. Requested(c)'
    BY <1>1, <1>2, Scripted DEF Way, Requested,
           Keeps, Stmts, Last, OneMessage, NoReq, NoExit,
           RejectedLocally, Has, Answered
  <2>3. Executing(c)'
    BY <1>1, <1>2, Scripted DEF Way, Executing,
           Keeps, Stmts, Last, OneMessage, NoReq, NoExit,
           RejectedLocally, Has, Answered
  <2>4. Validating(c)'
    BY <1>1, <1>2, Scripted DEF Way, Validating,
           Keeps, Stmts, Last, OneMessage, NoReq, NoExit,
           RejectedLocally, Has, Answered
  <2>5. Bounded(c)'
    BY <1>1, <1>2, Scripted DEF Way, Bounded,
           Keeps, Stmts, Last, OneMessage, NoReq, NoExit,
           RejectedLocally, Has, Answered
  <2>6. Exited(c)'
    BY <1>1, <1>2, Scripted DEF Way, Exited,
           Keeps, Stmts, Last, OneMessage, NoReq, NoExit,
           RejectedLocally, Has, Answered
  <2> QED
    BY <2>1, <2>2, <2>3, <2>4, <2>5, <2>6 DEF Way
<1> QED
  BY <1>3

\* The statement after those that have begun may begin.
LEMMA OrderedNext ==
  ASSUME NEW c \in Clients, NEW s \in Nat, NEW n \in Nat, Stmts(c)' = Stmts(c),
         Entries(c) \subseteq 1 .. n - 1, Entries(c)' = Entries(c) \cup {n},
         \A i \in Entries(c) : log'[i] = log[i], log'[n].stmt = s,
         Begun(c) = 1 .. s - 1, Unfailed(c), Ordered(c)
  PROVE  Ordered(c)'
<1>1. SUFFICES ASSUME NEW i \in Entries(c)', NEW j \in Entries(c)', i < j
               PROVE  /\ log'[i].stmt < log'[j].stmt
                      /\ Stmts(c)[log'[i].stmt] \notin Failing
  BY DEF Ordered
<1>2. i \in Entries(c) /\ log'[i] = log[i]
  BY <1>1
<1>3. CASE j \in Entries(c)
  BY <1>1, <1>2, <1>3 DEF Ordered
<1>4. CASE j = n
  <2>1. log[i].stmt \in 1 .. s - 1
    BY <1>2 DEF Begun
  <2>2. Stmts(c)[log[i].stmt] \notin Failing
    BY <1>2 DEF Unfailed
  <2> QED
    BY <1>2, <1>4, <2>1, <2>2
<1> QED
  BY <1>1, <1>3, <1>4

\* One more entry in the log.
LEMMA Appended ==
  ASSUME TypeOK, NEW c \in Clients, NEW s \in Nat, NEW m, job' = job,
         log' = Append(log, [by |-> c, stmt |-> s, mutates |-> m])
  PROVE  /\ \A d \in Clients \ {c} : Keeps(d) /\ Entries(d)' = Entries(d)
         /\ Entries(c)' = Entries(c) \cup {Len(log) + 1}
         /\ Begun(c)' = Begun(c) \cup {s}
         /\ Unfailed(c) /\ Stmts(c)[s] \notin Failing => Unfailed(c)'
         /\ Begun(c) = 1 .. s - 1 /\ Unfailed(c) /\ Ordered(c) => Ordered(c)'
<1>1. /\ Len(log) \in Nat /\ DOMAIN log = 1 .. Len(log)
      /\ DOMAIN log' = 1 .. Len(log) + 1
      /\ \A i \in DOMAIN log : log'[i] = log[i]
      /\ log'[Len(log) + 1] = [by |-> c, stmt |-> s, mutates |-> m]
  <2>1. log \in Seq([by : Clients, stmt : Nat, mutates : BOOLEAN])
    BY DEF TypeOK
  <2> HIDE DEF TypeOK
  <2> QED
    BY <2>1
<1>2. \A d \in Clients \ {c} : Entries(d)' = Entries(d)
  BY <1>1 DEF Entries
<1>3. Entries(c)' = Entries(c) \cup {Len(log) + 1}
  BY <1>1 DEF Entries
<1>4. \A d \in Clients : Stmts(d)' = Stmts(d)
  BY DEF Stmts
<1>5. \A d : Entries(d) \subseteq DOMAIN log
  BY DEF Entries
<1>6. ASSUME NEW d \in Clients \ {c} PROVE Keeps(d)
  <2>1. Begun(d)' = Begun(d)
    BY <1>1, <1>2, <1>5 DEF Begun
  <2>2. Unfailed(d)' <=> Unfailed(d)
    BY <1>1, <1>2, <1>4, <1>5 DEF Unfailed
  <2>3. Ordered(d)' <=> Ordered(d)
    BY <1>1, <1>2, <1>4, <1>5 DEF Ordered
  <2> QED
    BY <2>1, <2>2, <2>3 DEF Keeps
<1>7. Begun(c)' = Begun(c) \cup {s}
  BY <1>1, <1>3, <1>5 DEF Begun
<1>8. Unfailed(c) /\ Stmts(c)[s] \notin Failing => Unfailed(c)'
  BY <1>1, <1>3, <1>4, <1>5 DEF Unfailed
<1>9. Begun(c) = 1 .. s - 1 /\ Unfailed(c) /\ Ordered(c) => Ordered(c)'
  BY <1>1, <1>3, <1>4, <1>5, OrderedNext
<1> QED
  BY <1>2, <1>3, <1>6, <1>7, <1>8, <1>9

LEMMA ExecuteStep ==
  ASSUME IInv, NEW c \in Clients, Execute(c)
  PROVE  \A d \in Clients : Way(d)'
<1> DEFINE kind == Stmts(c)[at]
<1>1. /\ TypeOK /\ Way(c) /\ job' = job /\ sent' = sent
      /\ pc' = pc /\ pos' = pos /\ out' = out
      /\ busy = c /\ at > 0 /\ at \in Nat
      /\ log' = Append(log, [by |-> c, stmt |-> at, mutates |-> Mutates(kind)])
  BY DEF IInv, Execute, Reply, client, server, history, TypeOK
<1>2. /\ \A d \in Clients \ {c} : Keeps(d)
      /\ Begun(c)' = Begun(c) \cup {at}
      /\ Unfailed(c) /\ kind \notin Failing => Unfailed(c)'
      /\ Begun(c) = 1 .. at - 1 /\ Unfailed(c) /\ Ordered(c) => Ordered(c)'
  BY <1>1, Appended
<1>3. /\ req[c].kind = "exec" /\ req[c].from <= at /\ at <= req[c].to
      /\ Begun(c) = 1 .. at - 1 /\ Unfailed(c) /\ Ordered(c)
      /\ 1 <= req[c].from /\ req[c].from <= req[c].to /\ sent[c] = req[c].to
      /\ pc[c] \in {"execute", "exited"}
      /\ pc[c] = "execute" => rep[c] = "awaited" /\ out[c] = NoExit
      /\ OneMessage(c) => req[c].from = 1 /\ req[c].to = Last(c)
      /\ ~OneMessage(c) => req[c].from = req[c].to /\ req[c].from = pos[c]
      /\ pos[c] \in Nat /\ req[c].from \in Nat /\ req[c].to \in Nat /\ Last(c) \in Nat
      /\ sent[c] <= Last(c) /\ ParsesWhole(c) /\ ~RejectedLocally(c) /\ ~job[c].dry
  BY <1>1, Scripted DEF Way, Requested, Executing, Bounded, Starting, TypeOK, NoReq
<1>4. /\ Begun(c)' = 1 .. at /\ Ordered(c)'
      /\ kind \notin {"raise", "hang"} => Unfailed(c)'
  <2>1. kind # "junk"
    BY <1>1, <1>3 DEF ParsesWhole
  <2>2. Begun(c)' = 1 .. at
    BY <1>1, <1>2, <1>3
  <2> QED
    BY <1>2, <1>3, <2>1, <2>2 DEF Failing
<1>5. /\ \A d \in Clients \ {c} :
           /\ pc'[d] = pc[d] /\ pos'[d] = pos[d] /\ rep'[d] = rep[d] /\ out'[d] = out[d]
           /\ req'[d] = req[d] /\ sent'[d] = sent[d] /\ busy # d /\ busy' # d
      /\ \/ /\ kind \notin {"raise", "hang"} /\ at # req[c].to
            /\ busy' = busy /\ at' = at + 1 /\ req' = req /\ rep' = rep
         \/ /\ kind = "hang" /\ busy' = busy /\ at' = 0 /\ req' = req /\ rep' = rep
         \/ /\ kind = "raise" \/ (kind \notin {"raise", "hang"} /\ at = req[c].to)
            /\ busy' = NoOne /\ at' = 0 /\ req'[c] = NoReq
            /\ rep[c] # "awaited" => rep'[c] = rep[c]
            /\ rep[c] = "awaited" =>
                 rep'[c] \in IF kind = "raise" THEN {"error"} ELSE {"ok", "unreadable"}
  <2>1. CASE kind = "raise"
    <3>1. Reply(c, "error") /\ Done
      BY <2>1 DEF Execute
    <3> QED
      <4>1. \A d \in Clients \ {c} : rep'[d] = rep[d] /\ req'[d] = req[d]
        BY <1>1, <3>1 DEF Reply, TypeOK
      <4>2. /\ req'[c] = NoReq
            /\ rep'[c] = IF rep[c] = "awaited" THEN "error" ELSE rep[c]
        BY <1>1, <3>1 DEF Reply, TypeOK
      <4> QED
        BY <1>1, <2>1, <3>1, <4>1, <4>2, NoOneAssumption DEF Done
  <2>2. CASE kind = "hang"
    <3>1. at' = 0 /\ UNCHANGED <<job, client, req, busy>>
      BY <2>2 DEF Execute
    <3> QED
      BY <1>1, <2>2, <3>1 DEF client
  <2>3. CASE kind \notin {"raise", "hang"}
    <3>1. IF at = req[c].to THEN (\E r \in Answers : Reply(c, r)) /\ Done
                            ELSE at' = at + 1 /\ UNCHANGED <<job, client, req, busy>>
      BY <2>3 DEF Execute
    <3>2. CASE at = req[c].to
      <4>1. PICK r \in {"ok", "unreadable"} : Reply(c, r)
        BY <3>1, <3>2 DEF Answers
      <4>2. \A d \in Clients \ {c} : rep'[d] = rep[d] /\ req'[d] = req[d]
        BY <1>1, <4>1 DEF Reply, TypeOK
      <4>3. /\ req'[c] = NoReq
            /\ rep'[c] = IF rep[c] = "awaited" THEN r ELSE rep[c]
        BY <1>1, <4>1 DEF Reply, TypeOK
      <4> QED
        BY <1>1, <2>3, <3>1, <3>2, <4>1, <4>2, <4>3, NoOneAssumption DEF Done
    <3>3. CASE at # req[c].to
      BY <1>1, <2>3, <3>1, <3>3 DEF client
    <3> QED
      BY <3>2, <3>3
  <2> QED
    BY <2>1, <2>2, <2>3
<1>6. /\ Stmts(c)' = Stmts(c) /\ Last(c)' = Last(c) /\ (OneMessage(c)' <=> OneMessage(c))
      /\ RejectedLocally(c)' <=> RejectedLocally(c)
      /\ Has(c, {"junk"})' <=> Has(c, {"junk"})
  BY <1>1 DEF Stmts, Last, OneMessage, RejectedLocally, Has
<1>7. Starting(c)'
  BY <1>1, <1>3, <1>5, <1>6 DEF Way, Starting, NoReq, NoExit
<1>8. Requested(c)'
  <2>1. req' = req => (ParsesWhole(c)' <=> ParsesWhole(c))
    BY <1>6 DEF ParsesWhole
  <2> QED
    BY <1>1, <1>3, <1>4, <1>5, <1>6, <2>1, NoOneAssumption DEF Way, Requested, NoReq
<1>9. Executing(c)'
  <2>1. SUFFICES ASSUME pc[c] = "execute" PROVE Executing(c)'
    BY <1>1 DEF Executing
  <2>2. /\ out[c] = NoExit /\ 1 <= pos[c] /\ pos[c] <= Last(c) /\ rep[c] = "awaited"
        /\ sent[c] >= 1 /\ (~OneMessage(c) => sent[c] = pos[c])
    BY <1>1, <1>3, <2>1 DEF Way, Executing
  <2>3. Answered(c)' = IF OneMessage(c) THEN Last(c) + 1 ELSE pos[c] + 1
    BY <1>1, <1>6, <2>1 DEF Answered
  <2>4. CASE kind = "raise"
    BY <1>1, <1>3, <1>4, <1>5, <1>6, <2>1, <2>2, <2>4 DEF Executing, NoExit
  <2>5. CASE kind # "raise"
    <3>1. rep'[c] \in {"awaited", "ok", "unreadable"}
      BY <1>5, <2>2, <2>5
    <3>2. rep'[c] # "awaited" => at = req[c].to /\ Unfailed(c)'
      BY <1>4, <1>5, <2>2, <2>5
    <3>3. at = req[c].to => /\ sent[c] = Answered(c)' - 1
                            /\ Begun(c)' = 1 .. Answered(c)' - 1
                            /\ ~OneMessage(c) => Begun(c)' = 1 .. pos[c]
      BY <1>3, <1>4, <2>2, <2>3
    <3>4. ~OneMessage(c) => Stmts(c)[pos[c]] # "junk"
      BY <1>3 DEF ParsesWhole
    <3> QED
      BY <1>1, <1>3, <1>6, <2>1, <2>2, <3>1, <3>2, <3>3, <3>4 DEF Executing, NoExit
  <2> QED
    BY <2>4, <2>5
<1>10. Validating(c)'
  BY <1>1, <1>3 DEF Validating
<1>11. Bounded(c)'
  BY <1>1, <1>3, <1>4, <1>6 DEF Bounded
<1>12. Exited(c)'
  <2>1. pc[c] = "exited" => /\ rep[c] = "none" /\ out[c].code \notin {0, 1, 2, 4}
                            /\ out[c].line > 0 => ~OneMessage(c) /\ sent[c] = out[c].line
    BY <1>1, <1>3 DEF Way, Exited, NoReq
  <2>2. rep[c] = "none" => rep'[c] = "none"
    BY <1>5
  <2> QED
    BY <1>1, <1>3, <1>6, <2>1, <2>2 DEF Exited
<1>13. Way(c)'
  BY <1>7, <1>8, <1>9, <1>10, <1>11, <1>12 DEF Way
<1> TAKE d \in Clients
<1>14. CASE d = c
  BY <1>13, <1>14
<1>15. CASE d # c
  <2>1. Spares(d)
    BY <1>1, <1>5, <1>15 DEF Spares
  <2> QED
    BY <1>1, <1>2, <1>15, <2>1, Spared DEF IInv
<1> QED
  BY <1>14, <1>15
------------------------------------------------------------------------------
LEMMA Line ==
  ASSUME TypeOK, NEW c \in Clients
  PROVE  ReportedLine(c) \in Nat
BY DEF ReportedLine, TypeOK

LEMMA ExitTypes ==
  ASSUME TypeOK, NEW c \in Clients, NEW code \in {0, 1, 2, 3, 4, 5}, NEW line \in Nat,
         Exit(c, code, line), UNCHANGED <<job, server, history>>,
         req' \in [Clients -> [kind : {"none", "probe", "parse", "exec"}, from : Nat, to : Nat]]
  PROVE  TypeOK'
<1>1. /\ pc' \in [Clients -> Stages] /\ pos' = pos
      /\ rep' \in [Clients -> {"none", "awaited", "ok", "error", "unreadable", "clean", "blocked"}]
  BY DEF Exit, Goto, TypeOK, Stages
<1>2. out' \in [Clients -> [code : {-1, 0, 1, 2, 3, 4, 5}, line : Nat]]
  BY DEF Exit, TypeOK
<1> QED
  BY <1>1, <1>2 DEF TypeOK, server, history

LEMMA ReplyTypes ==
  ASSUME TypeOK, NEW c \in Clients,
         NEW r \in {"ok", "error", "unreadable", "clean", "blocked"}, Reply(c, r)
  PROVE  /\ job' = job /\ pc' = pc /\ pos' = pos /\ out' = out
         /\ req' \in [Clients -> [kind : {"none", "probe", "parse", "exec"}, from : Nat,
                                     to : Nat]]
         /\ rep' \in [Clients -> {"none", "awaited", "ok", "error", "unreadable", "clean",
                                      "blocked"}]
BY DEF Reply, TypeOK, NoReq

LEMMA ExecuteTypes ==
  ASSUME TypeOK, NEW c \in Clients, Execute(c)
  PROVE  TypeOK'
<1> DEFINE kind == Stmts(c)[at]
<1>1. log' \in Seq([by : Clients, stmt : Nat, mutates : BOOLEAN])
  BY DEF Execute, TypeOK, Mutates
<1>2. dirty' \in BOOLEAN
  BY DEF Execute, TypeOK
<1>3. up' = up /\ sent' = sent /\ seen' = seen /\ missed' = missed
  BY DEF Execute, history
<1>4. /\ job' = job /\ pc' = pc /\ pos' = pos /\ out' = out
      /\ req' \in [Clients -> [kind : {"none", "probe", "parse", "exec"}, from : Nat, to : Nat]]
      /\ rep' \in [Clients -> {"none", "awaited", "ok", "error", "unreadable", "clean", "blocked"}]
      /\ busy' \in Clients \cup {NoOne} /\ at' \in Nat
  <2>1. \/ (\E r \in {"ok", "error", "unreadable"} : Reply(c, r)) /\ Done
        \/ at' = 0 /\ UNCHANGED <<job, client, req, busy>>
        \/ at' = at + 1 /\ UNCHANGED <<job, client, req, busy>>
    <3>1. CASE kind = "raise"
      BY <3>1 DEF Execute
    <3>2. CASE kind = "hang"
      BY <3>2 DEF Execute
    <3>3. CASE kind \notin {"raise", "hang"}
      BY <3>3 DEF Execute, Answers
    <3> QED
      BY <3>1, <3>2, <3>3
  <2>2. CASE (\E r \in {"ok", "error", "unreadable"} : Reply(c, r)) /\ Done
    BY <2>2, ReplyTypes DEF Done
  <2>3. CASE \/ at' = 0 /\ UNCHANGED <<job, client, req, busy>>
             \/ at' = at + 1 /\ UNCHANGED <<job, client, req, busy>>
    BY <2>3 DEF client, TypeOK
  <2> QED
    BY <2>1, <2>2, <2>3
<1> QED
  BY <1>1, <1>2, <1>3, <1>4 DEF TypeOK

LEMMA TypesKept ==
  ASSUME TypeOK, [Next]_vars
  PROVE  TypeOK'
<1>1. ASSUME NEW c \in Clients, Prepare(c) PROVE TypeOK'
  <2>1. CASE RejectedLocally(c)
    BY <1>1, <2>1, ExitTypes DEF Prepare, TypeOK
  <2>2. CASE ~RejectedLocally(c)
    BY <1>1, <2>2 DEF Prepare, Goto, TypeOK, Stages, server, history
  <2> QED
    BY <2>1, <2>2
<1>2. ASSUME NEW c \in Clients, UnknownServer(c) PROVE TypeOK'
  BY <1>2, ExitTypes DEF UnknownServer, TypeOK
<1>3. ASSUME NEW c \in Clients, Open(c) PROVE TypeOK'
  BY <1>3 DEF Open, Goto, AfterOpen, AfterInspection, TypeOK, Stages, server, history
<1>4. ASSUME NEW c \in Clients, OpenFails(c) PROVE TypeOK'
  BY <1>4, ExitTypes DEF OpenFails, TypeOK
<1>5. ASSUME NEW c \in Clients, SendProbe(c) PROVE TypeOK'
  BY <1>5 DEF SendProbe, Send, Msg, TypeOK, server
<1>6. ASSUME NEW c \in Clients, SendParse(c) PROVE TypeOK'
  BY <1>6 DEF SendParse, Send, Msg, TypeOK, server
<1>7. ASSUME NEW c \in Clients, SendExec(c) PROVE TypeOK'
  <2>1. NextMessage(c) \in [kind : {"none", "probe", "parse", "exec"}, from : Nat, to : Nat]
    BY Scripted DEF NextMessage, Msg, TypeOK
  <2> QED
    BY <1>7, <2>1 DEF SendExec, Send, TypeOK, server
<1>8. ASSUME NEW c \in Clients, Finish(c) PROVE TypeOK'
  <2>1. PICK code \in {0, 1} : Exit(c, code, 0)
    BY <1>8 DEF Finish
  <2>2. code \in {0, 1, 2, 3, 4, 5}
    OBVIOUS
  <2> QED
    BY <1>8, <2>1, <2>2, ExitTypes DEF Finish, TypeOK
<1>9. ASSUME NEW c \in Clients, ReceiveVerdict(c) PROVE TypeOK'
  <2>1. CASE rep[c] = "blocked"
    BY <1>9, <2>1, ExitTypes DEF ReceiveVerdict, TypeOK
  <2>2. CASE rep[c] # "blocked"
    BY <1>9, <2>2 DEF ReceiveVerdict, Goto, AfterInspection, TypeOK, Stages, server, history
  <2> QED
    BY <2>1, <2>2
<1>10. ASSUME NEW c \in Clients, ReceiveOk(c) PROVE TypeOK'
  <2>1. Answered(c) \in Nat
    BY Scripted DEF Answered, TypeOK
  <2> QED
    BY <1>10, <2>1 DEF ReceiveOk, TypeOK, server, history
<1>11. ASSUME NEW c \in Clients, ReceiveError(c) PROVE TypeOK'
  BY <1>11, ExitTypes, Line DEF ReceiveError, TypeOK
<1>12. ASSUME NEW c \in Clients, NEW code \in {3, 5}, Abandon(c, code) PROVE TypeOK'
  <2>1. req' \in [Clients -> [kind : {"none", "probe", "parse", "exec"}, from : Nat, to : Nat]]
    <3>1. req' = req \/ req' = [req EXCEPT ![c] = NoReq]
      BY <1>12 DEF Abandon
    <3>2. NoReq \in [kind : {"none", "probe", "parse", "exec"}, from : Nat, to : Nat]
      BY DEF NoReq
    <3> QED
      BY <3>1, <3>2 DEF TypeOK
  <2>2. code \in {0, 1, 2, 3, 4, 5} /\ ReportedLine(c) \in Nat
    BY Line
  <2> QED
    BY <1>12, <2>1, <2>2, ExitTypes DEF Abandon
<1>13. ASSUME NEW c \in Clients, ServeProbe(c) PROVE TypeOK'
  <2>1. PICK verdict \in {"clean", "blocked", "error"} :
          /\ Reply(c, verdict)
          /\ missed' = [missed EXCEPT ![c] = dirty /\ verdict = "clean"]
    BY <1>13 DEF ServeProbe
  <2>2. missed' \in [Clients -> BOOLEAN] /\ seen' \in [Clients -> Int]
    BY <1>13, <2>1 DEF ServeProbe, TypeOK
  <2>3. verdict \in {"ok", "error", "unreadable", "clean", "blocked"}
    OBVIOUS
  <2>4. UNCHANGED <<server, sent>>
    BY <1>13 DEF ServeProbe
  <2> QED
    BY <2>1, <2>2, <2>3, <2>4, ReplyTypes DEF TypeOK, server
<1>14. ASSUME NEW c \in Clients, ServeParse(c) PROVE TypeOK'
  BY <1>14, ReplyTypes DEF ServeParse, Answers, TypeOK, server, history
<1>15. ASSUME NEW c \in Clients, ServeExec(c) PROVE TypeOK'
  <2>1. CASE ParsesWhole(c)
    BY <1>15, <2>1 DEF ServeExec, TypeOK, client, history
  <2>2. CASE ~ParsesWhole(c)
    BY <1>15, <2>2, ReplyTypes DEF ServeExec, TypeOK, server, history
  <2> QED
    BY <2>1, <2>2
<1>16. ASSUME NEW c \in Clients, Execute(c) PROVE TypeOK'
  BY <1>16, ExecuteTypes
<1>17. ASSUME Crash PROVE TypeOK'
  BY <1>17 DEF Crash, Done, NoReq, TypeOK, client, history
<1>18. ASSUME UNCHANGED vars PROVE TypeOK'
  BY <1>18 DEF vars, client, server, history, TypeOK
<1>19. ASSUME NEW c \in Clients, Oversize(c) PROVE TypeOK'
  BY <1>19, ExitTypes, Line DEF Oversize, TypeOK
<1> QED
  BY <1>1, <1>2, <1>3, <1>4, <1>5, <1>6, <1>7, <1>8, <1>9, <1>10, <1>11, <1>12, <1>13,
     <1>14, <1>15, <1>16, <1>17, <1>18, <1>19
     DEF Next, ClientStep, ServerStep, TimesOut, Disconnected

LEMMA TypesFirst == Init => TypeOK
<1>1. /\ NoReq \in [kind : {"none", "probe", "parse", "exec"}, from : Nat, to : Nat]
      /\ NoExit \in [code : {-1, 0, 1, 2, 3, 4, 5}, line : Nat]
  BY DEF NoReq, NoExit
<1>2. <<>> \in Seq([by : Clients, stmt : Nat, mutates : BOOLEAN])
  OBVIOUS
<1>3. SUFFICES ASSUME Init PROVE TypeOK
  OBVIOUS
<1>4. req \in [Clients -> [kind : {"none", "probe", "parse", "exec"}, from : Nat, to : Nat]]
  BY <1>1, <1>3 DEF Init
<1>5. out \in [Clients -> [code : {-1, 0, 1, 2, 3, 4, 5}, line : Nat]]
  BY <1>1, <1>3 DEF Init
<1>6. /\ seen \in [Clients -> Int] /\ pos \in [Clients -> Nat] /\ sent \in [Clients -> Nat]
      /\ missed \in [Clients -> BOOLEAN]
  BY <1>3 DEF Init
<1> QED
  BY <1>2, <1>3, <1>4, <1>5, <1>6 DEF Init, TypeOK, Stages

\* Every variable has its type, whatever the clients, their scripts and flags.
THEOREM SessionTypeCorrect == Spec => []TypeOK
<1>1. TypeOK /\ [Next]_vars => TypeOK'
  BY TypesKept
<1> QED
  BY <1>1, TypesFirst, PTL DEF Spec
------------------------------------------------------------------------------
LEMMA InvFirst == Init => IInv
<1>1. SUFFICES ASSUME Init, NEW c \in Clients PROVE Way(c)
  BY TypesFirst DEF IInv
<1>2. TypeOK /\ job[c] \in Jobs
  BY <1>1, TypesFirst DEF Init
<1>3. /\ pc[c] = "prepare" /\ pos[c] = 1 /\ req[c] = NoReq /\ rep[c] = "none"
      /\ out[c] = NoExit /\ sent[c] = 0 /\ busy # c
  BY <1>1, NoOneAssumption DEF Init
<1>4. Entries(c) = {} /\ Begun(c) = {} /\ Ordered(c)
  BY <1>1 DEF Init, Entries, Begun, Ordered
<1>5. Begun(c) = 1 .. 0
  BY <1>4
<1> QED
  BY <1>2, <1>3, <1>4, <1>5, Scripted
     DEF Way, Starting, Requested, Executing, Validating, Bounded, Exited, NoReq, NoExit

LEMMA InvKept ==
  ASSUME IInv, [Next]_vars
  PROVE  IInv'
<1>1. ASSUME NEW c \in Clients, ClientStep(c) PROVE \A d \in Clients : Way(d)'
  BY <1>1, PrepareStep, OpenStep, OpenFailsStep, SendProbeStep, SendParseStep, SendExecStep,
     OversizeStep, FinishStep, ReceiveVerdictStep, ReceiveOkStep, ReceiveErrorStep, AbandonStep
     DEF ClientStep, TimesOut
<1>2. ASSUME NEW c \in Clients, ServerStep(c) PROVE \A d \in Clients : Way(d)'
  BY <1>2, ServeProbeStep, ServeParseStep, ServeExecStep, ExecuteStep DEF ServerStep
<1>3. ASSUME NEW c \in Clients, UnknownServer(c) \/ Disconnected(c)
      PROVE  \A d \in Clients : Way(d)'
  BY <1>3, UnknownServerStep, AbandonStep DEF Disconnected
<1>4. ASSUME Crash PROVE \A d \in Clients : Way(d)'
  BY <1>4, CrashStep
<1>5. ASSUME UNCHANGED vars PROVE \A d \in Clients : Way(d)'
  <2> TAKE d \in Clients
  <2>1. TypeOK /\ Way(d) /\ job' = job /\ log' = log /\ Spares(d)
    BY <1>5 DEF IInv, vars, client, server, history, Spares
  <2> QED
    BY <2>1, SameLog, Spared
<1>6. \A d \in Clients : Way(d)'
  BY <1>1, <1>2, <1>3, <1>4, <1>5 DEF Next
<1> QED
  BY <1>6, TypesKept DEF IInv

\* Where every client stands, and what the server still has of it, at any time.
THEOREM WayKept == Spec => []IInv
<1>1. IInv /\ [Next]_vars => IInv'
  BY InvKept
<1> QED
  BY <1>1, InvFirst, PTL DEF Spec

LEMMA Unsaid ==
  ASSUME IInv, NEW c \in Clients, pc[c] # "exited"
  PROVE  out[c] = NoExit
BY DEF IInv, Way, Starting, Executing

\* However messages are grouped, delayed or abandoned, the statements of each
\* client begin in order, none twice, none skipped, none after one that failed.
THEOREM PrefixesRun == Spec => []RunsAPrefix
<1>1. IInv => RunsAPrefix
  <2>1. SUFFICES ASSUME IInv, NEW c \in Clients
                 PROVE  /\ Ordered(c)
                        /\ \E k \in 0 .. Last(c) : Begun(c) = 1 .. k
    BY DEF RunsAPrefix, Ordered, Failing
  <2>2. /\ Ordered(c) /\ sent[c] <= Last(c)
        /\ \E k \in 0 .. sent[c] : Begun(c) = 1 .. k
    BY <2>1 DEF IInv, Way, Bounded
  <2>3. sent[c] \in Nat /\ Last(c) \in Nat
    BY <2>1, Scripted DEF IInv, TypeOK
  <2> QED
    BY <2>2, <2>3
<1> QED
  BY <1>1, WayKept, PTL

\* The line `run` stops at bounds what has run, now and for ever: nothing
\* after it ever will, and after exit 4 nothing is left open.
THEOREM LineIsTheBoundary == Spec => []ReportedLineIsTheBoundary
<1>1. IInv => ReportedLineIsTheBoundary
  <2>1. SUFFICES ASSUME IInv, NEW c \in Clients,
                        job[c].mode = "each", ~job[c].dry, out[c].line > 0
                 PROVE  /\ Begun(c) \in {1 .. out[c].line - 1, 1 .. out[c].line}
                        /\ out[c].code = 4 =>
                             /\ Begun(c) = 1 .. IF Stmts(c)[out[c].line] = "junk"
                                                  THEN out[c].line - 1 ELSE out[c].line
                             /\ AllDealtWith(c)
    BY DEF ReportedLineIsTheBoundary
  <2>2. pc[c] = "exited"
    BY <2>1, Unsaid DEF NoExit
  <2>3. CASE out[c].code = 2
    BY <2>1, <2>2, <2>3 DEF IInv, Way, Exited
  <2>4. CASE out[c].code # 2
    <3>1. Begun(c) \in {1 .. out[c].line - 1, 1 .. out[c].line}
      BY <2>1, <2>2, <2>4 DEF IInv, Way, Exited, Bounded
    <3>2. out[c].code = 4 => req[c] = NoReq /\ busy # c
      BY <2>1, <2>2 DEF IInv, Way, Exited, Requested, NoReq
    <3> QED
      BY <2>1, <2>2, <3>1, <3>2 DEF IInv, Way, Exited, AllDealtWith
  <2> QED
    BY <2>3, <2>4
<1> QED
  BY <1>1, WayKept, PTL

\* A client that exits 2 has left nothing with the server, running or waiting,
\* and has had nothing executed but what is before the line it names.
THEOREM RefusalsLeaveNoTrace == Spec => []RefusalLeavesNoTrace
<1>1. IInv => RefusalLeavesNoTrace
  <2>1. SUFFICES ASSUME IInv, NEW c \in Clients, out[c].code = 2
                 PROVE  /\ AllDealtWith(c)
                        /\ Begun(c) = IF job[c].dry THEN {} ELSE 1 .. out[c].line - 1
    BY DEF RefusalLeavesNoTrace
  <2>2. pc[c] = "exited" /\ out[c].line \in Nat
    BY <2>1, Unsaid DEF NoExit, IInv, TypeOK
  <2>3. AllDealtWith(c)
    BY <2>1, <2>2 DEF IInv, Way, Exited, Requested, NoReq, AllDealtWith
  <2>4. CASE job[c].dry
    BY <2>1, <2>3, <2>4 DEF IInv, Way, Starting
  <2>5. CASE ~job[c].dry /\ out[c].line > 0
    BY <2>1, <2>2, <2>3, <2>5 DEF IInv, Way, Exited
  <2>6. CASE ~job[c].dry /\ out[c].line = 0
    <3>1. Begun(c) = {}
      BY <2>1, <2>2, <2>6 DEF IInv, Way, Exited, Starting
    <3>2. 1 .. out[c].line - 1 = {}
      BY <2>6
    <3> QED
      BY <2>3, <2>6, <3>1, <3>2
  <2> QED
    BY <2>2, <2>4, <2>5, <2>6
<1> QED
  BY <1>1, WayKept, PTL

\* --dry-run executes nothing, passes nothing that does not parse, and names
\* no line behind the first that does not.
THEOREM DryRunsParse == Spec => []DryRunOnlyParses
<1>1. IInv => DryRunOnlyParses
  <2>1. SUFFICES ASSUME IInv, NEW c \in Clients, job[c].dry
                 PROVE  /\ Begun(c) = {}
                        /\ out[c].code \in {0, 1} => ~Has(c, {"junk"})
                        /\ \A i \in 1 .. out[c].line - 1 : Stmts(c)[i] # "junk"
    BY DEF DryRunOnlyParses
  <2>2. CASE pc[c] = "exited"
    BY <2>1, <2>2 DEF IInv, Way, Exited, Starting
  <2>3. CASE pc[c] # "exited"
    <3>1. out[c] = NoExit /\ Begun(c) = {}
      BY <2>1, <2>3, Unsaid DEF IInv, Way, Starting
    <3>2. 1 .. out[c].line - 1 = {}
      BY <3>1 DEF NoExit
    <3> QED
      BY <3>1, <3>2 DEF NoExit
  <2> QED
    BY <2>2, <2>3
<1> QED
  BY <1>1, WayKept, PTL
------------------------------------------------------------------------------
\* A script of one message is executed in one piece.

Contiguous(c) == \A i, j \in Entries(c) : \A k \in i .. j : log[k].by = c

Piece(c) ==
  OneMessage(c) =>
    /\ Contiguous(c)
    /\ busy = c /\ at > 1 => Len(log) \in Entries(c)

\* Every step but Execute leaves the log alone, and the server where it was,
\* idle, or at the start of a message.
LEMMA LogGrowsByExecuting ==
  ASSUME IInv, [Next]_vars
  PROVE  \/ \E c \in Clients : Execute(c)
         \/ /\ job' = job /\ log' = log
            /\ \/ busy' = busy /\ at' = at
               \/ busy' = NoOne
               \/ \E c \in Clients :
                    /\ busy' = c /\ at' = req[c].from /\ req[c].kind = "exec"
<1>1. ASSUME NEW c \in Clients, ClientStep(c) \/ UnknownServer(c) \/ Disconnected(c)
      PROVE  UNCHANGED <<job, server>>
  BY <1>1 DEF ClientStep, Prepare, UnknownServer, Open, OpenFails, SendProbe, SendParse,
       SendExec, Send, Oversize, Finish, ReceiveVerdict, ReceiveOk, ReceiveError, TimesOut,
       Disconnected, Abandon
<1>2. ASSUME NEW c \in Clients, ServeProbe(c) \/ ServeParse(c)
      PROVE  UNCHANGED <<job, server>>
  BY <1>2 DEF ServeProbe, ServeParse, Reply
<1>3. ASSUME NEW c \in Clients, ServeExec(c)
      PROVE  /\ UNCHANGED <<job, log>>
             /\ \/ busy' = busy /\ at' = at
                \/ busy' = c /\ at' = req[c].from /\ req[c].kind = "exec"
  BY <1>3 DEF ServeExec, Reply, server
<1>4. ASSUME Crash PROVE job' = job /\ log' = log /\ busy' = NoOne
  BY <1>4 DEF Crash, Done
<1>5. ASSUME UNCHANGED vars PROVE UNCHANGED <<job, server>>
  BY <1>5 DEF vars
<1> QED
  BY <1>1, <1>2, <1>3, <1>4, <1>5 DEF Next, ServerStep, server

LEMMA PieceKept ==
  ASSUME IInv, \A c \in Clients : Piece(c), [Next]_vars, NEW d \in Clients
  PROVE  Piece(d)'
<1>1. CASE \E c \in Clients : Execute(c)
  <2>1. PICK c \in Clients : Execute(c)
    BY <1>1
  <2> DEFINE e == [by |-> c, stmt |-> at, mutates |-> Mutates(Stmts(c)[at])]
  <2>2. /\ TypeOK /\ Way(c) /\ job' = job /\ busy = c /\ at > 0
        /\ log' = Append(log, e)
        /\ busy' = c \/ busy' = NoOne
    BY <2>1 DEF IInv, Execute, Reply, Done
  <2>3. log \in Seq([by : Clients, stmt : Nat, mutates : BOOLEAN]) /\ at \in Nat
    BY <2>2 DEF TypeOK
  <2>4. /\ Len(log') = Len(log) + 1 /\ log'[Len(log) + 1] = e /\ Len(log) \in Nat
        /\ \A i \in 1 .. Len(log) : log'[i] = log[i]
    BY <2>2, <2>3
  <2>5. Entries(d)' = IF d = c THEN Entries(d) \cup {Len(log) + 1} ELSE Entries(d)
    BY <2>3, <2>4 DEF Entries
  <2>6. Entries(d) \subseteq 1 .. Len(log)
    BY <2>3 DEF Entries
  <2> HIDE DEF e
  <2>7. OneMessage(d)' <=> OneMessage(d)
    BY <2>2 DEF OneMessage
  <2>8. CASE d # c
    <3>1. Contiguous(d) => Contiguous(d)'
      BY <2>4, <2>5, <2>6, <2>8 DEF Contiguous
    <3> QED
      BY <2>2, <2>7, <2>8, <3>1, NoOneAssumption DEF Piece
  <2>9. CASE d = c
    <3>1. Len(log') \in Entries(d)'
      BY <2>4, <2>5, <2>9
    <3>2. SUFFICES ASSUME OneMessage(d) PROVE Contiguous(d)'
      BY <2>7, <3>1 DEF Piece
    <3>3. Entries(d) # {} => Len(log) \in Entries(d)
      <4>1. Begun(d) = 1 .. at - 1
        BY <2>2, <2>9 DEF Way, Requested
      <4>2. Entries(d) # {} => at > 1
        <5>1. at <= 1 => 1 .. at - 1 = {}
          BY <2>3
        <5>2. at <= 1 => Entries(d) = {}
          BY <4>1, <5>1, NoneBegun
        <5> QED
          BY <2>3, <5>2
      <4>3. Piece(d) /\ busy = d /\ OneMessage(d)
        BY <2>2, <2>9, <3>2
      <4> QED
        BY <4>2, <4>3 DEF Piece
    <3>4. \A k \in 1 .. Len(log) : log'[k].by = log[k].by
      BY <2>4
    <3>5. log'[Len(log) + 1].by = c
      BY <2>4 DEF e
    <3>6. Contiguous(d)
      BY <3>2 DEF Piece
    <3> QED
      <4>1. SUFFICES ASSUME NEW i \in Entries(d)', NEW j \in Entries(d)', NEW k \in i .. j
                     PROVE  log'[k].by = d
        BY DEF Contiguous
      <4>2. CASE i = Len(log) + 1
        BY <2>4, <2>5, <2>6, <2>9, <3>5, <4>2
      <4>3. CASE i \in Entries(d) /\ k = Len(log) + 1
        BY <2>9, <3>5, <4>3
      <4>4. CASE i \in Entries(d) /\ k # Len(log) + 1
        <5>1. k \in i .. Len(log) /\ k \in 1 .. Len(log)
          BY <2>4, <2>5, <2>6, <2>9, <4>4
        <5>2. log[k].by = d
          BY <3>3, <3>6, <4>4, <5>1 DEF Contiguous
        <5> QED
          BY <3>4, <5>1, <5>2
      <4> QED
        BY <2>5, <2>9, <4>2, <4>3, <4>4
  <2> QED
    BY <2>8, <2>9
<1>2. CASE /\ job' = job /\ log' = log
           /\ \/ busy' = busy /\ at' = at
              \/ busy' = NoOne
              \/ \E c \in Clients : busy' = c /\ at' = req[c].from /\ req[c].kind = "exec"
  <2>1. /\ OneMessage(d)' <=> OneMessage(d)
        /\ Contiguous(d)' <=> Contiguous(d)
        /\ Entries(d)' = Entries(d)
    BY <1>2 DEF OneMessage, Contiguous, Entries
  <2>2. OneMessage(d) /\ req[d].kind = "exec" => req[d].from = 1
    BY DEF IInv, Way, Requested
  <2> QED
    BY <1>2, <2>1, <2>2, NoOneAssumption DEF Piece
<1> QED
  BY <1>1, <1>2, LogGrowsByExecuting

LEMMA PieceFirst == Init => \A c \in Clients : Piece(c)
BY NoOneAssumption DEF Init, Piece, Contiguous, Entries

\* Nothing of another client comes between two statements of a query, or of a
\* script sent with --atomic or --scoped.
THEOREM BlocksAreContiguous == Spec => []BlockIsContiguous
<1> DEFINE Inv == IInv /\ \A c \in Clients : Piece(c)
<1>1. Init => Inv
  BY InvFirst, PieceFirst
<1>2. Inv /\ [Next]_vars => Inv'
  BY InvKept, PieceKept
<1>3. Inv => BlockIsContiguous
  BY DEF Piece, Contiguous, OneMessage, BlockIsContiguous
<1> QED
  BY <1>1, <1>2, <1>3, PTL DEF Spec
------------------------------------------------------------------------------
\* A --readonly client executes on the strength of an inspection.

Redefinition(j) == Redefines(Stmts(log[j].by)[log[j].stmt])

\* The function c calls has passed the inspection; if it mutates all the same,
\* the inspection missed that or a statement begun since then redefined it.
Guarded(c) ==
  /\ seen[c] \in 0 .. Len(log)
  /\ dirty => missed[c] \/ \E j \in seen[c] + 1 .. Len(log) : Redefinition(j)

\* Where c relies on the inspection.
Relies(c) ==
  \/ pc[c] \in {"validate", "execute"}
  \/ sent[c] > 0
  \/ pc[c] = "inspect" /\ rep[c] = "clean"

Raced(c) ==
  \A i \in Entries(c) : log[i].mutates =>
    \/ Stmts(c)[log[i].stmt] = "covert"
    \/ seen[c] >= 0 /\ (missed[c] \/ \E j \in seen[c] + 1 .. i - 1 : Redefinition(j))

Inspected(c) ==
  /\ req[c].kind = "probe" => sent[c] = 0
  /\ job[c].readonly => Raced(c)
  /\ job[c].readonly /\ Has(c, {"call"}) /\ Relies(c) => Guarded(c)

\* A step that touches neither the log nor what was seen.
LEMMA InspectedStays ==
  ASSUME job' = job, log' = log, dirty' = dirty, NEW c \in Clients, seen'[c] = seen[c],
         missed'[c] = missed[c], Inspected(c),
         req'[c].kind = "probe" => sent'[c] = 0,
         job[c].readonly /\ Has(c, {"call"}) /\ Relies(c)' => Relies(c)
  PROVE  Inspected(c)'
<1>1. /\ Guarded(c)' <=> Guarded(c)
      /\ Raced(c)' <=> Raced(c)
      /\ Has(c, {"call"})' <=> Has(c, {"call"})
  BY DEF Guarded, Raced, Redefinition, Entries, Stmts, Has, Last
<1> QED
  BY <1>1 DEF Inspected

\* What the steps of a client do to its reliance on the inspection.
LEMMA ClientRelies ==
  ASSUME IInv, NEW c \in Clients, Inspected(c),
         ClientStep(c) \/ UnknownServer(c) \/ Disconnected(c)
  PROVE  /\ job' = job /\ log' = log /\ dirty' = dirty /\ seen' = seen /\ missed' = missed
         /\ \A d \in Clients \ {c} : Spares(d)
         /\ req'[c].kind = "probe" => sent'[c] = 0
         /\ job[c].readonly /\ Has(c, {"call"}) /\ Relies(c)' => Relies(c)
<1> USE DEF IInv, Inspected, Relies, server, history
<1>1. TypeOK /\ Way(c)
  OBVIOUS
<1>2. ASSUME Prepare(c) \/ UnknownServer(c) \/ OpenFails(c) \/ Finish(c) \/ ReceiveError(c)
             \/ Oversize(c) \/ TimesOut(c) \/ Disconnected(c)
      PROVE  /\ job' = job /\ log' = log /\ dirty' = dirty /\ seen' = seen /\ sent' = sent
             /\ missed' = missed /\ busy' = busy /\ at' = at
             /\ \A d \in Clients \ {c} : Spares(d)
             /\ req'[c] = req[c] \/ req'[c] = NoReq
             /\ pc'[c] \in {"connect", "exited"}
  BY <1>1, <1>2 DEF Prepare, UnknownServer, OpenFails, Finish, ReceiveError, Oversize,
       TimesOut, Disconnected, Abandon, Exit, Goto, TypeOK, Spares
<1>3. CASE Prepare(c) \/ UnknownServer(c) \/ OpenFails(c) \/ Finish(c) \/ ReceiveError(c)
           \/ Oversize(c) \/ TimesOut(c) \/ Disconnected(c)
  BY <1>2, <1>3 DEF NoReq
<1>4. CASE Open(c)
  BY <1>1, <1>4 DEF Open, Goto, AfterOpen, AfterInspection, TypeOK, Spares, Way, Starting
<1>5. CASE SendProbe(c)
  BY <1>1, <1>5 DEF SendProbe, Send, Msg, TypeOK, Spares, Way, Starting
<1>6. CASE SendParse(c)
  BY <1>1, <1>6 DEF SendParse, Send, Msg, TypeOK, Spares
<1>7. CASE SendExec(c)
  BY <1>1, <1>7 DEF SendExec, Send, NextMessage, Msg, TypeOK, Spares
<1>8. CASE ReceiveVerdict(c)
  BY <1>1, <1>8 DEF ReceiveVerdict, Exit, Goto, TypeOK, Spares
<1>9. CASE ReceiveOk(c)
  BY <1>1, <1>9 DEF ReceiveOk, TypeOK, Spares, Way, Starting
<1> QED
  BY <1>3, <1>4, <1>5, <1>6, <1>7, <1>8, <1>9 DEF ClientStep

LEMMA ProbeInspects ==
  ASSUME IInv, NEW c \in Clients, ServeProbe(c), NEW d \in Clients, Inspected(d)
  PROVE  Inspected(d)'
<1>1. /\ TypeOK /\ Way(c) /\ Inspected(d)
      /\ job' = job /\ log' = log /\ dirty' = dirty /\ sent' = sent /\ pc' = pc
      /\ req[c].kind = "probe" /\ req'[c] = NoReq
      /\ seen' = [seen EXCEPT ![c] = Len(log)]
      /\ busy' = busy
  BY DEF IInv, ServeProbe, Reply, server, TypeOK
<1>2. \A e \in Clients \ {c} : req'[e] = req[e] /\ rep'[e] = rep[e]
  BY <1>1 DEF ServeProbe, Reply, TypeOK
<1>3. /\ rep'[c] = "clean" => rep[c] = "clean" \/ ~dirty \/ missed'[c]
      /\ \A e \in Clients \ {c} : missed'[e] = missed[e]
  <2>1. PICK verdict \in {"clean", "blocked", "error"} :
          /\ Reply(c, verdict)
          /\ missed' = [missed EXCEPT ![c] = dirty /\ verdict = "clean"]
    BY DEF ServeProbe
  <2>2. missed'[c] <=> dirty /\ verdict = "clean"
    BY <1>1, <2>1 DEF TypeOK
  <2>3. rep'[c] = IF rep[c] = "awaited" THEN verdict ELSE rep[c]
    BY <1>1, <2>1 DEF Reply, TypeOK
  <2>4. \A e \in Clients \ {c} : missed'[e] = missed[e]
    BY <1>1, <2>1 DEF TypeOK
  <2> QED
    BY <2>2, <2>3, <2>4
<1>4. CASE d # c
  <2>1. seen'[d] = seen[d] /\ missed'[d] = missed[d]
    BY <1>1, <1>3, <1>4 DEF TypeOK
  <2>2. Relies(d)' => Relies(d)
    BY <1>1, <1>2, <1>4 DEF Relies
  <2>3. req'[d].kind = "probe" => sent'[d] = 0
    BY <1>1, <1>2, <1>4 DEF Inspected
  <2> QED
    BY <1>1, <2>1, <2>2, <2>3, InspectedStays
<1>5. CASE d = c
  <2>1. sent[c] = 0 /\ Entries(c) = {}
    BY <1>1, <1>5, NoneBegun DEF Inspected, Way, Starting
  <2>2. pc[c] \in {"inspect", "exited"} /\ (pc[c] = "inspect" => rep[c] = "awaited")
    BY <1>1 DEF Way, Requested, NoReq
  <2>3. Raced(c)' /\ req'[c].kind # "probe"
    BY <1>1, <2>1 DEF Raced, Entries, NoReq
  <2>4. seen'[c] = Len(log) /\ Len(log) \in Nat
    BY <1>1 DEF TypeOK
  <2>5. Relies(c)' => Guarded(c)'
    BY <1>1, <1>3, <2>1, <2>2, <2>4 DEF Relies, Guarded
  <2> QED
    BY <1>5, <2>3, <2>5 DEF Inspected
<1> QED
  BY <1>4, <1>5

LEMMA ExecuteRaces ==
  ASSUME IInv, NEW c \in Clients, Execute(c), NEW d \in Clients, Inspected(d)
  PROVE  Inspected(d)'
<1> DEFINE kind == Stmts(c)[at]
           e == [by |-> c, stmt |-> at, mutates |-> Mutates(kind)]
<1>1. /\ TypeOK /\ Way(c) /\ job' = job /\ pc' = pc /\ sent' = sent /\ seen' = seen
      /\ missed' = missed /\ busy = c /\ at > 0
      /\ log' = Append(log, e)
      /\ dirty' = (dirty \/ Redefines(kind))
  BY DEF IInv, Execute, Reply, client, history
<1>2. /\ log \in Seq([by : Clients, stmt : Nat, mutates : BOOLEAN]) /\ at \in Nat
      /\ seen \in [Clients -> Int]
  BY <1>1 DEF TypeOK
<1>3. /\ Len(log') = Len(log) + 1 /\ log'[Len(log) + 1] = e /\ Len(log) \in Nat
      /\ \A i \in 1 .. Len(log) : log'[i] = log[i]
  BY <1>1, <1>2
<1>4. \A i \in 1 .. Len(log) : Redefinition(i)' <=> Redefinition(i)
  BY <1>1, <1>3 DEF Redefinition, Stmts
<1>5. ASSUME NEW i, i = Len(log) + 1
      PROVE  Redefinition(i)' <=> Redefines(kind)
  BY <1>1, <1>3, <1>5 DEF Redefinition, Stmts
<1>6. Entries(d)' = (IF d = c THEN Entries(d) \cup {Len(log) + 1} ELSE Entries(d))
      /\ Entries(d) \subseteq 1 .. Len(log)
  <2>1. DOMAIN log = 1 .. Len(log) /\ DOMAIN log' = 1 .. Len(log) + 1
    BY <1>1, <1>2
  <2>2. e.by = c
    OBVIOUS
  <2> HIDE DEF e
  <2> QED
    BY <1>3, <2>1, <2>2 DEF Entries
<1>7. /\ req'[d].kind = "probe" => req[d].kind = "probe"
      /\ rep'[d] = "clean" => rep[d] = "clean"
  <2>1. \/ \E r \in {"ok", "error", "unreadable"} : Reply(c, r)
        \/ req' = req /\ rep' = rep
    <3>1. CASE kind = "raise"
      BY <3>1 DEF Execute
    <3>2. CASE kind = "hang"
      BY <3>2 DEF Execute, client
    <3>3. CASE kind \notin {"raise", "hang"}
      BY <3>3 DEF Execute, Answers, client
    <3> QED
      BY <3>1, <3>2, <3>3
  <2>2. ASSUME NEW r \in {"ok", "error", "unreadable"}, Reply(c, r)
        PROVE  /\ req'[d].kind = "probe" => req[d].kind = "probe"
               /\ rep'[d] = "clean" => rep[d] = "clean"
    BY <1>1, <2>2 DEF Reply, NoReq, TypeOK
  <2> QED
    BY <2>1, <2>2
<1>8. Relies(d)' => Relies(d)
  BY <1>1, <1>7 DEF Relies
<1>9. Has(d, {"call"})' <=> Has(d, {"call"})
  BY <1>1 DEF Has, Stmts, Last
<1>10. Guarded(d) => Guarded(d)'
  <2>1. SUFFICES ASSUME Guarded(d) PROVE Guarded(d)'
    OBVIOUS
  <2>2. seen'[d] = seen[d] /\ seen[d] \in 0 .. Len(log) /\ seen'[d] \in 0 .. Len(log')
    BY <1>1, <1>3, <2>1 DEF Guarded
  <2>3. CASE dirty /\ ~missed[d]
    <3>1. PICK j \in seen[d] + 1 .. Len(log) : Redefinition(j)
      BY <2>1, <2>3 DEF Guarded
    <3>2. j \in 1 .. Len(log) /\ j \in seen'[d] + 1 .. Len(log')
      BY <1>3, <2>2, <3>1
    <3> QED
      BY <1>4, <2>2, <3>1, <3>2 DEF Guarded
  <2>4. CASE Redefines(kind)
    <3>1. PICK j : j = Len(log) + 1
      OBVIOUS
    <3>2. j \in seen'[d] + 1 .. Len(log') /\ Redefinition(j)'
      BY <1>3, <1>5, <2>2, <2>4, <3>1
    <3> QED
      BY <2>2, <3>2 DEF Guarded
  <2>5. CASE missed[d] \/ (~dirty /\ ~Redefines(kind))
    BY <1>1, <2>2, <2>5 DEF Guarded
  <2> QED
    BY <2>3, <2>4, <2>5
<1>11. job[d].readonly => Raced(d)'
  <2>1. SUFFICES ASSUME job[d].readonly, NEW i \in Entries(d)', log'[i].mutates,
                        Stmts(d)[log'[i].stmt] # "covert"
                 PROVE  seen[d] >= 0 /\ (missed[d] \/ \E j \in seen[d] + 1 .. i - 1 :
                                                        Redefinition(j)')
    <3>1. Stmts(d)' = Stmts(d) /\ seen'[d] = seen[d] /\ missed'[d] = missed[d]
      BY <1>1 DEF Stmts
    <3> QED
      BY <3>1 DEF Raced
  <2>2. CASE i \in Entries(d)
    <3>1. log'[i] = log[i] /\ i \in 1 .. Len(log)
      BY <1>3, <1>6, <2>2
    <3>2. log[i].mutates /\ Stmts(d)[log[i].stmt] # "covert"
      BY <2>1, <3>1
    <3>3. seen[d] >= 0 /\ (missed[d] \/ \E j \in seen[d] + 1 .. i - 1 : Redefinition(j))
      BY <2>1, <2>2, <3>2 DEF Inspected, Raced
    <3>4. \A j \in seen[d] + 1 .. i - 1 : Redefinition(j)' <=> Redefinition(j)
      <4>1. seen[d] \in Int /\ Len(log) \in Nat /\ i \in Nat /\ i <= Len(log)
        BY <1>2, <1>3, <3>1
      <4>2. \A j \in seen[d] + 1 .. i - 1 : j \in 1 .. Len(log)
        BY <3>3, <4>1
      <4> QED
        BY <1>4, <4>2
    <3> QED
      BY <3>3, <3>4
  <2>3. CASE d = c /\ i = Len(log) + 1
    <3>1. Mutates(kind) /\ kind # "covert"
      BY <1>3, <2>1, <2>3
    <3>2. sent[c] > 0 /\ at \in 1 .. Last(c)
      <4>1. sent[c] \in Nat /\ Last(c) \in Nat /\ req[c].from \in Nat /\ req[c].to \in Nat
        BY <1>1, Scripted DEF TypeOK
      <4>2. /\ sent[c] = req[c].to /\ req[c].from <= at /\ at <= req[c].to
            /\ sent[c] <= Last(c)
        BY <1>1 DEF Way, Requested, Bounded
      <4> QED
        BY <1>1, <1>2, <4>1, <4>2
    <3>3. ~RejectedLocally(c)
      BY <1>1, <3>2 DEF Way, Starting
    <3>4. kind \notin {"write", "define"}
      BY <2>1, <2>3, <3>2, <3>3 DEF RejectedLocally, Has
    <3>5. kind = "call" /\ dirty
      BY <3>1, <3>4 DEF Mutates
    <3>6. Guarded(c)
      BY <2>1, <2>3, <3>2, <3>5 DEF Inspected, Relies, Has
    <3> QED
      BY <1>2, <1>3, <1>4, <2>3, <3>5, <3>6 DEF Guarded
  <2> QED
    BY <1>6, <2>2, <2>3
<1> QED
  BY <1>1, <1>7, <1>8, <1>9, <1>10, <1>11 DEF Inspected

LEMMA InspectedKept ==
  ASSUME IInv, \A c \in Clients : Inspected(c), [Next]_vars
  PROVE  \A d \in Clients : Inspected(d)'
<1> TAKE d \in Clients
<1>1. ASSUME NEW c \in Clients, ClientStep(c) \/ UnknownServer(c) \/ Disconnected(c)
      PROVE  Inspected(d)'
  <2>1. /\ job' = job /\ log' = log /\ dirty' = dirty /\ seen' = seen /\ missed' = missed
        /\ \A e \in Clients \ {c} : Spares(e)
        /\ req'[c].kind = "probe" => sent'[c] = 0
        /\ job[c].readonly /\ Has(c, {"call"}) /\ Relies(c)' => Relies(c)
    BY <1>1, ClientRelies
  <2>2. CASE d = c
    BY <2>1, <2>2, InspectedStays
  <2>3. CASE d # c
    <3>1. /\ req'[d].kind = "probe" => sent'[d] = 0
          /\ Relies(d)' => Relies(d)
      BY <2>1, <2>3 DEF Spares, Relies, Inspected
    <3> QED
      BY <2>1, <3>1, InspectedStays
  <2> QED
    BY <2>2, <2>3
<1>2. ASSUME NEW c \in Clients, ServeProbe(c) PROVE Inspected(d)'
  BY <1>2, ProbeInspects
<1>3. ASSUME NEW c \in Clients, ServeParse(c) \/ ServeExec(c) PROVE Inspected(d)'
  <2>1. /\ job' = job /\ log' = log /\ dirty' = dirty /\ seen' = seen /\ missed' = missed
        /\ pc' = pc /\ sent' = sent
        /\ rep'[d] = "clean" => rep[d] = "clean"
        /\ req'[d].kind = "probe" => req[d].kind = "probe"
    <3>1. CASE ServeParse(c)
      <4>1. PICK r \in {"ok", "error", "unreadable"} : Reply(c, r)
        BY <3>1 DEF ServeParse, Answers
      <4> QED
        BY <3>1, <4>1 DEF IInv, ServeParse, Reply, NoReq, TypeOK, server, history
    <3>2. CASE ServeExec(c)
      <4>1. /\ UNCHANGED <<job, log, dirty, pc, history>>
            /\ Reply(c, "error") \/ (req' = req /\ rep' = rep)
        BY <3>2 DEF ServeExec, Reply, server, client
      <4>2. CASE Reply(c, "error")
        BY <4>1, <4>2 DEF IInv, Reply, NoReq, TypeOK, history
      <4>3. CASE req' = req /\ rep' = rep
        BY <4>1, <4>3 DEF history
      <4> QED
        BY <4>1, <4>2, <4>3
    <3> QED
      BY <1>3, <3>1, <3>2
  <2> QED
    BY <2>1, InspectedStays DEF Relies, Inspected
<1>4. ASSUME NEW c \in Clients, Execute(c) PROVE Inspected(d)'
  BY <1>4, ExecuteRaces
<1>5. ASSUME Crash \/ UNCHANGED vars PROVE Inspected(d)'
  <2>1. /\ job' = job /\ log' = log /\ dirty' = dirty /\ seen' = seen /\ missed' = missed
        /\ pc' = pc /\ rep' = rep /\ sent' = sent
        /\ req'[d].kind = "probe" => req[d].kind = "probe"
    BY <1>5 DEF Crash, NoReq, vars, server, client, history
  <2> QED
    BY <2>1, InspectedStays DEF Relies, Inspected
<1> QED
  BY <1>1, <1>2, <1>3, <1>4, <1>5 DEF Next, ServerStep

LEMMA InspectedFirst == Init => \A c \in Clients : Inspected(c)
<1>1. SUFFICES ASSUME Init, NEW c \in Clients PROVE Inspected(c)
  OBVIOUS
<1>2. pc[c] = "prepare" /\ req[c].kind = "none" /\ sent[c] = 0 /\ log = <<>>
  BY <1>1 DEF Init, NoReq
<1>3. Raced(c) /\ ~Relies(c)
  BY <1>2 DEF Raced, Relies, Entries
<1> QED
  BY <1>2, <1>3 DEF Inspected

\* A --readonly client mutates the server only where check_readonly failed to
\* see it, or where the inspection did, or through a function redefined after
\* a right inspection: by another client or unseen by check_readonly.
THEOREM MutationsAreUnseen == Spec => []ReadonlyMutatesUnseen
<1> DEFINE Inv == IInv /\ \A c \in Clients : Inspected(c)
<1>1. Init => Inv
  BY InvFirst, InspectedFirst
<1>2. Inv /\ [Next]_vars => Inv'
  BY InvKept, InspectedKept
<1>3. Inv => ReadonlyMutatesUnseen
  <2> DEFINE kind(j) == Stmts(log[j].by)[log[j].stmt]
  <2>1. SUFFICES ASSUME Inv, NEW c \in Clients, job[c].readonly, NEW i \in Entries(c),
                        log[i].mutates, Stmts(c)[log[i].stmt] # "covert"
                 PROVE  /\ seen[c] >= 0
                        /\ missed[c] \/ \E j \in seen[c] + 1 .. i - 1 :
                             kind(j) = "covert" \/ (kind(j) = "define" /\ log[j].by # c)
    BY DEF ReadonlyMutatesUnseen
  <2>2. TypeOK /\ Way(c) /\ Inspected(c)
    BY <2>1 DEF IInv
  <2> HIDE DEF Inv
  <2>3. seen[c] >= 0 /\ (missed[c] \/ \E j \in seen[c] + 1 .. i - 1 : Redefinition(j))
    BY <2>1, <2>2 DEF Inspected, Raced
  <2>4. seen[c] \in Int /\ i \in 1 .. Len(log) /\ Len(log) \in Nat
    <3>1. /\ log \in Seq([by : Clients, stmt : Nat, mutates : BOOLEAN])
          /\ seen \in [Clients -> Int]
      BY <2>2 DEF TypeOK
    <3>2. i \in DOMAIN log
      BY <2>1 DEF Entries
    <3> QED
      BY <3>1, <3>2
  <2>5. ~RejectedLocally(c) /\ \A j \in Entries(c) : log[j].stmt \in 1 .. Last(c)
    <3>1. sent[c] <= Last(c) /\ \E k \in 0 .. sent[c] : Begun(c) = 1 .. k
      BY <2>2 DEF Way, Bounded
    <3>2. sent[c] \in Nat /\ Last(c) \in Nat
      BY <2>2, Scripted DEF TypeOK
    <3>3. \A j \in Entries(c) : log[j].stmt \in Begun(c)
      BY DEF Begun
    <3>4. sent[c] # 0
      BY <2>1, <2>2, <3>3 DEF Way, Starting
    <3> QED
      BY <2>2, <3>1, <3>2, <3>3, <3>4 DEF Way, Starting
  <2>6. \A j \in Entries(c) : Stmts(c)[log[j].stmt] # "define"
    BY <2>1, <2>5 DEF RejectedLocally, Has
  <2>7. \A j \in 1 .. Len(log) : kind(j) = "define" => log[j].by # c
    <3>1. DOMAIN log = 1 .. Len(log)
      BY <2>2 DEF TypeOK
    <3> QED
      BY <2>6, <3>1 DEF Entries
  <2> QED
    BY <2>3, <2>4, <2>7 DEF Redefinition, Redefines
<1> QED
  BY <1>1, <1>2, <1>3, PTL DEF Spec
------------------------------------------------------------------------------
LEMMA Elements ==
  ASSUME NEW R, NEW s \in Seq(R)
  PROVE  DOMAIN s \subseteq Nat /\ \A i \in DOMAIN s : s[i] \in R
OBVIOUS

\* As many entries as statements: none is begun twice.
LEMMA BegunCounted ==
  ASSUME TypeOK, NEW c \in Clients, Ordered(c), NEW k \in Nat, Begun(c) = 1 .. k
  PROVE  Cardinality(Entries(c)) = k
<1> DEFINE f == [i \in Entries(c) |-> log[i].stmt]
<1>1. Entries(c) \subseteq Nat /\ \A i \in Entries(c) : log[i].stmt \in Nat
  <2>1. log \in Seq([by : Clients, stmt : Nat, mutates : BOOLEAN])
    BY DEF TypeOK
  <2>2. DOMAIN log \subseteq Nat
        /\ \A i \in DOMAIN log : log[i] \in [by : Clients, stmt : Nat, mutates : BOOLEAN]
    BY <2>1, Elements
  <2>3. \A i \in DOMAIN log : log[i].stmt \in Nat
    BY <2>2
  <2> QED
    BY <2>2, <2>3 DEF Entries
<1>2. f \in [Entries(c) -> 1 .. k] /\ \A i \in Entries(c) : f[i] = log[i].stmt
  BY DEF Begun
<1>3. f \in Injection(Entries(c), 1 .. k)
  <2>1. ASSUME NEW i \in Entries(c), NEW j \in Entries(c), f[i] = f[j]
        PROVE  i = j
    BY <1>1, <1>2, <2>1 DEF Ordered
  <2> QED
    BY <1>2, <2>1, Fun_IsInj
<1>4. f \in Surjection(Entries(c), 1 .. k)
  <2>1. \A s \in 1 .. k : \E i \in Entries(c) : f[i] = s
    BY <1>2 DEF Begun
  <2> QED
    BY <1>2, <2>1, Fun_IsSurj
<1>5. IsFiniteSet(1 .. k) /\ Cardinality(1 .. k) = k
  BY FS_Interval
<1> HIDE DEF f
<1> QED
  BY <1>3, <1>4, <1>5, FS_Injection

\* What the mapping says of a client, in the terms of its way.
LEMMA Mapped ==
  ASSUME IInv, NEW c \in Clients
  PROVE  /\ ToExecute[c] = IF job[c].dry THEN 0 ELSE Last(c)
         /\ Verdict[c] = out[c].code
         /\ \A k \in Nat : Begun(c) = 1 .. k => Executed[c] = k
         /\ pc[c] # "exited" => Verdict[c] = Promise!Pending
<1>1. TypeOK /\ Ordered(c) /\ Way(c)
  BY DEF IInv, Way, Bounded
<1>2. \A k \in Nat : Begun(c) = 1 .. k => Cardinality(Entries(c)) = k
  BY <1>1, BegunCounted
<1>3. pc[c] # "exited" => out[c] = NoExit
  BY <1>1 DEF Way, Starting, Executing
<1> QED
  BY <1>2, <1>3 DEF ToExecute, Verdict, Executed, NoExit, Promise!Pending

\* What has not begun is not executed twice by leaving the log alone.
LEMMA LogLeftAlone ==
  ASSUME job' = job, log' = log
  PROVE  ToExecute' = ToExecute /\ Executed' = Executed
BY DEF ToExecute, Executed, Entries, Last, Stmts

LEMMA OutLeftAlone ==
  ASSUME job' = job, log' = log, sent' = sent, out' = out
  PROVE  UNCHANGED Promise!vars
BY LogLeftAlone DEF Promise!vars, Verdict

\* A client that exits reports, if its code is the right one.
LEMMA ExitReports ==
  ASSUME IInv, NEW c \in Clients, NEW code \in {0, 1, 2, 3, 4, 5}, NEW line,
         pc[c] # "exited", Exit(c, code, line), job' = job, log' = log, sent' = sent,
         code \in {0, 1} => Executed[c] = ToExecute[c],
         code = 2 => Executed[c] = sent[c]
  PROVE  Promise!Next
<1>1. Verdict' = [Verdict EXCEPT ![c] = code]
  BY DEF Exit, Verdict, IInv, TypeOK
<1>2. UNCHANGED <<ToExecute, sent, Executed>>
  BY LogLeftAlone
<1>3. Verdict[c] = Promise!Pending
  BY Mapped
<1>4. Promise!Report(c, code)
  BY <1>1, <1>2, <1>3 DEF Promise!Report
<1> QED
  BY <1>4 DEF Promise!Next

\* Handing a message over: all that was handed over before has begun.
LEMMA SendExecHandsOver ==
  ASSUME IInv, NEW c \in Clients, SendExec(c)
  PROVE  Promise!Next
<1>1. /\ job' = job /\ log' = log /\ out' = out /\ pc[c] = "execute"
      /\ pos[c] <= Last(c) /\ rep[c] = "none" /\ TypeOK /\ Way(c)
      /\ sent' = [sent EXCEPT ![c] = NextMessage(c).to]
  BY DEF SendExec, Send, server, IInv
<1>2. /\ sent[c] = pos[c] - 1 /\ Begun(c) = 1 .. pos[c] - 1 /\ 1 <= pos[c]
      /\ ~job[c].dry /\ (OneMessage(c) => pos[c] = 1)
      /\ pos[c] \in Nat /\ Last(c) \in Nat
  BY <1>1, Scripted DEF Way, Executing, Starting, TypeOK
<1>3. Executed[c] = sent[c] /\ ToExecute[c] = Last(c) /\ Verdict[c] = Promise!Pending
  BY <1>1, <1>2, Mapped
<1>4. NextMessage(c).to \in sent[c] + 1 .. ToExecute[c]
  BY <1>1, <1>2, <1>3 DEF NextMessage, Msg
<1>5. NextMessage(c).to \in 1 .. ToExecute[c]
  BY <1>1, <1>2, <1>3 DEF NextMessage, Msg
<1>6. UNCHANGED <<ToExecute, Executed, Verdict>>
  BY <1>1, LogLeftAlone DEF Verdict
<1>7. Promise!HandOver(c, NextMessage(c).to)
  BY <1>1, <1>3, <1>4, <1>6 DEF Promise!HandOver
<1> QED
  BY <1>5, <1>7 DEF Promise!Next

LEMMA FinishReports ==
  ASSUME IInv, NEW c \in Clients, Finish(c)
  PROVE  Promise!Next
<1>1. /\ job' = job /\ log' = log /\ sent' = sent
      /\ pc[c] \in {"validate", "execute"} /\ rep[c] = "none" /\ pos[c] > Last(c)
      /\ TypeOK /\ Way(c) /\ pos[c] \in Nat /\ Last(c) \in Nat
  BY Scripted DEF Finish, server, history, IInv, TypeOK
<1>2. Executed[c] = ToExecute[c]
  <2>1. CASE pc[c] = "validate"
    <3>1. job[c].dry /\ Begun(c) = 1 .. 0
      BY <1>1, <2>1, NoneBegun DEF Way, Validating, Starting
    <3> QED
      BY <3>1, Mapped
  <2>2. CASE pc[c] = "execute"
    <3>1. ~job[c].dry /\ Begun(c) = 1 .. Last(c)
      <4>1. pos[c] = Last(c) + 1 /\ Begun(c) = 1 .. pos[c] - 1
        BY <1>1, <2>2 DEF Way, Executing
      <4> QED
        BY <1>1, <2>2, <4>1 DEF Way, Starting
    <3> QED
      BY <1>1, <3>1, Mapped
  <2> QED
    BY <1>1, <2>1, <2>2
<1>3. PICK code \in {0, 1} : Exit(c, code, 0)
  BY DEF Finish
<1> QED
  BY <1>1, <1>2, <1>3, ExitReports

\* A client that has nothing under way has had executed what it sent.
LEMMA NothingPending ==
  ASSUME IInv, NEW c \in Clients, pc[c] # "exited", rep[c] = "none" \/ pc[c] = "inspect"
  PROVE  Executed[c] = sent[c]
<1>1. TypeOK /\ Way(c)
  BY DEF IInv
<1>2. CASE pc[c] = "execute"
  <2>1. sent[c] \in Nat /\ Begun(c) = 1 .. sent[c]
    BY <1>1, <1>2 DEF Way, Executing, TypeOK
  <2> QED
    BY <2>1, Mapped
<1>3. CASE pc[c] # "execute"
  <2>1. sent[c] = 0 /\ Begun(c) = 1 .. 0
    BY <1>1, <1>3, NoneBegun DEF Way, Starting
  <2>2. 0 \in Nat
    OBVIOUS
  <2>3. Executed[c] = 0
    BY <2>1, <2>2, Mapped
  <2> QED
    BY <2>1, <2>3
<1> QED
  BY <1>2, <1>3

LEMMA OversizeReports ==
  ASSUME IInv, NEW c \in Clients, Oversize(c)
  PROVE  Promise!Next
<1>1. /\ Exit(c, 2, ReportedLine(c)) /\ job' = job /\ log' = log /\ sent' = sent
      /\ rep[c] = "none" /\ pc[c] # "exited"
  BY DEF Oversize, server, history
<1> QED
  BY <1>1, NothingPending, ExitReports

LEMMA ReceiveErrorReports ==
  ASSUME IInv, NEW c \in Clients, ReceiveError(c)
  PROVE  Promise!Next
<1>1. /\ Exit(c, 4, ReportedLine(c)) /\ job' = job /\ log' = log /\ sent' = sent
      /\ rep[c] # "none" /\ Way(c)
  BY DEF ReceiveError, server, history, IInv
<1>2. pc[c] # "exited"
  BY <1>1 DEF Way, Exited
<1> QED
  BY <1>1, <1>2, ExitReports

LEMMA ReceiveVerdictReports ==
  ASSUME IInv, NEW c \in Clients, ReceiveVerdict(c)
  PROVE  [Promise!Next]_(Promise!vars)
<1>1. /\ job' = job /\ log' = log /\ sent' = sent /\ pc[c] = "inspect" /\ Way(c)
  BY DEF ReceiveVerdict, server, history, IInv
<1>2. CASE rep[c] = "blocked"
  <2>1. Exit(c, 2, 0) /\ Executed[c] = sent[c]
    BY <1>1, <1>2, NothingPending DEF ReceiveVerdict
  <2> QED
    BY <1>1, <2>1, ExitReports
<1>3. CASE rep[c] # "blocked"
  BY <1>1, <1>3, OutLeftAlone DEF ReceiveVerdict
<1> QED
  BY <1>2, <1>3

LEMMA AbandonReports ==
  ASSUME IInv, NEW c \in Clients, NEW code \in {3, 5}, Abandon(c, code)
  PROVE  Promise!Next
<1>1. /\ Exit(c, code, ReportedLine(c)) /\ job' = job /\ log' = log /\ sent' = sent
      /\ rep[c] # "none" /\ Way(c)
  BY DEF Abandon, server, history, IInv
<1>2. pc[c] # "exited"
  BY <1>1 DEF Way, Exited
<1> QED
  BY <1>1, <1>2, ExitReports

\* The server begins one more statement of what was handed over, also for a
\* client that is gone.
LEMMA ExecuteBegins ==
  ASSUME IInv, NEW c \in Clients, Execute(c)
  PROVE  Promise!Next
<1> DEFINE m == Mutates(Stmts(c)[at])
<1>1. /\ TypeOK /\ Way(c) /\ job' = job /\ sent' = sent /\ out' = out
      /\ busy = c /\ at > 0 /\ at \in Nat
      /\ log' = Append(log, [by |-> c, stmt |-> at, mutates |-> m])
  BY DEF IInv, Execute, Reply, client, server, history, TypeOK
<1>2. /\ Begun(c) = 1 .. at - 1 /\ at <= sent[c]
      /\ Verdict[c] \in Promise!OpenEnded
  <2>1. /\ Begun(c) = 1 .. at - 1 /\ at <= sent[c] /\ req[c] # NoReq
    BY <1>1 DEF Way, Requested, NoReq
  <2>2. out[c].code \notin {0, 1, 2, 4}
    BY <1>1, <2>1, Unsaid DEF Way, Exited, NoExit
  <2>3. out[c].code \in {-1, 0, 1, 2, 3, 4, 5}
    BY <1>1 DEF TypeOK
  <2> QED
    BY <2>1, <2>2, <2>3, Mapped DEF Promise!OpenEnded, Promise!Pending
<1> HIDE DEF m
<1>3. Executed[c] = at - 1
  BY <1>1, <1>2, Mapped
<1>4. /\ Entries(c)' = Entries(c) \cup {Len(log) + 1}
      /\ \A d \in Clients \ {c} : Entries(d)' = Entries(d)
  BY <1>1, Appended
<1>5. Cardinality(Entries(c) \cup {Len(log) + 1}) = Cardinality(Entries(c)) + 1
  <2>1. /\ DOMAIN log = 1 .. Len(log) /\ Len(log) \in Nat
    <3>1. log \in Seq([by : Clients, stmt : Nat, mutates : BOOLEAN])
      BY <1>1 DEF TypeOK
    <3> QED
      BY <3>1
  <2>2. Entries(c) \subseteq 1 .. Len(log) /\ Len(log) + 1 \notin Entries(c)
    BY <2>1 DEF Entries
  <2>3. IsFiniteSet(1 .. Len(log))
    BY <2>1, FS_Interval
  <2>4. IsFiniteSet(Entries(c))
    BY <2>2, <2>3, FS_Subset
  <2> QED
    BY <2>2, <2>4, FS_AddElement
<1>6. Executed' = [Executed EXCEPT ![c] = Executed[c] + 1]
  BY <1>4, <1>5 DEF Executed
<1>7. UNCHANGED <<ToExecute, sent, Verdict>>
  BY <1>1 DEF ToExecute, Verdict, Last, Stmts
<1>8. Executed[c] < sent[c]
  BY <1>1, <1>2, <1>3 DEF TypeOK
<1>9. Promise!Begin(c)
  BY <1>2, <1>6, <1>7, <1>8 DEF Promise!Begin
<1> QED
  BY <1>9 DEF Promise!Next

LEMMA PromiseFirst == Init => Promise!Init
<1> SUFFICES ASSUME Init PROVE Promise!Init
  OBVIOUS
<1>1. ToExecute \in [Clients -> Nat]
  <2>1. \A c \in Clients : Last(c) \in Nat
    BY TypesFirst, Scripted
  <2> QED
    BY <2>1 DEF ToExecute
<1>2. sent = [c \in Clients |-> 0] /\ Verdict = [c \in Clients |-> Promise!Pending]
  BY DEF Init, Verdict, NoExit, Promise!Pending
<1>3. \A c \in Clients : Cardinality(Entries(c)) = 0
  <2>1. \A c \in Clients : Entries(c) = {}
    BY DEF Init, Entries
  <2> QED
    BY <2>1, FS_EmptySet
<1>4. Executed = [c \in Clients |-> 0]
  BY <1>3 DEF Executed
<1> QED
  BY <1>1, <1>2, <1>4 DEF Promise!Init

LEMMA PromiseStep ==
  ASSUME IInv, [Next]_vars
  PROVE  [Promise!Next]_(Promise!vars)
<1>1. ASSUME NEW c \in Clients, ClientStep(c)
      PROVE  [Promise!Next]_(Promise!vars)
  <2>1. CASE Prepare(c)
    <3>1. /\ job' = job /\ log' = log /\ sent' = sent /\ pc[c] = "prepare" /\ Way(c)
      BY <2>1 DEF Prepare, server, history, IInv
    <3>2. CASE RejectedLocally(c)
      <4>1. Exit(c, 2, 0) /\ Executed[c] = sent[c]
        BY <2>1, <3>1, <3>2, NothingPending DEF Prepare, Way, Starting
      <4> QED
        BY <3>1, <4>1, ExitReports
    <3>3. CASE ~RejectedLocally(c)
      BY <2>1, <3>1, <3>3, OutLeftAlone DEF Prepare
    <3> QED
      BY <3>2, <3>3
  <2>2. CASE Open(c)
    BY <2>2, OutLeftAlone DEF Open, server, history
  <2>3. CASE OpenFails(c)
    BY <2>3, ExitReports DEF OpenFails, server, history
  <2>4. CASE SendProbe(c)
    BY <2>4, OutLeftAlone DEF SendProbe, Send, server
  <2>5. CASE SendParse(c)
    BY <2>5, OutLeftAlone DEF SendParse, Send, server
  <2>6. CASE SendExec(c)
    BY <2>6, SendExecHandsOver
  <2>7. CASE Finish(c)
    BY <2>7, FinishReports
  <2>8. CASE ReceiveVerdict(c)
    BY <2>8, ReceiveVerdictReports
  <2>9. CASE ReceiveOk(c)
    BY <2>9, OutLeftAlone DEF ReceiveOk, server, history
  <2>10. CASE ReceiveError(c)
    BY <2>10, ReceiveErrorReports
  <2>11. CASE TimesOut(c)
    BY <2>11, AbandonReports DEF TimesOut
  <2>12. CASE Oversize(c)
    BY <2>12, OversizeReports
  <2> QED
    BY <1>1, <2>1, <2>2, <2>3, <2>4, <2>5, <2>6, <2>7, <2>8, <2>9, <2>10, <2>11, <2>12
       DEF ClientStep
<1>2. ASSUME NEW c \in Clients, ServerStep(c)
      PROVE  [Promise!Next]_(Promise!vars)
  <2>1. CASE ServeProbe(c)
    BY <2>1, OutLeftAlone DEF ServeProbe, Reply, server
  <2>2. CASE ServeParse(c)
    BY <2>2, OutLeftAlone DEF ServeParse, Reply, server, history
  <2>3. CASE ServeExec(c)
    <3>1. job' = job /\ log' = log /\ sent' = sent /\ out' = out
      BY <2>3 DEF ServeExec, Reply, client, server, history
    <3> QED
      BY <3>1, OutLeftAlone
  <2>4. CASE Execute(c)
    BY <2>4, ExecuteBegins
  <2> QED
    BY <1>2, <2>1, <2>2, <2>3, <2>4 DEF ServerStep
<1>3. ASSUME NEW c \in Clients, UnknownServer(c)
      PROVE  [Promise!Next]_(Promise!vars)
  <2>1. /\ Exit(c, 2, 0) /\ job' = job /\ log' = log /\ sent' = sent /\ pc[c] = "prepare"
        /\ Executed[c] = sent[c]
    BY <1>3, NothingPending DEF UnknownServer, server, history, IInv, Way, Starting
  <2> QED
    BY <2>1, ExitReports
<1>4. ASSUME NEW c \in Clients, Disconnected(c)
      PROVE  [Promise!Next]_(Promise!vars)
  BY <1>4, AbandonReports DEF Disconnected
<1>5. CASE Crash
  BY <1>5, OutLeftAlone DEF Crash, client, history
<1>6. CASE UNCHANGED vars
  BY <1>6, OutLeftAlone DEF vars, client, server, history
<1> QED
  BY <1>1, <1>2, <1>3, <1>4, <1>5, <1>6 DEF Next

\* However the clients, the server and the connections are interleaved,
\* statements are handed over, begun and reported as ScriptPromise says.
THEOREM SessionKeepsPromise == Spec => KeepsScriptPromise
<1>1. IInv /\ [Next]_vars => [Promise!Next]_(Promise!vars)
  BY PromiseStep
<1> QED
  BY <1>1, PromiseFirst, WayKept, PTL DEF Spec, KeepsScriptPromise, Promise!Spec

=============================================================================
