------------------------------ MODULE Session ------------------------------
(***************************************************************************)
(* q-cli processes running queries and scripts against one q server        *)
(* (src/cmd.rs: prepare_eval, prepare_run, do_eval, do_run,                *)
(* inspect_remote_funcs, validate_dry_run).                                *)
(*                                                                         *)
(* A client splits its source into statements, opens a connection, has the *)
(* server functions it calls inspected (--readonly), has every statement   *)
(* parsed (--dry-run) or executed, and exits with a code and, in `run`,    *)
(* the line it stopped at.  The server has one thread: it answers one      *)
(* message at a time and logs nobody in while it is busy.  A client that   *)
(* gives up leaves its request with the server, which may still execute    *)
(* it.  A connection is the Channel of src/conn.rs: each request is        *)
(* refused as too long or sent, and an answer, a timeout or a broken       *)
(* connection ends the round trip.  An answer to what succeeded may still  *)
(* be one that the client cannot decode.                                   *)
(*                                                                         *)
(* A statement is what the properties tell apart:                          *)
(*   read, raise          no effect, a q error                             *)
(*   write                a mutation check_readonly recognises             *)
(*   covert               one it does not, which may redefine functions    *)
(*   junk                 accepted by split_q_script, rejected by q's parser*)
(*   unbalanced           rejected by split_q_script                       *)
(*   call                 calls a server function, clean at first          *)
(*   define               redefines that function as a mutating one, and   *)
(*                        check_readonly sees it                           *)
(*   hang                 never returns                                    *)
(*                                                                         *)
(* What depends on the text of statements and values is left open: whether *)
(* a request is too long, a reply can be decoded, and what the inspection, *)
(* a heuristic filter with a budget, says of a function.                   *)
(***************************************************************************)
EXTENDS Integers, Sequences, FiniteSets

CONSTANTS Clients, Jobs

Kinds == {"read", "raise", "write", "covert", "junk", "unbalanced", "call", "define", "hang"}

\* mode "query" is do_eval; "each" and "block" are do_run without and with
\* --atomic or --scoped.  timed stands for a --timeout other than 0.
ASSUME JobsAssumption ==
  Jobs \subseteq [stmts : Seq(Kinds), mode : {"query", "each", "block"},
                  readonly : BOOLEAN, dry : BOOLEAN, timed : BOOLEAN]

VARIABLES
  job,        \* what each client was asked to do
  pc,         \* where each client is in do_eval or do_run
  pos,        \* the next statement of the client to validate or execute
  req,        \* the message of the client the server has not dealt with
  rep,        \* what the client's sync call has: nothing, or a reply
  out,        \* the client's exit code and reported line
  up,         \* the server runs
  busy, at,   \* the client whose message it executes, and the statement
  dirty,      \* the called function has been redefined to mutate
  log,        \* every statement the server began, with its effect
  sent,       \* history: the last statement the client sent for execution
  seen,       \* history: length of log when its functions were inspected, or -1
  missed      \* history: a mutating function was let through by the inspection

client == <<pc, pos, rep, out>>
server == <<up, busy, at, dirty, log>>
history == <<sent, seen, missed>>
vars   == <<job, client, req, server, history>>

NoOne == "nobody"
ASSUME NoOneAssumption == NoOne \notin Clients

NoReq    == [kind |-> "none", from |-> 0, to |-> 0]
NoExit   == [code |-> -1, line |-> 0]
Msg(kind, from, to) == [kind |-> kind, from |-> from, to |-> to]

Stmts(c) == job[c].stmts
Last(c)  == Len(Stmts(c))
Has(c, kinds) == \E i \in 1 .. Last(c) : Stmts(c)[i] \in kinds

\* Mutant: --atomic and --scoped go line by line too.
OneMessageQueryOnly(c) == job[c].mode = "query"

\* One message carries the whole script unless `run` goes line by line.
OneMessage(c) == job[c].mode # "each"
----------------------------------------------------------------------------
Init ==
  /\ job \in [Clients -> Jobs]
  /\ pc = [c \in Clients |-> "prepare"]
  /\ pos = [c \in Clients |-> 1]
  /\ req = [c \in Clients |-> NoReq]
  /\ rep = [c \in Clients |-> "none"]
  /\ out = [c \in Clients |-> NoExit]
  /\ up = TRUE /\ busy = NoOne /\ at = 0
  /\ dirty = FALSE
  /\ log = <<>>
  /\ sent = [c \in Clients |-> 0]
  /\ seen = [c \in Clients |-> -1]
  /\ missed = [c \in Clients |-> FALSE]

Goto(c, p) == pc' = [pc EXCEPT ![c] = p]

Exit(c, code, line) ==
  /\ Goto(c, "exited")
  /\ out' = [out EXCEPT ![c] = [code |-> code, line |-> line]]
  /\ rep' = [rep EXCEPT ![c] = "none"]
  /\ UNCHANGED pos

\* split_q_script fails, a query has no statement, or check_readonly finds
\* a statement it takes for mutating: nothing is sent.
RejectedLocally(c) ==
  \/ Has(c, {"unbalanced"})
  \/ job[c].mode = "query" /\ Stmts(c) = <<>>
  \/ job[c].readonly /\ Has(c, {"write", "define"})

\* Mutants: --dry-run forgotten, and the inspection forgotten.
AfterInspectionAlwaysExecutes(c) == "execute"
AfterOpenUninspected(c) == {IF job[c].dry THEN "validate" ELSE "execute"}

\* Where do_eval and do_run go once connected, and once inspected.  Names of
\* called functions are always inspected; a text without calls may hold other
\* names, or none that need it.
AfterInspection(c) == IF job[c].dry THEN "validate" ELSE "execute"
AfterOpen(c) ==
  {p \in {"inspect", AfterInspection(c)} :
     /\ p = "inspect" => job[c].readonly
     /\ job[c].readonly /\ Has(c, {"call"}) => p = "inspect"}

Prepare(c) ==
  /\ pc[c] = "prepare"
  /\ IF RejectedLocally(c)
       THEN Exit(c, 2, 0)
       ELSE Goto(c, "connect") /\ UNCHANGED <<pos, rep, out>>
  /\ UNCHANGED <<job, req, server, history>>

\* config::resolve_conn does not know the server, or check_readonly takes a
\* harmless statement for a mutating one.
UnknownServer(c) ==
  /\ pc[c] = "prepare"
  /\ Exit(c, 2, 0)
  /\ UNCHANGED <<job, req, server, history>>

\* The login is answered by the server's only thread.
Open(c) ==
  /\ pc[c] = "connect"
  /\ up /\ busy = NoOne
  /\ \E p \in AfterOpen(c) : Goto(c, p)
  /\ UNCHANGED <<job, pos, rep, out, req, server, history>>

\* Refused, or not answered within the establishment cap.
OpenFails(c) ==
  /\ pc[c] = "connect"
  /\ Exit(c, 3, 0)
  /\ UNCHANGED <<job, req, server, history>>

Send(c, msg) ==
  /\ rep[c] = "none"
  /\ req' = [req EXCEPT ![c] = msg]
  /\ rep' = [rep EXCEPT ![c] = "awaited"]
  /\ UNCHANGED <<job, pc, pos, out, server, seen, missed>>

\* Mutant: each message carries the rest of the script.
NextMessageCarriesTheRest(c) == Msg("exec", pos[c], Last(c))

\* The statements the next message of an executing client carries.
NextMessage(c) ==
  IF OneMessage(c) THEN Msg("exec", 1, Last(c)) ELSE Msg("exec", pos[c], pos[c])

SendProbe(c) ==
  /\ pc[c] = "inspect"
  /\ Send(c, Msg("probe", 0, 0))
  /\ UNCHANGED sent

SendParse(c) ==
  /\ pc[c] = "validate" /\ pos[c] <= Last(c)
  /\ Send(c, Msg("parse", pos[c], pos[c]))
  /\ UNCHANGED sent

SendExec(c) ==
  /\ pc[c] = "execute" /\ pos[c] <= Last(c)
  /\ Send(c, NextMessage(c))
  /\ sent' = [sent EXCEPT ![c] = NextMessage(c).to]

\* Every statement has been validated or executed; the exit code is 1 if
\* the result cannot be printed.
Finish(c) ==
  /\ pc[c] \in {"validate", "execute"}
  /\ rep[c] = "none" /\ pos[c] > Last(c)
  /\ \E code \in {0, 1} : Exit(c, code, 0)
  /\ UNCHANGED <<job, req, server, history>>

\* Mutant: lines counted from 0.
ReportedLineFromZero(c) ==
  IF pc[c] = "execute" /\ job[c].mode = "each" THEN pos[c] - 1 ELSE 0

\* The line an error of the present round trip is reported on, 0 for none.
ReportedLine(c) ==
  IF \/ pc[c] = "validate" /\ job[c].mode # "query"
     \/ pc[c] = "execute" /\ ~OneMessage(c)
    THEN pos[c] ELSE 0

\* The next request is longer than the wire format allows and is refused
\* before any of it is sent, in `run` after the statements before it ran.
Oversize(c) ==
  /\ rep[c] = "none"
  /\ pc[c] = "inspect" \/ (pc[c] \in {"validate", "execute"} /\ pos[c] <= Last(c))
  /\ Exit(c, 2, ReportedLine(c))
  /\ UNCHANGED <<job, req, server, history>>

\* Mutant: every reply taken for the last one.
AnsweredAll(c) == Last(c) + 1

\* The position after the statements the server has just answered for.
Answered(c) == IF pc[c] = "execute" /\ OneMessage(c) THEN Last(c) + 1 ELSE pos[c] + 1

\* A reply in "inspect" lets the client through or names a violator.
ReceiveVerdict(c) ==
  /\ pc[c] = "inspect" /\ rep[c] \in {"clean", "blocked"}
  /\ IF rep[c] = "blocked"
       THEN Exit(c, 2, 0)
       ELSE /\ Goto(c, AfterInspection(c))
            /\ rep' = [rep EXCEPT ![c] = "none"]
            /\ UNCHANGED <<pos, out>>
  /\ UNCHANGED <<job, req, server, history>>

ReceiveOk(c) ==
  /\ rep[c] = "ok"
  /\ pos' = [pos EXCEPT ![c] = Answered(c)]
  /\ rep' = [rep EXCEPT ![c] = "none"]
  /\ UNCHANGED <<job, pc, out, req, server, history>>

\* Mutant: an error of the server reported as a usage error.
ReceiveErrorAsUsage(c) ==
  /\ rep[c] \in {"error", "unreadable"}
  /\ Exit(c, 2, 0)
  /\ UNCHANGED <<job, req, server, history>>

\* A q error, or a reply that does not decompress, nests too deep or is
\* otherwise not to be decoded: all are Kind::Query.
ReceiveError(c) ==
  /\ rep[c] \in {"error", "unreadable"}
  /\ Exit(c, 4, ReportedLine(c))
  /\ UNCHANGED <<job, req, server, history>>

\* The round trip ends without a reply, or before one on its way arrives.
\* A request stays with the server unless it had not all been written.
Abandon(c, code) ==
  /\ rep[c] # "none"
  /\ Exit(c, code, ReportedLine(c))
  /\ \/ UNCHANGED req
     \/ req' = [req EXCEPT ![c] = NoReq] /\ busy # c
  /\ UNCHANGED <<job, server, history>>

\* Mutant: only the messages that execute something time out.
TimesOutExecutingOnly(c) == job[c].timed /\ pc[c] = "execute" /\ Abandon(c, 5)

TimesOut(c) == job[c].timed /\ Abandon(c, 5)

\* Mutant: without --timeout a broken connection goes unnoticed.
DisconnectedWhenTimed(c) == job[c].timed /\ \E code \in {3, 5} : Abandon(c, code)

\* The connection breaks or brings no valid header, or the kernel gives the
\* peer up, which io_err takes for a timeout.
Disconnected(c) == \E code \in {3, 5} : Abandon(c, code)
----------------------------------------------------------------------------
\* The server.  A reply to a client that has gone is lost.

Reply(c, r) ==
  /\ rep' = IF rep[c] = "awaited" THEN [rep EXCEPT ![c] = r] ELSE rep
  /\ req' = [req EXCEPT ![c] = NoReq]
  /\ UNCHANGED <<job, pc, pos, out>>

\* inspect_remote_funcs' probe walks the functions the script names.  It may
\* run out of budget, overlook a mutation, take something harmless for one,
\* or fail.
ServeProbe(c) ==
  /\ up /\ busy = NoOne /\ req[c].kind = "probe"
  /\ \E verdict \in {"clean", "blocked", "error"} :
       /\ Reply(c, verdict)
       /\ missed' = [missed EXCEPT ![c] = dirty /\ verdict = "clean"]
  /\ seen' = [seen EXCEPT ![c] = Len(log)]
  /\ UNCHANGED <<server, sent>>

\* What the client can make of the answer to something that succeeded.
Answers == {"ok", "unreadable"}

\* validate_dry_run's message parses one statement and executes nothing; the
\* answer is the parse tree, which may nest too deep.
ServeParse(c) ==
  /\ up /\ busy = NoOne /\ req[c].kind = "parse"
  /\ IF Stmts(c)[req[c].from] = "junk"
       THEN Reply(c, "error")
       ELSE \E r \in Answers : Reply(c, r)
  /\ UNCHANGED <<server, history>>

\* A message is parsed as a whole before any of it is executed.
ParsesWhole(c) == \A i \in req[c].from .. req[c].to : Stmts(c)[i] # "junk"

ServeExec(c) ==
  /\ up /\ busy = NoOne /\ req[c].kind = "exec"
  /\ IF ParsesWhole(c)
       THEN /\ busy' = c
            /\ at' = req[c].from
            /\ UNCHANGED <<job, client, req, up, dirty, log>>
       ELSE Reply(c, "error") /\ UNCHANGED server
  /\ UNCHANGED history

Redefines(kind) == kind \in {"define", "covert"}

Mutates(kind) == kind \in {"write", "define", "covert"} \/ (kind = "call" /\ dirty)

Done == busy' = NoOne /\ at' = 0

\* The server begins the next statement of the message; a statement that
\* hangs is begun and never left.
Execute(c) ==
  /\ up /\ busy = c /\ at > 0
  /\ LET kind == Stmts(c)[at]
     IN /\ log' = Append(log, [by |-> c, stmt |-> at, mutates |-> Mutates(kind)])
        /\ dirty' = (dirty \/ Redefines(kind))
        /\ CASE kind = "raise" -> Reply(c, "error") /\ Done
             [] kind = "hang"  -> at' = 0 /\ UNCHANGED <<job, client, req, busy>>
             [] OTHER -> IF at = req[c].to
                           THEN (\E r \in Answers : Reply(c, r)) /\ Done
                           ELSE at' = at + 1 /\ UNCHANGED <<job, client, req, busy>>
  /\ UNCHANGED <<up, history>>

\* The server dies, in the middle of a message or between messages.
Crash ==
  /\ up
  /\ up' = FALSE
  /\ Done
  /\ req' = [c \in Clients |-> NoReq]
  /\ UNCHANGED <<job, client, dirty, log, history>>

ClientStep(c) ==
  \/ Prepare(c) \/ Open(c) \/ OpenFails(c)
  \/ SendProbe(c) \/ SendParse(c) \/ SendExec(c) \/ Oversize(c) \/ Finish(c)
  \/ ReceiveVerdict(c) \/ ReceiveOk(c) \/ ReceiveError(c)
  \/ TimesOut(c)

ServerStep(c) == ServeProbe(c) \/ ServeParse(c) \/ ServeExec(c) \/ Execute(c)

Next == \/ \E c \in Clients : ClientStep(c) \/ ServerStep(c)
        \/ \E c \in Clients : UnknownServer(c) \/ Disconnected(c)
        \/ Crash

\* A client keeps going and its timers run; the server answers what it is
\* asked unless it hangs or dies; a connection to a dead server breaks.
Fairness == \A c \in Clients :
  /\ WF_vars(ClientStep(c))
  /\ WF_vars(ServerStep(c))
  /\ WF_vars(~up /\ Disconnected(c))

Spec == Init /\ [][Next]_vars

FairSpec == Spec /\ Fairness
----------------------------------------------------------------------------
Stages == {"prepare", "connect", "inspect", "validate", "execute", "exited"}

\* Every variable has its type.
TypeOK ==
  /\ job \in [Clients -> Jobs]
  /\ pc \in [Clients -> Stages]
  /\ pos \in [Clients -> Nat] /\ sent \in [Clients -> Nat] /\ seen \in [Clients -> Int]
  /\ req \in [Clients -> [kind : {"none", "probe", "parse", "exec"}, from : Nat, to : Nat]]
  /\ missed \in [Clients -> BOOLEAN]
  /\ rep \in [Clients -> {"none", "awaited", "ok", "error", "unreadable", "clean", "blocked"}]
  /\ out \in [Clients -> [code : {-1, 0, 1, 2, 3, 4, 5}, line : Nat]]
  /\ up \in BOOLEAN /\ dirty \in BOOLEAN
  /\ busy \in Clients \cup {NoOne} /\ at \in Nat
  /\ log \in Seq([by : Clients, stmt : Nat, mutates : BOOLEAN])

\* The entries and the statements of c in the log.
Entries(c) == {i \in DOMAIN log : log[i].by = c}
Begun(c) == {log[i].stmt : i \in Entries(c)}

\* The statements of a client begin in order, none twice, none skipped, and
\* none after one that failed, however its messages were grouped, delayed
\* or abandoned.
RunsAPrefix ==
  \A c \in Clients :
    /\ \A i, j \in Entries(c) : i < j =>
         /\ log[i].stmt < log[j].stmt
         /\ Stmts(c)[log[i].stmt] \notin {"raise", "hang", "junk"}
    /\ \E k \in 0 .. Last(c) : Begun(c) = 1 .. k

\* The server has nothing of the client's left to execute or to go on with.
AllDealtWith(c) == req[c] = NoReq /\ busy # c

\* `run` without --atomic or --scoped names the line it stopped at
\* (cmd.rs:1031).  After a timeout or a lost connection the line itself may
\* have run, may be running, or may yet run, and nothing after it.  After
\* exit 4 it is settled: everything up to the line has begun, the line too
\* unless it does not parse, and nothing more will.
ReportedLineIsTheBoundary ==
  \A c \in Clients :
    LET line == out[c].line
    IN job[c].mode = "each" /\ ~job[c].dry /\ line > 0 =>
         /\ Begun(c) \in {1 .. line - 1, 1 .. line}
         /\ out[c].code = 4 =>
              /\ Begun(c) = 1 .. IF Stmts(c)[line] = "junk" THEN line - 1 ELSE line
              /\ AllDealtWith(c)

\* Exit 2: nothing sent is left that might run, and nothing has run, unless
\* `run` names a line, of which then every one before it has begun and the
\* line itself has not (a statement too long to be sent, conn.rs:208).
RefusalLeavesNoTrace ==
  \A c \in Clients : out[c].code = 2 =>
    /\ AllDealtWith(c)
    /\ Begun(c) = IF job[c].dry THEN {} ELSE 1 .. out[c].line - 1

\* --dry-run executes nothing, now or later; it passes only what parses, and
\* a line that it names is not behind the first that does not (cmd.rs:912).
\* The line itself may parse, into a tree that the client cannot decode.
DryRunOnlyParses ==
  \A c \in Clients : job[c].dry =>
    /\ Begun(c) = {}
    /\ out[c].code \in {0, 1} => ~Has(c, {"junk"})
    /\ \A i \in 1 .. out[c].line - 1 : Stmts(c)[i] # "junk"

\* No statement of another client comes between two of a script sent with
\* --atomic or --scoped, nor of a query (cmd.rs:987).
BlockIsContiguous ==
  \A c \in Clients : job[c].mode # "each" =>
    \A i, j \in Entries(c) : \A k \in i .. j : log[k].by = c

\* What a --readonly client changes on the server, both of its filters failed
\* to see: check_readonly the statement itself, or the inspection the called
\* function.  The inspection has always been made, and if it was right, the
\* function has been redefined since: by another client (cmd.rs:942), or by
\* a statement that check_readonly failed to see.
ReadonlyMutatesUnseen ==
  \A c \in Clients : job[c].readonly =>
    \A i \in Entries(c) : log[i].mutates =>
      \/ Stmts(c)[log[i].stmt] = "covert"
      \/ /\ seen[c] >= 0
         /\ missed[c] \/ \E j \in seen[c] + 1 .. i - 1 :
              LET kind == Stmts(log[j].by)[log[j].stmt]
              IN kind = "covert" \/ (kind = "define" /\ log[j].by # c)

\* What ScriptPromise speaks of: the statements each client is to have
\* executed, those that have begun, and what it has said.
ToExecute == [c \in Clients |-> IF job[c].dry THEN 0 ELSE Last(c)]
Executed  == [c \in Clients |-> Cardinality(Entries(c))]
Verdict   == [c \in Clients |-> out[c].code]

\* The script each client is to execute has been handed over as promised.
Promise == INSTANCE ScriptPromise WITH
  size <- ToExecute, begun <- Executed, verdict <- Verdict

\* ScriptPromise's Spec: execution after the client has gone is limited to
\* the message it was waiting for, and to exits that say so.
KeepsScriptPromise == Promise!Spec

\* With --timeout every client exits, whatever the server does.
TimedClientsExit ==
  \A c \in Clients : job[c].timed ~> pc[c] = "exited"

\* Only a statement that never returns keeps anybody waiting for ever: a
\* failed, dead or disconnected server does not.
OnlyHangsBlock ==
  \/ <>[](busy # NoOne /\ at = 0)
  \/ \A c \in Clients : <>(pc[c] = "exited")
============================================================================
