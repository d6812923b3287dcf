------------------------------- MODULE Dispatch -------------------------------
(***************************************************************************)
(* From the command line to the connection: real_main (src/main.rs) sorts  *)
(* the arguments into options and positionals, dispatch (src/cmd.rs) finds *)
(* the command, checks its arguments, prepares its text and resolves its   *)
(* <conn> (Alias), and only then is a server spoken to.  What happens      *)
(* there is Session's subject; here it is one step.                        *)
(*                                                                         *)
(* Arguments are chosen as they are read.  Options that say how to print   *)
(* or how long to wait are left out unless they end the program; so is     *)
(* what --tls asks of the connection.                                      *)
(***************************************************************************)
EXTENDS Alias

CONSTANTS
  First, Later,   \* bound: texts that stand first, and after it, as arguments
  Options,        \* bound: the flags of Flags that are given
  Maps,           \* bound: contents of the profile files
  MaxArgs         \* bound: positional arguments

Flags == {"readonly", "scoped", "atomic", "dry", "project"}

ASSUME DispatchAssumption ==
  /\ First \subseteq Tokens /\ Later \subseteq Tokens
  /\ Options \subseteq Flags
  /\ Maps \subseteq ServerMaps
  /\ MaxArgs \in Nat

VARIABLES
  pc,         \* where in real_main or dispatch
  pos,        \* positional arguments
  flags,      \* flags given or set in the environment
  prepared,   \* the text to send has been checked
  stdin,      \* standard input has been read
  request,    \* what is to be done
  code        \* exit code, or Running

vars == <<alias, pc, pos, flags, prepared, stdin, request, code>>
main == <<pc, pos, flags, prepared, stdin, request, code>>

Running == -1
Usage == 2

Dashed == {"-x"}      \* stands for any option q-cli does not have
Dash == "-"

Arg(i) == IF i <= Len(pos) THEN pos[i] ELSE Empty

\* CMDS.
Local     == {"config", "update"}
Scripted  == {"query", "time"}
Bare0     == {"tables", "views", "schema", "info", "gc"}    \* no argument
Named     == {"meta", "count", "describe", "functions"}     \* a name
Evaluated == Scripted \cup Bare0 \cup Named
Acting    == {"web", "trace"}
Commands  == Evaluated \cup Acting \cup Local \cup {"run", "ping"}

Actions(mode) == IF mode = "web" THEN {"off", "get-ok", "status"} ELSE {"on", "off", "status"}

Nothing == [do |-> "nothing", conn |-> Empty, scanned |-> FALSE]
Do(what, conn) == [do |-> what, conn |-> conn, scanned |-> FALSE]
-------------------------------------------------------------------------------
Init ==
  /\ AliasInit
  /\ pc = "options"
  /\ pos = <<>>
  /\ flags \in {{}, {"readonly"} \cap Options}
  /\ prepared = FALSE /\ stdin = FALSE
  /\ request = Nothing
  /\ code = Running

Exit(c) == /\ pc' = "exited" /\ code' = c
           /\ UNCHANGED <<pos, flags, prepared, stdin, request>>

Refuse == Exit(Usage) /\ UNCHANGED alias

Goto(p) == /\ pc' = p
           /\ UNCHANGED <<alias, pos, flags, prepared, stdin, code>>

-------------------------------------------------------------------------------
\* real_main: one argument after another.

GiveFlag(f) ==
  /\ pc = "options"
  /\ flags' = flags \cup {f}
  /\ UNCHANGED <<alias, pc, pos, prepared, stdin, request, code>>

\* --max-rows or --timeout without a number, or with the next option for one.
BadLimit == pc = "options" /\ Refuse

\* --help before any positional, and --version anywhere.  What they print is
\* taken to be printed.
Inform ==
  /\ pc = "options"
  /\ Exit(0)
  /\ UNCHANGED alias

\* "--": what follows is positional, whatever it looks like.
EndOptions == pc = "options" /\ Goto("literal") /\ UNCHANGED request

\* An unknown option may be the q expression, or belong to a local command.
MayBeDashed ==
  \/ Len(pos) = 2 /\ pos[1] \in Scripted
  \/ Len(pos) > 0 /\ pos[1] \in Local

Positional(a) ==
  /\ pc \in {"options", "literal"}
  /\ IF pc = "options" /\ a \in Dashed /\ ~MayBeDashed
       THEN Refuse
       ELSE /\ Len(pos) < MaxArgs
            /\ pos' = Append(pos, a)
            /\ UNCHANGED <<alias, pc, flags, prepared, stdin, request, code>>

\* The arguments are over: --project is for config, and a command is needed.
EndArguments ==
  /\ pc \in {"options", "literal"}
  /\ IF pos = <<>> \/ ("project" \in flags /\ pos[1] # "config")
       THEN Refuse
       ELSE Goto("dispatch") /\ UNCHANGED request
-------------------------------------------------------------------------------
\* dispatch: find the command and check its arguments.

Mode == Arg(1)

\* --atomic is for run, --dry-run and --scoped are for scripts.
TakesFlags ==
  /\ "atomic" \in flags => Mode = "run"
  /\ flags \cap {"dry", "scoped"} # {} => Mode \in {"run", "query", "time"}

LooksLikeConn(a) == a \in Literals \/ Bare[a] # a

\* No action contains a colon or begins with an @.
ASSUME ActionsAssumption ==
  \A mode \in Acting : \A a \in Actions(mode) \cap Tokens : ~LooksLikeConn(a)

\* Mutant: the second argument is asked first.
ActionBySecond == IF Arg(3) \in Actions(Mode) THEN Arg(3) ELSE Arg(2)

\* Of the two arguments of web and trace, the one taken for the action.
Action ==
  IF ~LooksLikeConn(Arg(2)) /\ Arg(2) \in Actions(Mode)
    THEN Arg(2)
    ELSE IF LooksLikeConn(Arg(2)) \/ Arg(3) \in Actions(Mode) THEN Arg(3) ELSE Arg(2)

\* The position of the other.
ConnAt ==
  IF \/ ~LooksLikeConn(Arg(2)) /\ Arg(2) \in Actions(Mode)
     \/ ~LooksLikeConn(Arg(2)) /\ Arg(3) \notin Actions(Mode)
    THEN 3 ELSE 2

\* Mutant: --readonly knows the action only where it stands first.
ReadonlyAllowsFirst ==
  "readonly" \in flags /\ Arg(2) \in Actions(Mode) => Arg(2) = "status"

ReadonlyAllows == "readonly" \in flags => Action = "status"

\* Arguments refused by dispatch itself.
BadArguments ==
  \/ Mode \notin Commands
  \/ ~TakesFlags
  \/ /\ Mode \in Acting
     /\ Len(pos) > 3 \/ Action \notin Actions(Mode) \/ ~ReadonlyAllows \/ Len(pos) < ConnAt
  \/ Mode = "ping" /\ Len(pos) # 2
  \/ Mode = "run" /\ (Len(pos) # 3 \/ Arg(3) = Empty)
  \/ Mode \in Evaluated /\ Len(pos) \notin {2, 3}

\* config::run and update::run: no server.  What they report goes through
\* finish, which exits with 1 where it cannot be printed.
RunLocally ==
  /\ pc = "dispatch" /\ ~BadArguments /\ Mode \in Local
  /\ pc' = "exited"
  /\ code' \in {0, 1, Usage} \cup IF Mode = "update" THEN {3} ELSE {}
  /\ request' = Do(Mode, Empty)
  /\ UNCHANGED <<alias, pos, flags, prepared, stdin>>

RefuseArguments == pc = "dispatch" /\ BadArguments /\ Refuse

FromStdin == Mode \in Scripted \cup {"run"} /\ Arg(3) = Dash

\* Mutant: text is prepared first wherever it comes from.
ResolvedFirstUnprepared == Mode \in Acting \cup {"ping"}

\* Text given inline or in a file is prepared before <conn> is resolved, text
\* from stdin after it.
ResolvedFirst == Mode \in Acting \cup {"ping"} \/ FromStdin

Begin ==
  /\ pc = "dispatch" /\ ~BadArguments /\ Mode \notin Local
  /\ Goto(IF ResolvedFirst THEN "resolve" ELSE "prepare")
  /\ request' = IF Mode \in Acting THEN Do(Action, Arg(ConnAt)) ELSE Do("text", Arg(2))
-------------------------------------------------------------------------------
\* What prepare_eval and prepare_run are sure to refuse: an argument too many,
\* none where one is needed, and .Q.gc for a readonly caller.
CannotPrepare ==
  \/ Mode \in Bare0 /\ Arg(3) # Empty
  \/ Mode \in (Named \ {"functions"}) \cup Scripted /\ Arg(3) = Empty
  \/ Mode = "gc" /\ "readonly" \in flags

PrepareFails ==
  /\ pc = "prepare"
  /\ pc' = "exited" /\ code' = Usage
  /\ stdin' = FromStdin
  /\ UNCHANGED <<alias, pos, flags, prepared, request>>

\* With --readonly check_readonly has seen the user's text.
PrepareOk ==
  /\ pc = "prepare" /\ ~CannotPrepare
  /\ pc' = IF outcome = "resolved" THEN "contact" ELSE "resolve"
  /\ prepared' = TRUE
  /\ stdin' = FromStdin
  /\ request' = [request EXCEPT !.scanned =
                   "readonly" \in flags /\ Mode \in Scripted \cup {"run", "gc"}]
  /\ UNCHANGED <<alias, pos, flags, code>>

\* resolve: a literal, or a profile in the files as they are now.
Resolve ==
  /\ pc = "resolve" /\ outcome = "unresolved"
  /\ \/ ResolveLiteral(request.conn)
     \/ Unconfigured(request.conn)
     \/ \E map \in Maps : FirstLookup(request.conn, map)
  /\ UNCHANGED main

Follow == pc = "resolve" /\ Redirect /\ UNCHANGED main

ResolveFails == pc = "resolve" /\ outcome \in Refusals /\ Refuse

Resolved ==
  /\ pc = "resolve" /\ outcome = "resolved"
  /\ Goto(IF FromStdin /\ ~prepared THEN "prepare" ELSE "contact")
  /\ UNCHANGED request

\* do_eval, do_run or do_ping, and finish: a success that cannot be printed
\* exits with 1, unless the reader of stdout has gone.
Contact ==
  /\ pc = "contact"
  /\ \E c \in {0, 1, Usage, 3, 4, 5} : Exit(c)
  /\ UNCHANGED alias

Next ==
  \/ \E f \in Options : GiveFlag(f)
  \/ BadLimit \/ Inform \/ EndOptions
  \/ \E a \in IF pos = <<>> THEN First ELSE Later : Positional(a)
  \/ EndArguments
  \/ RefuseArguments \/ RunLocally \/ Begin
  \/ PrepareFails \/ PrepareOk
  \/ Resolve \/ Follow \/ ResolveFails \/ Resolved
  \/ Contact

Spec == Init /\ [][Next]_vars

-------------------------------------------------------------------------------
\* Every variable has its type.
TypeOK ==
  /\ servers \in ServerMaps /\ origin \in Tokens
  /\ hops \in Nat /\ visited \subseteq Tokens /\ trail \in Seq(Tokens)
  /\ outcome \in {"unresolved", "resolving", "resolved"} \cup Refusals
  /\ target \in Tokens
  /\ pc \in {"options", "literal", "dispatch", "prepare", "resolve", "contact", "exited"}
  /\ pos \in Seq(Tokens) /\ flags \subseteq Flags
  /\ prepared \in BOOLEAN /\ stdin \in BOOLEAN
  /\ request \in [do : Tokens \cup {"nothing", "text", "config", "update"},
                  conn : Tokens, scanned : BOOLEAN]
  /\ code \in {Running, 0, 1, Usage, 3, 4, 5}

\* No flag is lost on the way.  With --readonly no server is spoken to but
\* to ask for a status or with text that has been scanned, wherever the action
\* of web and trace stands (cmd.rs:276); --dry-run and --scoped reach only
\* commands that heed them, --atomic only run; and nothing is done locally
\* that a flag forbade.
FlagsHold ==
  /\ pc = "contact" /\ "readonly" \in flags =>
       /\ request.do \in {"text", "status"}
       /\ Mode \in Scripted \cup {"run", "gc"} => request.scanned
  /\ pc = "contact" \/ request.do \in Local =>
       /\ "atomic" \in flags => Mode = "run"
       /\ flags \cap {"dry", "scoped"} # {} => Mode \in Scripted \cup {"run"}
       /\ "project" \in flags => Mode = "config"

\* web and trace take their two arguments in either order (cmd.rs:276): if one
\* of them is an action it is done, on the other; if both are, the first.
EitherOrder ==
  pc = "contact" /\ Mode \in Acting =>
    LET first  == Arg(2)
        second == Arg(3)
    IN IF first \in Actions(Mode)
         THEN request.do = first /\ request.conn = second
         ELSE request.do = second /\ request.conn = first /\ second \in Actions(Mode)

\* A mistake in the command is reported as such even where no server is
\* configured (cmd.rs:358), and standard input, which may never end, is read
\* only for a server that is known (cmd.rs:372).
UsageErrorsComeFirst ==
  /\ outcome # "unresolved" => ~BadArguments
  /\ outcome # "unresolved" /\ ~FromStdin => ~CannotPrepare
  /\ outcome # "unresolved" /\ ~prepared => FromStdin \/ Mode \in Acting \cup {"ping"}
  /\ stdin => outcome = "resolved"
===============================================================================
