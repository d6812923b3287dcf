-------------------------------- MODULE Trace --------------------------------
(***************************************************************************)
(* `q-cli trace on|off` (src/cmd.rs, trace_expr): one message that wraps   *)
(* the two IPC handlers of a q process, .z.pg and .z.ps, in an error trap  *)
(* or puts back what was there.  What was there is remembered in the       *)
(* process itself, as .qcli.traceState.                                    *)
(*                                                                         *)
(* The server runs each message to its end before the next, so a message   *)
(* is one step; between messages other tools change the same handlers, the *)
(* user deletes the state by hand as the refusal suggests, the process     *)
(* restarts, and a client that timed out leaves its message behind and     *)
(* tries again.                                                            *)
(*                                                                         *)
(* A handler is what it ends up calling, its core, and how many error      *)
(* traps are around it.  Other tools' handlers have cores of their own.    *)
(***************************************************************************)
EXTENDS Naturals

CONSTANTS
  Clients,     \* q-cli processes at work at the same time
  Foreign,     \* cores of the handlers that others install
  MaxResets    \* bound: manual resets between two restarts

ASSUME ForeignAssumption == Foreign \cap {"value", "absent"} = {}
ASSUME ResetsAssumption == MaxResets \in Nat

Slots == {"pg", "ps"}

Handlers == [core : Foreign \cup {"value", "absent"}, traps : Nat]
Plain(core) == [core |-> core, traps |-> 0]
Absent  == Plain("absent")         \* q falls back on value
Default == Plain("value")

\* What others can put into a slot: a handler of theirs, or none.
Installable == {Plain(core) : core \in Foreign \cup {"absent"}}

\* WRAP[handler;]
Trapped(h) == [h EXCEPT !.traps = h.traps + 1]

\* What a request ends up being evaluated by.
Policy(h) == IF h = Absent THEN "value" ELSE h.core

VARIABLES
  handler,     \* .z.pg and .z.ps
  owner,       \* of .qcli.traceState: "nobody", "q-cli" or "other"
  present, saved, wrapped,   \* its other fields, when it is q-cli's
  req,         \* each client's message, until the server has run it
  answer,      \* what each client was told last
  installed,   \* history: what others last installed, per slot
  kept,        \* what a tool displaced for a time and will put back
  touched,     \* history: a handler changed since q-cli saved them
  resets       \* history: manual resets since the process started

state   == <<owner, present, saved, wrapped>>
clients == <<req, answer>>
others  == <<installed, kept, touched, resets>>
vars    == <<handler, state, clients, others>>

Nothing == [handler |-> Absent, installed |-> Absent, held |-> FALSE]
-----------------------------------------------------------------------------
\* A process starts with whatever handlers its startup script sets.
Started ==
  /\ handler' \in [Slots -> Installable]
  /\ installed' = handler'
  /\ owner' = "nobody"
  /\ kept' = [s \in Slots |-> Nothing]
  /\ touched' = FALSE
  /\ resets' = 0

Init ==
  /\ handler \in [Slots -> Installable]
  /\ installed = handler
  /\ owner = "nobody"
  /\ present = [s \in Slots |-> FALSE]
  /\ saved = [s \in Slots |-> Default]
  /\ wrapped = [s \in Slots |-> Default]
  /\ req = [c \in Clients |-> "none"]
  /\ answer = [c \in Clients |-> "none"]
  /\ kept = [s \in Slots |-> Nothing]
  /\ touched = FALSE
  /\ resets = 0

Ask(c, action) ==
  /\ req[c] = "none"
  /\ req' = [req EXCEPT ![c] = action]
  /\ answer' = [answer EXCEPT ![c] = "awaited"]
  /\ UNCHANGED <<handler, state, others>>

\* The client gives up; the server will still run the message.
GiveUp(c) ==
  /\ answer[c] = "awaited"
  /\ answer' = [answer EXCEPT ![c] = "none"]
  /\ UNCHANGED <<handler, state, req, others>>

Tell(c, text) ==
  /\ req' = [req EXCEPT ![c] = "none"]
  /\ answer' = IF answer[c] = "awaited" THEN [answer EXCEPT ![c] = text] ELSE answer

\* Mutants: handlers not compared, and what was saved put back even into a slot
\* that was not set.
OursUnchecked == TRUE
RestoredAlways(s) == saved[s]

\* The handlers are those trace on installed.
Ours == handler = wrapped

\* {@[value;x;{value}]}: a slot that is not set saves value itself.
Save(s) == IF handler[s] = Absent THEN Default ELSE handler[s]

\* What off puts into a slot; `x .z.pg` unsets it.
Restored(s) == IF present[s] THEN saved[s] ELSE Absent

\* CHECK refuses: the name is taken, or a handler has changed.
Refuse(c) ==
  /\ \/ owner = "other" /\ Tell(c, "name in use")
     \/ owner = "q-cli" /\ ~Ours /\ Tell(c, "handlers changed")
  /\ UNCHANGED <<handler, state, others>>

\* Mutant: on answers from the name alone.
AlreadyOnByName(c) ==
  /\ owner = "q-cli"
  /\ Tell(c, "trace: on")
  /\ UNCHANGED <<handler, state, others>>

AlreadyOn(c) ==
  /\ owner = "q-cli" /\ Ours
  /\ Tell(c, "trace: on")
  /\ UNCHANGED <<handler, state, others>>

\* Mutant: on does not look for an earlier on.
TurnOnAgain(c) ==
  /\ owner # "other"
  /\ owner' = "q-cli"
  /\ present' = [s \in Slots |-> handler[s] # Absent]
  /\ saved' = [s \in Slots |-> Save(s)]
  /\ wrapped' = [s \in Slots |-> Trapped(Save(s))]
  /\ handler' = wrapped'
  /\ touched' = FALSE
  /\ Tell(c, "trace: on")
  /\ UNCHANGED <<installed, kept, resets>>

TurnOn(c) ==
  /\ owner = "nobody"
  /\ owner' = "q-cli"
  /\ present' = [s \in Slots |-> handler[s] # Absent]
  /\ saved' = [s \in Slots |-> Save(s)]
  /\ wrapped' = [s \in Slots |-> Trapped(Save(s))]
  /\ handler' = wrapped'
  /\ touched' = FALSE
  /\ Tell(c, "trace: on")
  /\ UNCHANGED <<installed, kept, resets>>

AlreadyOff(c) ==
  /\ owner = "nobody"
  /\ Tell(c, "trace: off")
  /\ UNCHANGED <<handler, state, others>>

TurnOff(c) ==
  /\ owner = "q-cli" /\ Ours
  /\ handler' = [s \in Slots |-> Restored(s)]
  /\ owner' = "nobody"
  /\ Tell(c, "trace: off")
  /\ UNCHANGED <<present, saved, wrapped, others>>

ServeOn(c)  == req[c] = "on"  /\ (Refuse(c) \/ AlreadyOn(c) \/ TurnOn(c))
ServeOff(c) == req[c] = "off" /\ (Refuse(c) \/ AlreadyOff(c) \/ TurnOff(c))

\* Another tool sets or unsets a handler for good.
Install(s) ==
  /\ \E h \in Installable :
       /\ handler' = [handler EXCEPT ![s] = h]
       /\ installed' = [installed EXCEPT ![s] = h]
  /\ touched' = TRUE
  /\ UNCHANGED <<state, clients, kept, resets>>

\* A tool swaps a handler for a time ...
Displace(s) ==
  /\ ~kept[s].held
  /\ kept' = [kept EXCEPT ![s] =
       [handler |-> handler[s], installed |-> installed[s], held |-> TRUE]]
  /\ \E h \in Installable :
       /\ handler' = [handler EXCEPT ![s] = h]
       /\ installed' = [installed EXCEPT ![s] = h]
  /\ touched' = TRUE
  /\ UNCHANGED <<state, clients, resets>>

\* ... and puts back the one it found, which may be a trapped one.
PutBack(s) ==
  /\ kept[s].held
  /\ handler' = [handler EXCEPT ![s] = kept[s].handler]
  /\ installed' = [installed EXCEPT ![s] = kept[s].installed]
  /\ kept' = [kept EXCEPT ![s] = Nothing]
  /\ touched' = TRUE
  /\ UNCHANGED <<state, clients, resets>>

\* The name is used for something else.
Claim ==
  /\ owner = "nobody"
  /\ owner' = "other"
  /\ UNCHANGED <<handler, present, saved, wrapped, clients, others>>

\* delete traceState from `.qcli
ManualReset ==
  /\ owner # "nobody" /\ resets < MaxResets
  /\ owner' = "nobody"
  /\ resets' = resets + 1
  /\ UNCHANGED <<handler, present, saved, wrapped, clients, installed, kept, touched>>

Restart ==
  /\ Started
  /\ req' = [c \in Clients |-> "none"]
  /\ UNCHANGED <<present, saved, wrapped, answer>>

Next ==
  \/ \E c \in Clients : \/ \E action \in {"on", "off"} : Ask(c, action)
                        \/ GiveUp(c) \/ ServeOn(c) \/ ServeOff(c)
  \/ \E s \in Slots : Install(s) \/ Displace(s) \/ PutBack(s)
  \/ Claim \/ ManualReset \/ Restart

Spec == Init /\ [][Next]_vars
-----------------------------------------------------------------------------
\* Every variable has its type; what is saved can always be called.
TypeOK ==
  /\ handler \in [Slots -> Handlers]
  /\ owner \in {"nobody", "q-cli", "other"}
  /\ present \in [Slots -> BOOLEAN]
  /\ saved \in [Slots -> Handlers \ {Absent}] /\ wrapped \in [Slots -> Handlers]
  /\ req \in [Clients -> {"none", "on", "off"}]
  /\ answer \in [Clients -> {"none", "awaited", "trace: on", "trace: off",
                             "name in use", "handlers changed"}]
  /\ installed \in [Slots -> Installable]
  /\ kept \in [Slots -> [handler : Handlers, installed : Installable, held : BOOLEAN]]
  /\ touched \in BOOLEAN
  /\ resets \in 0 .. MaxResets

\* Whatever on and off requests the server runs, in any order, late or
\* repeated, requests are evaluated by the handler that others installed last
\* (docs/security.md:52, cmd.rs:725): tracing never brings an old one back.
PolicyIsKept == \A s \in Slots : Policy(handler[s]) = Policy(installed[s])

\* Once q-cli's state is gone, and was not deleted by hand, every slot is
\* exactly what others made it, an unset one unset again (cmd.rs:750): off
\* undoes on, and no trap is left behind.
OffRestores == owner # "q-cli" /\ resets = 0 => handler = installed

\* A retried or repeated `trace on` does not trap twice; only a manual reset
\* makes q-cli forget a trap (cmd.rs:739).
TrapsOnce == \A s \in Slots : handler[s].traps <= resets + 1

\* q-cli's steps: the client that is told something is told the truth.  "on":
\* both handlers are trapped.  "off": q-cli keeps nothing, and no trap is left
\* unless one was forgotten.  "handlers changed": somebody else did change one.
AnswersAreTrue ==
  [][\A c \in Clients : answer[c] = "awaited" =>
       /\ answer'[c] = "trace: on" => \A s \in Slots : handler'[s].traps > 0
       /\ answer'[c] = "trace: off" =>
            /\ owner' # "q-cli"
            /\ resets' = 0 => \A s \in Slots : handler'[s].traps = 0
       /\ answer'[c] = "handlers changed" => touched /\ owner = "q-cli"]_vars
==============================================================================
