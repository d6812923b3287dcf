--------------------------- MODULE ScriptPromise ---------------------------
(***************************************************************************)
(* What q-cli promises about the statements of a script, whatever happens  *)
(* to connections, servers and other clients: they begin in order and each *)
(* at most once; a client hands over more statements only after it has     *)
(* heard about all it handed over before, and none once it has exited; it  *)
(* reports success only when all have begun, and a refusal only when all   *)
(* it handed over have; and only an exit that speaks of the connection (3) *)
(* or of time (5) leaves open what will begin: any other is final.         *)
(***************************************************************************)
EXTENDS Integers

CONSTANT Clients

VARIABLES
  size,      \* statements of each script that are to be executed
  sent,      \* how many of them have been handed over
  begun,     \* how many of them have begun
  verdict    \* the exit code, or Pending

vars == <<size, sent, begun, verdict>>

Pending == -1

Init == /\ size \in [Clients -> Nat]
        /\ sent = [c \in Clients |-> 0]
        /\ begun = [c \in Clients |-> 0]
        /\ verdict = [c \in Clients |-> Pending]

HandOver(c, upTo) ==
  /\ verdict[c] = Pending
  /\ begun[c] = sent[c]
  /\ upTo \in sent[c] + 1 .. size[c]
  /\ sent' = [sent EXCEPT ![c] = upTo]
  /\ UNCHANGED <<size, begun, verdict>>

\* The exits after which the server may go on with what it was handed.
OpenEnded == {Pending, 3, 5}

Begin(c) ==
  /\ begun[c] < sent[c]
  /\ verdict[c] \in OpenEnded
  /\ begun' = [begun EXCEPT ![c] = begun[c] + 1]
  /\ UNCHANGED <<size, sent, verdict>>

Report(c, code) ==
  /\ verdict[c] = Pending
  /\ code \in {0, 1} => begun[c] = size[c]
  /\ code = 2 => begun[c] = sent[c]
  /\ verdict' = [verdict EXCEPT ![c] = code]
  /\ UNCHANGED <<size, sent, begun>>

Next == \E c \in Clients :
          \/ \E upTo \in 1 .. size[c] : HandOver(c, upTo)
          \/ Begin(c)
          \/ \E code \in {0, 1, 2, 3, 4, 5} : Report(c, code)

Spec == Init /\ [][Next]_vars
============================================================================
