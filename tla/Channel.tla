------------------------------ MODULE Channel ------------------------------
(***************************************************************************)
(* What src/conn.rs promises its caller, without sockets or clocks: a      *)
(* channel is opened once, carries one request at a time, and ends with    *)
(* one exit code.  Which codes are possible depends on how far the caller  *)
(* got: nothing that fails before the login reply is a timeout, nothing    *)
(* that fails inside a round trip is a usage error, and the program ends   *)
(* well only between round trips.                                          *)
(***************************************************************************)
EXTENDS Naturals

CONSTANT MaxRequests         \* bound: round trips of one connection

VARIABLES
  stage,        \* "closed", "open", "waiting" or "ended"
  answered,     \* round trips answered so far
  verdict       \* exit code, Running until the program ends

vars == <<stage, answered, verdict>>

Running == 1                 \* no code path of the model exits with 1
Success == 0
Usage   == 2                 \* error::Kind::Usage
Connect == 3                 \* error::Kind::Connect
Query   == 4                 \* error::Kind::Query
Timeout == 5                 \* error::Kind::Timeout

Codes == {Running, Success, Usage, Connect, Query, Timeout}

Init == /\ stage = "closed"
        /\ answered = 0
        /\ verdict = Running

End(code) == /\ stage' = "ended"
             /\ verdict' = code
             /\ UNCHANGED answered

Establish == /\ stage = "closed"
             /\ stage' = "open"
             /\ UNCHANGED <<answered, verdict>>

Refuse == /\ stage = "closed"
          /\ \E code \in {Usage, Connect} : End(code)

Ask == /\ stage = "open"
       /\ answered < MaxRequests
       /\ stage' = "waiting"
       /\ UNCHANGED <<answered, verdict>>

\* A request too long for the wire format is refused before it is sent.
Oversize == stage = "open" /\ End(Usage)

Answer == /\ stage = "waiting"
          /\ stage' = "open"
          /\ answered' = answered + 1
          /\ UNCHANGED verdict

Break == /\ stage = "waiting"
         /\ \E code \in {Connect, Query, Timeout} : End(code)

Leave == stage = "open" /\ End(Success)

Next == Establish \/ Refuse \/ Ask \/ Oversize \/ Answer \/ Break \/ Leave

Spec == Init /\ [][Next]_vars
============================================================================
