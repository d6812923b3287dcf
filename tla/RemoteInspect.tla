---------------------------- MODULE RemoteInspect ----------------------------
(***************************************************************************)
(* The inspection of server functions before a --readonly query or script  *)
(* (src/cmd.rs, inspect_remote_funcs): a probe that the server runs as one *)
(* message walks the functions the source names, breadth first, and gives  *)
(* back the first whose displayed body holds a denied operation.           *)
(*                                                                         *)
(* A name is a model value; whether its value is a function (type 100 to   *)
(* 112), whether its body is denied and which names its body mentions are  *)
(* chosen at the start, for the server runs nothing else meanwhile.        *)
(*                                                                         *)
(* `mentions` is what the probe makes of a body, not what q makes of it: a *)
(* lambda's globals as they stand, and the words of the displayed text     *)
(* after lower-casing it and splitting it at dots too.  A projection that  *)
(* calls .db.Save by its text alone mentions `db` and `save`; that it may  *)
(* reach .db.Save is outside what the properties speak of.  So is what the *)
(* deny list does not know: `dirty` is what it finds in a body.            *)
(***************************************************************************)
EXTENDS Integers, FiniteSets, Sequences, SequencesExt

CONSTANTS
  Names,       \* q names: those the source mentions and those bodies mention
  MaxSteps     \* max_d * 20, with max_depth = 5 at both call sites

NoName == "no name"

ASSUME NamesAssumption == IsFiniteSet(Names) /\ NoName \notin Names
ASSUME StepsAssumption == MaxSteps \in Nat

VARIABLES
  fn,          \* the names whose value is a function
  dirty,       \* the functions with a denied operation
  mentions,    \* the names each body mentions: globals and tokens
  roots,       \* extract_candidate_func_names of the source
  visited, queue, steps, violator,  \* the probe's locals
  verdict      \* what the client makes of the reply

definitions == <<fn, dirty, mentions, roots>>
probe == <<visited, queue, steps, violator>>
vars  == <<definitions, probe, verdict>>

\* sub: the mentioned names that are functions; only a function has a body.
Callees(n) == IF n \in fn THEN mentions[n] \cap fn ELSE {}

Init ==
  /\ fn \in SUBSET Names
  /\ dirty \in SUBSET fn
  /\ mentions \in [Names -> SUBSET Names]
  /\ roots \in SUBSET Names
  /\ visited = {}
  /\ queue \in SetToSeqs(roots)
  /\ steps = 0
  /\ violator = NoName
  /\ verdict = "none"

\* The while condition.
Continue == steps < MaxSteps /\ queue # <<>> /\ violator = NoName

\* Mutant: functions already inspected are queued again.
FreshAgain(curr) == Callees(curr) \ Range(Tail(queue))

\* Mutant: calls made by functions that are not named in the source are
\* not followed.
FreshOfRoots(curr) ==
  IF curr \in roots THEN Callees(curr) \ (visited \cup {curr} \cup Range(Tail(queue))) ELSE {}

\* The functions curr calls that are neither queued nor visited, appended in
\* the order in which its body happens to mention them.
Fresh(curr) == Callees(curr) \ (visited \cup {curr} \cup Range(Tail(queue)))

Inspect(curr) ==
  /\ visited' = visited \cup {curr}
  /\ violator' = IF curr \in dirty THEN curr ELSE violator
  /\ \E new \in SetToSeqs(Fresh(curr)) : queue' = Tail(queue) \o new

Skip == queue' = Tail(queue) /\ UNCHANGED <<visited, violator>>

Step ==
  /\ verdict = "none" /\ Continue
  /\ IF Head(queue) \in visited THEN Skip ELSE Inspect(Head(queue))
  /\ steps' = steps + 1
  /\ UNCHANGED <<definitions, verdict>>

\* Mutant: an inspection cut short refuses as if it had found something.
ClientVerdictFailClosed == IF violator # NoName \/ queue # <<>> THEN "blocked" ELSE "clean"

\* A non-empty name refuses the source; any other reply lets it through.
ClientVerdict == IF violator # NoName THEN "blocked" ELSE "clean"

Conclude ==
  /\ verdict = "none" /\ ~Continue
  /\ verdict' = ClientVerdict
  /\ UNCHANGED <<definitions, probe>>

Next == Step \/ Conclude

Spec == Init /\ [][Next]_vars
------------------------------------------------------------------------------
\* Every variable has its type.
TypeOK ==
  /\ fn \subseteq Names /\ dirty \subseteq fn
  /\ mentions \in [Names -> SUBSET Names]
  /\ roots \subseteq Names
  /\ visited \subseteq Names
  /\ queue \in Seq(Names)
  /\ steps \in 0 .. MaxSteps
  /\ violator \in Names \cup {NoName}
  /\ verdict \in {"none", "clean", "blocked"}

\* A set of names is closed if it holds the source's names and, with a
\* function, those it mentions; what can be reached is in all of them.
Closed(S) == roots \subseteq S /\ \A n \in S : Callees(n) \subseteq S
Reachable == {n \in Names : \A S \in SUBSET Names : Closed(S) => n \in S}

\* Each name is inspected at most once, so the budget counts names and a
\* cycle of calls cannot use it up.
NothingInspectedTwice ==
  /\ \A i \in DOMAIN queue : queue[i] \notin visited
  /\ \A i, j \in DOMAIN queue : queue[i] = queue[j] => i = j
  /\ steps = Cardinality(visited)

\* A source is let through only if no function it can reach is denied, or if
\* the budget ran out with names still to inspect (cmd.rs:825): the walk
\* misses nothing else of what the bodies mention.
CleanUnlessOutOfBudget ==
  verdict = "clean" =>
    \/ Reachable \cap dirty = {}
    \/ steps = MaxSteps /\ queue # <<>>

\* A refusal names a denied function that the source reaches by such mentions
\* (cmd.rs:860): the walk never blames a function outside the call chain.
BlockedIsJustified ==
  verdict = "blocked" => violator \in Reachable \cap dirty

\* The budget runs out only if the source reaches more names than it allows.
BudgetSuffices ==
  Cardinality(Reachable) <= MaxSteps =>
    (verdict = "clean" => Reachable \cap dirty = {})
==============================================================================
