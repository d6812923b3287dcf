-------------------------------- MODULE Alias --------------------------------
(***************************************************************************)
(* config::resolve_conn and resolve_alias (src/config.rs): a <conn> is a   *)
(* literal host:port or the name of a profile, whose value is a literal or *)
(* the name of another.  This module has the steps of the resolution;      *)
(* Dispatch says when it is done.                                          *)
(*                                                                         *)
(* The profiles are any function: hand-written files can hold chains that  *)
(* are long, that end nowhere, or that go round.                           *)
(***************************************************************************)
EXTENDS Integers, Sequences

CONSTANTS
  Tokens,        \* texts that may be arguments, profile names or values
  Literals,      \* those that contain a colon
  Bare,          \* each without the @ it may begin with
  Empty,         \* the empty text
  Default,       \* the text "default"
  NoServer,      \* stands for the lack of an entry
  MaxRedirects   \* the 16 of config.rs:172

ASSUME AliasAssumption ==
  /\ Literals \subseteq Tokens
  /\ Bare \in [Tokens -> Tokens]
  /\ Empty \in Tokens /\ Default \in Tokens
  /\ NoServer \notin Tokens
  /\ MaxRedirects \in Nat

VARIABLES
  servers,    \* the merged profiles
  origin,     \* history: the first name looked up
  hops,       \* redirects followed
  visited,    \* names looked up
  trail,      \* history: the values found, the last one last
  outcome,    \* how far the resolution is, or how it ended
  target      \* the literal that <conn> resolved to

alias == <<servers, origin, hops, visited, trail, outcome, target>>

Refusals == {"unconfigured", "undefined", "redirects"}

ServerMaps == [Tokens -> Tokens \cup {NoServer}]

AliasInit ==
  /\ servers = [t \in Tokens |-> NoServer]
  /\ origin = Empty
  /\ hops = 0
  /\ visited = {}
  /\ trail = <<>>
  /\ outcome = "unresolved"
  /\ target = Empty

\* A token without its @ that contains a colon needs no profile.
IsLiteral(token) == Bare[token] \in Literals

\* What is looked up for a token; both functions take an @ off.
Wanted(token) == IF Bare[token] = Empty THEN Default ELSE Bare[Bare[token]]

ResolveLiteral(token) ==
  /\ IsLiteral(token)
  /\ outcome' = "resolved"
  /\ target' = Bare[token]
  /\ UNCHANGED <<servers, origin, hops, visited, trail>>

\* load_merged finds no profiles.
Unconfigured(token) ==
  /\ ~IsLiteral(token)
  /\ outcome' = "unconfigured"
  /\ UNCHANGED <<servers, origin, hops, visited, trail, target>>

\* The value of a name, or the lack of one.
LookUp(map, name, seen) ==
  IF map[name] = NoServer
    THEN /\ outcome' = "undefined"
         /\ UNCHANGED target
         /\ trail' = seen
    ELSE /\ outcome' = IF map[name] \in Literals THEN "resolved" ELSE "resolving"
         /\ target' = IF map[name] \in Literals THEN map[name] ELSE target
         /\ trail' = Append(seen, map[name])

FirstLookup(token, map) ==
  /\ ~IsLiteral(token)
  /\ servers' = map
  /\ origin' = Wanted(token)
  /\ hops' = 0
  /\ visited' = {Wanted(token)}
  /\ LookUp(map, Wanted(token), <<>>)

\* The name that the last value found redirects to.
NextName == Bare[trail[Len(trail)]]

\* Mutant: one redirect fewer.
TooManyEarly == hops + 1 >= MaxRedirects

TooMany == hops + 1 > MaxRedirects

Revisited == NextName \in visited

Redirect ==
  /\ outcome = "resolving"
  /\ hops' = hops + 1
  /\ IF TooMany \/ Revisited
       THEN /\ outcome' = "redirects"
            /\ UNCHANGED <<visited, trail, target>>
       ELSE /\ visited' = visited \cup {NextName}
            /\ LookUp(servers, NextName, trail)
  /\ UNCHANGED <<servers, origin>>
------------------------------------------------------------------------------
\* The trail is what the profiles say, from the first name on, and only its
\* last value may be a literal.
TrailIsTrue ==
  /\ Len(trail) > 0 => trail[1] = servers[origin]
  /\ \A i \in 1 .. Len(trail) - 1 :
       trail[i] \notin Literals /\ trail[i + 1] = servers[Bare[trail[i]]]

\* The names lead to one another and never to a literal.
Circular(names) ==
  \A n \in names : servers[n] \in Tokens \ Literals /\ Bare[servers[n]] \in names

\* A name resolves to the literal its chain of profiles ends in, if that takes
\* no more than MaxRedirects redirects.  It is refused as undefined where its
\* chain breaks, and as a cycle or too long only if it really goes round or
\* really is longer (config.rs:169): no chain is cut short by the memory of
\* names already seen.
AliasVerdict ==
  /\ outcome = "resolved" /\ Len(trail) > 0 =>
       /\ TrailIsTrue /\ Len(trail) <= MaxRedirects + 1
       /\ target = trail[Len(trail)] /\ target \in Literals
  /\ outcome = "undefined" =>
       /\ TrailIsTrue /\ Len(trail) <= MaxRedirects
       /\ servers[IF trail = <<>> THEN origin ELSE NextName] = NoServer
  /\ outcome = "redirects" =>
       /\ TrailIsTrue /\ trail[Len(trail)] \notin Literals
       /\ \/ Len(trail) = MaxRedirects + 1
          \/ origin \in visited /\ Circular(visited)
==============================================================================
