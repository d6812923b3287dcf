--------------------------- MODULE DispatchProofs ---------------------------
(***************************************************************************)
(* The way from the command line to the server, for any arguments, any     *)
(* profile files and any limit on redirects.                               *)
(***************************************************************************)
EXTENDS Dispatch, TLAPS

\* While names are followed: the chain so far, and how the names seen lead to
\* one another or to the next one.
Following ==
  /\ TrailIsTrue
  /\ trail # <<>> /\ Len(trail) = hops + 1 /\ hops <= MaxRedirects
  /\ trail[Len(trail)] \in Tokens \ Literals
  /\ origin \in visited
  /\ \A n \in visited : servers[n] \in Tokens \ Literals
                        /\ (Bare[servers[n]] \in visited \/ Bare[servers[n]] = NextName)

Chained ==
  /\ outcome \in {"unresolved", "unconfigured"} => trail = <<>>
  /\ outcome = "resolving" => Following
  /\ AliasVerdict

LEMMA ArgTyped ==
  ASSUME pos \in Seq(Tokens), NEW i \in Nat \ {0}
  PROVE  Arg(i) \in Tokens
BY AliasAssumption DEF Arg

LEMMA LookUpTypes ==
  ASSUME NEW map \in ServerMaps, NEW name \in Tokens, NEW seen \in Seq(Tokens),
         target \in Tokens, LookUp(map, name, seen)
  PROVE  /\ outcome' \in {"undefined", "resolved", "resolving"}
         /\ target' \in Tokens /\ trail' \in Seq(Tokens)
<1>1. CASE map[name] = NoServer
  BY <1>1 DEF LookUp
<1>2. CASE map[name] # NoServer
  <2>1. map[name] \in Tokens
    BY <1>2 DEF ServerMaps
  <2> QED
    BY <1>2, <2>1 DEF LookUp
<1> QED
  BY <1>1, <1>2

\* What each step of the resolution may do to its variables.
LEMMA ResolutionTypes ==
  ASSUME TypeOK, Chained, Resolve \/ Follow
  PROVE  TypeOK'
<1> SUFFICES
       /\ servers' \in ServerMaps /\ origin' \in Tokens
       /\ hops' \in Nat /\ visited' \subseteq Tokens /\ trail' \in Seq(Tokens)
       /\ outcome' \in {"unresolved", "resolving", "resolved"} \cup Refusals
       /\ target' \in Tokens
  BY DEF TypeOK, Resolve, Follow, main
<1> USE AliasAssumption DEF TypeOK, Refusals
<1>1. ASSUME ResolveLiteral(request.conn) \/ Unconfigured(request.conn)
      PROVE  /\ UNCHANGED <<servers, origin, hops, visited, trail>>
             /\ outcome' \in {"resolved", "unconfigured"}
             /\ target' \in Tokens
  BY <1>1 DEF ResolveLiteral, Unconfigured
<1>2. ASSUME NEW map \in Maps, FirstLookup(request.conn, map)
      PROVE  /\ servers' \in ServerMaps /\ origin' \in Tokens /\ hops' = 0
             /\ visited' \subseteq Tokens /\ trail' \in Seq(Tokens)
             /\ outcome' \in {"undefined", "resolved", "resolving"} /\ target' \in Tokens
  <2>1. map \in ServerMaps /\ Wanted(request.conn) \in Tokens /\ <<>> \in Seq(Tokens)
    BY DispatchAssumption DEF Wanted
  <2> QED
    BY <1>2, <2>1, LookUpTypes DEF FirstLookup
<1>3. ASSUME Redirect, trail # <<>>
      PROVE  /\ UNCHANGED <<servers, origin>> /\ hops' \in Nat
             /\ visited' \subseteq Tokens /\ trail' \in Seq(Tokens)
             /\ outcome' \in {"redirects", "undefined", "resolved", "resolving"}
             /\ target' \in Tokens
  <2>1. NextName \in Tokens
    BY <1>3 DEF NextName
  <2>2. CASE TooMany \/ Revisited
    BY <1>3, <2>2 DEF Redirect
  <2>3. CASE ~(TooMany \/ Revisited)
    BY <1>3, <2>1, <2>3, LookUpTypes DEF Redirect
  <2> QED
    BY <2>2, <2>3
<1> QED
  <2>1. CASE Follow
    <3>1. Redirect /\ trail # <<>>
      BY <2>1 DEF Follow, Redirect, Chained, Following
    <3> QED
      BY <1>3, <3>1
  <2>2. CASE ResolveLiteral(request.conn) \/ Unconfigured(request.conn)
    BY <1>1, <2>2
  <2>3. CASE \E map \in Maps : FirstLookup(request.conn, map)
    BY <1>2, <2>3
  <2> QED
    BY <2>1, <2>2, <2>3 DEF Resolve

LEMMA FirstLookupChains ==
  ASSUME TypeOK, NEW token \in Tokens, NEW map \in Maps, FirstLookup(token, map)
  PROVE  Chained'
<1> DEFINE name == Wanted(token)
<1>1. /\ servers' = map /\ origin' = name /\ hops' = 0 /\ visited' = {name}
      /\ LookUp(map, name, <<>>)
      /\ name \in Tokens /\ map \in ServerMaps /\ MaxRedirects \in Nat
  BY AliasAssumption, DispatchAssumption DEF FirstLookup, Wanted
<1> HIDE DEF name
<1>2. CASE map[name] = NoServer
  <2>1. outcome' = "undefined" /\ trail' = <<>>
    BY <1>1, <1>2 DEF LookUp
  <2> QED
    BY <1>1, <1>2, <2>1 DEF Chained, AliasVerdict, TrailIsTrue
<1>3. CASE map[name] # NoServer
  <2>1. trail' = <<map[name]>> /\ map[name] \in Tokens
    BY <1>1, <1>3 DEF LookUp, ServerMaps
  <2>2. trail' # <<>> /\ Len(trail') = 1 /\ trail'[1] = map[name] /\ TrailIsTrue'
    BY <1>1, <2>1 DEF TrailIsTrue
  <2>3. CASE map[name] \in Literals
    <3>1. outcome' = "resolved" /\ target' = map[name]
      BY <1>1, <1>3, <2>3 DEF LookUp
    <3> QED
      BY <1>1, <2>2, <2>3, <3>1 DEF Chained, AliasVerdict
  <2>4. CASE map[name] \notin Literals
    <3>1. outcome' = "resolving"
      BY <1>1, <1>3, <2>4 DEF LookUp
    <3>2. Following'
      BY <1>1, <2>1, <2>2, <2>4 DEF Following, NextName
    <3> QED
      BY <3>1, <3>2 DEF Chained, AliasVerdict
  <2> QED
    BY <2>3, <2>4
<1> QED
  BY <1>2, <1>3

LEMMA RedirectChains ==
  ASSUME TypeOK, Chained, Redirect
  PROVE  Chained'
<1>1. /\ Following /\ trail \in Seq(Tokens) /\ servers \in ServerMaps
      /\ servers' = servers /\ origin' = origin /\ hops' = hops + 1 /\ hops \in Nat
      /\ MaxRedirects \in Nat
  BY AliasAssumption DEF Redirect, Chained, TypeOK
<1>2. NextName \in Tokens
  BY <1>1, AliasAssumption DEF Following, NextName
<1>3. CASE TooMany \/ Revisited
  <2>1. outcome' = "redirects" /\ visited' = visited /\ trail' = trail
    BY <1>3 DEF Redirect
  <2>2. TrailIsTrue' /\ trail'[Len(trail')] \notin Literals
    BY <1>1, <2>1 DEF Following, TrailIsTrue
  <2>3. TooMany => Len(trail') = MaxRedirects + 1
    BY <1>1, <2>1 DEF Following, TooMany
  <2>4. Revisited => origin' \in visited' /\ Circular(visited)'
    BY <1>1, <2>1 DEF Following, Revisited, Circular
  <2> QED
    BY <1>3, <2>1, <2>2, <2>3, <2>4 DEF Chained, AliasVerdict
<1>4. CASE ~TooMany /\ ~Revisited
  <2> DEFINE found == servers[NextName]
  <2>1. /\ visited' = visited \cup {NextName}
        /\ LookUp(servers, NextName, trail)
        /\ hops + 1 <= MaxRedirects
    BY <1>1, <1>4 DEF Redirect, TooMany
  <2>2. CASE found = NoServer
    <3>1. outcome' = "undefined" /\ trail' = trail
      BY <2>1, <2>2 DEF LookUp
    <3>2. TrailIsTrue' /\ Len(trail') <= MaxRedirects /\ trail' # <<>>
      BY <1>1, <2>1, <3>1 DEF Following, TrailIsTrue
    <3>3. NextName' = NextName
      BY <3>1 DEF NextName
    <3> QED
      BY <1>1, <2>2, <3>1, <3>2, <3>3 DEF Chained, AliasVerdict
  <2>3. CASE found # NoServer
    <3>1. trail' = Append(trail, found) /\ found \in Tokens
      BY <1>1, <1>2, <2>1, <2>3 DEF LookUp, ServerMaps
    <3>2. /\ trail' # <<>> /\ Len(trail') = Len(trail) + 1 /\ trail'[Len(trail')] = found
          /\ \A i \in 1 .. Len(trail) : trail'[i] = trail[i]
          /\ Len(trail) \in Nat
      BY <1>1, <3>1
    <3>3. TrailIsTrue'
      <4>1. TrailIsTrue /\ Len(trail) >= 1 /\ trail[Len(trail)] \notin Literals
            /\ found = servers[Bare[trail[Len(trail)]]]
        BY <1>1 DEF Following, NextName
      <4>2. trail'[1] = servers'[origin']
        BY <1>1, <3>2, <4>1 DEF TrailIsTrue
      <4>3. ASSUME NEW i \in 1 .. Len(trail') - 1
            PROVE  trail'[i] \notin Literals /\ trail'[i + 1] = servers[Bare[trail'[i]]]
        <5>1. CASE i = Len(trail)
          BY <3>2, <4>1, <5>1
        <5>2. CASE i # Len(trail)
          <6>1. i \in 1 .. Len(trail) - 1 /\ i \in 1 .. Len(trail) /\ i + 1 \in 1 .. Len(trail)
            BY <3>2, <4>3, <5>2
          <6> QED
            BY <3>2, <4>1, <6>1 DEF TrailIsTrue
        <5> QED
          BY <5>1, <5>2
      <4> QED
        BY <1>1, <4>2, <4>3 DEF TrailIsTrue
    <3>4. Len(trail') = hops' + 1 /\ hops' <= MaxRedirects
      BY <1>1, <2>1, <3>2 DEF Following
    <3>5. CASE found \in Literals
      <4>1. outcome' = "resolved" /\ target' = found
        BY <2>1, <2>3, <3>5 DEF LookUp
      <4> QED
        BY <1>1, <3>2, <3>3, <3>4, <3>5, <4>1 DEF Chained, AliasVerdict
    <3>6. CASE found \notin Literals
      <4>1. outcome' = "resolving"
        BY <2>1, <2>3, <3>6 DEF LookUp
      <4>2. NextName' = Bare[found]
        BY <3>2 DEF NextName
      <4>3. \A n \in visited' : servers[n] \in Tokens \ Literals
              /\ (Bare[servers[n]] \in visited' \/ Bare[servers[n]] = NextName')
        BY <1>1, <2>1, <3>1, <3>6, <4>2 DEF Following
      <4>4. origin' \in visited'
        BY <1>1, <2>1 DEF Following
      <4>5. Following'
        BY <1>1, <3>1, <3>2, <3>3, <3>4, <3>6, <4>3, <4>4 DEF Following
      <4> QED
        BY <4>1, <4>5 DEF Chained, AliasVerdict
    <3> QED
      BY <3>5, <3>6
  <2> QED
    BY <2>2, <2>3
<1> QED
  BY <1>3, <1>4

LEMMA ResolutionChains ==
  ASSUME TypeOK, Chained, Resolve \/ Follow
  PROVE  Chained'
<1>1. request.conn \in Tokens
  BY DEF TypeOK
<1>2. ASSUME Resolve, ResolveLiteral(request.conn) \/ Unconfigured(request.conn) PROVE Chained'
  BY <1>2 DEF Resolve, ResolveLiteral, Unconfigured, Chained, AliasVerdict
<1> QED
  BY <1>1, <1>2, FirstLookupChains, RedirectChains DEF Resolve, Follow
------------------------------------------------------------------------------
Early == {"options", "literal", "dispatch"}
Late  == {"prepare", "resolve", "contact"}

Connecting == Acting \cup {"ping"}
Scanned == Scripted \cup {"run", "gc"}

\* The arguments have been accepted, and something may have been done.
OnItsWay == pc \in Late \/ outcome # "unresolved" \/ request.do \in Local

Underway ==
  /\ pc \in Early =>
       request = Nothing /\ outcome = "unresolved" /\ ~prepared /\ ~stdin
  /\ pc = "dispatch" \/ OnItsWay => ("project" \in flags => Mode = "config")
  /\ OnItsWay => ~BadArguments
  /\ pc \in Late =>
       /\ Mode \notin Local
       /\ IF Mode \in Acting THEN request.do = Action /\ request.conn = Arg(ConnAt)
                             ELSE request.do = "text"
  /\ prepared =>
       /\ ~CannotPrepare
       /\ "readonly" \in flags /\ Mode \in Scanned => request.scanned
  /\ pc = "prepare" => Mode \notin Connecting /\ (FromStdin => outcome = "resolved")
  /\ pc = "resolve" \/ outcome # "unresolved" => Mode \in Connecting \/ FromStdin \/ prepared
  /\ pc = "contact" => Mode \in Connecting \/ prepared
  /\ stdin => outcome = "resolved"

IInv == TypeOK /\ Chained /\ Underway

\* What the arguments mean stays what it is.
LEMMA SameArguments ==
  ASSUME pos' = pos, flags' = flags
  PROVE  /\ Mode' = Mode /\ Action' = Action /\ Arg(ConnAt)' = Arg(ConnAt)
         /\ BadArguments' <=> BadArguments
         /\ CannotPrepare' <=> CannotPrepare
         /\ FromStdin' <=> FromStdin
<1>1. Mode' = Mode /\ \A i : Arg(i)' = Arg(i)
  BY DEF Mode, Arg
<1>2. Action' = Action /\ ConnAt' = ConnAt
  BY <1>1 DEF Action, ConnAt, Mode, Arg
<1>3. TakesFlags' <=> TakesFlags
  BY <1>1 DEF TakesFlags
<1>4. ReadonlyAllows' <=> ReadonlyAllows
  BY <1>2 DEF ReadonlyAllows
<1>5. FromStdin' <=> FromStdin
  BY <1>1 DEF FromStdin
<1> QED
  BY <1>1, <1>2, <1>3, <1>4, <1>5 DEF BadArguments, CannotPrepare, Arg

LEMMA SameChain ==
  ASSUME Chained, alias' = alias
  PROVE  Chained'
BY DEF Chained, AliasVerdict, Following, TrailIsTrue, Circular, NextName, alias

\* Reading options and arguments.
LEMMA EarlyStep ==
  ASSUME IInv,
         \/ \E f \in Options : GiveFlag(f)
         \/ BadLimit \/ Inform \/ EndOptions
         \/ \E a \in First \cup Later : Positional(a)
         \/ EndArguments
  PROVE  IInv'
<1>1. /\ pc \in Early /\ request = Nothing /\ outcome = "unresolved" /\ ~prepared /\ ~stdin
      /\ alias' = alias /\ request' = request /\ prepared' = prepared /\ stdin' = stdin
      /\ outcome' = outcome
      /\ TypeOK /\ Chained
  BY DEF IInv, Underway, Early, GiveFlag, BadLimit, Inform, EndOptions, Positional, EndArguments,
         Refuse, Exit, Goto, alias
<1>2. /\ flags' \subseteq Flags /\ pos' \in Seq(Tokens)
      /\ pc' \in {"options", "literal", "dispatch", "exited"}
      /\ code' \in {Running, 0, 1, Usage, 3, 4, 5}
  <2>1. /\ flags \subseteq Flags /\ pos \in Seq(Tokens)
        /\ pc \in {"options", "literal", "dispatch", "exited"}
        /\ code \in {Running, 0, 1, Usage, 3, 4, 5}
    BY <1>1 DEF TypeOK, Early
  <2>2. ASSUME NEW f \in Options, GiveFlag(f)
        PROVE  flags' \subseteq Flags /\ UNCHANGED <<pos, pc, code>>
    BY <2>1, <2>2, DispatchAssumption DEF GiveFlag
  <2>3. ASSUME Refuse \/ Inform
        PROVE  UNCHANGED <<pos, flags>> /\ pc' = "exited" /\ code' \in {0, Usage}
    BY <2>3 DEF Refuse, Inform, Exit
  <2>4. ASSUME Goto("literal") \/ Goto("dispatch")
        PROVE  UNCHANGED <<pos, flags, code>> /\ pc' \in {"literal", "dispatch"}
    BY <2>4 DEF Goto
  <2>5. ASSUME NEW a \in First \cup Later, Positional(a), ~Refuse
        PROVE  UNCHANGED <<flags, pc, code>> /\ pos' \in Seq(Tokens)
    BY <2>1, <2>5, DispatchAssumption DEF Positional
  <2> QED
    BY <2>1, <2>2, <2>3, <2>4, <2>5 DEF BadLimit, EndOptions, EndArguments
<1>3. TypeOK'
  BY <1>1, <1>2 DEF TypeOK, alias
<1>4. pc' = "dispatch" => ("project" \in flags' => Mode' = "config")
  BY <1>1, <1>2
     DEF TypeOK, GiveFlag, BadLimit, Inform, EndOptions, Positional, EndArguments,
         Refuse, Exit, Goto, Mode, Arg
<1>5. Underway'
  BY <1>1, <1>2, <1>4 DEF Underway, Nothing, OnItsWay, Late, Early, Local
<1> QED
  BY <1>1, <1>3, <1>5, SameChain DEF IInv

LEMMA ActionTyped ==
  ASSUME TypeOK
  PROVE  Arg(2) \in Tokens /\ Action \in Tokens /\ Arg(ConnAt) \in Tokens
BY ArgTyped DEF TypeOK, Action, ConnAt

\* The command is found, and what it needs before a server is known.
LEMMA DispatchStep ==
  ASSUME IInv, RefuseArguments \/ RunLocally \/ Begin
  PROVE  IInv'
<1>1. /\ pc = "dispatch" /\ request = Nothing /\ outcome = "unresolved" /\ ~prepared /\ ~stdin
      /\ "project" \in flags => Mode = "config"
      /\ alias' = alias /\ outcome' = outcome /\ pos' = pos /\ flags' = flags
      /\ prepared' = prepared /\ stdin' = stdin
      /\ TypeOK /\ Chained
  BY DEF IInv, Underway, Early, RefuseArguments, RunLocally, Begin, Refuse, Exit, Goto, alias
<1>2. Chained'
  BY <1>1, SameChain
<1>3. CASE RefuseArguments
  <2>1. pc' = "exited" /\ code' = Usage /\ request' = request
    BY <1>3 DEF RefuseArguments, Refuse, Exit
  <2>2. TypeOK'
    BY <1>1, <2>1 DEF TypeOK, alias
  <2>3. Underway'
    BY <1>1, <2>1 DEF Underway, OnItsWay, Late, Early, Nothing, Local
  <2> QED
    BY <1>2, <2>2, <2>3 DEF IInv
<1>4. CASE RunLocally
  <2>1. pc' = "exited" /\ code' \in {0, 1, Usage, 3} /\ ~BadArguments
        /\ Mode \in {"config", "update"}
        /\ request' = [do |-> Mode, conn |-> Empty, scanned |-> FALSE]
    BY <1>4 DEF RunLocally, Do, Local
  <2>2. TypeOK'
    BY <1>1, <2>1, AliasAssumption DEF TypeOK, alias
  <2>3. Underway'
    BY <1>1, <2>1, SameArguments DEF Underway, OnItsWay, Late, Early
  <2> QED
    BY <1>2, <2>2, <2>3 DEF IInv
<1>5. CASE Begin
  <2>1. pc' = IF ResolvedFirst THEN "resolve" ELSE "prepare"
    BY <1>5 DEF Begin, Goto
  <2>2. ~BadArguments /\ Mode \notin Local /\ code' = code
    BY <1>5 DEF Begin, Goto
  <2>3. request' = IF Mode \in Acting
                     THEN [do |-> Action, conn |-> Arg(ConnAt), scanned |-> FALSE]
                     ELSE [do |-> "text", conn |-> Arg(2), scanned |-> FALSE]
    BY <1>5 DEF Begin, Do
  <2>4. TypeOK'
    BY <1>1, <2>1, <2>2, <2>3, ActionTyped DEF TypeOK, alias
  <2>5. /\ IF Mode \in Acting THEN request'.do = Action /\ request'.conn = Arg(ConnAt)
                              ELSE request'.do = "text"
        /\ pc' \notin Early /\ pc' # "contact"
        /\ pc' = "prepare" => Mode \notin Connecting /\ ~FromStdin
        /\ pc' = "resolve" => Mode \in Connecting \/ FromStdin
    BY <2>1, <2>3 DEF ResolvedFirst, Connecting, Early
  <2>6. Underway'
    BY <1>1, <2>2, <2>5, SameArguments DEF Underway, OnItsWay
  <2> QED
    BY <1>2, <2>4, <2>6 DEF IInv
<1> QED
  BY <1>3, <1>4, <1>5

LEMMA PrepareStep ==
  ASSUME IInv, PrepareFails \/ PrepareOk
  PROVE  IInv'
<1>1. /\ pc = "prepare" /\ Mode \notin Connecting /\ (FromStdin => outcome = "resolved")
      /\ "project" \in flags => Mode = "config"
      /\ ~BadArguments /\ Mode \notin Local
      /\ outcome # "unresolved" => FromStdin \/ prepared
      /\ IF Mode \in Acting THEN request.do = Action /\ request.conn = Arg(ConnAt)
                            ELSE request.do = "text"
      /\ alias' = alias /\ outcome' = outcome /\ pos' = pos /\ flags' = flags
      /\ stdin' = FromStdin
      /\ TypeOK /\ Chained
  BY DEF IInv, Underway, OnItsWay, Late, PrepareFails, PrepareOk, alias
<1>2. Chained'
  BY <1>1, SameChain
<1>3. stdin' \in BOOLEAN /\ (stdin' => outcome' = "resolved")
  BY <1>1 DEF FromStdin
<1>4. CASE PrepareFails
  <2>1. pc' = "exited" /\ code' = Usage /\ request' = request /\ prepared' = prepared
    BY <1>4 DEF PrepareFails
  <2>2. TypeOK'
    BY <1>1, <1>3, <2>1 DEF TypeOK, alias
  <2>3. Underway'
    BY <1>1, <1>3, <2>1, SameArguments DEF IInv, Underway, OnItsWay, Late, Early
  <2> QED
    BY <1>2, <2>2, <2>3 DEF IInv
<1>5. CASE PrepareOk
  <2>1. /\ pc' \in {"contact", "resolve"} /\ code' = code /\ prepared' = TRUE
        /\ ~CannotPrepare
    BY <1>5 DEF PrepareOk
  <2>2. /\ request'.do = request.do /\ request'.conn = request.conn
        /\ "readonly" \in flags /\ Mode \in Scanned => request'.scanned
    BY <1>1, <1>5 DEF PrepareOk, Scanned, TypeOK
  <2>3. TypeOK'
    <3>1. request' \in [do : Tokens \cup {"nothing", "text", "config", "update"},
                        conn : Tokens, scanned : BOOLEAN]
      BY <1>1, <1>5 DEF PrepareOk, TypeOK
    <3> QED
      BY <1>1, <1>3, <2>1, <3>1 DEF TypeOK, alias
  <2>4. Underway'
    BY <1>1, <1>3, <2>1, <2>2, SameArguments DEF Underway, Late, Early
  <2> QED
    BY <1>2, <2>3, <2>4 DEF IInv
<1> QED
  BY <1>4, <1>5

\* The connection is resolved, and used.
LEMMA ResolveStep ==
  ASSUME IInv, Resolve \/ Follow
  PROVE  IInv'
<1>1. /\ pc = "resolve" /\ UNCHANGED main
      /\ outcome \in {"unresolved", "resolving"} /\ ~stdin
      /\ TypeOK /\ Chained
  BY DEF IInv, Underway, Resolve, Follow, Redirect
<1>2. Underway'
  BY <1>1, SameArguments DEF IInv, Underway, OnItsWay, Late, Early, main
<1> QED
  BY <1>1, <1>2, ResolutionTypes, ResolutionChains DEF IInv

LEMMA LateStep ==
  ASSUME IInv, ResolveFails \/ Resolved \/ Contact
  PROVE  IInv'
<1>1. /\ pc \in Late /\ alias' = alias /\ outcome' = outcome /\ pos' = pos /\ flags' = flags
      /\ prepared' = prepared /\ stdin' = stdin /\ request' = request
      /\ TypeOK /\ Chained
  BY DEF IInv, ResolveFails, Resolved, Contact, Refuse, Exit, Goto, Late, alias
<1>2. Chained'
  BY <1>1, SameChain
<1>3. CASE ResolveFails \/ Contact
  <2>1. pc' = "exited" /\ code' \in {0, 1, Usage, 3, 4, 5}
    BY <1>3 DEF ResolveFails, Contact, Refuse, Exit
  <2>2. TypeOK'
    BY <1>1, <2>1 DEF TypeOK, alias
  <2>3. Underway'
    BY <1>1, <2>1, SameArguments DEF IInv, Underway, OnItsWay, Late, Early
  <2> QED
    BY <1>2, <2>2, <2>3 DEF IInv
<1>4. CASE Resolved
  <2>1. /\ pc' = (IF FromStdin /\ ~prepared THEN "prepare" ELSE "contact") /\ code' = code
        /\ pc = "resolve" /\ outcome = "resolved"
    BY <1>4 DEF Resolved, Goto
  <2>2. TypeOK'
    BY <1>1, <2>1 DEF TypeOK, alias
  <2>3. /\ pc' = "prepare" => Mode \notin Connecting
        /\ pc' = "contact" => Mode \in Connecting \/ prepared
    BY <2>1 DEF IInv, Underway, FromStdin, Connecting, Acting, Scripted
  <2>4. Underway'
    BY <1>1, <2>1, <2>3, SameArguments DEF IInv, Underway, OnItsWay, Late, Early
  <2> QED
    BY <1>2, <2>2, <2>4 DEF IInv
<1> QED
  BY <1>3, <1>4

LEMMA InvFirst == Init => IInv
<1> SUFFICES ASSUME Init PROVE IInv
  OBVIOUS
<1>1. TypeOK
  <2>1. servers \in ServerMaps /\ trail \in Seq(Tokens) /\ pos \in Seq(Tokens)
    BY DEF Init, AliasInit, ServerMaps
  <2>2. origin \in Tokens /\ hops \in Nat /\ visited \subseteq Tokens /\ target \in Tokens
        /\ outcome = "unresolved"
    BY AliasAssumption DEF Init, AliasInit
  <2>3. request \in [do : Tokens \cup {"nothing", "text", "config", "update"},
                     conn : Tokens, scanned : BOOLEAN]
    BY AliasAssumption DEF Init, Nothing
  <2>4. flags \subseteq Flags
    BY DEF Init, Flags
  <2> QED
    BY <2>1, <2>2, <2>3, <2>4 DEF Init, TypeOK
<1>2. Chained
  BY DEF Init, AliasInit, Chained, AliasVerdict
<1>3. Underway
  BY DEF Init, AliasInit, Underway, OnItsWay, Nothing, Late, Early, Local
<1> QED
  BY <1>1, <1>2, <1>3 DEF IInv

LEMMA InvKept ==
  ASSUME IInv, [Next]_vars
  PROVE  IInv'
<1>1. CASE UNCHANGED vars
  <2>1. alias' = alias /\ UNCHANGED main
    BY <1>1 DEF vars, alias, main
  <2>2. Chained' /\ TypeOK'
    BY <2>1, SameChain DEF IInv, TypeOK, alias, main
  <2>3. Underway'
    BY <2>1, SameArguments DEF IInv, Underway, OnItsWay, alias, main
  <2> QED
    BY <2>2, <2>3 DEF IInv
<1>2. CASE Next
  BY <1>2, EarlyStep, DispatchStep, PrepareStep, ResolveStep, LateStep DEF Next
<1> QED
  BY <1>1, <1>2

\* What the arguments have come to at any time.
THEOREM AlwaysUnderway == Spec => []IInv
<1>1. IInv /\ [Next]_vars => IInv'
  BY InvKept
<1> QED
  BY <1>1, InvFirst, PTL DEF Spec

\* Every variable has its type.
THEOREM DispatchTypeCorrect == Spec => []TypeOK
<1>1. IInv => TypeOK
  BY DEF IInv
<1> QED
  BY <1>1, AlwaysUnderway, PTL

\* Whatever the profile files hold and however many redirects are allowed, a
\* name resolves to the end of its chain, and a refusal is true of the files.
THEOREM VerdictsAreRight == Spec => []AliasVerdict
<1>1. IInv => AliasVerdict
  BY DEF IInv, Chained
<1> QED
  BY <1>1, AlwaysUnderway, PTL

\* No order of arguments and options gets past --readonly, or a flag into a
\* command that does not heed it.
THEOREM FlagsAlwaysHold == Spec => []FlagsHold
<1>1. IInv => FlagsHold
  <2>1. SUFFICES ASSUME IInv PROVE FlagsHold
    OBVIOUS
  <2>2. pc = "contact" \/ request.do \in Local =>
          ~BadArguments /\ ("project" \in flags => Mode = "config")
    BY <2>1 DEF IInv, Underway, OnItsWay, Late
  <2>3. ~BadArguments => TakesFlags /\ (Mode \in Acting => ReadonlyAllows)
    BY DEF BadArguments
  <2>4. pc = "contact" =>
          /\ IF Mode \in Acting THEN request.do = Action ELSE request.do = "text"
          /\ Mode \in Scanned /\ "readonly" \in flags => request.scanned
    BY <2>1 DEF IInv, Underway, Late, Scanned, Connecting, Acting, Scripted
  <2> QED
    BY <2>2, <2>3, <2>4 DEF FlagsHold, TakesFlags, ReadonlyAllows, Scanned, Scripted
<1> QED
  BY <1>1, AlwaysUnderway, PTL

\* The two arguments of web and trace mean the same in either order.
THEOREM OrderIsFree == Spec => []EitherOrder
<1>1. IInv => EitherOrder
  <2>1. SUFFICES ASSUME IInv, pc = "contact", Mode \in Acting
                 PROVE  IF Arg(2) \in Actions(Mode)
                          THEN request.do = Arg(2) /\ request.conn = Arg(3)
                          ELSE /\ request.do = Arg(3) /\ request.conn = Arg(2)
                               /\ Arg(3) \in Actions(Mode)
    BY DEF EitherOrder
  <2>2. request.do = Action /\ request.conn = Arg(ConnAt) /\ Action \in Actions(Mode)
    BY <2>1 DEF IInv, Underway, OnItsWay, Late, BadArguments
  <2>3. Arg(2) \in Actions(Mode) => ~LooksLikeConn(Arg(2))
    BY <2>1, ActionTyped, ActionsAssumption DEF IInv
  <2> QED
    BY <2>2, <2>3 DEF Action, ConnAt
<1> QED
  BY <1>1, AlwaysUnderway, PTL

\* Mistakes in the command are reported before a profile is looked up or
\* standard input is read.
THEOREM MistakesFirst == Spec => []UsageErrorsComeFirst
<1>1. IInv => UsageErrorsComeFirst
  <2>1. SUFFICES ASSUME IInv PROVE UsageErrorsComeFirst
    OBVIOUS
  <2>2. outcome # "unresolved" => ~BadArguments /\ (Mode \in Connecting \/ FromStdin \/ prepared)
    BY <2>1 DEF IInv, Underway, OnItsWay
  <2>3. (prepared => ~CannotPrepare) /\ (stdin => outcome = "resolved")
    BY <2>1 DEF IInv, Underway
  <2>4. Mode \in Connecting => ~CannotPrepare
    BY DEF Connecting, CannotPrepare, Acting, Bare0, Named, Scripted
  <2> QED
    BY <2>2, <2>3, <2>4 DEF UsageErrorsComeFirst, Connecting
<1> QED
  BY <1>1, AlwaysUnderway, PTL
=============================================================================
