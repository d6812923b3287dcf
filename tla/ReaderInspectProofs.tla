-------------------------- MODULE ReaderInspectProofs -------------------------
(***************************************************************************)
(* Proofs about RemoteInspect, for every call graph and every budget: the  *)
(* walk is sound (it refuses only what the source reaches), complete up to *)
(* its budget (it lets through nothing denied while names are left to      *)
(* inspect), and the budget is enough for any source that reaches no more  *)
(* names than it allows.                                                   *)
(*                                                                         *)
(* The inductive invariant is the one of a graph search: what is known,    *)
(* visited or queued, is reachable and holds the source's names and the    *)
(* callees of everything visited; nothing visited is denied unless it is   *)
(* the violator.                                                           *)
(*                                                                         *)
(* The second part, independent of the first, is about Reader, which       *)
(* decodes the answers: for payloads of any length and nesting, the cursor *)
(* is where the format has it, what a length announces is there, only      *)
(* nesting is refused as too deep, and the reader is soon done.            *)
(***************************************************************************)
EXTENDS Reader, RemoteInspect, FiniteSetTheorems, SequenceTheorems, TLAPS

Known == visited \cup Range(queue)

\* The queue holds each name once and no name that has been inspected.
QueueFresh ==
  /\ \A i \in DOMAIN queue : queue[i] \notin visited
  /\ \A i, j \in DOMAIN queue : queue[i] = queue[j] => i = j

StepsCount == IsFiniteSet(visited) /\ steps = Cardinality(visited)

KnownIsReachable == Known \subseteq Reachable

KnownIsClosed == roots \subseteq Known /\ \A n \in visited : Callees(n) \subseteq Known

ViolatorIsFirst ==
  IF violator = NoName THEN visited \cap dirty = {} ELSE violator \in visited \cap dirty

VerdictFollows ==
  /\ verdict = "clean" => violator = NoName /\ ~Continue
  /\ verdict = "blocked" => violator # NoName

Inv == TypeOK /\ QueueFresh /\ StepsCount /\ KnownIsReachable /\ KnownIsClosed
         /\ ViolatorIsFirst /\ VerdictFollows
------------------------------------------------------------------------------
\* SetToSeqs(S) are the sequences of all the elements of S, each once.
LEMMA Orderings ==
  ASSUME NEW S, NEW q \in SetToSeqs(S), IsFiniteSet(S)
  PROVE  /\ q \in Seq(S)
         /\ \A i, j \in DOMAIN q : q[i] = q[j] => i = j
         /\ Range(q) = S
<1> DEFINE n == Cardinality(S)
<1>1. n \in Nat
  BY FS_CardinalityType
<1>2. q \in Injection(1 .. n, S)
  BY DEF SetToSeqs, Injection, IsInjective
<1>3. Cardinality(1 .. n) = Cardinality(S)
  BY <1>1, FS_Interval
<1>4. q \in Surjection(1 .. n, S)
  BY <1>2, <1>3, FS_Injection
<1>5. q \in [1 .. n -> S]
  BY <1>2 DEF Injection
<1>6. Range(q) = S
  BY <1>4, <1>5 DEF Surjection, Range
<1>7. q \in Seq(S)
  BY <1>1, <1>5
<1> QED BY <1>2, <1>5, <1>6, <1>7 DEF Injection, IsInjective

\* What is left of a non-empty queue once its head is taken.
LEMMA TailOfQueue ==
  ASSUME NEW S, NEW q \in Seq(S), q # <<>>
  PROVE  /\ Head(q) \in S
         /\ Tail(q) \in Seq(S)
         /\ Range(q) = {Head(q)} \cup Range(Tail(q))
         /\ Head(q) = q[1] /\ 1 \in DOMAIN q
         /\ \A i \in DOMAIN Tail(q) : i + 1 \in DOMAIN q /\ Tail(q)[i] = q[i + 1]
<1>1. /\ Head(q) \in S /\ Tail(q) \in Seq(S) /\ Len(Tail(q)) = Len(q) - 1
      /\ \A i \in 1 .. Len(Tail(q)) : Tail(q)[i] = q[i + 1]
  BY HeadTailProperties
<1>2. Len(q) \in Nat /\ Len(q) >= 1 /\ DOMAIN q = 1 .. Len(q) /\ Head(q) = q[1]
  OBVIOUS
<1>3. DOMAIN Tail(q) = 1 .. Len(q) - 1
  BY <1>1
<1>4. \A i \in DOMAIN Tail(q) : i + 1 \in DOMAIN q /\ Tail(q)[i] = q[i + 1]
  BY <1>1, <1>2, <1>3
<1>5. \A i \in DOMAIN q : i = 1 \/ (i - 1 \in DOMAIN Tail(q) /\ Tail(q)[i - 1] = q[i])
  BY <1>1, <1>2, <1>3
<1>6. Range(q) = {Head(q)} \cup Range(Tail(q))
  BY <1>2, <1>4, <1>5 DEF Range
<1> QED BY <1>1, <1>2, <1>4, <1>6

\* Sequences without repetitions and without a common element concatenate to
\* one without repetitions.
LEMMA ConcatDistinct ==
  ASSUME NEW S, NEW a \in Seq(S), NEW b \in Seq(S),
         \A i, j \in DOMAIN a : a[i] = a[j] => i = j,
         \A i, j \in DOMAIN b : b[i] = b[j] => i = j,
         Range(a) \cap Range(b) = {}
  PROVE  \A i, j \in DOMAIN (a \o b) : (a \o b)[i] = (a \o b)[j] => i = j
<1> DEFINE c == a \o b
<1>1. /\ c \in Seq(S) /\ Len(c) = Len(a) + Len(b)
      /\ \A i \in 1 .. Len(a) + Len(b) :
           c[i] = IF i <= Len(a) THEN a[i] ELSE b[i - Len(a)]
  BY ConcatProperties
<1>2. /\ Len(a) \in Nat /\ DOMAIN a = 1 .. Len(a)
      /\ Len(b) \in Nat /\ DOMAIN b = 1 .. Len(b)
      /\ DOMAIN c = 1 .. Len(a) + Len(b)
  BY <1>1
<1>3. \A i \in DOMAIN a, j \in DOMAIN b : a[i] # b[j]
  BY DEF Range
<1> SUFFICES ASSUME NEW i \in DOMAIN c, NEW j \in DOMAIN c, c[i] = c[j]
             PROVE  i = j
  OBVIOUS
<1> HIDE DEF c
<1>4. CASE i <= Len(a) /\ j <= Len(a)
  BY <1>1, <1>2, <1>4
<1>5. CASE i > Len(a) /\ j > Len(a)
  <2>1. i - Len(a) \in DOMAIN b /\ j - Len(a) \in DOMAIN b
    BY <1>2, <1>5
  <2>2. b[i - Len(a)] = b[j - Len(a)]
    BY <1>1, <1>2, <1>5
  <2> QED BY <1>2, <2>1, <2>2
<1>6. CASE i <= Len(a) /\ j > Len(a)
  <2>1. i \in DOMAIN a /\ j - Len(a) \in DOMAIN b
    BY <1>2, <1>6
  <2>2. c[i] = a[i] /\ c[j] = b[j - Len(a)]
    BY <1>1, <1>2, <1>6
  <2> QED BY <1>3, <2>1, <2>2
<1>7. CASE i > Len(a) /\ j <= Len(a)
  <2>1. j \in DOMAIN a /\ i - Len(a) \in DOMAIN b
    BY <1>2, <1>7
  <2>2. c[j] = a[j] /\ c[i] = b[i - Len(a)]
    BY <1>1, <1>2, <1>7
  <2> QED BY <1>3, <2>1, <2>2
<1> QED BY <1>2, <1>4, <1>5, <1>6, <1>7
------------------------------------------------------------------------------
\* What can be reached is closed, and any closed set holds all of it.
LEMMA ReachableIsClosed ==
  ASSUME TypeOK
  PROVE  /\ Reachable \subseteq Names
         /\ roots \subseteq Reachable
         /\ \A n \in Reachable : Callees(n) \subseteq Reachable
<1>1. \A n \in Names : Callees(n) \subseteq Names
  BY DEF TypeOK, Callees
<1> QED BY <1>1 DEF Reachable, Closed, TypeOK

LEMMA ReachableIsLeast ==
  ASSUME NEW S \in SUBSET Names, Closed(S)
  PROVE  Reachable \subseteq S
  BY DEF Reachable

LEMMA InvInit == Init => Inv
<1> SUFFICES ASSUME Init
             PROVE  Inv
  OBVIOUS
<1>1. IsFiniteSet(roots)
  BY NamesAssumption, FS_Subset DEF Init
<1>2. /\ queue \in Seq(roots) /\ Range(queue) = roots
      /\ \A i, j \in DOMAIN queue : queue[i] = queue[j] => i = j
  BY <1>1, Orderings DEF Init
<1>3. TypeOK
  BY <1>2, StepsAssumption DEF Init, TypeOK
<1>4. QueueFresh /\ StepsCount
  BY <1>2, FS_EmptySet DEF Init, QueueFresh, StepsCount
<1>5. KnownIsReachable /\ KnownIsClosed
  BY <1>2, <1>3, ReachableIsClosed DEF Init, KnownIsReachable, KnownIsClosed, Known
<1>6. ViolatorIsFirst /\ VerdictFollows
  BY DEF Init, ViolatorIsFirst, VerdictFollows
<1> QED BY <1>3, <1>4, <1>5, <1>6 DEF Inv

\* One step of the loop: Head(queue) is fresh, so it is inspected.
LEMMA StepKeepsInv == Inv /\ Step => Inv'
<1> SUFFICES ASSUME Inv, Step
             PROVE  Inv'
  OBVIOUS
<1> USE DEF Inv
<1> DEFINE curr == Head(queue)
           rest == Tail(queue)
<1>1. /\ verdict = "none" /\ verdict' = "none" /\ UNCHANGED definitions
      /\ queue # <<>> /\ violator = NoName /\ steps < MaxSteps /\ steps' = steps + 1
  BY DEF Step, Continue
<1>2. /\ curr \in Names /\ rest \in Seq(Names)
      /\ Range(queue) = {curr} \cup Range(rest)
      /\ curr = queue[1] /\ 1 \in DOMAIN queue
      /\ \A i \in DOMAIN rest : i + 1 \in DOMAIN queue /\ rest[i] = queue[i + 1]
  BY <1>1, TailOfQueue DEF TypeOK
<1>3. curr \notin visited
  BY <1>2 DEF QueueFresh
<1>4. Inspect(curr)
  BY <1>3 DEF Step
<1>5. PICK new \in SetToSeqs(Fresh(curr)) : queue' = rest \o new
  BY <1>4 DEF Inspect
<1>6. visited' = visited \cup {curr} /\ violator' = IF curr \in dirty THEN curr ELSE violator
  BY <1>4 DEF Inspect
<1>7. Fresh(curr) \subseteq Names /\ IsFiniteSet(Fresh(curr))
  <2>1. Fresh(curr) \subseteq Names
    BY DEF Fresh, Callees, TypeOK
  <2> QED BY <2>1, NamesAssumption, FS_Subset
<1>8. /\ new \in Seq(Names) /\ Range(new) = Fresh(curr)
      /\ \A i, j \in DOMAIN new : new[i] = new[j] => i = j
  BY <1>7, Orderings
<1>9. queue' \in Seq(Names) /\ Range(queue') = Range(rest) \cup Fresh(curr)
  <2>1. rest \in Seq(Names) /\ new \in Seq(Names)
    BY <1>2, <1>8
  <2>2. rest \o new \in Seq(Names) /\ Range(rest \o new) = Range(rest) \cup Range(new)
    BY <2>1, ConcatProperties, RangeConcatenation
  <2> QED BY <1>5, <1>8, <2>2
<1>10. Known' = Known \cup Fresh(curr)
  BY <1>2, <1>6, <1>9 DEF Known
<1>11. Callees(curr) \subseteq Known'
  BY <1>2, <1>10 DEF Fresh, Known
<1>12. TypeOK'
  BY <1>1, <1>2, <1>6, <1>9, StepsAssumption DEF TypeOK, definitions
<1>13. QueueFresh'
  <2>1. \A i, j \in DOMAIN rest : rest[i] = rest[j] => i = j
    <3> SUFFICES ASSUME NEW i \in DOMAIN rest, NEW j \in DOMAIN rest, rest[i] = rest[j]
                 PROVE  i = j
      OBVIOUS
    <3>1. i + 1 \in DOMAIN queue /\ j + 1 \in DOMAIN queue /\ queue[i + 1] = queue[j + 1]
      BY <1>2
    <3>2. i \in Nat /\ j \in Nat
      BY <1>2
    <3> QED BY <3>1, <3>2 DEF QueueFresh
  <2>2. Range(rest) \cap Fresh(curr) = {}
    BY DEF Fresh
  <2>3. \A i, j \in DOMAIN queue' : queue'[i] = queue'[j] => i = j
    <3>1. rest \in Seq(Names) /\ new \in Seq(Names) /\ Range(rest) \cap Range(new) = {}
      BY <1>2, <1>8, <2>2
    <3>2. \A i, j \in DOMAIN (rest \o new) : (rest \o new)[i] = (rest \o new)[j] => i = j
      BY <1>8, <2>1, <3>1, ConcatDistinct
    <3> QED BY <1>5, <3>2
  <2>4. Range(rest) \cap (visited \cup {curr}) = {}
    <3> SUFFICES ASSUME NEW i \in DOMAIN rest
                 PROVE  rest[i] \notin visited /\ rest[i] # curr
      BY DEF Range
    <3>1. i \in Nat \ {0} /\ i + 1 \in DOMAIN queue /\ rest[i] = queue[i + 1]
      BY <1>2
    <3> QED BY <1>2, <3>1 DEF QueueFresh
  <2>5. Fresh(curr) \cap (visited \cup {curr}) = {}
    BY DEF Fresh
  <2>6. \A i \in DOMAIN queue' : queue'[i] \in Range(queue')
    BY DEF Range
  <2> QED BY <1>6, <1>9, <2>3, <2>4, <2>5, <2>6 DEF QueueFresh
<1>14. StepsCount'
  BY <1>1, <1>3, <1>6, FS_AddElement DEF StepsCount
<1>15. KnownIsReachable'
  <2>1. curr \in Reachable
    BY <1>2 DEF KnownIsReachable, Known
  <2>2. Callees(curr) \subseteq Reachable
    BY <2>1, ReachableIsClosed
  <2>3. Reachable' = Reachable
    BY <1>1 DEF Reachable, Closed, Callees, definitions
  <2> QED BY <1>10, <2>2, <2>3 DEF KnownIsReachable, Fresh
<1>16. KnownIsClosed'
  <2>1. \A n : Callees(n)' = Callees(n)
    BY <1>1 DEF Callees, definitions
  <2> QED BY <1>1, <1>6, <1>10, <1>11, <2>1 DEF KnownIsClosed, definitions
<1>17. ViolatorIsFirst'
  <2>1. dirty' = dirty /\ visited \cap dirty = {}
    BY <1>1 DEF definitions, ViolatorIsFirst
  <2> QED BY <1>1, <1>2, <1>6, <2>1, NamesAssumption DEF ViolatorIsFirst
<1>18. VerdictFollows'
  BY <1>1 DEF VerdictFollows
<1> QED BY <1>12, <1>13, <1>14, <1>15, <1>16, <1>17, <1>18

LEMMA ConcludeKeepsInv == Inv /\ Conclude => Inv'
  BY DEF Inv, Conclude, ClientVerdict, Continue, definitions, probe, TypeOK, QueueFresh,
         StepsCount, KnownIsReachable, KnownIsClosed, Known, Reachable, Closed, Callees,
         ViolatorIsFirst, VerdictFollows

LEMMA StutterKeepsInv == Inv /\ UNCHANGED vars => Inv'
  BY DEF Inv, vars, Continue, definitions, probe, TypeOK, QueueFresh,
         StepsCount, KnownIsReachable, KnownIsClosed, Known, Reachable, Closed, Callees,
         ViolatorIsFirst, VerdictFollows

\* The invariant of the walk, for every call graph and every budget.
THEOREM WalkInvariant == Spec => []Inv
<1>1. Inv /\ [Next]_vars => Inv'
  BY StepKeepsInv, ConcludeKeepsInv, StutterKeepsInv DEF Next
<1> QED BY InvInit, <1>1, PTL DEF Spec

\* Every variable of the probe keeps its type.
THEOREM InspectTypeCorrect == Spec => []TypeOK
<1>1. Inv => TypeOK
  BY DEF Inv
<1> QED BY <1>1, WalkInvariant, PTL

\* No name is inspected twice: cycles cost nothing.
THEOREM EachNameOnce == Spec => []NothingInspectedTwice
<1>1. Inv => NothingInspectedTwice
  BY DEF Inv, QueueFresh, StepsCount, NothingInspectedTwice
<1> QED BY <1>1, WalkInvariant, PTL

\* With nothing left to inspect and no violator, nothing reachable is denied.
LEMMA EmptyQueueIsComplete ==
  ASSUME Inv, queue = <<>>, violator = NoName
  PROVE  Reachable \cap dirty = {}
<1>1. Known = visited
  BY DEF Known, Range
<1>2. visited \in SUBSET Names /\ Closed(visited)
  BY <1>1 DEF Inv, TypeOK, KnownIsClosed, Closed
<1>3. Reachable \subseteq visited
  BY <1>2, ReachableIsLeast
<1> QED BY <1>3 DEF Inv, ViolatorIsFirst

\* A source let through reaches nothing denied, or used up the budget.
THEOREM CleanIsComplete == Spec => []CleanUnlessOutOfBudget
<1>1. Inv => CleanUnlessOutOfBudget
  <2> SUFFICES ASSUME Inv, verdict = "clean", ~(steps = MaxSteps /\ queue # <<>>)
               PROVE  Reachable \cap dirty = {}
    BY DEF CleanUnlessOutOfBudget
  <2>1. violator = NoName /\ ~Continue
    BY DEF Inv, VerdictFollows
  <2>2. queue = <<>>
    BY <2>1, StepsAssumption DEF Continue, Inv, TypeOK
  <2> QED BY <2>1, <2>2, EmptyQueueIsComplete
<1> QED BY <1>1, WalkInvariant, PTL

\* A refusal names a denied function that the source reaches.
THEOREM BlockedIsSound == Spec => []BlockedIsJustified
<1>1. Inv => BlockedIsJustified
  BY DEF Inv, VerdictFollows, ViolatorIsFirst, KnownIsReachable, Known, BlockedIsJustified
<1> QED BY <1>1, WalkInvariant, PTL

\* The budget is used up only by sources that reach more names than it has
\* steps: visited and the head of the queue are that many reachable names.
THEOREM BudgetIsEnough == Spec => []BudgetSuffices
<1>1. Inv => BudgetSuffices
  <2> SUFFICES ASSUME Inv, Cardinality(Reachable) <= MaxSteps, verdict = "clean"
               PROVE  Reachable \cap dirty = {}
    BY DEF BudgetSuffices
  <2>1. violator = NoName /\ ~Continue
    BY DEF Inv, VerdictFollows
  <2>2. CASE queue = <<>>
    BY <2>1, <2>2, EmptyQueueIsComplete
  <2>3. CASE queue # <<>>
    <3> DEFINE more == visited \cup {Head(queue)}
    <3>1. steps = MaxSteps /\ steps = Cardinality(visited) /\ IsFiniteSet(visited)
      BY <2>1, <2>3, StepsAssumption DEF Continue, Inv, TypeOK, StepsCount
    <3>2. /\ Head(queue) = queue[1] /\ 1 \in DOMAIN queue
          /\ Head(queue) \in Range(queue)
      BY <2>3, TailOfQueue DEF Inv, TypeOK
    <3>3. Head(queue) \notin visited /\ more \subseteq Reachable
      BY <3>2 DEF Inv, QueueFresh, KnownIsReachable, Known
    <3>4. IsFiniteSet(Reachable) /\ Cardinality(Reachable) \in Nat
      BY NamesAssumption, FS_Subset, FS_CardinalityType, ReachableIsClosed DEF Inv
    <3>5. Cardinality(more) = MaxSteps + 1
      BY <3>1, <3>3, FS_AddElement
    <3>6. Cardinality(more) <= Cardinality(Reachable)
      BY <3>3, <3>4, FS_Subset
    <3> QED BY <3>4, <3>5, <3>6, StepsAssumption
  <2> QED BY <2>2, <2>3
<1> QED BY <1>1, WalkInvariant, PTL

-------------------------------------------------------------------------------
\* The reader of answers

\* An object that is made of its parts has as many as it has read, and its
\* kind says how many that will be.
PartsKept(f) ==
  /\ f.kind \notin {"list", "projection"} => Len(f.parts) = f.got
  /\ f.kind = "dict" => f.n = 2
  /\ f.kind \in {"table", "lambda", "derived"} => f.n = 1

FramesKept ==
  \A i \in DOMAIN frames :
    PartsKept(frames[i]) /\ (frames[i].kind = "answer" <=> i = 1)

\* The depth is the number of open objects, one of which has only a type yet.
DepthCounts ==
  /\ pc = "next" => depth = Len(frames) - 1
  /\ pc = "type" => depth = Len(frames) /\ depth <= MaxDepth
  /\ why # "nothing" => pc = "failed"

ReaderInv ==
  /\ ReaderTypeOK
  /\ CursorIsTrue /\ AnnouncedIsThere /\ DepthIsNesting
  /\ FramesKept /\ DepthCounts

LEMMA FrameElements ==
  ASSUME NEW R, NEW s \in Seq(R)
  PROVE  /\ Len(s) \in Nat /\ DOMAIN s = 1 .. Len(s)
         /\ \A i \in DOMAIN s : s[i] \in R
  OBVIOUS

LEMMA ReplaceLast ==
  ASSUME NEW R, NEW s \in Seq(R), NEW n \in 1 .. Len(s), NEW g \in R
  PROVE  /\ [s EXCEPT ![n] = g] \in Seq(R)
         /\ Len([s EXCEPT ![n] = g]) = Len(s) /\ DOMAIN [s EXCEPT ![n] = g] = 1 .. Len(s)
         /\ [s EXCEPT ![n] = g][n] = g
         /\ \A i \in 1 .. Len(s) : i # n => [s EXCEPT ![n] = g][i] = s[i]
  OBVIOUS

LEMMA FrameFields ==
  ASSUME NEW f \in Frames
  PROVE  /\ f.kind \in FrameKinds /\ f.n \in Nat /\ f.got \in Nat /\ f.start \in Nat
         /\ f.took \in Nat /\ f.parts \in Seq(Shapes)
  BY DEF Frames

LEMMA ShapeFields ==
  ASSUME NEW s \in Shapes
  PROVE  s.kind \in ShapeKinds /\ s.n \in Nat /\ s.m \in Nat
  BY DEF Shapes

LEMMA ShapeType ==
  ASSUME NEW kind \in ShapeKinds, NEW n \in Nat, NEW m \in Nat
  PROVE  Shape(kind, n, m) \in Shapes
  BY DEF Shape, Shapes

LEMMA PlainType ==
  ASSUME NEW kind \in ShapeKinds
  PROVE  Plain(kind) \in Shapes
  BY ShapeType DEF Plain

\* A frame that is given a part stays a frame, of the same object.
LEMMA GivenIs ==
  ASSUME NEW f \in Frames, NEW took \in Nat, NEW shape \in Shapes
  PROVE  /\ Given(f, took, shape) \in Frames
         /\ Given(f, took, shape).kind = f.kind /\ Given(f, took, shape).n = f.n
         /\ Given(f, took, shape).start = f.start
         /\ Given(f, took, shape).took = f.took + took
         /\ PartsKept(f) => PartsKept(Given(f, took, shape))
<1> DEFINE parts == IF f.kind \in {"list", "projection"} THEN <<>> ELSE Append(f.parts, shape)
           g == Given(f, took, shape)
<1>1. f.got + 1 \in Nat /\ f.took + took \in Nat
  BY FrameFields
<1>2. /\ parts \in Seq(Shapes)
      /\ f.kind \notin {"list", "projection"} => Len(parts) = Len(f.parts) + 1
  BY FrameFields
<1>3. /\ g.kind = f.kind /\ g.n = f.n /\ g.got = f.got + 1 /\ g.start = f.start
      /\ g.took = f.took + took /\ g.parts = parts
      /\ g = [kind |-> f.kind, n |-> f.n, got |-> f.got + 1, start |-> f.start,
              took |-> f.took + took, parts |-> parts]
  <2> HIDE DEF parts
  <2>1. g = [f EXCEPT !.got = f.got + 1, !.took = f.took + took, !.parts = parts]
    BY DEF Given, parts
  <2> HIDE DEF g
  <2> QED
    BY <2>1 DEF Frames
<1> HIDE DEF parts, g
<1>4. g \in Frames
  BY <1>1, <1>2, <1>3, FrameFields DEF Frames
<1>5. PartsKept(f) => PartsKept(g)
  BY <1>2, <1>3, FrameFields DEF PartsKept
<1> QED
  BY <1>3, <1>4, <1>5 DEF g

\* A part that an object is made of has been read.
LEMMA MadeType ==
  ASSUME NEW f \in Frames, PartsKept(f), f.got = f.n, f.kind # "answer"
  PROVE  Made(f) \in Shapes
<1>1. /\ f.parts \in Seq(Shapes) /\ f.got \in Nat /\ f.kind \in FrameKinds
  BY FrameFields
<1>2. CASE f.kind = "list"
  BY <1>1, <1>2, ShapeType DEF Made, ShapeKinds
<1>3. CASE f.kind = "projection"
  BY <1>3, PlainType DEF Made, ShapeKinds
<1>4. CASE f.kind = "dict"
  <2>1. f.parts[1] \in Shapes /\ f.parts[2] \in Shapes
    BY <1>1, <1>4, FrameElements DEF PartsKept
  <2>2. Made(f) = DictShape(f.parts[1], f.parts[2])
    BY <1>4 DEF Made
  <2>3. DictShape(f.parts[1], f.parts[2]) \in Shapes
    BY <2>1, ShapeFields, ShapeType, PlainType DEF DictShape, ShapeKinds
  <2> QED
    BY <2>2, <2>3
<1>5. CASE f.kind = "table"
  BY <1>5, PlainType DEF Made, ShapeKinds
<1>6. CASE f.kind \in {"lambda", "derived"}
  <2>1. f.parts[1] \in Shapes
    BY <1>1, <1>6, FrameElements DEF PartsKept
  <2>2. Plain("function") \in Shapes /\ Plain("projection") \in Shapes
    BY PlainType DEF ShapeKinds
  <2> QED
    BY <1>6, <2>1, <2>2 DEF Made
<1> QED
  BY <1>1, <1>2, <1>3, <1>4, <1>5, <1>6 DEF FrameKinds

\* What vhdr is told of a type is what its loop reads, and what as many atoms
\* of the type take.
LEMMA WidthsAgree ==
  ASSUME NEW t \in Fixed
  PROVE  /\ AtomWidth(t) \in Nat
         /\ HeaderWidth(t) = AtomWidth(t) /\ ElementWidth(t) = AtomWidth(t)
  BY DEF Fixed, AtomWidth, HeaderWidth, ElementWidth

LEMMA ReaderBegins == ReaderInit => ReaderInv
<1> SUFFICES ASSUME ReaderInit PROVE ReaderInv
  OBVIOUS
<1> DEFINE f == [kind |-> "answer", n |-> 1, got |-> 0, start |-> 0, took |-> 0,
                 parts |-> <<>>]
<1>1. frames = <<f>> /\ size \in Nat /\ pos = 0 /\ depth = 0 /\ pc = "next" /\ why = "nothing"
  BY ReaderAssumption DEF ReaderInit
<1>2. f \in Frames
  BY DEF Frames, FrameKinds
<1>3. f.kind = "answer" /\ f.start = 0 /\ f.took = 0 /\ PartsKept(f)
  BY DEF PartsKept
<1> HIDE DEF f
<1>4. frames \in Seq(Frames) /\ Len(frames) = 1 /\ frames[1] = f /\ DOMAIN frames = {1}
  BY <1>1, <1>2
<1>5. ReaderTypeOK
  BY <1>1, <1>4 DEF ReaderTypeOK
<1>6. CursorIsTrue
  BY <1>1, <1>3, <1>4 DEF CursorIsTrue, Top
<1>7. AnnouncedIsThere /\ FramesKept
  BY <1>1, <1>3, <1>4 DEF AnnouncedIsThere, FramesKept
<1>8. DepthIsNesting /\ DepthCounts
  BY <1>1, <1>4, ReaderAssumption DEF DepthIsNesting, DepthCounts
<1> QED
  BY <1>5, <1>6, <1>7, <1>8 DEF ReaderInv

LEMMA ReaderFails ==
  ASSUME ReaderInv, NEW reason \in {"refused", "deep"}, Fail(reason),
         reason = "deep" => Len(frames) = MaxDepth + 1
  PROVE  ReaderInv'
<1>1. /\ pc' = "failed" /\ why' = reason /\ size' = size /\ pos' = pos /\ depth' = depth
      /\ frames' = frames
  BY DEF Fail
<1>2. ReaderTypeOK'
  BY <1>1 DEF ReaderInv, ReaderTypeOK
<1> QED
  BY <1>1, <1>2 DEF ReaderInv, CursorIsTrue, Top, AnnouncedIsThere, DepthIsNesting,
                    FramesKept, DepthCounts

\* An object handed to the frame that asked for it, with the bytes it took.
LEMMA DeliverKeeps ==
  ASSUME ReaderInv, pc = "type", NEW bytes \in Nat, NEW shape \in Shapes,
         Room(bytes), Deliver(bytes, bytes, shape)
  PROVE  ReaderInv'
<1>1. /\ size \in Nat /\ pos \in Nat /\ depth \in Int /\ frames \in Seq(Frames)
      /\ Len(frames) \in Nat /\ Len(frames) > 0 /\ DOMAIN frames = 1 .. Len(frames)
      /\ why \in {"nothing", "refused", "element", "deep"}
  BY FrameElements DEF ReaderInv, ReaderTypeOK
<1>2. PICK last \in Nat : last = Len(frames) /\ last > 0
  BY <1>1
<1>3. PICK f \in Frames : f = frames[last]
  <2>1. last \in DOMAIN frames
    BY <1>1, <1>2
  <2> QED
    BY <1>1, <2>1, FrameElements
<1>4. PICK g \in Frames : g = Given(f, bytes, shape)
  BY GivenIs
<1>5. /\ pos' = pos + bytes /\ depth' = depth - 1 /\ frames' = [frames EXCEPT ![last] = g]
      /\ pc' = "next" /\ size' = size /\ why' = why
  BY <1>2, <1>3, <1>4 DEF Deliver, LeftDepth, Top
<1>6. /\ pos <= size /\ f.start + f.took = pos
      /\ \A i \in 1 .. last - 1 : frames[i].start + frames[i].took = frames[i + 1].start
  BY <1>2, <1>3 DEF ReaderInv, CursorIsTrue, Top
<1>7. \A i \in 1 .. last : PartsKept(frames[i]) /\ (frames[i].kind = "answer" <=> i = 1)
  BY <1>1, <1>2 DEF ReaderInv, FramesKept
<1>8. last \in 1 .. last
  BY <1>2
<1>9. /\ PartsKept(g) /\ g.kind = f.kind /\ g.n = f.n /\ g.start = f.start
      /\ g.took = f.took + bytes
  BY <1>3, <1>4, <1>7, <1>8, GivenIs
<1>10. f.start \in Nat /\ f.took \in Nat
  BY FrameFields
<1>11. /\ frames' \in Seq(Frames) /\ Len(frames') = last /\ DOMAIN frames' = 1 .. last
       /\ frames'[last] = g /\ \A i \in 1 .. last : i # last => frames'[i] = frames[i]
  <2>1. last \in 1 .. Len(frames) /\ frames \in Seq(Frames)
    BY <1>1, <1>2
  <2>2. /\ [frames EXCEPT ![last] = g] \in Seq(Frames)
        /\ Len([frames EXCEPT ![last] = g]) = Len(frames)
        /\ DOMAIN [frames EXCEPT ![last] = g] = 1 .. Len(frames)
        /\ [frames EXCEPT ![last] = g][last] = g
        /\ \A i \in 1 .. Len(frames) : i # last => [frames EXCEPT ![last] = g][i] = frames[i]
    BY <2>1, ReplaceLast
  <2> QED
    BY <1>2, <1>5, <2>2
<1>12. \A i \in 1 .. last : /\ frames'[i].kind = frames[i].kind /\ frames'[i].n = frames[i].n
                            /\ frames'[i].start = frames[i].start
                            /\ PartsKept(frames'[i])
  BY <1>3, <1>7, <1>9, <1>11
<1>13. ReaderTypeOK'
  <2>1. pos + bytes \in Nat /\ depth - 1 \in Int
    BY <1>1
  <2> QED
    BY <1>1, <1>2, <1>5, <1>11, <2>1 DEF ReaderTypeOK
<1>14. CursorIsTrue'
  <2>1. pos' <= size'
    BY <1>5 DEF Room
  <2>2. ASSUME NEW i \in 1 .. last - 1
        PROVE  frames'[i].start + frames'[i].took = frames'[i + 1].start
    <3>1. i \in 1 .. last /\ i # last /\ i + 1 \in 1 .. last
      OBVIOUS
    <3>2. frames'[i] = frames[i] /\ frames'[i + 1].start = frames[i + 1].start
      BY <1>11, <1>12, <3>1
    <3> QED
      BY <1>6, <3>2
  <2>3. frames'[last].start + frames'[last].took = pos'
    BY <1>1, <1>5, <1>6, <1>9, <1>10, <1>11
  <2> QED
    BY <1>11, <2>1, <2>2, <2>3 DEF CursorIsTrue, Top
<1>15. AnnouncedIsThere'
  BY <1>1, <1>2, <1>5, <1>11, <1>12 DEF ReaderInv, AnnouncedIsThere
<1>16. FramesKept'
  BY <1>7, <1>11, <1>12 DEF FramesKept
<1>17. DepthIsNesting' /\ DepthCounts'
  BY <1>1, <1>2, <1>5, <1>11 DEF ReaderInv, DepthIsNesting, DepthCounts
<1> QED
  BY <1>13, <1>14, <1>15, <1>16, <1>17 DEF ReaderInv

LEMMA AppendIs ==
  ASSUME NEW R, NEW s \in Seq(R), NEW g \in R
  PROVE  /\ Append(s, g) \in Seq(R) /\ Len(Append(s, g)) = Len(s) + 1
         /\ DOMAIN Append(s, g) = 1 .. Len(s) + 1
         /\ Append(s, g)[Len(s) + 1] = g
         /\ \A i \in 1 .. Len(s) : Append(s, g)[i] = s[i]
  OBVIOUS

\* An object is begun: its first bytes are read, and its parts are to come.
LEMMA OpenKeeps ==
  ASSUME ReaderInv, pc = "type", NEW kind \in FrameKinds, kind # "answer",
         NEW n \in Nat, NEW bytes \in Nat, Room(bytes), Open(kind, n, bytes),
         kind = "dict" => n = 2, kind \in {"table", "lambda", "derived"} => n = 1,
         kind \in {"list", "projection"} => n <= size - pos
  PROVE  ReaderInv'
<1>1. /\ size \in Nat /\ pos \in Nat /\ depth \in Int /\ frames \in Seq(Frames)
      /\ Len(frames) \in Nat /\ Len(frames) > 0 /\ DOMAIN frames = 1 .. Len(frames)
      /\ why \in {"nothing", "refused", "element", "deep"}
  BY FrameElements DEF ReaderInv, ReaderTypeOK
<1>2. PICK last \in Nat : last = Len(frames) /\ last > 0
  BY <1>1
<1>3. PICK f \in Frames : /\ f = Frame(kind, n, bytes) /\ f.kind = kind /\ f.n = n
                          /\ f.start = pos /\ f.took = bytes
                          /\ Len(f.parts) = 0 /\ f.got = 0
  <2>1. Frame(kind, n, bytes) \in Frames
    BY <1>1 DEF Frame, Frames
  <2> QED
    BY <2>1 DEF Frame
<1>4. /\ pos' = pos + bytes /\ frames' = Append(frames, f)
      /\ pc' = "next" /\ depth' = depth /\ size' = size /\ why' = why
  BY <1>3 DEF Open
<1>5. /\ pos <= size /\ frames[last].start + frames[last].took = pos
      /\ \A i \in 1 .. last - 1 : frames[i].start + frames[i].took = frames[i + 1].start
  BY <1>2 DEF ReaderInv, CursorIsTrue, Top
<1>6. /\ frames' \in Seq(Frames) /\ Len(frames') = last + 1 /\ DOMAIN frames' = 1 .. last + 1
      /\ frames'[last + 1] = f /\ \A i \in 1 .. last : frames'[i] = frames[i]
  BY <1>1, <1>2, <1>4, AppendIs
<1>7. \A i \in 1 .. last + 1 : i \in 1 .. last \/ i = last + 1
  OBVIOUS
<1>8. ReaderTypeOK'
  BY <1>1, <1>2, <1>4, <1>6 DEF ReaderTypeOK
<1>9. CursorIsTrue'
  <2>1. pos' <= size'
    BY <1>4 DEF Room
  <2>2. ASSUME NEW i \in 1 .. last
        PROVE  frames'[i].start + frames'[i].took = frames'[i + 1].start
    <3>1. CASE i = last
      BY <1>2, <1>3, <1>5, <1>6, <3>1
    <3>2. CASE i # last
      <4>1. i \in 1 .. last - 1 /\ i + 1 \in 1 .. last
        BY <3>2
      <4> QED
        BY <1>5, <1>6, <4>1
    <3> QED
      BY <3>1, <3>2
  <2>3. frames'[last + 1].start + frames'[last + 1].took = pos'
    BY <1>3, <1>4, <1>6
  <2>4. (last + 1) - 1 = last
    OBVIOUS
  <2> QED
    BY <1>6, <2>1, <2>2, <2>3, <2>4 DEF CursorIsTrue, Top
<1>10. AnnouncedIsThere'
  <2>1. ASSUME NEW i \in 1 .. last + 1, frames'[i].kind \in {"list", "projection"}
        PROVE  frames'[i].n <= size' - frames'[i].start
    BY <1>1, <1>2, <1>3, <1>4, <1>6, <1>7, <2>1 DEF ReaderInv, AnnouncedIsThere
  <2> QED
    BY <1>4, <1>6, <2>1 DEF ReaderInv, AnnouncedIsThere
<1>11. FramesKept'
  <2>1. PartsKept(f) /\ f.kind # "answer"
    BY <1>3 DEF PartsKept
  <2>2. \A i \in 1 .. last : PartsKept(frames[i]) /\ (frames[i].kind = "answer" <=> i = 1)
    BY <1>1, <1>2 DEF ReaderInv, FramesKept
  <2>3. ASSUME NEW i \in 1 .. last + 1
        PROVE  PartsKept(frames'[i]) /\ (frames'[i].kind = "answer" <=> i = 1)
    BY <1>2, <1>6, <1>7, <2>1, <2>2
  <2> QED
    BY <1>6, <2>3 DEF FramesKept
<1>12. DepthIsNesting' /\ DepthCounts'
  BY <1>1, <1>2, <1>4, <1>6, ReaderAssumption
     DEF ReaderInv, DepthIsNesting, DepthCounts
<1> QED
  BY <1>8, <1>9, <1>10, <1>11, <1>12 DEF ReaderInv

LEMMA CutLast ==
  ASSUME NEW R, NEW s \in Seq(R), NEW n \in Nat, n > 0, Len(s) = n + 1, NEW g \in R
  PROVE  /\ [SubSeq(s, 1, n) EXCEPT ![n] = g] \in Seq(R)
         /\ Len([SubSeq(s, 1, n) EXCEPT ![n] = g]) = n
         /\ DOMAIN [SubSeq(s, 1, n) EXCEPT ![n] = g] = 1 .. n
         /\ [SubSeq(s, 1, n) EXCEPT ![n] = g][n] = g
         /\ \A i \in 1 .. n : i # n => [SubSeq(s, 1, n) EXCEPT ![n] = g][i] = s[i]
<1> DEFINE t == SubSeq(s, 1, n)
<1>1. t \in Seq(R) /\ Len(t) = n /\ \A i \in 1 .. n : t[i] = s[i]
  OBVIOUS
<1>2. n \in 1 .. n
  OBVIOUS
<1> HIDE DEF t
<1>3. /\ [t EXCEPT ![n] = g] \in Seq(R) /\ Len([t EXCEPT ![n] = g]) = n
      /\ DOMAIN [t EXCEPT ![n] = g] = 1 .. n /\ [t EXCEPT ![n] = g][n] = g
      /\ \A i \in 1 .. n : i # n => [t EXCEPT ![n] = g][i] = s[i]
  BY <1>1, <1>2
<1> QED
  BY <1>3 DEF t

\* A complete object is given to the frame below with all the bytes it took.
LEMMA CloseKeeps ==
  ASSUME ReaderInv, Close
  PROVE  ReaderInv'
<1>1. CASE Top.kind = "table" /\ ~Rectangular(Top.parts[1])
  BY <1>1, ReaderFails DEF Close
<1>2. CASE ~(Top.kind = "table" /\ ~Rectangular(Top.parts[1]))
  <2>1. /\ size \in Nat /\ pos \in Nat /\ depth \in Int /\ frames \in Seq(Frames)
        /\ Len(frames) \in Nat /\ Len(frames) > 1 /\ DOMAIN frames = 1 .. Len(frames)
        /\ why \in {"nothing", "refused", "element", "deep"}
    BY FrameElements DEF ReaderInv, ReaderTypeOK, Close
  <2>2. PICK below \in Nat : Len(frames) = below + 1 /\ below > 0
    <3>1. Len(frames) - 1 \in Nat /\ Len(frames) - 1 > 0
          /\ Len(frames) = (Len(frames) - 1) + 1
      BY <2>1
    <3> QED
      BY <3>1
  <2>3. PICK top \in Frames, f \in Frames : top = frames[below + 1] /\ f = frames[below]
    <3>1. below + 1 \in DOMAIN frames /\ below \in DOMAIN frames
      BY <2>1, <2>2
    <3> QED
      BY <2>1, <3>1, FrameElements
  <2>4. \A i \in 1 .. below + 1 :
          PartsKept(frames[i]) /\ (frames[i].kind = "answer" <=> i = 1)
    BY <2>1, <2>2 DEF ReaderInv, FramesKept
  <2>5. Top = top /\ top.got = top.n /\ top.kind # "answer" /\ PartsKept(top)
    <3>1. below + 1 \in 1 .. below + 1 /\ below + 1 # 1
      BY <2>2
    <3> QED
      BY <2>2, <2>3, <2>4, <3>1 DEF Close, Top
  <2>6. top.took \in Nat /\ Made(top) \in Shapes
    BY <2>5, FrameFields, MadeType
  <2>7. PICK g \in Frames : g = Given(f, top.took, Made(top))
    BY <2>6, GivenIs
  <2>8. /\ frames' = [SubSeq(frames, 1, below) EXCEPT ![below] = g]
        /\ depth' = depth - 1 /\ pc = "next" /\ pc' = "next"
        /\ size' = size /\ pos' = pos /\ why' = why
    <3>1. Len(frames) - 1 = below
      BY <2>2
    <3> QED
      BY <1>2, <2>3, <2>5, <2>7, <3>1 DEF Close, LeftDepth
  <2>9. /\ g.kind = f.kind /\ g.n = f.n /\ g.start = f.start /\ g.took = f.took + top.took
        /\ PartsKept(f) => PartsKept(g)
    BY <2>6, <2>7, GivenIs
  <2>10. /\ pos <= size /\ top.start + top.took = pos
         /\ \A i \in 1 .. below : frames[i].start + frames[i].took = frames[i + 1].start
    <3>1. (below + 1) - 1 = below
      OBVIOUS
    <3> QED
      BY <2>2, <2>3, <2>5, <3>1 DEF ReaderInv, CursorIsTrue
  <2>11. /\ frames' \in Seq(Frames) /\ Len(frames') = below /\ DOMAIN frames' = 1 .. below
         /\ frames'[below] = g /\ \A i \in 1 .. below : i # below => frames'[i] = frames[i]
    <3>1. /\ [SubSeq(frames, 1, below) EXCEPT ![below] = g] \in Seq(Frames)
          /\ Len([SubSeq(frames, 1, below) EXCEPT ![below] = g]) = below
          /\ DOMAIN [SubSeq(frames, 1, below) EXCEPT ![below] = g] = 1 .. below
          /\ [SubSeq(frames, 1, below) EXCEPT ![below] = g][below] = g
          /\ \A i \in 1 .. below : i # below =>
               [SubSeq(frames, 1, below) EXCEPT ![below] = g][i] = frames[i]
      BY <2>1, <2>2, CutLast
    <3> QED
      BY <2>8, <3>1
  <2>12. ASSUME NEW i \in 1 .. below
         PROVE  /\ frames'[i].kind = frames[i].kind /\ frames'[i].n = frames[i].n
                /\ frames'[i].start = frames[i].start /\ PartsKept(frames'[i])
                /\ i \in 1 .. below + 1
    <3>1. i \in 1 .. below + 1
      OBVIOUS
    <3> QED
      BY <2>3, <2>4, <2>9, <2>11, <3>1
  <2>13. ReaderTypeOK'
    <3>1. depth - 1 \in Int /\ Len(frames') > 0
      BY <2>1, <2>2, <2>11
    <3> QED
      BY <2>1, <2>8, <2>11, <3>1 DEF ReaderTypeOK
  <2>14. CursorIsTrue'
    <3>1. ASSUME NEW i \in 1 .. below - 1
          PROVE  frames'[i].start + frames'[i].took = frames'[i + 1].start
      <4>1. i \in 1 .. below /\ i # below /\ i + 1 \in 1 .. below
        OBVIOUS
      <4>2. frames'[i] = frames[i] /\ frames'[i + 1].start = frames[i + 1].start
        BY <2>11, <2>12, <4>1
      <4> QED
        BY <2>10, <4>1, <4>2
    <3>2. frames'[below].start + frames'[below].took = pos
      <4>1. f.start + f.took = top.start
        BY <2>2, <2>3, <2>10
      <4>2. /\ f.start \in Nat /\ f.took \in Nat /\ top.start \in Nat /\ top.took \in Nat
        BY FrameFields
      <4> QED
        BY <2>9, <2>10, <2>11, <4>1, <4>2
    <3> QED
      BY <2>8, <2>10, <2>11, <3>1, <3>2 DEF CursorIsTrue, Top
  <2>15. AnnouncedIsThere'
    BY <2>1, <2>2, <2>8, <2>11, <2>12 DEF ReaderInv, AnnouncedIsThere
  <2>16. FramesKept'
    BY <2>4, <2>11, <2>12 DEF FramesKept
  <2>17. DepthIsNesting' /\ DepthCounts'
    <3>1. /\ depth = Len(frames) - 1 /\ Len(frames) <= MaxDepth + 1 /\ why = "nothing"
      BY <2>1, <2>8 DEF ReaderInv, DepthIsNesting, DepthCounts
    <3>2. depth' = Len(frames') - 1 /\ Len(frames') <= MaxDepth + 1
      BY <2>1, <2>2, <2>8, <2>11, <3>1, ReaderAssumption
    <3> QED
      BY <2>8, <3>1, <3>2 DEF DepthIsNesting, DepthCounts
  <2> QED
    BY <2>13, <2>14, <2>15, <2>16, <2>17 DEF ReaderInv
<1> QED
  BY <1>1, <1>2

LEMMA ReaderLengths ==
  ASSUME ReaderInv
  PROVE  size \in Nat /\ pos \in Nat /\ pos <= size
  BY DEF ReaderInv, ReaderTypeOK, CursorIsTrue

LEMMA Refuses ==
  ASSUME ReaderInv, Fail("refused")
  PROVE  ReaderInv'
  BY ReaderFails

LEMMA DescendKeeps ==
  ASSUME ReaderInv, Descend
  PROVE  ReaderInv'
<1>1. /\ pc = "next" /\ depth = Len(frames) - 1 /\ why = "nothing"
      /\ depth \in Int /\ Len(frames) \in Nat /\ Len(frames) <= MaxDepth + 1
  BY FrameElements DEF Descend, ReaderInv, ReaderTypeOK, DepthIsNesting, DepthCounts
<1>2. CASE TooDeep
  <2>1. Len(frames) = MaxDepth + 1
    BY <1>1, <1>2, ReaderAssumption DEF TooDeep
  <2> QED
    BY <1>2, <2>1, ReaderFails DEF Descend
<1>3. CASE ~TooDeep
  <2>1. /\ depth' = depth + 1 /\ pc' = "type" /\ size' = size /\ pos' = pos
        /\ frames' = frames /\ why' = why
    BY <1>3 DEF Descend
  <2>2. ReaderTypeOK'
    BY <1>1, <2>1 DEF ReaderInv, ReaderTypeOK
  <2>3. DepthCounts' /\ DepthIsNesting'
    <3>1. depth' = Len(frames') /\ depth' <= MaxDepth
      BY <1>1, <1>3, <2>1, ReaderAssumption DEF TooDeep
    <3> QED
      BY <1>1, <2>1, <3>1 DEF DepthCounts, DepthIsNesting
  <2> QED
    BY <1>1, <2>1, <2>2, <2>3 DEF ReaderInv, CursorIsTrue, Top, AnnouncedIsThere, FramesKept
<1> QED
  BY <1>2, <1>3

LEMMA AtomKeeps ==
  ASSUME ReaderInv, NEW t \in Fixed, Atom(t)
  PROVE  ReaderInv'
<1>1. PICK width \in Nat : width = AtomWidth(t)
  BY WidthsAgree
<1>2. CASE Room(1 + width)
  <2>1. Deliver(1 + width, 1 + width, Plain("atom")) /\ pc = "type"
    BY <1>1, <1>2 DEF Atom, Typed
  <2>2. 1 + width \in Nat /\ Plain("atom") \in Shapes
    BY PlainType DEF ShapeKinds
  <2> QED
    BY <1>2, <2>1, <2>2, DeliverKeeps
<1>3. CASE ~Room(1 + width)
  BY <1>1, <1>3, Refuses DEF Atom
<1> QED
  BY <1>2, <1>3

LEMMA SymbolKeeps ==
  ASSUME ReaderInv, Symbol
  PROVE  ReaderInv'
<1>1. ASSUME NEW k \in 1 .. MaxSymbol, Room(1 + k), Deliver(1 + k, 1 + k, Plain("atom"))
      PROVE  ReaderInv'
  <2>1. 1 + k \in Nat /\ Plain("atom") \in Shapes /\ pc = "type"
    BY ReaderAssumption, PlainType DEF ShapeKinds, Symbol, Typed
  <2> QED
    BY <1>1, <2>1, DeliverKeeps
<1> QED
  BY <1>1, Refuses DEF Symbol

LEMMA PrimitiveKeeps ==
  ASSUME ReaderInv, NEW kind \in {"null", "function"}, Primitive(kind)
  PROVE  ReaderInv'
<1>1. CASE Room(2)
  <2>1. Deliver(2, 2, Plain(kind)) /\ pc = "type" /\ Plain(kind) \in Shapes
    BY <1>1, PlainType DEF Primitive, Typed, ShapeKinds
  <2>2. 2 \in Nat
    OBVIOUS
  <2> QED
    BY <1>1, <2>1, <2>2, DeliverKeeps
<1>2. CASE ~Room(2)
  BY <1>2, Refuses DEF Primitive
<1> QED
  BY <1>1, <1>2

\* The elements that the header promises are there, whatever their width.
LEMMA VectorKeeps ==
  ASSUME ReaderInv, NEW t \in Fixed, NEW n \in Counts, Vector(t, n)
  PROVE  ReaderInv'
<1>1. PICK width \in Nat : /\ width = AtomWidth(t) /\ width = HeaderWidth(t)
                           /\ width = ElementWidth(t)
  BY WidthsAgree
<1>2. Announced(n, width) /\ pc = "type" /\ n \in Nat /\ size \in Nat /\ pos \in Nat
  BY <1>1, ReaderLengths, ReaderAssumption DEF Vector, Typed, Announced
<1>3. PICK bytes \in Nat : bytes = 6 + n * width
  <2>1. n * width \in Nat
    BY <1>2
  <2> QED
    BY <2>1
<1>4. Room(bytes)
  <2>1. PICK elements \in Nat : elements = n * width
    BY <1>2
  <2>2. elements <= size - (pos + 6) /\ bytes = 6 + elements
    BY <1>2, <1>3, <2>1 DEF Announced
  <2> QED
    BY <1>2, <2>2 DEF Room
<1>5. Deliver(bytes, bytes, VectorShape(t, n))
  BY <1>1, <1>3, <1>4 DEF Vector
<1>6. VectorShape(t, n) \in Shapes
  <2>1. 0 \in Nat
    OBVIOUS
  <2> QED
    BY <1>2, <2>1, ShapeType DEF VectorShape, ShapeKinds
<1> QED
  BY <1>2, <1>4, <1>5, <1>6, DeliverKeeps

LEMMA SymbolVectorKeeps ==
  ASSUME ReaderInv, NEW n \in Counts, SymbolVector(n)
  PROVE  ReaderInv'
<1>1. n \in Nat /\ pc = "type" /\ MaxSymbol \in Nat
  BY ReaderAssumption DEF SymbolVector, Announced, Typed
<1>2. ASSUME NEW k \in n .. n * MaxSymbol, Room(6 + k),
             Deliver(6 + k, 6 + k, Shape("symbols", n, 0))
      PROVE  ReaderInv'
  <2>1. k \in Nat
    <3>1. n * MaxSymbol \in Int
      BY <1>1
    <3> QED
      BY <1>1, <3>1
  <2>2. 6 + k \in Nat /\ 0 \in Nat
    BY <2>1
  <2>3. Shape("symbols", n, 0) \in Shapes
    BY <1>1, <2>2, ShapeType DEF ShapeKinds
  <2> QED
    BY <1>1, <1>2, <2>2, <2>3, DeliverKeeps
<1> QED
  BY <1>2, Refuses DEF SymbolVector

\* What is announced of a list or a projection stays within the payload.
LEMMA PartsKeep ==
  ASSUME ReaderInv, NEW n \in Counts, List(n) \/ Projection(n)
  PROVE  ReaderInv'
<1>1. size \in Nat /\ pos \in Nat /\ pc = "type" /\ n \in Nat
  BY ReaderLengths, ReaderAssumption DEF List, Projection, ListFits, Typed
<1>2. CASE List(n)
  <2>1. Room(6) /\ n <= size - pos /\ 6 \in Nat /\ "list" \in FrameKinds
    BY <1>1, <1>2 DEF List, ListFits, FrameKinds
  <2> QED
    BY <1>1, <1>2, <2>1, OpenKeeps DEF List
<1>3. CASE Projection(n)
  <2>1. Room(5) /\ n <= size - pos /\ 5 \in Nat /\ "projection" \in FrameKinds
    BY <1>1, <1>3 DEF Projection, ListFits, FrameKinds
  <2> QED
    BY <1>1, <1>3, <2>1, OpenKeeps DEF Projection
<1> QED
  BY <1>2, <1>3

LEMMA CompoundKeeps ==
  ASSUME ReaderInv, Table \/ Dict \/ Lambda \/ Derived
  PROVE  ReaderInv'
<1>1. /\ pc = "type" /\ Room(1)
      /\ {"table", "dict", "lambda", "derived"} \subseteq FrameKinds
      /\ 1 \in Nat /\ 2 \in Nat
  BY DEF Table, Dict, Lambda, Derived, Typed, FrameKinds
<1>2. CASE Table
  <2>1. Room(2) /\ Open("table", 1, 2)
    BY <1>2 DEF Table
  <2> QED
    BY <1>1, <2>1, OpenKeeps
<1>3. CASE Dict
  <2>1. Open("dict", 2, 1)
    BY <1>3 DEF Dict
  <2> QED
    BY <1>1, <2>1, OpenKeeps
<1>4. CASE Lambda
  <2>1. PICK k \in 1 .. MaxSymbol : Room(1 + k) /\ Open("lambda", 1, 1 + k)
    BY <1>4 DEF Lambda
  <2>2. 1 + k \in Nat
    BY ReaderAssumption
  <2> QED
    BY <1>1, <2>1, <2>2, OpenKeeps
<1>5. CASE Derived
  <2>1. Open("derived", 1, 1)
    BY <1>5 DEF Derived
  <2> QED
    BY <1>1, <2>1, OpenKeeps
<1> QED
  BY <1>2, <1>3, <1>4, <1>5

LEMMA ReaderKeeps == ReaderInv /\ [ReaderNext]_readerVars => ReaderInv'
<1> SUFFICES ASSUME ReaderInv, [ReaderNext]_readerVars PROVE ReaderInv'
  OBVIOUS
<1>1. CASE UNCHANGED readerVars
  <2>1. /\ size' = size /\ pos' = pos /\ depth' = depth /\ frames' = frames
        /\ pc' = pc /\ why' = why
    BY <1>1 DEF readerVars
  <2> QED
    BY <2>1 DEF ReaderInv, ReaderTypeOK, CursorIsTrue, Top, AnnouncedIsThere,
                DepthIsNesting, FramesKept, DepthCounts
<1>2. CASE Descend
  BY <1>2, DescendKeeps
<1>3. CASE NoType
  BY <1>3, Refuses DEF NoType
<1>4. CASE ReadType
  <2>1. CASE \E t \in Fixed : Atom(t) \/ \E n \in Counts : Vector(t, n)
    BY <2>1, AtomKeeps, VectorKeeps
  <2>2. CASE Symbol
    BY <2>2, SymbolKeeps
  <2>3. CASE BadHeader \/ QError \/ Unsupported
    BY <2>3, Refuses DEF BadHeader, QError, Unsupported
  <2>4. CASE \E n \in Counts : SymbolVector(n) \/ List(n) \/ Projection(n)
    BY <2>4, SymbolVectorKeeps, PartsKeep
  <2>5. CASE Table \/ Dict \/ Lambda \/ Derived
    BY <2>5, CompoundKeeps
  <2>6. CASE \E kind \in {"null", "function"} : Primitive(kind)
    BY <2>6, PrimitiveKeeps
  <2> QED
    BY <1>4, <2>1, <2>2, <2>3, <2>4, <2>5, <2>6 DEF ReadType
<1>5. CASE Close
  BY <1>5, CloseKeeps
<1>6. CASE Answer
  <2>1. /\ size' = size /\ pos' = pos /\ depth' = depth /\ frames' = frames
        /\ pc = "next" /\ pc' = "done" /\ why' = why
    BY <1>6 DEF Answer
  <2>2. ReaderTypeOK'
    BY <2>1 DEF ReaderInv, ReaderTypeOK
  <2> QED
    BY <2>1, <2>2 DEF ReaderInv, CursorIsTrue, Top, AnnouncedIsThere,
                      DepthIsNesting, FramesKept, DepthCounts
<1> QED
  BY <1>1, <1>2, <1>3, <1>4, <1>5, <1>6 DEF ReaderNext

\* Whatever the payload says, there is always a frame to read for, and an
\* object that is made of its parts has all of them.
THEOREM ReaderIsTyped == ReaderSpec => [](ReaderTypeOK /\ FramesKept)
<1>1. ReaderInv => ReaderTypeOK /\ FramesKept
  BY DEF ReaderInv
<1> QED
  BY ReaderBegins, ReaderKeeps, <1>1, PTL DEF ReaderSpec

\* k::Reader stays within the payload and at the place the format says, for
\* payloads of any length and any nesting.
THEOREM CursorStaysTrue == ReaderSpec => []CursorIsTrue
<1>1. ReaderInv => CursorIsTrue
  BY DEF ReaderInv
<1> QED
  BY ReaderBegins, ReaderKeeps, <1>1, PTL DEF ReaderSpec

\* No length that k::Reader believes is larger than what the payload holds.
THEOREM AnnouncementsAreTrue == ReaderSpec => []AnnouncedIsThere
<1>1. ReaderInv => AnnouncedIsThere
  BY DEF ReaderInv
<1> QED
  BY ReaderBegins, ReaderKeeps, <1>1, PTL DEF ReaderSpec

\* Whatever MAX_READ_DEPTH is: no more objects are open one in the other, and
\* only as many are refused as too deep.
THEOREM OnlyNestingIsTooDeep == ReaderSpec => []DepthIsNesting
<1>1. ReaderInv => DepthIsNesting
  BY DEF ReaderInv
<1> QED
  BY ReaderBegins, ReaderKeeps, <1>1, PTL DEF ReaderSpec
-------------------------------------------------------------------------------
\* What is left to do at most: three steps for a byte that is to come, one for
\* an object that is open, and those that begin or end one.
ReaderStepsLeft ==
  3 * (size - pos) + Len(frames)
    + (CASE pc = "next" -> 2 [] pc = "type" -> 1 [] OTHER -> 0)

ReaderAdvances == ReaderStepsLeft \in Nat /\ ReaderStepsLeft' < ReaderStepsLeft

\* An object of at least a byte is worth the steps it makes room for.
LEMMA ReadingAdvances ==
  ASSUME ReaderInv, pc = "type", NEW bytes \in Nat, bytes >= 1, pc' = "next", size' = size,
         Room(bytes), pos' = pos + bytes, Len(frames') \in {Len(frames), Len(frames) + 1}
  PROVE  ReaderStepsLeft' < ReaderStepsLeft
<1>1. size \in Nat /\ pos \in Nat /\ Len(frames) \in Nat
  BY FrameElements DEF ReaderInv, ReaderTypeOK
<1>2. ReaderStepsLeft = 3 * (size - pos) + Len(frames) + 1
  BY DEF ReaderStepsLeft
<1>3. ReaderStepsLeft' = 3 * (size - (pos + bytes)) + Len(frames') + 2
  BY DEF ReaderStepsLeft
<1> QED
  BY <1>1, <1>2, <1>3

LEMMA DeliverAdvances ==
  ASSUME ReaderInv, pc = "type", NEW bytes \in Nat, bytes >= 1, NEW took, NEW shape,
         Room(bytes), Deliver(bytes, took, shape)
  PROVE  ReaderStepsLeft' < ReaderStepsLeft
<1>1. frames \in Seq(Frames)
  BY DEF ReaderInv, ReaderTypeOK
<1>2. Len(frames') = Len(frames)
  BY <1>1 DEF Deliver
<1> QED
  BY <1>2, ReadingAdvances DEF Deliver

LEMMA OpenAdvances ==
  ASSUME ReaderInv, pc = "type", NEW bytes \in Nat, bytes >= 1, NEW kind, NEW n,
         Room(bytes), Open(kind, n, bytes)
  PROVE  ReaderStepsLeft' < ReaderStepsLeft
<1>1. frames \in Seq(Frames)
  BY DEF ReaderInv, ReaderTypeOK
<1>2. Len(frames') = Len(frames) + 1
  BY <1>1 DEF Open
<1> QED
  BY <1>2, ReadingAdvances DEF Open

LEMMA StoppingAdvances ==
  ASSUME ReaderInv, pc \in {"next", "type"}, pc' \in {"done", "failed"},
         UNCHANGED <<size, pos, frames>>
  PROVE  ReaderStepsLeft' < ReaderStepsLeft
<1>1. 3 * (size - pos) + Len(frames) \in Int
  BY FrameElements DEF ReaderInv, ReaderTypeOK
<1>2. ReaderStepsLeft' = 3 * (size - pos) + Len(frames)
  BY <1>1 DEF ReaderStepsLeft
<1>3. \/ ReaderStepsLeft = 3 * (size - pos) + Len(frames) + 1
      \/ ReaderStepsLeft = 3 * (size - pos) + Len(frames) + 2
  BY <1>1 DEF ReaderStepsLeft
<1> QED
  BY <1>1, <1>2, <1>3

LEMMA FailAdvances ==
  ASSUME ReaderInv, pc \in {"next", "type"}, NEW reason, Fail(reason)
  PROVE  ReaderStepsLeft' < ReaderStepsLeft
  BY StoppingAdvances DEF Fail

LEMMA TypeAdvances ==
  ASSUME ReaderInv, ReadType
  PROVE  ReaderStepsLeft' < ReaderStepsLeft
<1>1. pc = "type"
  BY DEF ReadType, Atom, Vector, Symbol, BadHeader, SymbolVector, List, Projection, Table,
         Dict, Lambda, Derived, Primitive, QError, Unsupported, Typed
<1>2. size \in Nat /\ pos \in Nat
  BY ReaderLengths
<1>3. ASSUME NEW t \in Fixed, Atom(t)
      PROVE  ReaderStepsLeft' < ReaderStepsLeft
  <2>1. 1 + AtomWidth(t) \in Nat /\ 1 + AtomWidth(t) >= 1
    BY WidthsAgree
  <2> QED
    BY <1>1, <1>3, <2>1, DeliverAdvances, FailAdvances DEF Atom
<1>4. ASSUME NEW t \in Fixed, NEW n \in Counts, Vector(t, n)
      PROVE  ReaderStepsLeft' < ReaderStepsLeft
  <2>1. n \in Nat
    BY <1>4, ReaderAssumption DEF Vector, Announced
  <2>2. PICK width \in Nat : width = ElementWidth(t)
    BY WidthsAgree
  <2>3. PICK bytes \in Nat : bytes = 6 + n * width /\ bytes >= 1
    <3>1. n * width \in Nat
      BY <2>1
    <3> QED
      BY <3>1
  <2> QED
    BY <1>1, <1>4, <2>2, <2>3, DeliverAdvances, FailAdvances DEF Vector
<1>5. ASSUME Symbol
      PROVE  ReaderStepsLeft' < ReaderStepsLeft
  <2>1. \A k \in 1 .. MaxSymbol : 1 + k \in Nat /\ 1 + k >= 1
    BY ReaderAssumption
  <2> QED
    BY <1>1, <1>5, <2>1, DeliverAdvances, FailAdvances DEF Symbol
<1>6. ASSUME NEW n \in Counts, SymbolVector(n)
      PROVE  ReaderStepsLeft' < ReaderStepsLeft
  <2>1. n \in Nat
    BY <1>6, ReaderAssumption DEF SymbolVector, Announced
  <2>2. ASSUME NEW k \in n .. n * MaxSymbol
        PROVE  6 + k \in Nat /\ 6 + k >= 1
    <3>1. n * MaxSymbol \in Int
      BY <2>1, ReaderAssumption
    <3> QED
      BY <2>1, <3>1
  <2> QED
    BY <1>1, <1>6, <2>2, DeliverAdvances, FailAdvances DEF SymbolVector
<1>7. ASSUME NEW n \in Counts, List(n) \/ Projection(n)
      PROVE  ReaderStepsLeft' < ReaderStepsLeft
  <2>1. 6 \in Nat /\ 6 >= 1 /\ 5 \in Nat /\ 5 >= 1
    OBVIOUS
  <2> QED
    BY <1>1, <1>7, <2>1, OpenAdvances DEF List, Projection, ListFits
<1>8. ASSUME Table \/ Dict \/ Derived
      PROVE  ReaderStepsLeft' < ReaderStepsLeft
  <2>1. 1 \in Nat /\ 1 >= 1 /\ 2 \in Nat /\ 2 >= 1
    OBVIOUS
  <2> QED
    BY <1>1, <1>8, <2>1, OpenAdvances DEF Table, Dict, Derived, Typed
<1>9. ASSUME Lambda
      PROVE  ReaderStepsLeft' < ReaderStepsLeft
  <2>1. \A k \in 1 .. MaxSymbol : 1 + k \in Nat /\ 1 + k >= 1
    BY ReaderAssumption
  <2> QED
    BY <1>1, <1>9, <2>1, OpenAdvances DEF Lambda
<1>10. ASSUME NEW kind \in {"null", "function"}, Primitive(kind)
       PROVE  ReaderStepsLeft' < ReaderStepsLeft
  <2>1. 2 \in Nat /\ 2 >= 1
    OBVIOUS
  <2> QED
    BY <1>1, <1>10, <2>1, DeliverAdvances, FailAdvances DEF Primitive
<1>11. ASSUME BadHeader \/ QError \/ Unsupported
       PROVE  ReaderStepsLeft' < ReaderStepsLeft
  BY <1>1, <1>11, FailAdvances DEF BadHeader, QError, Unsupported
<1> QED
  BY <1>3, <1>4, <1>5, <1>6, <1>7, <1>8, <1>9, <1>10, <1>11 DEF ReadType

LEMMA ReaderGoesOn ==
  ASSUME ReaderInv, ReaderNext
  PROVE  ReaderAdvances
<1>1. /\ size \in Nat /\ pos \in Nat /\ pos <= size /\ Len(frames) \in Nat
      /\ frames \in Seq(Frames)
  BY ReaderLengths, FrameElements DEF ReaderInv, ReaderTypeOK
<1>2. ReaderStepsLeft \in Nat
  <2>1. 3 * (size - pos) + Len(frames) \in Nat
    BY <1>1
  <2>2. \/ ReaderStepsLeft = 3 * (size - pos) + Len(frames) + 0
        \/ ReaderStepsLeft = 3 * (size - pos) + Len(frames) + 1
        \/ ReaderStepsLeft = 3 * (size - pos) + Len(frames) + 2
    BY DEF ReaderStepsLeft
  <2> QED
    BY <2>1, <2>2
<1>3. ASSUME Descend PROVE ReaderStepsLeft' < ReaderStepsLeft
  <2>1. CASE TooDeep
    BY <1>2, <1>3, <2>1, FailAdvances DEF Descend
  <2>2. CASE ~TooDeep
    <3>1. /\ pc = "next" /\ pc' = "type" /\ size' = size /\ pos' = pos /\ frames' = frames
      BY <1>3, <2>2 DEF Descend
    <3>2. /\ ReaderStepsLeft = 3 * (size - pos) + Len(frames) + 2
          /\ ReaderStepsLeft' = 3 * (size - pos) + Len(frames) + 1
      BY <3>1 DEF ReaderStepsLeft
    <3> QED
      BY <1>1, <1>2, <3>2
  <2> QED
    BY <2>1, <2>2
<1>4. ASSUME NoType PROVE ReaderStepsLeft' < ReaderStepsLeft
  BY <1>2, <1>4, FailAdvances DEF NoType
<1>5. ASSUME ReadType PROVE ReaderStepsLeft' < ReaderStepsLeft
  BY <1>2, <1>5, TypeAdvances
<1>6. ASSUME Close PROVE ReaderStepsLeft' < ReaderStepsLeft
  <2>1. CASE Fail("refused")
    BY <1>2, <1>6, <2>1, FailAdvances DEF Close
  <2>2. CASE ~Fail("refused")
    <3>1. PICK below \in Nat : Len(frames) = below + 1 /\ below > 0
      <4>1. Len(frames) - 1 \in Nat /\ Len(frames) - 1 > 0
            /\ Len(frames) = (Len(frames) - 1) + 1
        BY <1>1, <1>6 DEF Close
      <4> QED
        BY <4>1
    <3>2. Len(frames) - 1 = below
      BY <3>1
    <3>3. PICK g : frames' = [SubSeq(frames, 1, below) EXCEPT ![below] = g]
      BY <1>6, <2>2, <3>2 DEF Close
    <3>4. Len(frames') = below
      BY <1>1, <3>1, <3>3
    <3>5. pc = "next" /\ pc' = "next" /\ size' = size /\ pos' = pos
      BY <1>6, <2>2 DEF Close
    <3>6. /\ ReaderStepsLeft = 3 * (size - pos) + (below + 1) + 2
          /\ ReaderStepsLeft' = 3 * (size - pos) + below + 2
      BY <3>1, <3>4, <3>5 DEF ReaderStepsLeft
    <3> QED
      BY <1>1, <1>2, <3>6
  <2> QED
    BY <2>1, <2>2
<1>7. ASSUME Answer PROVE ReaderStepsLeft' < ReaderStepsLeft
  BY <1>2, <1>7, StoppingAdvances DEF Answer
<1> QED
  BY <1>2, <1>3, <1>4, <1>5, <1>6, <1>7 DEF ReaderNext, ReaderAdvances

\* Whatever the payload says, k::Reader is done after a number of steps that its
\* length bounds: each starts where there are some left and leaves fewer.
THEOREM ReadingGetsShorter ==
  ReaderSpec => [][ReaderAdvances]_readerVars
<1>1. ReaderInv /\ [ReaderNext]_readerVars =>
        [ReaderAdvances]_readerVars
  BY ReaderGoesOn
<1> QED
  BY ReaderBegins, ReaderKeeps, <1>1, PTL DEF ReaderSpec
===============================================================================
