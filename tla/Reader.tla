-------------------------------- MODULE Reader --------------------------------
(***************************************************************************)
(* k::Reader (src/k.rs): the deserializer of an IPC payload.  read calls   *)
(* itself for the parts of a compound object; here the calls under way are *)
(* a stack of frames, one for each object that is open, above a frame for  *)
(* the caller, Conn::sync, which asks for one object.                      *)
(*                                                                         *)
(* A payload is read strictly forwards, so it is not kept: what a byte, a  *)
(* length or a symbol says is chosen when it is read.  Of a value the      *)
(* shape is kept that decides what is made of it: a table must be made of  *)
(* a dictionary of symbols and a list, a lambda of a char vector.          *)
(***************************************************************************)
EXTENDS Integers, Sequences

CONSTANTS
  Sizes,      \* lengths of the payload
  Counts,     \* values of a length word
  MaxDepth,   \* MAX_READ_DEPTH
  MaxSymbol   \* bound: bytes of a symbol, with its zero

ASSUME ReaderAssumption ==
  /\ Sizes \subseteq Nat
  /\ Counts \subseteq Int
  /\ MaxDepth \in Nat
  /\ MaxSymbol \in Nat

VARIABLES
  size,       \* length of the payload
  pos,        \* the cursor
  depth,      \* Reader.depth
  frames,     \* the objects being read, innermost last
  pc,         \* "next" part of the innermost, "type" of an object, or the end
  why         \* why reading failed, as far as a property asks

readerVars == <<size, pos, depth, frames, pc, why>>

\* Types of a fixed width; type t as a vector is type -t as an atom.
Fixed == {1, 2} \cup 4 .. 10 \cup 12 .. 19

\* Bytes of an atom.
AtomWidth(t) ==
  CASE t \in {1, 4, 10}                  -> 1
    [] t = 5                             -> 2
    [] t \in {6, 8, 13, 14, 17, 18, 19}  -> 4
    [] t \in {7, 9, 12, 15, 16}          -> 8
    [] t = 2                             -> 16

\* Mutant: a GUID vector's length checked as a byte vector's is.
HeaderWidthGuidAsByte(t) == IF t = 2 THEN 1 ELSE AtomWidth(t)

\* Bytes of an element, as vhdr is told them.
HeaderWidth(t) ==
  CASE t \in {1, 4, 10}                  -> 1
    [] t = 5                             -> 2
    [] t \in {6, 8, 13, 14, 17, 18, 19}  -> 4
    [] t \in {7, 9, 12, 15, 16}          -> 8
    [] t = 2                             -> 16

\* Mutant: months as wide as timestamps.
ElementWidthLongMonths(t) == IF t = 13 THEN 8 ELSE AtomWidth(t)

\* Bytes of an element, as the loop reads it.
ElementWidth(t) ==
  CASE t \in {1, 4, 10}                  -> 1
    [] t = 5                             -> 2
    [] t \in {6, 8, 13, 14, 17, 18, 19}  -> 4
    [] t \in {7, 9, 12, 15, 16}          -> 8
    [] t = 2                             -> 16

Shape(kind, n, m) == [kind |-> kind, n |-> n, m |-> m]
Plain(kind) == Shape(kind, 0, 0)

\* An object of which n parts are to be read; its first bytes, before the
\* parts, are `head`.
Frame(kind, n, head) ==
  [kind |-> kind, n |-> n, got |-> 0, start |-> pos, took |-> head, parts |-> <<>>]

Top == frames[Len(frames)]

Room(n) == pos + n <= size
-------------------------------------------------------------------------------
ReaderInit ==
  /\ size \in Sizes
  /\ pos = 0 /\ depth = 0
  /\ frames = << [kind |-> "answer", n |-> 1, got |-> 0,
                  start |-> 0, took |-> 0, parts |-> <<>>] >>
  /\ pc = "next"
  /\ why = "nothing"

Fail(reason) ==
  /\ pc' = "failed" /\ why' = reason
  /\ UNCHANGED <<size, pos, depth, frames>>

\* The parts of a list are only counted.
Given(f, took, shape) ==
  [f EXCEPT !.got = f.got + 1, !.took = f.took + took,
            !.parts = IF f.kind \in {"list", "projection"} THEN <<>> ELSE Append(f.parts, shape)]

\* Mutant: the depth counts the objects begun.
LeftDepthKept == depth

LeftDepth == depth - 1

\* An object of `bytes` bytes is read, as far as the cursor knows, and is
\* handed to the frame that asked for it; the format says `took`.
Deliver(bytes, took, shape) ==
  /\ pos' = pos + bytes
  /\ depth' = LeftDepth
  /\ frames' = [frames EXCEPT ![Len(frames)] = Given(Top, took, shape)]
  /\ pc' = "next"
  /\ UNCHANGED <<size, why>>

Open(kind, n, bytes) ==
  /\ pos' = pos + bytes
  /\ frames' = Append(frames, Frame(kind, n, bytes))
  /\ pc' = "next"
  /\ UNCHANGED <<size, depth, why>>

\* Mutant: a loop that reads a part before it asks whether there is one.
HasMoreAskedLate == Top.got < Top.n \/ Top.got = 0

HasMore == Top.got < Top.n

TooDeep == depth >= MaxDepth

\* read: one more level.
Descend ==
  /\ pc = "next" /\ HasMore
  /\ IF TooDeep
       THEN Fail("deep")
       ELSE /\ depth' = depth + 1
            /\ pc' = "type"
            /\ UNCHANGED <<size, pos, frames, why>>
-------------------------------------------------------------------------------
\* read_impl, by the type byte.

NoType == pc = "type" /\ ~Room(1) /\ Fail("refused")

Typed == pc = "type" /\ Room(1)

Atom(t) ==
  /\ Typed
  /\ IF Room(1 + AtomWidth(t))
       THEN Deliver(1 + AtomWidth(t), 1 + AtomWidth(t), Plain("atom"))
       ELSE Fail("refused")

\* sym: the bytes up to a zero, which may be missing.
Symbol ==
  /\ Typed
  /\ \/ \E k \in 1 .. MaxSymbol : Room(1 + k) /\ Deliver(1 + k, 1 + k, Plain("atom"))
     \/ Fail("refused")

\* vhdr: the attribute, the length, and whether the elements can be there.
Announced(n, width) == Room(6) /\ n >= 0 /\ n * width <= size - (pos + 6)

\* An attribute over 4, a length that is refused, or no room for either.
BadHeader == Typed /\ Fail("refused")

VectorShape(t, n) == IF t = 10 THEN Shape("chars", n, 0) ELSE Shape("vector", n, 0)

Vector(t, n) ==
  /\ Typed
  /\ Announced(n, HeaderWidth(t))
  /\ IF Room(6 + n * ElementWidth(t))
       THEN Deliver(6 + n * ElementWidth(t), 6 + n * AtomWidth(t), VectorShape(t, n))
       ELSE Fail("element")

\* n symbols take at least a byte each.
SymbolVector(n) ==
  /\ Typed
  /\ Announced(n, 1)
  /\ \/ \E k \in n .. n * MaxSymbol :
          Room(6 + k) /\ Deliver(6 + k, 6 + k, Shape("symbols", n, 0))
     \/ n > 0 /\ Fail("refused")

\* A list, projection or composition announces no more parts than bytes.
ListFits(n, head) == Room(head) /\ n >= 0 /\ n <= size - (pos + head)

List(n) == Typed /\ ListFits(n, 6) /\ Open("list", n, 6)

\* Types 104 and 105; they have no attribute byte.
Projection(n) == Typed /\ ListFits(n, 5) /\ Open("projection", n, 5)

\* Type 98: an attribute and a dictionary.
Table == Typed /\ Room(2) /\ Open("table", 1, 2)

Dict == Typed /\ Open("dict", 2, 1)

\* Type 100: the namespace, a symbol, and the body.
Lambda ==
  /\ Typed
  /\ \E k \in 1 .. MaxSymbol : Room(1 + k) /\ Open("lambda", 1, 1 + k)

\* Types 101 to 103: an operator's number; 101 0 is the null.
Primitive(kind) ==
  /\ Typed
  /\ IF Room(2) THEN Deliver(2, 2, Plain(kind)) ELSE Fail("refused")

\* Types 106 to 112: what an iterator, or dynamic loading, is applied to.
Derived == Typed /\ Open("derived", 1, 1)

\* Type -128: the message of a q error, wherever it stands.
QError == Typed /\ Fail("refused")

Unsupported == Typed /\ Fail("refused")

ReadType ==
  \/ \E t \in Fixed : Atom(t) \/ \E n \in Counts : Vector(t, n)
  \/ Symbol
  \/ BadHeader
  \/ \E n \in Counts : SymbolVector(n) \/ List(n) \/ Projection(n)
  \/ Table \/ Dict \/ Lambda \/ Derived
  \/ \E kind \in {"null", "function"} : Primitive(kind)
  \/ QError
  \/ Unsupported
-------------------------------------------------------------------------------
Rectangular(shape) == shape.kind = "columns" /\ shape.n = shape.m

DictShape(keys, vals) ==
  IF keys.kind = "symbols" /\ vals.kind = "list"
    THEN Shape("columns", keys.n, vals.n)
    ELSE Plain("dict")

\* What is made of an object whose parts have all been read.
Made(f) ==
  CASE f.kind = "list"       -> Shape("list", f.got, 0)
    [] f.kind = "projection" -> Plain("projection")
    [] f.kind = "dict"       -> DictShape(f.parts[1], f.parts[2])
    [] f.kind = "table"      -> Plain("table")
    [] f.kind = "lambda"     -> IF f.parts[1].kind = "chars"
                                  THEN Plain("function") ELSE f.parts[1]
    [] f.kind = "derived"    -> IF f.parts[1].kind = "function"
                                  THEN Plain("function") ELSE Plain("projection")

\* The innermost object is complete; its caller is the one below.
Close ==
  /\ pc = "next" /\ Len(frames) > 1 /\ Top.got = Top.n
  /\ IF Top.kind = "table" /\ ~Rectangular(Top.parts[1])
       THEN Fail("refused")
       ELSE LET below == Len(frames) - 1
            IN /\ frames' = [SubSeq(frames, 1, below) EXCEPT
                               ![below] = Given(frames[below], Top.took, Made(Top))]
               /\ depth' = LeftDepth
               /\ UNCHANGED <<size, pos, pc, why>>

\* sync has its answer; bytes left over are ignored.
Answer ==
  /\ pc = "next" /\ Len(frames) = 1 /\ Top.got = Top.n
  /\ pc' = "done"
  /\ UNCHANGED <<size, pos, depth, frames, why>>

ReaderNext == Descend \/ NoType \/ ReadType \/ Close \/ Answer

ReaderSpec == ReaderInit /\ [][ReaderNext]_readerVars

\* A sequential program goes on.
FairReaderSpec == ReaderSpec /\ WF_readerVars(ReaderNext)
-------------------------------------------------------------------------------
ShapeKinds == {"atom", "vector", "chars", "symbols", "list", "projection", "dict",
               "columns", "table", "null", "function"}
Shapes == [kind : ShapeKinds, n : Nat, m : Nat]

FrameKinds == {"answer", "list", "projection", "dict", "table", "lambda", "derived"}
Frames == [kind : FrameKinds, n : Nat, got : Nat, start : Nat, took : Nat,
           parts : Seq(Shapes)]

\* Every variable has its type; there is always a frame to read for.
ReaderTypeOK ==
  /\ size \in Nat /\ pos \in Nat /\ depth \in Int
  /\ frames \in Seq(Frames)
  /\ Len(frames) > 0
  /\ pc \in {"next", "type", "done", "failed"}
  /\ why \in {"nothing", "refused", "element", "deep"}

\* The cursor stands where the format says it does: each open object has
\* taken the bytes up to where the next one in it began, the innermost those
\* up to the cursor, and the answer exactly those that were read.  A vector
\* takes what as many atoms of its type take.
CursorIsTrue ==
  /\ pos <= size
  /\ \A i \in 1 .. Len(frames) - 1 :
       frames[i].start + frames[i].took = frames[i + 1].start
  /\ Top.start + Top.took = pos

\* A length is believed only if the payload can hold what it announces, which
\* is asked before anything is reserved for it (k.rs:191): no vector then runs
\* out of bytes, and no object announces more parts than the payload has bytes
\* from its own first byte on.
AnnouncedIsThere ==
  /\ why # "element"
  /\ \A i \in DOMAIN frames :
       frames[i].kind \in {"list", "projection"} => frames[i].n <= size - frames[i].start

\* An answer is refused as too deep when and only when MaxDepth objects are
\* open one in the other: objects that stand side by side do not add up.
DepthIsNesting ==
  /\ Len(frames) <= MaxDepth + 1
  /\ why = "deep" => Len(frames) = MaxDepth + 1

\* Whatever the payload says, reading ends.
Ends == <>(pc \in {"done", "failed"})
===============================================================================
