--------------------------- MODULE ConfigConnProofs ---------------------------
(***************************************************************************)
(* Proofs about Conn, for every clock unit, cap, number of addresses and   *)
(* size bound: type correctness, that an exit with 5 means a timeout that  *)
(* has run out or a peer the kernel has given up, that establishment is    *)
(* bounded by its cap, and that Conn implements Channel.                   *)
(*                                                                         *)
(* The inductive invariant adds to the types what the client knows of its  *)
(* socket in each phase: the timeouts in force, that no call outlives its  *)
(* deadline, and where elapsed can have got to.                            *)
(*                                                                         *)
(* The second part, independent of the first, is about ConfigFile, where   *)
(* the servers to connect to have their names: for any number of           *)
(* processes, directories, names and lines, writers that neither overlap   *)
(* nor fail lose nothing, and a lookup that no rewriting falls into finds  *)
(* what was asked for, in the nearest project file first.                  *)
(***************************************************************************)
EXTENDS ConfigFile, Conn, WellFoundedInduction, TLAPS

\* The socket options in force: the handshake's until the login reply, the
\* user's from then on.
SocketOptions ==
  /\ phase \in {"tls", "login_write", "login_read"} =>
       rdTimeout = HandshakeTimeout(timeout) /\ wrTimeout = HandshakeTimeout(timeout)
  /\ phase \in {"idle"} \cup RoundTripPhases =>
       rdTimeout = ReadTimeout(timeout) /\ wrTimeout = WriteTimeout(timeout)

\* No call is blocked past its deadline.
CallInTime == Deadline # None => waited <= Deadline
CallUntimed == Deadline = None => waited = 0

\* Before the present call, the earlier ones took at most the cap each.
EstablishBudget ==
  /\ phase = "resolve" => elapsed = 0 /\ waited = 0 /\ addr = 0
  /\ phase = "tls" => tls
  /\ phase \in EstablishPhases \ {"resolve"} =>
       addr >= 1 /\ elapsed <= (EstablishCalls - 1) * EstablishCap + waited

\* What an exit with 5 says about the call that failed.
Silent ==
  code = TimeoutError =>
    /\ phase \in RoundTripPhases
    /\ ~lost => /\ timeout # None
                /\ phase \in {"header", "payload"} => waited = timeout
                /\ phase = "send" => waited = Lesser(timeout, WriteCap)

Inv == TypeOK /\ SocketOptions /\ CallInTime /\ CallUntimed /\ EstablishBudget /\ Silent
-----------------------------------------------------------------------------
\* The timeouts a socket can be given are times.
LEMMA TimeoutTypes ==
  ASSUME NEW t \in Nat
  PROVE  /\ ConnectTimeout(t) \in Nat
         /\ HandshakeTimeout(t) \in Nat \ {0}
         /\ HandshakeTimeout(t) <= EstablishCap
         /\ ReadTimeout(t) \in Nat
         /\ WriteTimeout(t) \in Nat
  BY TimeAssumption DEF ConnectTimeout, HandshakeTimeout, ReadTimeout, WriteTimeout,
                        Capped, Lesser, None

\* The state is well typed from the start ...
LEMMA TypeInit == Init => TypeOK
<1>1. Init => lost \in BOOLEAN /\ tls \in BOOLEAN
  BY DEF Init
<1>2. Init => /\ timeout \in Timeouts /\ phase \in Phases /\ phase \notin RoundTripPhases
             /\ addr \in 0 .. Addrs /\ pieces \in 0 .. MaxPieces
             /\ answered \in 0 .. MaxRequests
             /\ rdTimeout \in Nat /\ wrTimeout \in Nat /\ waited \in Nat /\ elapsed \in Nat
             /\ header = NoHeader /\ code \in Codes
  BY SizeAssumption
  DEF Init, Phases, EstablishPhases, RoundTripPhases, Codes, Running, None
<1> QED BY <1>1, <1>2 DEF TypeOK

\* ... and every step keeps it so.
LEMMA TypeStep == TypeOK /\ [Next]_vars => TypeOK'
<1> SUFFICES ASSUME TypeOK, [Next]_vars
             PROVE  TypeOK'
  OBVIOUS
<1> timeout \in Nat
  BY TimeAssumption DEF TypeOK
<1> USE SizeAssumption DEF TypeOK, vars, socket, clock, Phases, EstablishPhases,
                          RoundTripPhases, Transfers
<1>1. ASSUME NEW c \in Codes, Exit(c)
      PROVE  TypeOK'
  BY <1>1 DEF Exit, Stop
<1>2. CASE Establish
  <2>1. CASE BadTarget
    BY <2>1, <1>1 DEF BadTarget, Codes
  <2>2. CASE Resolve
    BY <2>2 DEF Resolve, Enter
  <2>3. CASE ConnectOk
    BY <2>3, TimeoutTypes DEF ConnectOk, Enter
  <2>4. CASE ConnectRefused \/ ConnectExpire
    <3>1. NextAddress
      BY <2>4 DEF ConnectRefused, ConnectExpire
    <3>2. phase = "connect"
      BY <2>4 DEF ConnectRefused, ConnectExpire
    <3> QED BY <3>1, <3>2, <1>1 DEF NextAddress, Enter, Codes
  <2>5. CASE TlsOk
    BY <2>5 DEF TlsOk, Enter
  <2>6. CASE TlsFail \/ BadCapability
    BY <2>6, <1>1 DEF TlsFail, BadCapability, Codes
  <2>7. CASE LoginSent
    BY <2>7 DEF LoginSent, Enter
  <2>8. CASE LoginOk
    BY <2>8, TimeoutTypes DEF LoginOk, Enter
  <2> QED BY <1>2, <2>1, <2>2, <2>3, <2>4, <2>5, <2>6, <2>7, <2>8 DEF Establish
<1>3. CASE Sync
  <2>1. CASE SyncOversize \/ ReplyRejected \/ ReplyEmpty
    BY <2>1, <1>1 DEF SyncOversize, ReplyRejected, ReplyEmpty, Codes
  <2>2. CASE SyncSend
    BY <2>2 DEF SyncSend, Enter
  <2>3. CASE SyncSent
    BY <2>3 DEF SyncSent, Enter
  <2>4. ASSUME NEW h \in Headers, HeaderRead(h)
        PROVE  TypeOK'
    BY <2>4, <1>1 DEF HeaderRead, Enter, Codes
  <2>5. CASE ReplyDecoded
    BY <2>5 DEF ReplyDecoded, Enter
  <2> QED BY <1>3, <2>1, <2>2, <2>3, <2>4, <2>5 DEF Sync
<1>4. CASE Piece
  BY <1>4 DEF Piece
<1>5. CASE Disconnect \/ Expire
  BY <1>5, <1>1 DEF Disconnect, Expire, FailureCode, Codes
<1>9. CASE PeerLost
  BY <1>9 DEF PeerLost, Stop, FailureCode, Codes
<1>6. CASE Leave
  BY <1>6, <1>1 DEF Leave, Codes
<1>7. CASE Tick
  BY <1>7 DEF Tick
<1>8. CASE UNCHANGED vars
  BY <1>8
<1> QED BY <1>2, <1>3, <1>4, <1>5, <1>6, <1>7, <1>8, <1>9 DEF Next
-----------------------------------------------------------------------------
\* Once the program has ended nothing moves.
LEMMA EndIsFinal ==
  ASSUME [Next]_vars, code # Running
  PROVE  UNCHANGED vars
  BY DEF Next, Establish, BadTarget, Resolve, ConnectOk, ConnectRefused, ConnectExpire,
         TlsOk, TlsFail, LoginSent, LoginOk, BadCapability, Sync, SyncOversize, SyncSend,
         SyncSent, HeaderRead, ReplyDecoded, ReplyRejected, ReplyEmpty, Piece, Disconnect,
         PeerLost, Expire, Leave, Tick, Timed, Expired, Blocked, Transferring, vars

\* The socket options follow the phase.
LEMMA SocketStep == TypeOK /\ SocketOptions /\ [Next]_vars => SocketOptions'
<1> SUFFICES ASSUME TypeOK, SocketOptions, [Next]_vars
             PROVE  SocketOptions'
  OBVIOUS
<1> USE DEF SocketOptions, vars, socket, clock, Enter, Exit, Stop, RoundTripPhases, Transfers
<1>1. CASE Establish
  BY <1>1 DEF Establish, BadTarget, Resolve, ConnectOk, ConnectRefused, ConnectExpire,
     NextAddress, TlsOk, TlsFail, LoginSent, LoginOk, BadCapability
<1>2. CASE Sync
  BY <1>2 DEF Sync, SyncOversize, SyncSend, SyncSent, HeaderRead, ReplyDecoded,
     ReplyRejected, ReplyEmpty
<1>3. CASE Piece \/ Disconnect \/ PeerLost \/ Expire \/ Leave \/ Tick
  BY <1>3 DEF Piece, Disconnect, PeerLost, Expire, Leave, Tick
<1>4. CASE UNCHANGED vars
  BY <1>4
<1> QED BY <1>1, <1>2, <1>3, <1>4 DEF Next

\* A step starts a new system call, lets time pass inside the deadline, or
\* leaves the call as it is.
LEMMA CallStep ==
  ASSUME [Next]_vars
  PROVE  \/ waited' = 0
         \/ waited' = waited /\ UNCHANGED <<phase, timeout, socket>>
         \/ Tick
<1> USE DEF vars, socket, clock, Enter, Exit, Stop
<1>1. CASE Establish
  BY <1>1 DEF Establish, BadTarget, Resolve, ConnectOk, ConnectRefused, ConnectExpire,
     NextAddress, TlsOk, TlsFail, LoginSent, LoginOk, BadCapability
<1>2. CASE Sync
  BY <1>2 DEF Sync, SyncOversize, SyncSend, SyncSent, HeaderRead, ReplyDecoded,
     ReplyRejected, ReplyEmpty
<1>3. CASE Piece \/ Disconnect \/ PeerLost \/ Expire \/ Leave
  BY <1>3 DEF Piece, Disconnect, PeerLost, Expire, Leave
<1>4. CASE UNCHANGED vars
  BY <1>4
<1> QED BY <1>1, <1>2, <1>3, <1>4 DEF Next

\* Time stops at the deadline of the call in progress.
LEMMA CallInTimeStep ==
  TypeOK /\ TypeOK' /\ CallInTime /\ CallUntimed /\ [Next]_vars
    => CallInTime' /\ CallUntimed'
<1> SUFFICES ASSUME TypeOK, TypeOK', CallInTime, CallUntimed, [Next]_vars
             PROVE  CallInTime' /\ CallUntimed'
  OBVIOUS
<1>1. timeout \in Nat /\ timeout' \in Nat
  BY TimeAssumption DEF TypeOK
<1>2. Deadline \in Nat /\ Deadline' \in Nat
  BY <1>1, TimeoutTypes DEF Deadline, TypeOK, None
<1>3. CASE waited' = 0
  BY <1>2, <1>3 DEF CallInTime, CallUntimed, None
<1>4. CASE waited' = waited /\ UNCHANGED <<phase, timeout, socket>>
  BY <1>4 DEF CallInTime, CallUntimed, Deadline, socket
<1>5. CASE Tick
  <2>1. Deadline' = Deadline /\ waited' = waited + 1
    BY <1>5 DEF Tick, Deadline, socket
  <2>2. Deadline # None /\ waited < Deadline
    BY <1>2, <1>5 DEF Tick, Timed, Expired, TypeOK
  <2> QED BY <1>2, <2>1, <2>2 DEF CallInTime, CallUntimed, TypeOK
<1> QED BY <1>3, <1>4, <1>5, CallStep

\* Exit 5 comes from a call of a round trip that reached its deadline, or
\* whose peer the kernel gave up.
LEMMA SilentStep ==
  TypeOK /\ SocketOptions /\ CallInTime /\ Silent /\ [Next]_vars => Silent'
<1> SUFFICES ASSUME TypeOK, SocketOptions, CallInTime, Silent, [Next]_vars,
                    code' = TimeoutError
             PROVE  Silent'
  BY DEF Silent
<1>1. CASE code # Running
  BY <1>1, EndIsFinal DEF Silent, vars, clock
<1>2. CASE code = Running
  <2>1. Expire \/ Disconnect \/ PeerLost
    BY <1>2 DEF Next, Establish, BadTarget, Resolve, ConnectOk, ConnectRefused,
       ConnectExpire, NextAddress, TlsOk, TlsFail, LoginSent, LoginOk, BadCapability,
       Sync, SyncOversize, SyncSend, SyncSent, HeaderRead, ReplyDecoded, ReplyRejected,
       ReplyEmpty, Piece, Leave, Tick, vars, Exit, Stop, Running, TimeoutError, ConnectError,
       UsageError, QueryError, Success
  <2>2. (Expire \/ PeerLost) /\ phase \in RoundTripPhases
    BY <2>1 DEF Expire, Disconnect, PeerLost, Exit, Stop, FailureCode, TimeoutError,
       ConnectError
  <2>3. UNCHANGED <<phase, waited, timeout>>
    BY <2>2 DEF Expire, PeerLost, Exit, Stop, clock
  <2>7. CASE PeerLost
    BY <2>2, <2>3, <2>7 DEF PeerLost, Silent
  <2> SUFFICES ASSUME Expire PROVE Silent'
    BY <2>2, <2>7
  <2>4. Deadline # None /\ waited >= Deadline
    BY DEF Expire, Expired, Timed
  <2>5. CASE phase = "send"
    <3>1. Deadline = WriteTimeout(timeout)
      BY <2>5 DEF Deadline, SocketOptions, RoundTripPhases
    <3>2. timeout # None /\ Deadline = Lesser(timeout, WriteCap)
      BY <2>4, <3>1 DEF WriteTimeout, Capped
    <3>3. waited = Lesser(timeout, WriteCap)
      BY <2>4, <3>2, TimeAssumption DEF CallInTime, TypeOK, Lesser
    <3> QED BY <2>2, <2>3, <2>5, <3>2, <3>3 DEF Silent
  <2>6. CASE phase \in {"header", "payload"}
    <3>1. Deadline = timeout
      BY <2>6 DEF Deadline, SocketOptions, ReadTimeout, RoundTripPhases
    <3>2. waited = timeout
      BY <2>4, <3>1, TimeAssumption DEF CallInTime, TypeOK
    <3> QED BY <2>2, <2>3, <2>4, <2>6, <3>1, <3>2 DEF Silent
  <2> QED BY <2>2, <2>5, <2>6 DEF RoundTripPhases
<1> QED BY <1>1, <1>2
-----------------------------------------------------------------------------
\* Products of naturals grow with their factors.
LEMMA TimesMonotonic ==
  ASSUME NEW a \in Nat, NEW b \in Nat, NEW c \in Nat, a <= b
  PROVE  a * c <= b * c
  OBVIOUS

LEMMA TimesSuccessor ==
  ASSUME NEW a \in Nat, NEW c \in Nat
  PROVE  a * c + c = (a + 1) * c
  OBVIOUS

LEMMA TimesNat ==
  ASSUME NEW a \in Nat, NEW c \in Nat
  PROVE  a * c \in Nat
  OBVIOUS

\* A budget of a cap per call covers one more call of at most the cap.
LEMMA OneMoreCall ==
  ASSUME NEW n \in Nat \ {0}, NEW m \in Nat, NEW cap \in Nat,
         NEW spent \in Nat, NEW last \in Nat, NEW more \in Nat,
         m >= n + 1, last <= cap, spent <= (n - 1) * cap + last
  PROVE  spent <= n * cap /\ spent <= (m - 1) * cap + more
<1> DEFINE b == n - 1
           k == m - 1
<1>1. b \in Nat /\ k \in Nat /\ n = b + 1 /\ n <= k
  OBVIOUS
<1>2. b * cap + cap = n * cap
  BY <1>1, TimesSuccessor
<1>3. n * cap <= k * cap
  BY <1>1, TimesMonotonic
<1>4. b * cap \in Nat /\ n * cap \in Nat /\ k * cap \in Nat
  BY <1>1, TimesNat
<1>5. spent <= b * cap + last
  OBVIOUS
<1> HIDE DEF b, k
<1>6. spent <= n * cap /\ spent <= k * cap + more
  BY <1>2, <1>3, <1>4, <1>5
<1> QED BY <1>6 DEF k

\* A call of establishment that is over took at most the cap.
LEMMA CallCost ==
  ASSUME TypeOK, SocketOptions, CallInTime, CallUntimed,
         phase \in EstablishPhases \ {"resolve"}
  PROVE  waited <= EstablishCap
<1>1. timeout \in Nat
  BY TimeAssumption DEF TypeOK
<1>2. ConnectTimeout(timeout) <= EstablishCap /\ HandshakeTimeout(timeout) <= EstablishCap
  BY <1>1, TimeoutTypes, TimeAssumption DEF ConnectTimeout, Capped, Lesser, None
<1>3. Deadline \in Nat /\ Deadline <= EstablishCap
  BY <1>1, <1>2, TimeoutTypes DEF Deadline, SocketOptions, EstablishPhases
<1> QED BY <1>3, TimeAssumption DEF CallInTime, CallUntimed, TypeOK

\* Every step of establishment is paid for by the calls it has made.
LEMMA BudgetStep ==
  TypeOK /\ TypeOK' /\ SocketOptions /\ CallInTime /\ CallUntimed /\ EstablishBudget
    /\ [Next]_vars => EstablishBudget'
<1> SUFFICES ASSUME TypeOK, TypeOK', SocketOptions, CallInTime, CallUntimed,
                    EstablishBudget, [Next]_vars
             PROVE  EstablishBudget'
  OBVIOUS
<1> DEFINE Establishing == phase \in EstablishPhases \ {"resolve"}
           \* A step to a call with a higher number, at no cost in time.
           NextCall == /\ Establishing /\ phase' # "resolve"
                       /\ phase' = "tls" => tls'
                       /\ waited' = 0 /\ elapsed' = elapsed /\ addr' >= 1
                       /\ EstablishCalls' \in Nat /\ EstablishCalls' >= EstablishCalls + 1
<1>1. /\ Establishing => addr >= 1 /\ EstablishCalls \in Nat \ {0}
      /\ phase = "tls" => tls
  BY SizeAssumption DEF EstablishCalls, EstablishBudget, TypeOK
<1>2. ASSUME NextCall
      PROVE  EstablishBudget'
  <2>1. elapsed <= (EstablishCalls - 1) * EstablishCap + waited /\ waited <= EstablishCap
    BY <1>2, CallCost DEF EstablishBudget
  <2>2. /\ EstablishCalls \in Nat \ {0} /\ EstablishCalls' \in Nat
        /\ EstablishCalls' >= EstablishCalls + 1
    BY <1>1, <1>2
  <2>3. elapsed \in Nat /\ waited \in Nat /\ EstablishCap \in Nat
    BY TimeAssumption DEF TypeOK
  <2>4. waited' \in Nat /\ elapsed' = elapsed
    BY <1>2 DEF TypeOK
  <2>5. elapsed' <= (EstablishCalls' - 1) * EstablishCap + waited'
    BY <2>1, <2>2, <2>3, <2>4, OneMoreCall
  <2> QED BY <1>2, <2>5 DEF EstablishBudget
<1>3. ASSUME NEW c \in Codes, Exit(c)
      PROVE  EstablishBudget'
  BY <1>3 DEF Exit, Stop, EstablishBudget, EstablishCalls, clock
<1> USE SizeAssumption DEF EstablishPhases, Enter, clock, socket, TypeOK
<1>4. CASE BadTarget
  BY <1>3, <1>4 DEF BadTarget, Codes
<1>5. CASE Resolve
  <2>1. phase' = "connect" /\ addr' = 1 /\ elapsed' = 0 /\ waited' = 0
    BY <1>5 DEF Resolve, EstablishBudget
  <2>2. EstablishCalls' = 1
    BY <2>1 DEF EstablishCalls
  <2> QED BY <2>1, <2>2, TimeAssumption DEF EstablishBudget
<1>6. CASE ConnectOk
  <2>1. NextCall
    BY <1>1, <1>6 DEF ConnectOk, EstablishCalls
  <2> QED BY <1>2, <2>1
<1>7. CASE ConnectRefused \/ ConnectExpire
  <2>1. phase = "connect" /\ NextAddress
    BY <1>7 DEF ConnectRefused, ConnectExpire
  <2>2. CASE addr < Addrs
    <3>1. NextCall
      BY <1>1, <2>1, <2>2 DEF NextAddress, EstablishCalls
    <3> QED BY <1>2, <3>1
  <2>3. CASE ~(addr < Addrs)
    BY <1>3, <2>1, <2>3 DEF NextAddress, Codes
  <2> QED BY <2>2, <2>3
<1>8. CASE TlsOk
  <2>1. NextCall
    BY <1>1, <1>8 DEF TlsOk, EstablishCalls
  <2> QED BY <1>2, <2>1
<1>9. CASE TlsFail \/ BadCapability \/ Leave
  BY <1>3, <1>9 DEF TlsFail, BadCapability, Leave, Codes
<1>10. CASE LoginSent
  <2>1. NextCall
    BY <1>1, <1>10 DEF LoginSent, EstablishCalls
  <2> QED BY <1>2, <2>1
<1>11. CASE LoginOk
  BY <1>11 DEF LoginOk, EstablishBudget
<1>12. CASE Sync
  <2>1. CASE SyncOversize \/ ReplyRejected \/ ReplyEmpty
    BY <1>3, <2>1 DEF SyncOversize, ReplyRejected, ReplyEmpty, Codes
  <2>2. CASE SyncSend \/ SyncSent \/ ReplyDecoded
    BY <2>2 DEF SyncSend, SyncSent, ReplyDecoded, EstablishBudget
  <2>3. ASSUME NEW h \in Headers, HeaderRead(h)
        PROVE  EstablishBudget'
    <3>1. CASE Acceptable(h)
      BY <2>3, <3>1 DEF HeaderRead, EstablishBudget
    <3>2. CASE ~Acceptable(h)
      BY <1>3, <2>3, <3>2 DEF HeaderRead, Codes
    <3> QED BY <3>1, <3>2
  <2> QED BY <1>12, <2>1, <2>2, <2>3 DEF Sync
<1>13. CASE Piece
  <2>1. CASE phase \in RoundTripPhases
    BY <1>13, <2>1 DEF Piece, EstablishBudget, RoundTripPhases
  <2>2. CASE phase \in {"tls", "login_write"}
    <3>1. NextCall
      BY <1>1, <1>13, <2>2 DEF Piece, EstablishCalls
    <3> QED BY <1>2, <3>1
  <2> QED BY <1>13, <2>1, <2>2 DEF Piece, Transferring, Transfers
<1>14. CASE Disconnect \/ Expire
  BY <1>3, <1>14 DEF Disconnect, Expire, FailureCode, Codes
<1>17. CASE PeerLost
  BY <1>17 DEF PeerLost, Stop, EstablishBudget, EstablishCalls
<1>15. CASE Tick
  <2>1. /\ waited' = waited + 1 /\ elapsed' = elapsed + 1
        /\ UNCHANGED <<phase, addr, tls>> /\ phase # "resolve"
    BY <1>15 DEF Tick, Timed, Deadline
  <2>2. EstablishCalls' = EstablishCalls
    BY <1>15 DEF Tick, EstablishCalls
  <2>3. Establishing => (EstablishCalls - 1) * EstablishCap \in Nat
    BY <1>1, TimesNat, TimeAssumption
  <2>4. ASSUME Establishing
        PROVE  elapsed + 1 <= (EstablishCalls - 1) * EstablishCap + (waited + 1)
    <3>1. elapsed <= (EstablishCalls - 1) * EstablishCap + waited
      BY <2>4 DEF EstablishBudget
    <3> QED BY <2>3, <2>4, <3>1
  <2> QED BY <1>1, <2>1, <2>2, <2>4 DEF EstablishBudget
<1>16. CASE UNCHANGED vars
  BY <1>16 DEF vars, EstablishBudget, EstablishCalls
<1> QED BY <1>4, <1>5, <1>6, <1>7, <1>8, <1>9, <1>10, <1>11, <1>12, <1>13, <1>14, <1>15,
           <1>16, <1>17 DEF Next, Establish
-----------------------------------------------------------------------------
LEMMA InvInit == Init => Inv
  BY TypeInit, SizeAssumption
  DEF Init, Inv, SocketOptions, CallInTime, CallUntimed, Deadline, EstablishBudget,
      Silent, RoundTripPhases, Running, TimeoutError, EstablishPhases, None

LEMMA InvStep == Inv /\ [Next]_vars => Inv'
  BY TypeStep, SocketStep, CallInTimeStep, SilentStep, BudgetStep DEF Inv

\* Conn's invariant holds in every reachable state, whatever the constants.
THEOREM ConnInvariant == Spec => []Inv
  BY InvInit, InvStep, PTL DEF Spec

\* Every variable of a connection keeps its type.
THEOREM ConnTypeCorrect == Spec => []TypeOK
<1>1. Inv => TypeOK
  BY DEF Inv
<1> QED BY <1>1, ConnInvariant, PTL

\* A query that the client cuts off while it waits for the answer has had the
\* whole of its timeout, whatever the caps of conn.rs:140 and conn.rs:180 are;
\* otherwise an exit with 5 is the kernel's verdict on the peer.
THEOREM QueriesGetTheirTimeout == Spec => []SlowQueryGetsItsTimeout
<1>1. Inv => SlowQueryGetsItsTimeout
  BY DEF Inv, Silent, SlowQueryGetsItsTimeout
<1> QED BY <1>1, ConnInvariant, PTL

\* Establishment never costs more than the cap for each of its calls.
THEOREM EstablishmentIsBounded == Spec => []EstablishmentFailsFast
<1>1. Inv => EstablishmentFailsFast
  <2> SUFFICES ASSUME Inv, phase \in EstablishPhases
               PROVE  elapsed <= EstablishCalls * EstablishCap
    BY DEF EstablishmentFailsFast
  <2>1. CASE phase = "resolve"
    BY <2>1, TimeAssumption DEF Inv, EstablishBudget, EstablishCalls
  <2>2. CASE phase \in EstablishPhases \ {"resolve"}
    <3>1. EstablishCalls \in Nat \ {0}
      BY <2>2, SizeAssumption DEF Inv, TypeOK, EstablishBudget, EstablishCalls
    <3>2. /\ elapsed <= (EstablishCalls - 1) * EstablishCap + waited
          /\ waited <= EstablishCap
          /\ elapsed \in Nat /\ waited \in Nat
      BY <2>2, CallCost DEF Inv, EstablishBudget, TypeOK
    <3> QED BY <3>1, <3>2, OneMoreCall, TimeAssumption
  <2> QED BY <2>1, <2>2
<1> QED BY <1>1, ConnInvariant, PTL
-----------------------------------------------------------------------------
\* The channel a fresh connection stands for is closed.
LEMMA ChannelInit == Init => Abstract!Init
  BY DEF Init, Abstract!Init, Abstract!Running, Running, EstablishPhases

\* What each step of a connection does to the channel.
LEMMA ChannelStep == TypeOK /\ [Next]_vars => [Abstract!Next]_(Abstract!vars)
<1> SUFFICES ASSUME TypeOK, [Next]_vars
             PROVE  Abstract!Next \/ UNCHANGED Abstract!vars
  BY DEF Abstract!Next, Abstract!vars
<1> USE DEF Abstract!Next, Abstract!vars, Abstract!Establish, Abstract!Refuse,
            Abstract!Ask, Abstract!Oversize, Abstract!Answer, Abstract!Break,
            Abstract!Leave, Abstract!End, Abstract!Success, Abstract!Usage,
            Abstract!Connect, Abstract!Query, Abstract!Timeout,
            Running, Success, UsageError, ConnectError, QueryError, TimeoutError,
            EstablishPhases, RoundTripPhases, Transfers, Enter, Exit, Stop
<1>1. CASE Establish
  BY <1>1 DEF Establish, BadTarget, Resolve, ConnectOk, ConnectRefused, ConnectExpire,
     NextAddress, TlsOk, TlsFail, LoginSent, LoginOk, BadCapability, Expired, Timed,
     Blocked, Transferring
<1>2. CASE Sync
  BY <1>2 DEF Sync, SyncOversize, SyncSend, SyncSent, HeaderRead, ReplyDecoded,
     ReplyRejected, ReplyEmpty, Transferring, EmptyPayload
<1>3. CASE Disconnect \/ PeerLost \/ Expire
  BY <1>3 DEF Disconnect, PeerLost, Expire, FailureCode, Transferring
<1>4. CASE Piece \/ Leave \/ Tick
  BY <1>4 DEF Piece, Leave, Tick
<1>5. CASE UNCHANGED vars
  BY <1>5 DEF vars
<1> QED BY <1>1, <1>2, <1>3, <1>4, <1>5 DEF Next

\* Every behaviour of a connection is one of a Channel.
THEOREM ConnImplementsChannel == Spec => ImplementsChannel
  BY ChannelInit, ChannelStep, ConnTypeCorrect, PTL DEF Spec, ImplementsChannel, Abstract!Spec

-------------------------------------------------------------------------------
\* Profile files

\* The lines that give n a value.
Entries(ls, n) == {i \in Assigning(ls, n) : ls[i].value # NoValue}

LEMMA LeastNatural ==
  ASSUME NEW T, T \subseteq Nat, T # {}
  PROVE  \E m \in T : \A k \in T : m <= k
<1> DEFINE R == OpToRel(<, Nat)
<1>1. IsWellFoundedOn(R, Nat)
  BY NatLessThanWellFounded
<1>2. \A i, j \in Nat : j < i => <<j, i>> \in R
  BY DEF OpToRel
<1> HIDE DEF R
<1>3. PICK m \in T : \A k \in T : ~(<<k, m>> \in R)
  BY <1>1, WFMin
<1>4. ASSUME NEW k \in T
      PROVE  m <= k
  <2>1. m \in Nat /\ k \in Nat /\ ~(<<k, m>> \in R)
    BY <1>3
  <2>2. ~(k < m)
    BY <1>2, <2>1, Zenon
  <2> QED
    BY <2>1, <2>2
<1> QED
  BY <1>4

\* There is a last of some line numbers.
LEMMA LastIsThere ==
  ASSUME NEW len \in Nat, NEW S, S \subseteq 1 .. len, S # {}
  PROVE  LastOf(S) \in S /\ \A j \in S : j <= LastOf(S)
<1> DEFINE T == {n \in Nat : \A i \in S : i <= n}
<1>1. len \in T /\ T \subseteq Nat
  OBVIOUS
<1>2. PICK m \in T : \A k \in T : m <= k
  BY <1>1, LeastNatural, Zenon
<1>3. m \in S
  <2> SUFFICES ASSUME m \notin S PROVE FALSE
    OBVIOUS
  <2>1. PICK i \in S : TRUE
    OBVIOUS
  <2>2. m - 1 \in Nat
    BY <2>1
  <2>3. \A j \in S : j <= m - 1
    OBVIOUS
  <2>4. m - 1 \in T
    BY <2>2, <2>3
  <2> QED
    BY <1>2, <2>4
<1>4. \E i \in S : \A j \in S : j <= i
  BY <1>3
<1> QED
  BY <1>4 DEF LastOf

LEMMA LastIsUnique ==
  ASSUME NEW len \in Nat, NEW S, S \subseteq 1 .. len, NEW k \in S, \A j \in S : j <= k
  PROVE  LastOf(S) = k
<1>1. LastOf(S) \in S /\ \A j \in S : j <= LastOf(S)
  <2>1. S # {}
    OBVIOUS
  <2> QED
    BY <2>1, LastIsThere, Zenon
<1> DEFINE last == LastOf(S)
<1>2. last \in S /\ k <= last
  BY <1>1
<1> HIDE DEF last
<1>3. last <= k
  BY <1>2
<1>4. last \in Nat /\ k \in Nat
  BY <1>2
<1>5. last = k
  BY <1>2, <1>3, <1>4
<1> QED
  BY <1>5 DEF last

LEMMA LineElements ==
  ASSUME NEW R, NEW s \in Seq(R), NEW i \in DOMAIN s
  PROVE  s[i] \in R
  OBVIOUS

LEMMA LineOf ==
  ASSUME NEW ls \in Seq(Line), NEW i \in DOMAIN ls
  PROVE  /\ ls[i] \in Line /\ ls[i].name \in Names /\ ls[i].value \in Values \cup {NoValue}
         /\ i \in 1 .. Len(ls) /\ Len(ls) \in Nat
<1>1. ls[i] \in Line
  BY LineElements
<1> QED
  BY <1>1 DEF Line

\* Parse gives n the value of its last entry.
LEMMA ParseLast ==
  ASSUME NEW ls \in Seq(Line), NEW n \in Names
  PROVE  /\ Entries(ls, n) = {} => Parse(ls)[n] = NoValue
         /\ Entries(ls, n) # {} =>
              /\ LastOf(Entries(ls, n)) \in Entries(ls, n)
              /\ Parse(ls)[n] = ls[LastOf(Entries(ls, n))].value
<1>1. Len(ls) \in Nat /\ Entries(ls, n) \subseteq 1 .. Len(ls)
  BY DEF Entries, Assigning
<1>2. Entries(ls, n) # {} => LastOf(Entries(ls, n)) \in Entries(ls, n)
  BY <1>1, LastIsThere
<1>3. Parse(ls)[n] = IF Entries(ls, n) = {} THEN NoValue ELSE ls[LastOf(Entries(ls, n))].value
  BY DEF Parse, Entries
<1> QED
  BY <1>2, <1>3

LEMMA ParseType ==
  ASSUME NEW ls \in Seq(Line)
  PROVE  Parse(ls) \in Profiles
<1>1. ASSUME NEW n \in Names
      PROVE  Parse(ls)[n] \in Values \cup {NoValue}
  <2>1. CASE Entries(ls, n) = {}
    BY <2>1, ParseLast
  <2>2. CASE Entries(ls, n) # {}
    BY <2>2, ParseLast, LineOf DEF Entries, Assigning
  <2> QED
    BY <2>1, <2>2
<1>2. Parse(ls) = [n \in Names |-> Parse(ls)[n]]
  BY DEF Parse
<1> QED
  BY <1>1, <1>2 DEF Profiles

\* An empty file has no profiles.
LEMMA ParseNothing == Parse(<<>>) = Nothing
<1>1. \A n \in Names : Entries(<<>>, n) = {}
  BY DEF Entries, Assigning
<1> QED
  BY <1>1 DEF Parse, Entries, Nothing

LEMMA SameEntries ==
  ASSUME NEW ls \in Seq(Line), NEW ks \in Seq(Line), NEW n \in Names,
         \A i : i \in Entries(ls, n) <=> i \in Entries(ks, n),
         \A i \in Entries(ls, n) : ls[i] = ks[i]
  PROVE  Parse(ls)[n] = Parse(ks)[n]
<1>1. Entries(ls, n) = Entries(ks, n)
  OBVIOUS
<1> QED
  BY <1>1, ParseLast

\* Edit changes what Parse says of the one name.
LEMMA EditParses ==
  ASSUME NEW ls \in Seq(Line), NEW n \in Names, NEW v \in Values
  PROVE  /\ Edit(ls, n, v) \in Seq(Line)
         /\ Parse(Edit(ls, n, v)) = [Parse(ls) EXCEPT ![n] = v]
<1> DEFINE new == Edit(ls, n, v)
           line == [name |-> n, value |-> v]
<1>1. line \in Line /\ line.name = n /\ line.value = v /\ v # NoValue /\ Len(ls) \in Nat
  BY ValuesAssumption DEF Line
<1>2. CASE Assigning(ls, n) = {}
  <2>1. /\ new \in Seq(Line) /\ Len(new) = Len(ls) + 1 /\ new[Len(ls) + 1] = line
        /\ \A i \in 1 .. Len(ls) : new[i] = ls[i]
    BY <1>1, <1>2 DEF Edit
  <2>2. \A m \in Names : m # n => Parse(new)[m] = Parse(ls)[m]
    <3> SUFFICES ASSUME NEW m \in Names, m # n
                 PROVE  Parse(new)[m] = Parse(ls)[m]
      OBVIOUS
    <3> HIDE DEF new, line
    <3>1. \A i : i \in Entries(ls, m) <=> i \in Entries(new, m)
      BY <1>1, <2>1 DEF Entries, Assigning
    <3>2. \A i \in Entries(ls, m) : ls[i] = new[i]
      BY <1>1, <2>1 DEF Entries, Assigning
    <3> QED
      BY <2>1, <3>1, <3>2, SameEntries
  <2>3. Parse(new)[n] = v
    <3> HIDE DEF new, line
    <3>1. \A i : i \in Entries(new, n) <=> i = Len(ls) + 1
      BY <1>1, <1>2, <2>1 DEF Entries, Assigning
    <3>2. Entries(new, n) # {} /\ LastOf(Entries(new, n)) = Len(ls) + 1
      BY <2>1, <3>1, ParseLast
    <3> QED
      BY <1>1, <2>1, <3>2, ParseLast
  <2> QED
    BY <2>1, <2>2, <2>3 DEF Parse
<1>3. CASE Assigning(ls, n) # {}
  <2> DEFINE last == LastOf(Assigning(ls, n))
  <2>1. /\ last \in Assigning(ls, n) /\ \A j \in Assigning(ls, n) : j <= last
        /\ last \in DOMAIN ls /\ ls[last].name = n /\ ls[last] \in Line
    <3>1. Assigning(ls, n) \subseteq 1 .. Len(ls)
      BY DEF Assigning
    <3>2. last \in Assigning(ls, n) /\ \A j \in Assigning(ls, n) : j <= last
      BY <1>1, <1>3, <3>1, LastIsThere
    <3> QED
      BY <3>2 DEF Assigning
  <2> HIDE DEF last
  <2>2. [ls[last] EXCEPT !.value = v] = line
    BY <2>1 DEF Line
  <2>3. new = [ls EXCEPT ![last] = line]
    BY <1>3, <2>2 DEF Edit, last
  <2>4. /\ new \in Seq(Line) /\ DOMAIN new = DOMAIN ls /\ Len(new) = Len(ls)
        /\ new[last] = line /\ \A i \in DOMAIN ls : i # last => new[i] = ls[i]
    <3> HIDE DEF new, line
    <3> QED
      BY <1>1, <2>1, <2>3
  <2>5. \A m \in Names : m # n => Parse(new)[m] = Parse(ls)[m]
    <3> SUFFICES ASSUME NEW m \in Names, m # n
                 PROVE  Parse(new)[m] = Parse(ls)[m]
      OBVIOUS
    <3> HIDE DEF new, line
    <3>1. \A i : i \in Entries(ls, m) <=> i \in Entries(new, m)
      BY <1>1, <2>1, <2>4 DEF Entries, Assigning
    <3>2. \A i \in Entries(ls, m) : ls[i] = new[i]
      BY <1>1, <2>1, <2>4 DEF Entries, Assigning
    <3> QED
      BY <2>4, <3>1, <3>2, SameEntries
  <2>6. Parse(new)[n] = v
    <3> HIDE DEF new, line
    <3>1. last \in Entries(new, n) /\ Entries(new, n) \subseteq Assigning(ls, n)
          /\ Entries(new, n) \subseteq 1 .. Len(ls)
      BY <1>1, <2>1, <2>4 DEF Entries, Assigning
    <3>2. LastOf(Entries(new, n)) = last
      BY <1>1, <2>1, <3>1, LastIsUnique
    <3> QED
      BY <1>1, <2>4, <3>1, <3>2, ParseLast
  <2> QED
    BY <2>4, <2>5, <2>6 DEF Parse
<1> QED
  BY <1>2, <1>3

LEMMA OverrideType ==
  ASSUME NEW g \in Profiles, NEW h \in Profiles
  PROVE  Override(g, h) \in Profiles
  BY DEF Override, Profiles

LEMMA NothingOverrides ==
  ASSUME NEW g \in Profiles
  PROVE  Override(g, Nothing) = g
  BY DEF Override, Profiles, Nothing

LEMMA NothingIsProfiles == Nothing \in Profiles
  BY DEF Nothing, Profiles

LEMMA GlobalPathIsFile ==
  ASSUME NEW d
  PROVE  GlobalPath(d) \in Files
  BY DEF GlobalPath, Files

LEMMA WalkOf ==
  ASSUME NEW d \in Dirs
  PROVE  /\ Walk[d] \in Seq(Dirs) /\ Len(Walk[d]) \in Nat
         /\ DOMAIN Walk[d] = 1 .. Len(Walk[d])
         /\ \A i \in DOMAIN Walk[d] : Walk[d][i] \in Dirs
<1>1. Walk[d] \in Seq(Dirs)
  BY WalkAssumption
<1> QED
  BY <1>1, LineElements

\* There is a first of some line numbers.
LEMMA FirstIsThere ==
  ASSUME NEW len \in Nat, NEW S, S \subseteq 1 .. len, S # {}
  PROVE  FirstOf(S) \in S /\ \A j \in S : FirstOf(S) <= j
<1>1. S \subseteq Nat
  OBVIOUS
<1>2. \E i \in S : \A j \in S : i <= j
  BY <1>1, LeastNatural, Zenon
<1> QED
  BY <1>2 DEF FirstOf

\* The project files up from d, by their place on the way.
There(d) == {i \in DOMAIN Walk[d] : exists[Walk[d][i]]}

\* The one whose profiles a lookup overlays is the nearest.
LEMMA OverlayIsNearest ==
  ASSUME NEW d \in Dirs
  PROVE  /\ There(d) = {} => Overlay(d) = Nothing
         /\ There(d) # {} =>
              /\ FirstOf(There(d)) \in There(d)
              /\ \A j \in There(d) : FirstOf(There(d)) <= j
              /\ Overlay(d) = Load(Walk[d][FirstOf(There(d))])
<1>1. Len(Walk[d]) \in Nat /\ There(d) \subseteq 1 .. Len(Walk[d])
  BY WalkOf DEF There
<1>2. There(d) # {} => /\ FirstOf(There(d)) \in There(d)
                      /\ \A j \in There(d) : FirstOf(There(d)) <= j
  BY <1>1, FirstIsThere
<1>3. Overlay(d) = IF There(d) = {} THEN Nothing ELSE Load(Walk[d][FirstOf(There(d))])
  BY DEF Overlay, There
<1> QED
  BY <1>2, <1>3

JobsMade ==
  \A p \in Procs :
    /\ pc[p] \in {"loaded", "opened"} =>
         /\ job[p].file \in Files
         /\ job[p].name # NoValue => job[p].value \in Values
    /\ pc[p] = "opened" => exists[job[p].file]
    /\ pc[p] = "merging" => job[p].name \in Names /\ job[p].file \in Dirs \cup {"env"}

LoneWriter(f) ==
  /\ \A p, q \in Writers(f) : p = q
  /\ \A p \in Writers(f) :
       /\ Parse(body[p]) = Asked(p, intended[f])
       /\ pc[p] = "opened" => lines[f] = <<>>

Kept(f) == ~disturbed[f] =>
  LoneWriter(f) /\ (~MidWrite(f) => Parse(lines[f]) = intended[f])

LookupUndisturbed ==
  \A p \in Procs : pc[p] = "merging" /\ quiet[p] =>
    merged[p] = Load(GlobalPath(job[p].file)) /\ \A f \in Files : ~MidWrite(f)

ConfigInv ==
  ConfigTypeOK /\ JobsMade /\ (\A f \in Files : Kept(f)) /\ LookupUndisturbed

LEMMA LoadType ==
  ASSUME ConfigTypeOK, NEW f \in Files
  PROVE  Load(f) = Parse(lines[f]) /\ Load(f) \in Profiles
<1>1. lines[f] \in Seq(Line) /\ (~exists[f] => lines[f] = <<>>)
  BY DEF ConfigTypeOK
<1>2. Load(f) = Parse(lines[f])
  BY <1>1, ParseNothing DEF Load
<1> QED
  BY <1>1, <1>2, ParseType

LEMMA OverlayType ==
  ASSUME ConfigTypeOK, NEW d \in Dirs
  PROVE  Overlay(d) \in Profiles
<1>1. CASE There(d) = {}
  BY <1>1, OverlayIsNearest, NothingIsProfiles
<1>2. CASE There(d) # {}
  <2>1. PICK i \in DOMAIN Walk[d] : Overlay(d) = Load(Walk[d][i])
    BY <1>2, OverlayIsNearest DEF There
  <2>2. Walk[d][i] \in Files
    BY WalkOf DEF Files
  <2> QED
    BY <2>1, <2>2, LoadType
<1> QED
  BY <1>1, <1>2

LEMMA ConfigBegins == ConfigInit => ConfigInv
<1> SUFFICES ASSUME ConfigInit PROVE ConfigInv
  OBVIOUS
<1>1. \A f \in Files : lines[f] \in Seq(Line)
  BY LinesAssumption DEF ConfigInit
<1>2. ConfigTypeOK
  <2>1. Nothing \in Profiles
    BY NothingIsProfiles
  <2>2. intended \in [Files -> Profiles]
    BY <1>1, ParseType DEF ConfigInit
  <2>3. lines \in [Files -> Seq(Line)]
    BY LinesAssumption DEF ConfigInit
  <2> QED
    BY <2>1, <2>2, <2>3 DEF ConfigInit, ConfigTypeOK, NoJob
<1>3. \A p \in Procs : pc[p] = "idle"
  BY DEF ConfigInit
<1>4. JobsMade /\ LookupUndisturbed
  BY <1>3 DEF JobsMade, LookupUndisturbed
<1>5. \A f \in Files : Kept(f)
  BY <1>3 DEF Kept, LoneWriter, Writers, ConfigInit
<1> QED
  BY <1>2, <1>4, <1>5 DEF ConfigInv

\* Nothing a step does elsewhere matters to file f.
LEMMA FileLeftAlone ==
  ASSUME NEW f \in Files, NEW p \in Procs,
         \A q \in Procs : q # p => pc'[q] = pc[q] /\ job'[q] = job[q] /\ body'[q] = body[q],
         p \notin Writers(f), p \notin Writers(f)',
         lines'[f] = lines[f], intended'[f] = intended[f], disturbed'[f] = disturbed[f],
         Kept(f)
  PROVE  Kept(f)'
<1>1. Writers(f)' = Writers(f)
  BY DEF Writers
<1>2. \A q \in Writers(f) : /\ q \in Procs /\ q # p
                            /\ pc'[q] = pc[q] /\ job'[q] = job[q] /\ body'[q] = body[q]
  BY DEF Writers
<1>3. MidWrite(f)' <=> MidWrite(f)
  BY <1>1, <1>2 DEF MidWrite
<1>4. ASSUME NEW q \in Writers(f)
      PROVE  Asked(q, intended[f])' = Asked(q, intended[f])
  BY <1>2 DEF Asked
<1>5. LoneWriter(f) => LoneWriter(f)'
  BY <1>1, <1>2, <1>4 DEF LoneWriter
<1> QED
  BY <1>3, <1>5 DEF Kept

\* A writer begins: if no other is at work on its file, what it is about to
\* write says what it was asked to add to the profiles of the file.
LEMMA ComposeKeeps ==
  ASSUME ConfigInv, NEW p \in Procs, NEW f \in Files, NEW n \in Names \cup {NoValue},
         NEW v \in Values \cup {NoValue}, NEW content \in Seq(Line),
         n # NoValue => v \in Values,
         Compose(p, f, n, v, content),
         ~disturbed[f] /\ Writers(f) = {} => Parse(content) = Asked(p, intended[f])'
  PROVE  ConfigInv'
<1>1. /\ pc[p] = "idle" /\ pc' = [pc EXCEPT ![p] = "loaded"]
      /\ job' = [job EXCEPT ![p] = [file |-> f, name |-> n, value |-> v]]
      /\ body' = [body EXCEPT ![p] = content]
      /\ disturbed' = [disturbed EXCEPT ![f] = disturbed[f] \/ Writers(f) # {}]
      /\ exists' = exists /\ lines' = lines /\ merged' = merged /\ found' = found
      /\ intended' = intended /\ quiet' = quiet
  BY DEF Compose, files
<1>2. ConfigTypeOK /\ JobsMade /\ LookupUndisturbed /\ \A g \in Files : Kept(g)
  BY DEF ConfigInv
<1>3. ConfigTypeOK'
  <2>1. [file |-> f, name |-> n, value |-> v]
          \in [file : Files \cup {"none"}, name : Names \cup {NoValue},
               value : Values \cup {NoValue}]
    OBVIOUS
  <2>2. (disturbed[f] \/ Writers(f) # {}) \in BOOLEAN
    BY <1>2 DEF ConfigTypeOK
  <2> QED
    BY <1>1, <1>2, <2>1, <2>2 DEF ConfigTypeOK
<1>4. /\ pc'[p] = "loaded" /\ job'[p] = [file |-> f, name |-> n, value |-> v]
      /\ body'[p] = content
      /\ \A q \in Procs : q # p => pc'[q] = pc[q] /\ job'[q] = job[q] /\ body'[q] = body[q]
  BY <1>1, <1>2 DEF ConfigTypeOK
<1>5. JobsMade'
  BY <1>1, <1>2, <1>4 DEF JobsMade
<1>6. p \notin Writers(f) /\ \A g \in Files : p \notin Writers(g)
  BY <1>1 DEF Writers
<1>7. \A g \in Files : g # f => p \notin Writers(g)'
  BY <1>4 DEF Writers
<1>8. ASSUME NEW g \in Files
      PROVE  MidWrite(g)' <=> MidWrite(g)
  BY <1>1, <1>4 DEF MidWrite, Writers
<1>9. LookupUndisturbed'
  <2> SUFFICES ASSUME NEW q \in Procs, pc'[q] = "merging", quiet'[q]
               PROVE  merged'[q] = Load(GlobalPath(job[q].file))' /\ \A g \in Files : ~MidWrite(g)'
    BY DEF LookupUndisturbed
  <2>1. q # p /\ pc[q] = "merging" /\ quiet[q] /\ job'[q] = job[q]
    BY <1>1, <1>4
  <2>2. merged[q] = Load(GlobalPath(job[q].file)) /\ \A g \in Files : ~MidWrite(g)
    BY <1>2, <2>1 DEF LookupUndisturbed
  <2> QED
    BY <1>1, <1>8, <2>1, <2>2 DEF Load
<1>10. ASSUME NEW g \in Files
       PROVE  Kept(g)'
  <2>1. CASE g # f
    <3>1. disturbed'[g] = disturbed[g]
      BY <1>1, <1>2, <2>1 DEF ConfigTypeOK
    <3> QED
      BY <1>1, <1>2, <1>4, <1>6, <1>7, <2>1, <3>1, FileLeftAlone
  <2>2. CASE g = f
    <3> SUFFICES ASSUME ~disturbed'[f] PROVE Kept(f)'
      BY <2>2 DEF Kept
    <3>1. ~disturbed[f] /\ Writers(f) = {}
      BY <1>1, <1>2 DEF ConfigTypeOK
    <3>2. \A q \in Writers(f)' : q = p
      BY <1>4, <3>1 DEF Writers
    <3>3. Parse(body'[p]) = Asked(p, intended[f])' /\ pc'[p] # "opened"
      BY <1>4, <3>1
    <3>4. LoneWriter(f)'
      BY <3>2, <3>3 DEF LoneWriter
    <3>5. Parse(lines[f])' = intended'[f]
      <4>1. Parse(lines[f]) = intended[f]
        BY <1>2, <3>1 DEF Kept, MidWrite
      <4> QED
        BY <1>1, <4>1
    <3> QED
      BY <3>4, <3>5 DEF Kept
  <2> QED
    BY <2>1, <2>2
<1> QED
  BY <1>3, <1>5, <1>9, <1>10 DEF ConfigInv

LEMMA StartAddKeeps ==
  ASSUME ConfigInv, NEW p \in Procs, NEW f \in Files, NEW n \in Names, NEW v \in Values,
         StartAdd(p, f, n, v)
  PROVE  ConfigInv'
<1>1. lines[f] \in Seq(Line)
  BY DEF ConfigInv, ConfigTypeOK
<1>2. Edit(lines[f], n, v) \in Seq(Line)
  BY <1>1, EditParses
<1>3. ASSUME ~disturbed[f], Writers(f) = {}
      PROVE  Parse(Edit(lines[f], n, v)) = Asked(p, intended[f])'
  <2>1. Parse(lines[f]) = intended[f]
    BY <1>3 DEF ConfigInv, Kept, MidWrite
  <2>2. Parse(Edit(lines[f], n, v)) = [intended[f] EXCEPT ![n] = v]
    BY <1>1, <2>1, EditParses
  <2>3. job'[p].name = n /\ job'[p].value = v /\ intended' = intended
    BY DEF StartAdd, Compose, ConfigInv, ConfigTypeOK
  <2>4. n # NoValue
    BY ValuesAssumption
  <2> QED
    BY <2>2, <2>3, <2>4 DEF Asked
<1> QED
  BY <1>2, <1>3, ComposeKeeps DEF StartAdd

\* init writes only where there is no file, hence no profile.
LEMMA StartInitKeeps ==
  ASSUME ConfigInv, NEW p \in Procs, NEW f \in Files, StartInit(p, f)
  PROVE  ConfigInv'
<1>1. ~exists[f] /\ Compose(p, f, NoValue, NoValue, Template)
  BY DEF StartInit
<1>2. lines[f] = <<>>
  BY <1>1 DEF ConfigInv, ConfigTypeOK
<1>3. ASSUME ~disturbed[f], Writers(f) = {}
      PROVE  Parse(Template) = Asked(p, intended[f])'
  <2>1. intended[f] = Nothing
    BY <1>2, <1>3, ParseNothing DEF ConfigInv, Kept, MidWrite
  <2>2. Parse(Template) = Override(Parse(Template), intended[f])
    BY <2>1, LinesAssumption, ParseType, NothingOverrides
  <2>3. job'[p].name = NoValue /\ intended' = intended
    BY <1>1 DEF Compose, ConfigInv, ConfigTypeOK
  <2> QED
    BY <2>2, <2>3 DEF Asked
<1> QED
  BY <1>1, <1>3, LinesAssumption, ComposeKeeps

LEMMA OpenKeeps ==
  ASSUME ConfigInv, NEW p \in Procs, OpenForWriting(p)
  PROVE  ConfigInv'
<1>0. PICK f \in Files : f = job[p].file
  BY DEF ConfigInv, JobsMade, OpenForWriting
<1>1. /\ pc[p] = "loaded" /\ pc' = [pc EXCEPT ![p] = "opened"]
      /\ exists' = [exists EXCEPT ![f] = TRUE] /\ lines' = [lines EXCEPT ![f] = <<>>]
      /\ quiet' = [q \in Procs |-> FALSE]
      /\ job' = job /\ body' = body /\ merged' = merged /\ found' = found
      /\ intended' = intended /\ disturbed' = disturbed
  BY <1>0 DEF OpenForWriting
<1>2. ConfigTypeOK /\ JobsMade /\ LookupUndisturbed /\ \A g \in Files : Kept(g)
  BY DEF ConfigInv
<1>4. ConfigTypeOK'
  <2>1. <<>> \in Seq(Line)
    OBVIOUS
  <2>2. lines' \in [Files -> Seq(Line)] /\ exists' \in [Files -> BOOLEAN]
    BY <1>1, <1>2, <2>1 DEF ConfigTypeOK
  <2>3. \A g \in Files : ~exists'[g] => lines'[g] = <<>>
    BY <1>1, <1>2 DEF ConfigTypeOK
  <2> QED
    BY <1>1, <1>2, <2>2, <2>3 DEF ConfigTypeOK
<1>5. pc'[p] = "opened" /\ \A q \in Procs : q # p => pc'[q] = pc[q]
  BY <1>1, <1>2 DEF ConfigTypeOK
<1>6. JobsMade'
  <2>1. f \in Files /\ exists'[f]
    BY <1>1, <1>2 DEF ConfigTypeOK
  <2> QED
    BY <1>0, <1>1, <1>2, <1>5, <2>1 DEF JobsMade, ConfigTypeOK
<1>7. LookupUndisturbed'
  BY <1>1 DEF LookupUndisturbed
<1>8. ASSUME NEW g \in Files
      PROVE  Kept(g)'
  <2>1. CASE g # f
    <3>1. p \notin Writers(g) /\ p \notin Writers(g)' /\ lines'[g] = lines[g]
      BY <1>0, <1>1, <1>2, <2>1 DEF Writers, ConfigTypeOK
    <3> QED
      BY <1>1, <1>2, <1>5, <3>1, FileLeftAlone
  <2>2. CASE g = f
    <3> SUFFICES ASSUME ~disturbed[f] PROVE Kept(f)'
      BY <1>1, <2>2 DEF Kept
    <3>1. LoneWriter(f)
      BY <1>2 DEF Kept
    <3>2. p \in Writers(f) /\ p \in Writers(f)' /\ Writers(f)' = Writers(f)
      BY <1>0, <1>1, <1>5 DEF Writers
    <3>3. MidWrite(f)'
      BY <1>5, <3>2 DEF MidWrite
    <3>4. lines'[f] = <<>>
      BY <1>1, <1>2 DEF ConfigTypeOK
    <3>5. ASSUME NEW q \in Writers(f)
          PROVE  Parse(body[q])' = Asked(q, intended[f])'
      <4>1. Parse(body[q]) = Asked(q, intended[f])
        BY <3>1 DEF LoneWriter
      <4>2. Asked(q, intended[f])' = Asked(q, intended[f])
        BY <1>1 DEF Asked
      <4> QED
        BY <1>1, <4>1, <4>2
    <3>6. LoneWriter(f)'
      BY <3>1, <3>2, <3>4, <3>5 DEF LoneWriter
    <3> QED
      BY <3>3, <3>6 DEF Kept
  <2> QED
    BY <2>1, <2>2
<1> QED
  BY <1>4, <1>6, <1>7, <1>8 DEF ConfigInv

LEMMA NothingLeft ==
  ASSUME NEW R, NEW s \in Seq(R)
  PROVE  s \o SubSeq(<<>>, Len(s) + 1, Len(<<>>)) = s
<1>1. SubSeq(<<>>, Len(s) + 1, Len(<<>>)) = <<>>
  OBVIOUS
<1>2. s \o <<>> = s
  OBVIOUS
<1> QED
  BY <1>1, <1>2

LEMMA RestType ==
  ASSUME NEW R, NEW s \in Seq(R), NEW k \in Nat
  PROVE  SubSeq(s, k + 1, Len(s)) \in Seq(R)
<1>1. ASSUME NEW i \in k + 1 .. Len(s)
      PROVE  s[i] \in R
  BY <1>1
<1> QED
  BY <1>1

LEMMA AskedType ==
  ASSUME ConfigTypeOK, JobsMade, NEW p \in Procs, pc[p] = "opened", NEW g \in Profiles
  PROVE  Asked(p, g) \in Profiles
<1>1. CASE job[p].name = NoValue
  BY <1>1, LinesAssumption, ParseType, OverrideType DEF Asked
<1>2. CASE job[p].name # NoValue
  <2>1. job[p].value \in Values
    BY <1>2 DEF JobsMade
  <2> QED
    BY <1>2, <2>1 DEF Asked, Profiles
<1> QED
  BY <1>1, <1>2

\* A writer ends: its file says what it was to say, if it was alone.
LEMMA WriteKeeps ==
  ASSUME ConfigInv, NEW p \in Procs, Write(p)
  PROVE  ConfigInv'
<1>1. ConfigTypeOK /\ JobsMade /\ LookupUndisturbed /\ \A g \in Files : Kept(g)
  BY DEF ConfigInv
<1>2. PICK f \in Files : f = job[p].file
  BY <1>1 DEF JobsMade, Write
<1> DEFINE content == body[p] \o SubSeq(lines[f], Len(body[p]) + 1, Len(lines[f]))
<1>3. /\ pc[p] = "opened" /\ pc' = [pc EXCEPT ![p] = "done"]
      /\ lines' = [lines EXCEPT ![f] = content]
      /\ intended' = [intended EXCEPT ![f] = Asked(p, intended[f])]
      /\ job' = [job EXCEPT ![p] = NoJob] /\ body' = [body EXCEPT ![p] = <<>>]
      /\ exists' = exists /\ merged' = merged /\ found' = found
      /\ disturbed' = disturbed /\ quiet' = quiet
  BY <1>2 DEF Write
<1>4. body[p] \in Seq(Line) /\ Len(body[p]) \in Nat /\ lines[f] \in Seq(Line)
  BY <1>1 DEF ConfigTypeOK
<1>5. content \in Seq(Line)
  <2> DEFINE rest == SubSeq(lines[f], Len(body[p]) + 1, Len(lines[f]))
  <2>1. rest \in Seq(Line)
    BY <1>4, RestType
  <2> HIDE DEF rest
  <2>2. body[p] \o rest \in Seq(Line)
    BY <1>4, <2>1
  <2> QED
    BY <2>2 DEF rest
<1>6. lines[f] = <<>> => content = body[p]
  BY <1>4, NothingLeft
<1> HIDE DEF content
<1>7. ConfigTypeOK'
  <2>1. Asked(p, intended[f]) \in Profiles
    BY <1>1, <1>3, AskedType DEF ConfigTypeOK
  <2>2. exists[f]
    BY <1>1, <1>2, <1>3 DEF JobsMade
  <2>3. lines' \in [Files -> Seq(Line)] /\ \A g \in Files : ~exists'[g] => lines'[g] = <<>>
    BY <1>1, <1>3, <1>5, <2>2 DEF ConfigTypeOK
  <2>4. <<>> \in Seq(Line)
    OBVIOUS
  <2> QED
    BY <1>1, <1>3, <2>1, <2>3, <2>4 DEF ConfigTypeOK, NoJob
<1>8. /\ pc'[p] = "done"
      /\ \A q \in Procs : q # p => pc'[q] = pc[q] /\ job'[q] = job[q] /\ body'[q] = body[q]
  BY <1>1, <1>3 DEF ConfigTypeOK
<1>9. JobsMade'
  BY <1>1, <1>3, <1>8 DEF JobsMade
<1>10. p \in Writers(f) /\ MidWrite(f)
  BY <1>2, <1>3 DEF Writers, MidWrite
<1>11. LookupUndisturbed'
  <2>1. \A q \in Procs : ~(pc'[q] = "merging" /\ quiet'[q])
    BY <1>1, <1>3, <1>8, <1>10 DEF LookupUndisturbed
  <2> QED
    BY <2>1 DEF LookupUndisturbed
<1>12. ASSUME NEW g \in Files
       PROVE  Kept(g)'
  <2>1. p \notin Writers(g)'
    BY <1>8 DEF Writers
  <2>2. CASE g # f
    <3>1. /\ p \notin Writers(g) /\ lines'[g] = lines[g] /\ intended'[g] = intended[g]
      BY <1>1, <1>2, <1>3, <2>2 DEF Writers, ConfigTypeOK
    <3> QED
      BY <1>1, <1>3, <1>8, <2>1, <3>1, FileLeftAlone
  <2>3. CASE g = f
    <3> SUFFICES ASSUME ~disturbed[f] PROVE Kept(f)'
      BY <1>3, <2>3 DEF Kept
    <3>1. LoneWriter(f)
      BY <1>1 DEF Kept
    <3>2. Writers(f)' = {}
      BY <1>8, <1>10, <2>1, <2>3, <3>1 DEF LoneWriter, Writers
    <3>3. Parse(body[p]) = Asked(p, intended[f]) /\ lines[f] = <<>>
      BY <1>3, <1>10, <3>1 DEF LoneWriter
    <3>4. lines'[f] = body[p] /\ intended'[f] = Asked(p, intended[f])
      BY <1>1, <1>3, <1>6, <3>3 DEF ConfigTypeOK
    <3>5. Parse(lines[f])' = intended'[f]
      BY <3>3, <3>4
    <3> QED
      BY <3>2, <3>5 DEF Kept, LoneWriter
  <2> QED
    BY <2>2, <2>3
<1> QED
  BY <1>7, <1>9, <1>11, <1>12 DEF ConfigInv

\* A writer that fails before it opens its file leaves it as it was.
LEMMA FailKeeps ==
  ASSUME ConfigInv, NEW p \in Procs, Fail(p)
  PROVE  ConfigInv'
<1>1. ConfigTypeOK /\ JobsMade /\ LookupUndisturbed /\ \A g \in Files : Kept(g)
  BY DEF ConfigInv
<1>2. PICK f \in Files : f = job[p].file
  BY <1>1 DEF JobsMade, Fail
<1>3. /\ pc[p] \in {"loaded", "opened"} /\ pc' = [pc EXCEPT ![p] = "failed"]
      /\ disturbed' = [disturbed EXCEPT ![f] = disturbed[f] \/ pc[p] = "opened"]
      /\ job' = [job EXCEPT ![p] = NoJob] /\ body' = [body EXCEPT ![p] = <<>>]
      /\ exists' = exists /\ lines' = lines /\ merged' = merged /\ found' = found
      /\ intended' = intended /\ quiet' = quiet
  BY <1>2 DEF Fail, files
<1>4. ConfigTypeOK'
  <2>1. (disturbed[f] \/ pc[p] = "opened") \in BOOLEAN /\ <<>> \in Seq(Line)
    BY <1>1 DEF ConfigTypeOK
  <2> QED
    BY <1>1, <1>3, <2>1 DEF ConfigTypeOK, NoJob
<1>5. /\ pc'[p] = "failed"
      /\ \A q \in Procs : q # p => pc'[q] = pc[q] /\ job'[q] = job[q] /\ body'[q] = body[q]
  BY <1>1, <1>3 DEF ConfigTypeOK
<1>6. JobsMade'
  BY <1>1, <1>3, <1>5 DEF JobsMade
<1>7. p \in Writers(f) /\ \A g \in Files : p \notin Writers(g)'
  BY <1>2, <1>3, <1>5 DEF Writers
<1>8. ASSUME NEW g \in Files, MidWrite(g)'
      PROVE  MidWrite(g)
  BY <1>5, <1>7, <1>8 DEF MidWrite, Writers
<1>9. LookupUndisturbed'
  <2> SUFFICES ASSUME NEW q \in Procs, pc'[q] = "merging", quiet'[q]
               PROVE  merged'[q] = Load(GlobalPath(job[q].file))' /\ \A g \in Files : ~MidWrite(g)'
    BY DEF LookupUndisturbed
  <2>1. pc[q] = "merging" /\ quiet[q] /\ job'[q] = job[q]
    BY <1>3, <1>5
  <2>2. merged[q] = Load(GlobalPath(job[q].file)) /\ \A g \in Files : ~MidWrite(g)
    BY <1>1, <2>1 DEF LookupUndisturbed
  <2> QED
    BY <1>3, <1>8, <2>1, <2>2 DEF Load
<1>10. ASSUME NEW g \in Files
       PROVE  Kept(g)'
  <2>1. CASE g # f
    <3>1. p \notin Writers(g) /\ disturbed'[g] = disturbed[g]
      BY <1>1, <1>2, <1>3, <2>1 DEF Writers, ConfigTypeOK
    <3> QED
      BY <1>1, <1>3, <1>5, <1>7, <3>1, FileLeftAlone
  <2>2. CASE g = f
    <3> SUFFICES ASSUME ~disturbed'[f] PROVE Kept(f)'
      BY <2>2 DEF Kept
    <3>1. ~disturbed[f] /\ pc[p] # "opened"
      BY <1>1, <1>3 DEF ConfigTypeOK
    <3>2. LoneWriter(f)
      BY <1>1, <3>1 DEF Kept
    <3>3. Writers(f)' = {}
      BY <1>5, <1>7, <3>2 DEF LoneWriter, Writers
    <3>4. ~MidWrite(f)
      BY <1>7, <3>1, <3>2 DEF LoneWriter, MidWrite
    <3>5. Parse(lines[f])' = intended'[f]
      <4>1. Parse(lines[f]) = intended[f]
        BY <1>1, <3>1, <3>4 DEF Kept
      <4> QED
        BY <1>3, <4>1
    <3> QED
      BY <3>3, <3>5 DEF Kept, LoneWriter
  <2> QED
    BY <2>1, <2>2
<1> QED
  BY <1>4, <1>6, <1>9, <1>10 DEF ConfigInv

\* Neither half of a lookup touches a file or a writer.
LEMMA LookupLeavesFiles ==
  ASSUME ConfigInv, NEW p \in Procs, pc[p] \in {"idle", "merging"},
         pc'[p] \in {"merging", "done"}, body' = body,
         \A q \in Procs : q # p => pc'[q] = pc[q] /\ job'[q] = job[q],
         UNCHANGED <<exists, lines, intended, disturbed>>
  PROVE  /\ \A f \in Files : Kept(f)'
         /\ \A f \in Files : MidWrite(f)' => MidWrite(f)
         /\ \A f \in Files : Load(f)' = Load(f)
<1>1. \A f \in Files : p \notin Writers(f) /\ p \notin Writers(f)'
  BY DEF Writers
<1>2. ASSUME NEW f \in Files
      PROVE  Kept(f)'
  BY <1>1, FileLeftAlone DEF ConfigInv
<1>3. ASSUME NEW f \in Files, MidWrite(f)'
      PROVE  MidWrite(f)
  BY <1>1, <1>3 DEF MidWrite, Writers
<1>4. \A f \in Files : Load(f)' = Load(f)
  BY DEF Load
<1> QED
  BY <1>2, <1>3, <1>4

LEMMA StartLookupKeeps ==
  ASSUME ConfigInv, NEW p \in Procs, NEW n \in Names, NEW d \in Dirs \cup {"env"},
         StartLookup(p, n, d)
  PROVE  ConfigInv'
<1> DEFINE entry == [file |-> d, name |-> n, value |-> NoValue]
           calm == \A f \in Files : ~MidWrite(f)
<1>0. PICK g \in Files : g = GlobalPath(d)
  BY GlobalPathIsFile
<1>1. /\ pc[p] = "idle" /\ pc' = [pc EXCEPT ![p] = "merging"]
      /\ job' = [job EXCEPT ![p] = entry]
      /\ merged' = [merged EXCEPT ![p] = Load(g)]
      /\ quiet' = [quiet EXCEPT ![p] = calm]
      /\ exists' = exists /\ lines' = lines /\ body' = body /\ found' = found
      /\ intended' = intended /\ disturbed' = disturbed
  BY <1>0 DEF StartLookup, files
<1>2. ConfigTypeOK /\ JobsMade /\ LookupUndisturbed
  BY DEF ConfigInv
<1>3. entry \in [file : Files \cup {"none"}, name : Names \cup {NoValue},
                 value : Values \cup {NoValue}]
      /\ entry.name = n /\ entry.file = d /\ calm \in BOOLEAN /\ Load(g) \in Profiles
  BY <1>2, LoadType DEF Files
<1> HIDE DEF entry, calm
<1>4. ConfigTypeOK'
  BY <1>1, <1>2, <1>3 DEF ConfigTypeOK
<1>5. /\ pc'[p] = "merging" /\ job'[p] = entry /\ quiet'[p] = calm
      /\ merged'[p] = Load(g)
      /\ \A q \in Procs : q # p => /\ pc'[q] = pc[q] /\ job'[q] = job[q]
                                   /\ quiet'[q] = quiet[q] /\ merged'[q] = merged[q]
  BY <1>1, <1>2 DEF ConfigTypeOK
<1>6. JobsMade'
  BY <1>1, <1>2, <1>3, <1>5 DEF JobsMade
<1>7. /\ \A f \in Files : Kept(f)'
      /\ \A f \in Files : MidWrite(f)' => MidWrite(f)
      /\ \A f \in Files : Load(f)' = Load(f)
  BY <1>1, <1>5, LookupLeavesFiles
<1>8. LookupUndisturbed'
  <2> SUFFICES ASSUME NEW q \in Procs, pc'[q] = "merging", quiet'[q]
               PROVE  /\ merged'[q] = Load(GlobalPath(job[q].file))'
                      /\ \A f \in Files : ~MidWrite(f)'
    BY DEF LookupUndisturbed
  <2>1. CASE q = p
    <3>1. \A f \in Files : ~MidWrite(f)
      BY <1>5, <2>1 DEF calm
    <3>2. merged'[q] = Load(g) /\ GlobalPath(job[q].file)' = g
      BY <1>0, <1>3, <1>5, <2>1
    <3> QED
      BY <1>7, <3>1, <3>2
  <2>2. CASE q # p
    <3>1. pc[q] = "merging" /\ quiet[q] /\ merged'[q] = merged[q] /\ job'[q] = job[q]
      BY <1>5, <2>2
    <3>2. merged[q] = Load(GlobalPath(job[q].file)) /\ \A f \in Files : ~MidWrite(f)
      BY <1>2, <3>1 DEF LookupUndisturbed
    <3>3. GlobalPath(job[q].file) \in Files
      BY GlobalPathIsFile
    <3> QED
      BY <1>7, <3>1, <3>2, <3>3
  <2> QED
    BY <2>1, <2>2
<1> QED
  BY <1>4, <1>6, <1>7, <1>8 DEF ConfigInv

\* What a lookup finds among the profiles it has read and those it overlays.
Answer(p) ==
  IF job[p].file = "env" THEN merged[p][job[p].name]
  ELSE Override(merged[p], Overlay(job[p].file))[job[p].name]

LEMMA AnswerType ==
  ASSUME ConfigTypeOK, JobsMade, NEW p \in Procs, pc[p] = "merging"
  PROVE  Answer(p) \in Values \cup {NoValue}
<1>1. merged[p] \in Profiles /\ job[p].name \in Names
  BY DEF ConfigTypeOK, JobsMade
<1>2. CASE job[p].file = "env"
  BY <1>1, <1>2 DEF Answer, Profiles
<1>3. CASE job[p].file # "env"
  <2>1. PICK d \in Dirs : d = job[p].file
    BY <1>3 DEF JobsMade
  <2>2. Override(merged[p], Overlay(d)) \in Profiles
    BY <1>1, OverlayType, OverrideType
  <2> QED
    BY <1>1, <1>3, <2>1, <2>2 DEF Answer, Profiles
<1> QED
  BY <1>2, <1>3

LEMMA FinishLookupKeeps ==
  ASSUME ConfigInv, NEW p \in Procs, FinishLookup(p)
  PROVE  ConfigInv'
<1>1. /\ pc[p] = "merging" /\ pc' = [pc EXCEPT ![p] = "done"]
      /\ job' = [job EXCEPT ![p] = NoJob] /\ merged' = [merged EXCEPT ![p] = Nothing]
      /\ found' = [found EXCEPT ![p] = Answer(p)]
      /\ exists' = exists /\ lines' = lines /\ body' = body /\ quiet' = quiet
      /\ intended' = intended /\ disturbed' = disturbed
  BY DEF FinishLookup, Answer, files, history
<1>2. ConfigTypeOK /\ JobsMade /\ LookupUndisturbed
  BY DEF ConfigInv
<1>3. Nothing \in Profiles
  BY NothingIsProfiles
<1>4. Answer(p) \in Values \cup {NoValue}
  BY <1>1, <1>2, AnswerType
<1>5. ConfigTypeOK'
  BY <1>1, <1>2, <1>3, <1>4 DEF ConfigTypeOK, NoJob
<1>6. /\ pc'[p] = "done"
      /\ \A q \in Procs : q # p => /\ pc'[q] = pc[q] /\ job'[q] = job[q]
                                   /\ merged'[q] = merged[q]
  BY <1>1, <1>2 DEF ConfigTypeOK
<1>7. JobsMade'
  BY <1>1, <1>2, <1>6 DEF JobsMade
<1>8. /\ \A f \in Files : Kept(f)'
      /\ \A f \in Files : MidWrite(f)' => MidWrite(f)
      /\ \A f \in Files : Load(f)' = Load(f)
  BY <1>1, <1>6, LookupLeavesFiles
<1>9. LookupUndisturbed'
  <2> SUFFICES ASSUME NEW q \in Procs, pc'[q] = "merging", quiet'[q]
               PROVE  /\ merged'[q] = Load(GlobalPath(job[q].file))'
                      /\ \A f \in Files : ~MidWrite(f)'
    BY DEF LookupUndisturbed
  <2>1. q # p /\ pc[q] = "merging" /\ quiet[q] /\ merged'[q] = merged[q] /\ job'[q] = job[q]
    BY <1>1, <1>6
  <2>2. merged[q] = Load(GlobalPath(job[q].file)) /\ \A f \in Files : ~MidWrite(f)
    BY <1>2, <2>1 DEF LookupUndisturbed
  <2>3. GlobalPath(job[q].file) \in Files
    BY GlobalPathIsFile
  <2> QED
    BY <1>8, <2>1, <2>2, <2>3
<1> QED
  BY <1>5, <1>7, <1>8, <1>9 DEF ConfigInv

LEMMA ConfigKeeps == ConfigInv /\ [ConfigNext]_configVars => ConfigInv'
<1> SUFFICES ASSUME ConfigInv, [ConfigNext]_configVars PROVE ConfigInv'
  OBVIOUS
<1>1. CASE UNCHANGED configVars
  <2>1. /\ exists' = exists /\ lines' = lines /\ pc' = pc /\ job' = job /\ body' = body
        /\ merged' = merged /\ found' = found /\ intended' = intended
        /\ disturbed' = disturbed /\ quiet' = quiet
    BY <1>1 DEF configVars, files, procs, history
  <2>2. ConfigTypeOK' /\ JobsMade'
    BY <2>1 DEF ConfigInv, ConfigTypeOK, JobsMade
  <2>3. ASSUME NEW f \in Files
        PROVE  Kept(f)' /\ (MidWrite(f)' <=> MidWrite(f))
    <3>1. Writers(f)' = Writers(f)
      BY <2>1 DEF Writers
    <3>2. MidWrite(f)' <=> MidWrite(f)
      BY <2>1, <3>1 DEF MidWrite
    <3>3. ASSUME NEW q \in Writers(f)
          PROVE  Asked(q, intended[f])' = Asked(q, intended[f])
      BY <2>1 DEF Asked
    <3>4. LoneWriter(f) => LoneWriter(f)'
      BY <2>1, <3>1, <3>3 DEF LoneWriter
    <3> QED
      BY <2>1, <3>2, <3>4 DEF ConfigInv, Kept
  <2>4. LookupUndisturbed'
    BY <2>1, <2>3 DEF ConfigInv, LookupUndisturbed, Load
  <2> QED
    BY <2>2, <2>3, <2>4 DEF ConfigInv
<1>2. ASSUME NEW p \in Procs, NEW f \in Files, NEW n \in Names, NEW v \in Values,
             StartAdd(p, f, n, v)
      PROVE  ConfigInv'
  BY <1>2, StartAddKeeps
<1>3. ASSUME NEW p \in Procs, NEW f \in Files, StartInit(p, f)
      PROVE  ConfigInv'
  BY <1>3, StartInitKeeps
<1>4. ASSUME NEW p \in Procs, OpenForWriting(p)
      PROVE  ConfigInv'
  BY <1>4, OpenKeeps
<1>5. ASSUME NEW p \in Procs, Write(p)
      PROVE  ConfigInv'
  BY <1>5, WriteKeeps
<1>6. ASSUME NEW p \in Procs, Fail(p)
      PROVE  ConfigInv'
  BY <1>6, FailKeeps
<1>7. ASSUME NEW p \in Procs, NEW n \in Names, NEW d \in Dirs \cup {"env"},
             StartLookup(p, n, d)
      PROVE  ConfigInv'
  BY <1>7, StartLookupKeeps
<1>8. ASSUME NEW p \in Procs, FinishLookup(p)
      PROVE  ConfigInv'
  BY <1>8, FinishLookupKeeps
<1> QED
  BY <1>1, <1>2, <1>3, <1>4, <1>5, <1>6, <1>7, <1>8 DEF ConfigNext

\* Every variable of the profile files has its type.
THEOREM ConfigTypes == ConfigSpec => []ConfigTypeOK
<1>1. ConfigInv => ConfigTypeOK
  BY DEF ConfigInv
<1> QED
  BY ConfigBegins, ConfigKeeps, <1>1, PTL DEF ConfigSpec

\* However many processes run, and whatever the files held: config init and
\* config add lose nothing of a file that one of them at a time rewrites, and
\* none fails to rewrite.
THEOREM LoneWritersAreSafe == ConfigSpec => []LoneWritersLoseNothing
<1>1. ConfigInv => LoneWritersLoseNothing
  BY DEF ConfigInv, Kept, LoneWritersLoseNothing
<1> QED
  BY ConfigBegins, ConfigKeeps, <1>1, PTL DEF ConfigSpec

\* Where every file says what it was asked to, the overlay over the global
\* profiles says what was asked for a process at d.
LEMMA NearestIsWanted ==
  ASSUME ConfigTypeOK, NEW d \in Dirs, NEW n \in Names,
         \A f \in Files : Load(f) = intended[f]
  PROVE  Override(intended["global"], Overlay(d))[n] = Wanted(d, n)
<1> DEFINE nearest == {i \in DOMAIN Walk[d] : /\ exists[Walk[d][i]]
                                             /\ \A j \in 1 .. i - 1 : ~exists[Walk[d][j]]}
           own == {i \in nearest : intended[Walk[d][i]][n] # NoValue}
<1>1. Wanted(d, n) = IF own = {} THEN intended["global"][n]
                     ELSE intended[Walk[d][CHOOSE i \in own : TRUE]][n]
  BY DEF Wanted
<1>2. Override(intended["global"], Overlay(d))[n] =
        IF Overlay(d)[n] # NoValue THEN Overlay(d)[n] ELSE intended["global"][n]
  BY DEF Override
<1>3. nearest \subseteq There(d)
  BY DEF There
<1>4. CASE There(d) = {}
  <2>1. Overlay(d)[n] = NoValue
    BY <1>4, OverlayIsNearest DEF Nothing
  <2>2. own = {}
    BY <1>3, <1>4
  <2> QED
    BY <1>1, <1>2, <2>1, <2>2
<1>5. CASE There(d) # {}
  <2>1. PICK i \in There(d) : (\A j \in There(d) : i <= j) /\ Overlay(d) = Load(Walk[d][i])
    BY <1>5, OverlayIsNearest
  <2>2. Len(Walk[d]) \in Nat /\ There(d) \subseteq 1 .. Len(Walk[d]) /\ Walk[d][i] \in Files
    BY WalkOf DEF There, Files
  <2>3. Overlay(d) = intended[Walk[d][i]]
    BY <2>1, <2>2
  <2>4. i \in nearest
    <3>1. ASSUME NEW j \in 1 .. i - 1
          PROVE  ~exists[Walk[d][j]]
      <4>1. j \in 1 .. Len(Walk[d]) /\ ~(i <= j)
        BY <2>2
      <4>2. j \notin There(d)
        BY <2>1, <4>1
      <4> QED
        BY <4>1, <4>2, WalkOf DEF There
    <3> QED
      BY <3>1 DEF There
  <2>5. ASSUME NEW k \in nearest
        PROVE  k = i
    <3>1. k \in There(d) /\ i <= k /\ k \in Nat /\ i \in Nat
      BY <1>3, <2>1, <2>2
    <3>2. ~(i \in 1 .. k - 1)
      BY DEF There
    <3>3. i >= 1
      BY <2>2
    <3> QED
      BY <3>1, <3>2, <3>3
  <2>6. nearest = {i}
    BY <2>4, <2>5
  <2> HIDE DEF nearest
  <2>7. CASE Overlay(d)[n] # NoValue
    <3>1. own = {i}
      BY <2>3, <2>6, <2>7
    <3>2. (CHOOSE k \in own : TRUE) = i
      BY <3>1
    <3> QED
      BY <1>1, <1>2, <2>3, <2>7, <3>1, <3>2
  <2>8. CASE Overlay(d)[n] = NoValue
    <3>1. own = {}
      BY <2>3, <2>6, <2>8
    <3> QED
      BY <1>1, <1>2, <2>8, <3>1
  <2> QED
    BY <2>7, <2>8
<1> QED
  BY <1>4, <1>5

LEMMA QuietStep ==
  ASSUME ConfigInv, [ConfigNext]_configVars, NEW p \in Procs,
         pc[p] = "merging", pc'[p] = "done", quiet[p], \A f \in Files : ~disturbed[f]
  PROVE  found'[p] = IF job[p].file = "env" THEN intended["env"][job[p].name]
                     ELSE Wanted(job[p].file, job[p].name)
<1>1. FinishLookup(p)
  <2> SUFFICES ASSUME ~FinishLookup(p) PROVE FALSE
    OBVIOUS
  <2>1. ConfigTypeOK
    BY DEF ConfigInv
  <2>2. pc' # pc
    OBVIOUS
  <2>3. PICK q \in Procs :
          \/ \E f \in Files : \/ \E n \in Names, v \in Values : StartAdd(q, f, n, v)
                              \/ StartInit(q, f)
          \/ OpenForWriting(q) \/ Write(q) \/ Fail(q)
          \/ \E n \in Names, d \in Dirs \cup {"env"} : StartLookup(q, n, d)
          \/ FinishLookup(q)
    BY <2>2 DEF ConfigNext, configVars, procs
  <2>4. q # p => pc'[p] = pc[p]
    BY <2>1, <2>3 DEF StartAdd, StartInit, Compose, OpenForWriting, Write, Fail,
                      StartLookup, FinishLookup, ConfigTypeOK
  <2>5. q = p
    BY <2>4
  <2> QED
    BY <2>3, <2>5 DEF StartAdd, StartInit, Compose, OpenForWriting, Write, Fail,
                      StartLookup, FinishLookup
<1>2. /\ ConfigTypeOK /\ JobsMade /\ LookupUndisturbed /\ \A f \in Files : Kept(f)
  BY DEF ConfigInv
<1>3. merged[p] = Load(GlobalPath(job[p].file)) /\ \A f \in Files : ~MidWrite(f)
  BY <1>2 DEF LookupUndisturbed
<1>4. \A f \in Files : Load(f) = intended[f]
  BY <1>2, <1>3, LoadType DEF Kept
<1>5. "global" \in Files /\ "env" \in Files
  BY DEF Files
<1>6. job[p].name \in Names /\ job[p].file \in Dirs \cup {"env"}
  BY <1>2 DEF JobsMade
<1>7. found'[p] = Answer(p)
  BY <1>1, <1>2 DEF FinishLookup, ConfigTypeOK, Answer
<1>8. CASE job[p].file = "env"
  BY <1>3, <1>4, <1>5, <1>7, <1>8 DEF Answer, GlobalPath
<1>9. CASE job[p].file # "env"
  <2>1. merged[p] = intended["global"]
    BY <1>3, <1>4, <1>5, <1>9 DEF GlobalPath
  <2>2. PICK d \in Dirs, n \in Names : d = job[p].file /\ n = job[p].name
    BY <1>6, <1>9
  <2>3. Override(intended["global"], Overlay(d))[n] = Wanted(d, n)
    BY <1>2, <1>4, NearestIsWanted
  <2> QED
    BY <1>7, <1>9, <2>1, <2>2, <2>3 DEF Answer
<1> QED
  BY <1>8, <1>9

\* A lookup during which no file is rewritten finds what the commands that
\* succeeded asked for: the nearest project file's answer first, then the
\* global one, and with $Q_CLI_CONFIG that file's alone.
THEOREM QuietLookupIsRight == ConfigSpec => QuietLookupFindsProfile
<1>1. ConfigInv /\ [ConfigNext]_configVars =>
        [\A p \in Procs :
           pc[p] = "merging" /\ pc'[p] = "done" /\ quiet[p]
             /\ (\A f \in Files : ~disturbed[f])
           => found'[p] = IF job[p].file = "env" THEN intended["env"][job[p].name]
                          ELSE Wanted(job[p].file, job[p].name)]_configVars
  BY QuietStep
<1> QED
  BY ConfigBegins, ConfigKeeps, <1>1, PTL DEF ConfigSpec, QuietLookupFindsProfile
===============================================================================
