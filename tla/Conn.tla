-------------------------------- MODULE Conn --------------------------------
(***************************************************************************)
(* One IPC connection of q-cli (src/conn.rs): Conn::open tries every       *)
(* resolved address, runs the optional TLS handshake and the kdb+ login    *)
(* under the establishment timeout, switches the socket to --timeout, and  *)
(* then Conn::sync makes round trips.                                      *)
(*                                                                         *)
(* A transfer (write_all, read_exact, the TLS handshake) may take several  *)
(* system calls; the socket timeout bounds EACH of them, so `waited`       *)
(* restarts with every piece while `elapsed` does not.                     *)
(*                                                                         *)
(* Time passes only while a call with a deadline is blocked: a call with   *)
(* no deadline waits for the peer however long that takes.                 *)
(***************************************************************************)
EXTENDS Naturals

CONSTANTS
  Timeouts,       \* values of --timeout, in clock units; None is 0
  EstablishCap,   \* the 5 s of conn.rs:119 and conn.rs:140
  WriteCap,       \* the 10 s of conn.rs:180
  Addrs,          \* addresses the host name resolves to
  MaxPieces,      \* bound: partial reads or writes of one transfer
  MaxRequests,    \* bound: round trips of one connection
  MaxMsgLen       \* the 1 GB of conn.rs:250, at least a header long

None == 0

ASSUME TimeAssumption ==
  /\ Timeouts \subseteq Nat
  /\ EstablishCap \in Nat \ {0}
  /\ WriteCap \in Nat \ {0}
ASSUME SizeAssumption ==
  /\ Addrs \in Nat
  /\ MaxPieces \in Nat
  /\ MaxRequests \in Nat
  /\ MaxMsgLen \in Nat /\ MaxMsgLen > 8

VARIABLES
  timeout,     \* opts.timeout
  tls,         \* resolve_tls(conn, tls)
  phase,       \* the operation the client is in, or ended in
  addr,        \* number of the address being tried
  rdTimeout,   \* SO_RCVTIMEO
  wrTimeout,   \* SO_SNDTIMEO
  waited,      \* time the present system call has been blocked
  elapsed,     \* time since establishment, or the present round trip, began
  pieces,      \* partial calls made in the present transfer
  header,      \* the response header being handled, or NoHeader
  answered,    \* round trips answered
  code,        \* exit code, Running until the program ends
  lost         \* history: the kernel itself gave the peer up (ETIMEDOUT)

socket == <<rdTimeout, wrTimeout>>
clock  == <<waited, elapsed, pieces>>
vars   == <<timeout, tls, phase, addr, socket, clock, header, answered, code, lost>>

Running == 1
Success == 0
UsageError   == 2
ConnectError == 3
QueryError   == 4
TimeoutError == 5
Codes == {Running, Success, UsageError, ConnectError, QueryError, TimeoutError}

EstablishPhases == {"resolve", "connect", "tls", "login_write", "login_read"}
RoundTripPhases == {"send", "header", "payload"}
Transfers       == {"tls", "login_write", "login_read"} \cup RoundTripPhases
Phases          == EstablishPhases \cup {"idle"} \cup RoundTripPhases

\* The four fields of a response header that sync looks at.  The values
\* stand on both sides of each test: 1 and 2 for the endian byte, 2 (reply)
\* and 1 for the message type, and so on.
Headers == [endian : {1, 2}, type : {1, 2}, compressed : {0, 1, 2},
            len : {7, 8, 9, MaxMsgLen, MaxMsgLen + 1}]
NoHeader == [endian |-> 0, type |-> 0, compressed |-> 0, len |-> 0]

Lesser(a, b) == IF a < b THEN a ELSE b

ValidHeader(h) == h.endian <= 1 /\ h.type = 2 /\ h.compressed <= 1

LengthInRange(h) == h.len >= 8 /\ h.len <= MaxMsgLen

Acceptable(h) == ValidHeader(h) /\ LengthInRange(h)

\* Option<Duration>::map(|t| t.min(cap)): no timeout stays none.
Capped(t, cap) == IF t = None THEN None ELSE Lesser(t, cap)

ConnectTimeout(t) == Capped(t, EstablishCap)

\* Mutants: a cap forgotten, and the cap lost with --timeout 0.
HandshakeTimeoutUncapped(t) == IF t = None THEN EstablishCap ELSE t
HandshakeTimeoutOptional(t) == Capped(t, EstablishCap)

\* Unlike connect, the handshake is capped even without --timeout.
HandshakeTimeout(t) == IF t = None THEN EstablishCap ELSE Lesser(t, EstablishCap)

\* Mutants: the handshake's timeout kept for queries, and none set at all.
ReadTimeoutKept(t) == HandshakeTimeout(t)
ReadTimeoutUnset(t) == None

ReadTimeout(t) == t

WriteTimeout(t) == Capped(t, WriteCap)

\* How long the present system call may block; None is forever.
Deadline ==
  CASE phase = "connect"                 -> ConnectTimeout(timeout)
    [] phase \in {"login_write", "send"} -> wrTimeout
    [] phase \in {"tls", "login_read", "header", "payload"} -> rdTimeout
    [] OTHER                             -> None

\* A reply of a header alone leaves read_exact nothing to wait for.
EmptyPayload == phase = "payload" /\ header.len = 8

Transferring == code = Running /\ phase \in Transfers /\ ~EmptyPayload

Blocked == Transferring \/ (code = Running /\ phase = "connect")
Timed   == Blocked /\ Deadline # None
Expired == Timed /\ waited >= Deadline
-----------------------------------------------------------------------------
Init ==
  /\ timeout \in Timeouts
  /\ tls \in BOOLEAN
  /\ phase = "resolve"
  /\ addr = 0
  /\ rdTimeout = None /\ wrTimeout = None
  /\ waited = 0 /\ elapsed = 0 /\ pieces = 0
  /\ header = NoHeader
  /\ answered = 0
  /\ code = Running
  /\ lost = FALSE

\* Moves to the next operation; its first system call starts now.
Enter(p) == /\ phase' = p
            /\ waited' = 0
            /\ pieces' = 0

Stop(c) == /\ code' = c
           /\ UNCHANGED <<timeout, tls, phase, addr, socket, clock, header, answered>>

Exit(c) == Stop(c) /\ UNCHANGED lost

\* Mutant: establishment errors classified by error::io_err too.
FailureCodeByIoErr(p, timedOut) == IF timedOut THEN TimeoutError ELSE ConnectError

\* The code an I/O error becomes: conn.rs maps every establishment failure
\* to Connect itself and leaves round-trip failures to error::io_err, which
\* asks is_timeout whether the error is a WouldBlock or a TimedOut.
FailureCode(p, timedOut) ==
  IF p \in RoundTripPhases /\ timedOut THEN TimeoutError ELSE ConnectError

\* An invalid <conn>, or TLS asked of a build without it, is a usage error;
\* a name that does not resolve, or resolves to nothing, a connection error.
BadTarget == /\ phase = "resolve" /\ code = Running
             /\ \E c \in {UsageError, ConnectError} : Exit(c)

Resolve == /\ phase = "resolve" /\ code = Running
           /\ Addrs > 0
           /\ Enter("connect")
           /\ addr' = 1
           /\ UNCHANGED <<timeout, tls, socket, elapsed, header, answered, code, lost>>

ConnectOk ==
  /\ phase = "connect" /\ code = Running
  /\ Enter(IF tls THEN "tls" ELSE "login_write")
  /\ rdTimeout' = HandshakeTimeout(timeout)
  /\ wrTimeout' = HandshakeTimeout(timeout)
  /\ UNCHANGED <<timeout, tls, addr, elapsed, header, answered, code, lost>>

\* The address did not answer: the next one, if any.
NextAddress ==
  IF addr < Addrs
    THEN /\ Enter("connect")
         /\ addr' = addr + 1
         /\ UNCHANGED <<timeout, tls, socket, elapsed, header, answered, code, lost>>
    ELSE Exit(ConnectError)

ConnectRefused == phase = "connect" /\ code = Running /\ NextAddress

ConnectExpire == phase = "connect" /\ Expired /\ NextAddress

\* Some bytes of a transfer moved and the rest takes another system call.
Piece == /\ Transferring /\ phase # "login_read"
         /\ pieces < MaxPieces
         /\ pieces' = pieces + 1
         /\ waited' = 0
         /\ UNCHANGED <<timeout, tls, phase, addr, socket, elapsed, header, answered, code, lost>>

TlsOk == /\ phase = "tls" /\ code = Running
         /\ Enter("login_write")
         /\ UNCHANGED <<timeout, tls, addr, socket, elapsed, header, answered, code, lost>>

\* native-tls reports a bad certificate as it does a broken stream.
TlsFail == phase = "tls" /\ code = Running /\ Exit(ConnectError)

LoginSent == /\ phase = "login_write" /\ code = Running
             /\ Enter("login_read")
             /\ UNCHANGED <<timeout, tls, addr, socket, elapsed, header, answered, code, lost>>

\* The login reply is one byte, at most 6 from a kdb+ process; only then
\* does the socket get the timeouts the user asked for.
LoginOk == /\ phase = "login_read" /\ code = Running
           /\ Enter("idle")
           /\ rdTimeout' = ReadTimeout(timeout)
           /\ wrTimeout' = WriteTimeout(timeout)
           /\ UNCHANGED <<timeout, tls, addr, elapsed, header, answered, code, lost>>

BadCapability == phase = "login_read" /\ code = Running /\ Exit(ConnectError)

SyncOversize == phase = "idle" /\ code = Running /\ Exit(UsageError)

SyncSend == /\ phase = "idle" /\ code = Running
            /\ answered < MaxRequests
            /\ Enter("send")
            /\ elapsed' = 0
            /\ UNCHANGED <<timeout, tls, addr, socket, header, answered, code, lost>>

SyncSent == /\ phase = "send" /\ code = Running
            /\ Enter("header")
            /\ UNCHANGED <<timeout, tls, addr, socket, elapsed, header, answered, code, lost>>

HeaderRead(h) ==
  /\ phase = "header" /\ code = Running
  /\ IF Acceptable(h)
       THEN /\ Enter("payload")
            /\ header' = h
            /\ UNCHANGED <<timeout, tls, addr, socket, elapsed, answered, code, lost>>
       ELSE Exit(ConnectError)

\* The payload is complete and decompress and Reader::read accept it.
ReplyDecoded ==
  /\ phase = "payload" /\ Transferring
  /\ Enter("idle")
  /\ header' = NoHeader
  /\ answered' = answered + 1
  /\ UNCHANGED <<timeout, tls, addr, socket, elapsed, code, lost>>

\* ... or they do not, or the object is a q error.
ReplyRejected == phase = "payload" /\ Transferring /\ Exit(QueryError)

\* A reply of a header alone has no K object to read.
ReplyEmpty == EmptyPayload /\ code = Running /\ Exit(QueryError)

\* The peer closes or resets the connection, in any transfer.
Disconnect == Transferring /\ Exit(FailureCode(phase, FALSE))

\* The kernel gives up on a peer that no longer acknowledges anything.  That
\* error is a TimedOut like the socket's own, but it comes when it comes:
\* before --timeout, or without one.
PeerLost == /\ Transferring
            /\ lost' = TRUE
            /\ Stop(FailureCode(phase, TRUE))

\* The socket timeout of a blocked call runs out.
Expire == Transferring /\ Expired /\ Exit(FailureCode(phase, TRUE))

\* The command is done with the connection, with nothing to report against it;
\* whether its result can then be printed is not the connection's affair.
Leave == phase = "idle" /\ code = Running /\ Exit(Success)

Tick == /\ Timed /\ ~Expired
        /\ waited' = waited + 1
        /\ elapsed' = elapsed + 1
        /\ UNCHANGED <<timeout, tls, phase, addr, socket, pieces, header, answered, code, lost>>

Establish == \/ BadTarget \/ Resolve
             \/ ConnectOk \/ ConnectRefused \/ ConnectExpire
             \/ TlsOk \/ TlsFail
             \/ LoginSent \/ LoginOk \/ BadCapability

Sync == \/ SyncOversize \/ SyncSend \/ SyncSent
        \/ \E h \in Headers : HeaderRead(h)
        \/ ReplyDecoded \/ ReplyRejected \/ ReplyEmpty

Next == Establish \/ Sync \/ Piece \/ Disconnect \/ PeerLost \/ Expire \/ Leave \/ Tick

\* The client's own steps: none waits for the peer.
Proceed == BadTarget \/ Resolve \/ SyncOversize \/ SyncSend \/ ReplyEmpty \/ Leave

\* The kernel's timers run and the client keeps going between its system
\* calls; nothing is assumed of the peer.
Fairness == /\ WF_vars(Tick)
            /\ WF_vars(Expire)
            /\ WF_vars(ConnectExpire)
            /\ WF_vars(Proceed)

Spec == Init /\ [][Next]_vars

FairSpec == Spec /\ Fairness
-----------------------------------------------------------------------------
\* Every variable has its type, and a round trip in progress is one of the
\* MaxRequests.
TypeOK ==
  /\ timeout \in Timeouts
  /\ tls \in BOOLEAN
  /\ phase \in Phases
  /\ addr \in 0 .. Addrs
  /\ rdTimeout \in Nat /\ wrTimeout \in Nat
  /\ waited \in Nat /\ elapsed \in Nat
  /\ pieces \in 0 .. MaxPieces
  /\ header \in Headers \cup {NoHeader}
  /\ answered \in 0 .. MaxRequests
  /\ phase \in RoundTripPhases => answered < MaxRequests
  /\ code \in Codes
  /\ lost \in BOOLEAN

\* What a round trip's exit 5 says of the call that failed: unless the kernel
\* itself gave the peer up, a query waiting for its answer is cut off only
\* after the server was silent for the whole of --timeout.  The shorter
\* timeouts the socket had during establishment, and the write cap, never
\* reach a read.  A query that cannot be sent is cut off when the peer has
\* accepted nothing for --timeout or the write cap, whichever is less; no
\* clock of the program's own runs with --timeout 0 (conn.rs:176-181).
SlowQueryGetsItsTimeout ==
  code = TimeoutError =>
    /\ phase \in RoundTripPhases
    /\ ~lost => /\ timeout # None
                /\ phase \in {"header", "payload"} => waited = timeout
                /\ phase = "send" => waited = Lesser(timeout, WriteCap)

\* The system calls establishment has made or is making, at most.
EstablishCalls ==
  LET tlsCalls == IF tls THEN MaxPieces + 1 ELSE 0
  IN CASE phase = "tls"         -> addr + pieces + 1
       [] phase = "login_write" -> addr + tlsCalls + pieces + 1
       [] phase = "login_read"  -> addr + tlsCalls + MaxPieces + 2
       [] OTHER                 -> addr

\* However large --timeout is, and even without one once the TCP connection
\* is up, every call of establishment is cut at the cap, so a stalled port
\* costs at most the cap per address and per handshake call (conn.rs:137).
EstablishmentFailsFast ==
  phase \in EstablishPhases => elapsed <= EstablishCalls * EstablishCap

\* What the rest of the program sees of a connection is a Channel.
Abstract == INSTANCE Channel WITH
  stage <- IF code # Running THEN "ended"
           ELSE IF phase \in EstablishPhases THEN "closed"
           ELSE IF phase = "idle" THEN "open" ELSE "waiting",
  verdict <- code

\* Channel's Spec: the exit code tells the caller how far it got, and in
\* particular nothing before the login reply is a timeout (conn.rs:110-114).
ImplementsChannel == Abstract!Spec

\* With a --timeout, whatever the peer does, a connection ends.
TimeoutEndsEverything == timeout # None ~> code # Running

\* Even without one, a peer that accepts and then stalls is given up on.
LoginEnds == phase = "login_write" ~> (phase = "idle" \/ code # Running)
=============================================================================
