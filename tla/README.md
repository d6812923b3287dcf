# A TLA+ verification of q-cli

q-cli (`src/`, Rust) is a command-line client of kdb+/q: one process per
command, which resolves a server name, opens a connection, sends q text as
synchronous IPC messages, and prints the answer or exits with a code that
scripts and agents act on (0 success, 2 usage, 3 connection, 4 server error,
5 timeout). The hard part is not in one function. It is in what several such
processes, a single-threaded server that outlives them, a network that stalls
and unlocked files make of steps that each look right.

The modules below model those parts, TLC checks them on small instances, and
TLAPS proves the main results for every value of the constants. Every definition
that stands for code is listed with its source lines in `PROJECT.json` ("map").

## Inventory

| Component | Source | State it keeps | Operations | Correct when | Module |
|---|---|---|---|---|---|
| Connection | `conn.rs` | socket, its two timeouts, the round trip under way | `open`, `handshake`, `sync` | the timeout in force is the one for the phase; errors get the code of their phase; every wait is bounded that should be | `Conn`, `Channel` |
| Error classification | `error.rs` | none | `io_err`, `Kind::code` | exit 3 and exit 5 are told apart | in `Conn` |
| Command execution | `cmd.rs` 432-495, 912-1087 | position in the script | `do_eval`, `do_run`, `validate_dry_run`, `finish` | statements run as a prefix, once; the code and the reported line say how far | `Session`, `ScriptPromise` |
| Remote inspection | `cmd.rs` 785-868 | the probe's queue and visited names, on the server | `inspect_remote_funcs` | never blames what is not in the call chain; misses nothing the bodies mention, up to its budget | `RemoteInspect` |
| Trace action | `cmd.rs` 725-761 | `.qcli.traceState` and the two handlers, on the server | `on`, `off`, `status` | never changes who evaluates a request; off undoes on | `Trace` |
| Web action | `cmd.rs` 710-723 | two HTTP handlers, on the server | `off`, `get-ok`, `status` | what `--readonly` allows; an assignment | its arguments, in `Dispatch` |
| Profile files | `config.rs` | text files, shared by all processes | `init`, `add`, `list`, lookup | no profile is lost; the nearest project file overrides global | `ConfigFile` |
| Alias resolution | `config.rs` 156-183 | key, visited keys, hops | `resolve_conn`, `resolve_alias` | a chain is followed to its end, and refused only for what is true of the files | `Alias` |
| Script splitter | `cmd.rs` 516-696, 1092-1166 | string, comment and delimiter state | `split_q_script`, `strip_q_code` | statements are closed in themselves; the two agree on what is code | `Splitter`, `Scanners` |
| Read-only scanner | `cmd.rs` 1192-1840 | token position, scopes | `check_readonly` | a syntactic filter | only its verdict, in `Session` |
| Dispatch, options | `cmd.rs` 213-393, `main.rs` | positional arguments, options | `real_main`, `dispatch` | checks come before effects; no flag is lost on the way | `Dispatch` |
| K reader | `k.rs` 66-470 | cursor, depth | `Reader::read` | never out of bounds, always ends, refuses what is really too deep | `Reader` |
| Decompression | `k.rs` 806-892 | output, hash table, cursors | `decompress` | the output is what the format means; reads only what it has written; ends | `Decompress`, `Lz` |
| Rendering, query text | `render.rs`, `query.rs`, rest of `k.rs` | none | formatting | layout | not modelled |
| Self-update | `update.rs` | temporary file, the executable | `run` | the executable is a whole one; what is reported is so; nothing older unasked | `Update` |

How they interact. `dispatch` prepares a command locally (splitting, the
read-only filter), resolves the name through the profile files, opens a
connection and hands it to `do_eval` or `do_run`, which make round trips with
`Conn::sync`. Everything else is shared state outside the process: the q
server's globals and handlers, which every client's messages change one message
at a time, and the profile files, which every q-cli process reads and
rewrites. There are no threads in q-cli; concurrency is between processes, and
between a client that has given up and the server still working for it.

What is hard, at its line, is the list "hazards" of `PROJECT.json`. In short:
timeouts that are per system call, not per round trip; a timeout that leaves its
request behind; scripts that stop half way; inspections that are stale when
used; a walk with a budget; requests that are retried though the first was run;
handlers that others change; files truncated before they are written; a table
that one side rebuilds and the other only assumes; two copies of one scanner;
an executable that several processes replace.

## Modules

### Conn and Channel: one connection

`Conn` follows `Conn::open` and `Conn::sync` call by call. `phase` is the
operation under way, `rdTimeout` and `wrTimeout` are the socket options, and two
clocks measure how long the present system call has been blocked (`waited`,
which restarts with every piece of a partial transfer) and how long
establishment or the round trip has taken (`elapsed`). The peer may do anything:
answer, answer in pieces, stall, close, send a header of any kind. `Headers` has
the values on both sides of each test of `validate_ipc_header` and of the length
check. Time passes only while a call with a deadline is blocked; a call without
one waits as long as the peer likes.

`Channel` is what the callers may rely on: stages and the exit codes possible at
each. `Conn` implements it (`ImplementsChannel`), which is checked and proved.

A peer may also vanish, and the kernel give it up when nothing is acknowledged
(`PeerLost`, with `lost` as its trace). That error, `ETIMEDOUT`, is a `TimedOut`
like the socket's own, and `is_timeout` does not tell them apart: in a round trip
it is exit 5, before `--timeout` has run out or without one. While connecting it
is a refusal like any other, because `conn.rs:117` maps all of them itself; when
it comes is left open, as `ConnectRefused` may be taken at any time.

Not modelled: TLS records (the handshake is one transfer), the parsing of
`<conn>` (it is accepted or is a usage error), and clock values other than whole
units.

### Session and ScriptPromise: clients, scripts and the server

`Session` has several q-cli processes and one q server. A client goes through
`prepare`, `connect`, `inspect` (`--readonly`), then `validate` (`--dry-run`) or
`execute`. `req` is its message at the server, `rep` what its `sync` has
received. A round trip of `Conn` is here two steps of the client, sending and
receiving, with the server's in between; an exit by timeout or disconnection may
happen at any time and may or may not leave the request at the server. The
server runs one message at a time and logs nobody in while it is busy; it may
die in the middle of a message. The server is not part of the repository: it is
modelled as far as `cmd.rs` uses it, and marked external.

A statement is what the properties can tell apart: it reads, writes, raises an
error, does not parse, is not even split, calls a server function, redefines it
as one that writes, or never returns. `log` records each statement as it begins.

What depends on the text of statements and values is a choice:

- a request may be longer than the wire format allows, which `Conn::sync` refuses
  with exit 2 before sending any of it (`Oversize`): in a script run line by line
  after the statements before it were executed;
- the answer to a statement that succeeded may nest too deep or not be decodable
  (`Answers`), which is exit 4 as a q error is, and so may the parse tree that
  answers `--dry-run`;
- the probe may clear a function that mutates (its budget of 100 is spent, its
  answer is of another type, its filter does not know the operation), block one
  that does not, or fail with a q error (`ServeProbe`); how it walks is
  `RemoteInspect`. `missed` remembers what it cleared wrongly. Likewise
  `check_readonly` may refuse what is harmless (`UnknownServer`) and does not see
  a `covert` statement;
- a client may exit with 1 when its result cannot be printed (`Finish`), and with
  5 where the kernel gave its peer up (`Disconnected`).

`ScriptPromise` states what a caller is promised about the statements of a
script without saying anything of connections: `Session` implements it with
`begun` read off the log (`KeepsScriptPromise`).

### RemoteInspect: the walk over called functions

The probe of `inspect_remote_funcs`, a loop that the server runs, for any call
graph, any set of denied functions, and any order of the source's names. Two
things about a body are chosen at the start: whether it is denied (`dirty`) and
the names it mentions (`mentions`). The second is what the probe makes of the
body: a lambda's globals as they stand, and the words of its displayed text after
they were lower-cased and split at dots. A callee with capitals or a namespace
that is seen only in the text is therefore not among them, and the properties say
nothing of it; nor of a mutation that the deny list does not know. Modelled are
which of the mentioned names are followed and queued, the budget, and what the
client makes of the reply. That the filter may be wrong is part of `Session`.

### Trace: handlers that others change too

`trace on` and `trace off` are each one message, which the server runs to its
end; the model's steps are the branches of that message. Around them other tools
install a handler, swap one for a time and put back the one they found (which
may be a trapped one), claim the name `.qcli.traceState`, delete the state by
hand as the refusal suggests, and restart the process; and clients give up on
messages the server will still run. A handler is what it ends up calling and the
number of error traps around it.

A manual reset is allowed to leave a trap behind, and the properties say how
many (`TrapsOnce`). An interrupt in the middle of a trace message is not
modelled.

### ConfigFile: the profile files

Files of `name = value` lines: one global, one that `$Q_CLI_CONFIG` names, and a
project file in any directory. A process that has the variable set reads and
writes that file alone; any other reads the global file and then the nearest
project file up from its directory (`Overlay`, with `Walk` for the way up), but
`--project` writes the file of the directory itself. A new project file may thus
come to shadow the whole of another.

A writer reads (`StartAdd`), opens, which truncates (`OpenForWriting`), and
writes (`Write`); it may fail or be killed before either. A lookup reads the
global file (`StartLookup`) and then the project file (`FinishLookup`). `Parse`
and `Edit` are the two readings of a line that `parse` and `add` each have of
their own: the last line with a value counts, the last line for the name is
replaced. A line written by hand may have no value. Comments, blank lines, file
permissions and alias targets are left out, and with them a target that begins
with `#`. A file being written in several system calls is one step; what was
there of another writer beyond the length written remains.

Overlapping writers, failing ones and lookups that a writer crosses are in the
model, and lose profiles: `disturbed` and `quiet` mark them, and the two
properties speak of the rest. So they do not show that nothing is lost, and the
two hazards of that kind have no property in `PROJECT.json`.

### Decompress and Lz: compressed payloads

kdb+ compresses long answers. A run in the payload names its source not by a
position but by a hash of two bytes: both sides keep a table from hashes to the
last position hashed, and the decoder rebuilds it from its own output.
`Decompress` is `decompress` loop by loop, with the table, the cursor `hashPos`
that lags behind the output, and the copy that may read what it has just
written. The payload is chosen as it is read. `Lz` says what a payload means
without a table: the source of a run is the last start of a token where two
bytes with that hash stand. `Decompress` implements it (`ImplementsFormat`)
with what the complete tokens have written as `out`. That is the comment at
`k.rs:849`, that only the first two bytes of a run are hashed: hash one more and
the tables part.

### Splitter and Scanners: q text

`Splitter` is `split_q_script` a character at a time: strings, escapes, inline
and block comments, end marks, delimiters, indentation. Texts are made of lines
and characters of classes. Of a statement it keeps the line it began on and what
its own characters leave open, counted apart from the stack that the code
decides by, so that `WellSplit` compares two accounts. `Scanners` runs
`strip_q_code`, the second copy of the scanner, beside it on the same text:
`prepare_run` sends what the first makes of the text and `inspect_remote_funcs`
looks for names in what the second makes of it. `ScannersAgree` says that they
take the same characters for code as long as the first does not refuse the text;
after a refusal nothing is sent. The text of statements, Unicode and carriage
returns are left out.

### Update: replacing the executable

One or several `q-cli update` follow `update::run` from the fetch to the
cleanup, while releases are published and processes are killed at any point. The
executable is a version, whether it is whole and whether it is there. Assets are
reduced to their kind, whether the name is for this system and whether there is
a binary in them.

`self_replace` is a crate, and external. On Unix it copies the new file next to
the executable, gives it the old one's permissions and renames it over the old
one: one step, so that neither the `chmod` at `update.rs:313` nor its ignored
failure decides whether the new executable may be run. On Windows a running
executable cannot be replaced, only moved: it is moved away (`TakeAway`) and the
new one put in its place (`Place`), and a process that fails or is killed between
the two leaves none. `windows` is which of the two systems it is.

What is not a promise of the code is not
claimed: an update that started from an older version may undo a newer one, and
`NoSilentDowngrade` says that this, `--force` and an unparsable tag are the only
ways.

### Alias and Dispatch: from the command line to a server

`Dispatch` is `real_main` and `dispatch`: arguments are chosen as they are read,
sorted into options and positionals, and checked; the command is found; its text
is prepared; its `<conn>` is resolved; and a server is spoken to, which is one
step here (`Contact`) and the subject of `Session`. The order of these depends
on the command and on where its text comes from, which is what
`UsageErrorsComeFirst` is about. An argument is a text that the code tells
apart: a command, an action, a literal address, a name with or without an `@`,
a dash, an unknown option, nothing. `Alias` has the steps of `resolve_conn` and
`resolve_alias`, for any function from names to values; `trail` remembers the
values found, so that `AliasVerdict` can compare the answer with the chain that
the files really hold.

Options that say how to print or how long to wait are left out unless they end
the program, as are the texts of help and errors and the environment but for
`Q_CLI_READONLY`. What `prepare_eval` and `prepare_run` refuse is a choice, except
where the arguments alone decide it (`CannotPrepare`).

### Reader: what an answer says

`Reader::read` calls itself for the parts of a compound object. The calls under
way are `frames`; `pos` and `depth` are the code's own cursor and depth. A
payload is read strictly forwards, so each byte is chosen when it is read: every
type, every length, in every nesting. Beside the cursor each frame counts the
bytes that the format gives to what was read (`took`), with the width of an atom
for each element, so that `CursorIsTrue` compares the three places where the code
has a type's width. Of a value the shape is kept that decides what is made of it
or whether it is refused: a table needs symbols and as many columns.

## Runs

| Run | Properties | Instance | States |
|---|---|---|---|
| `conn` | `SlowQueryGetsItsTimeout`, `EstablishmentFailsFast`, `ImplementsChannel`, `TimeoutEndsEverything`, `LoginEnds` | timeouts 0, 1, 4 around caps 2 and 3; 2 addresses, 1 extra piece, 2 round trips | 33 636 |
| `session` | `RunsAPrefix`, `ReportedLineIsTheBoundary`, `RefusalLeavesNoTrace`, `DryRunOnlyParses`, `BlockIsContiguous`, `ReadonlyMutatesUnseen`, `KeepsScriptPromise` | 2 clients, 9 scripts of up to 3 statements, every mode and flag | 3 083 868 |
| `session_live` | `TimedClientsExit`, `OnlyHangsBlock` | 2 clients, 3 scripts, with and without a timeout | 362 112 |
| `remote_inspect` | `CleanUnlessOutOfBudget`, `BlockedIsJustified`, `BudgetSuffices` | every call graph over 3 names, budget 2 | 701 952 |
| `trace` | `PolicyIsKept`, `OffRestores`, `TrapsOnce`, `AnswersAreTrue` | 2 clients, 1 foreign handler, 1 manual reset | 940 644 |
| `config_file` | `LoneWritersLoseNothing`, `QuietLookupFindsProfile` | 3 processes, 2 directories, 2 names, 2 values, at most one file at the start, of up to 3 lines, with and without a value | 1 019 358 |
| `decompress` | `ReadsOnlyWritten`, `ImplementsFormat`, `Ends` | 2 byte values, outputs of up to 10 bytes, payloads of up to 16, runs of 2 to 4 | about 210 000 |
| `scanners` | `WellSplit`, `ScannersAgree` | texts of up to 6 of 25 lines | about 629 000 |
| `update` | `InstalledWorks`, `VerdictIsTrue`, `NoSilentDowngrade` | 2 processes, 3 versions, 5 releases, Unix and Windows | 1 824 850 |
| `reader` | `CursorIsTrue`, `AnnouncedIsThere`, `DepthIsNesting`, `Ends` | payloads of 0, 1, 8 and 19 bytes, lengths -1, 0, 1, 2, 17, depth 4 instead of 128 | about 1.15 million |
| `dispatch` | `AliasVerdict`, `FlagsHold`, `EitherOrder`, `UsageErrorsComeFirst` | up to 4 arguments, 5 flags, every profile file over 3 names and 4 values, 1 redirect instead of 16 | about 1.48 million |

Each property is one a change of the code could break: "mutants" in
`PROJECT.json` names, for each, a plausible slip in a definition (a dropped
guard, a wrong side of a merge, a timeout not reset) under which the same run
fails. The slips are the operators marked "Mutant" in the modules.

One run shows where the documentation says more than the code does; it checks
that sentence, and TLC's counterexample is what the program does.

| Run | The sentence | What happens |
|---|---|---|
| `conn_round_trip` | `README.md:100` exit 5 is a round trip longer than `--timeout` | each system call is bounded, not the round trip |

Other places where a sentence is read too generously, which the passing
properties state as the code has them: the cap on connect is one per address
(`EstablishmentFailsFast`, against `commands.md:89`); a round trip that cannot
be sent ends at the write cap of 10 s however large `--timeout` is
(`SlowQueryGetsItsTimeout`, against the message at `error.rs:95`), and one whose
peer the kernel gives up is exit 5 without any `--timeout` (the same, with
`lost`, against `README.md:100` and "`0` = wait forever" at `README.md:82`);
exit 3 also ends a script whose connection is lost half way
(`KeepsScriptPromise`, against `README.md:98`); exit 2 may come after statements
of a script were executed, when a later one is too long (`RefusalLeavesNoTrace`,
against `README.md:97`); exit 4 may follow a statement that succeeded, when its
answer cannot be decoded (`ReportedLineIsTheBoundary`, against `README.md:99`);
`--readonly` lets through what its filters do not see (`ReadonlyMutatesUnseen`;
`commands.md:96` says as much); project overrides global only in a lookup that
meets no file being rewritten (`QuietLookupFindsProfile`, against
`config.rs:3`); and of two adds that overlap one is undone
(`LoneWritersLoseNothing`, against `config.rs:340`). Two more are plain from a
single place of the code and have no property: `--atomic`, "a single protected
IPC transaction" at `README.md:85`, is one message with an error trap
(`cmd.rs:1001`), and a script that fails in it keeps the effects it had; and
`config add` accepts a target that begins with `#`, which the next lookup takes
for a comment, because the check at `config.rs:359` looks for a blank before the
`#`.

### Bounds, and why they are enough

- Two clients show every race `Session` has: properties relate one client to
  the rest, and the rest acts through the server's log, its flag `dirty` and
  its one thread. Scripts of three statements have a first, a failing and a
  following one. A script `define` of one client and `call, call` of the other
  is the redefinition race, before and between two calls, and one client's
  `covert, call` is the redefinition of what it has had inspected itself.
- The values of `--timeout` are below the smaller cap, above both, and none.
  Two addresses and two round trips have a first and a next one; one extra piece
  is enough to make a transfer longer than a system call. The proofs have no
  such bounds.
- Three names give the call graphs a chain, a cycle, a diamond short of its
  tip, and self-calls; the budget of 2 is one less than the largest walk.
- `MaxResets` bounds a counter that would be unbounded. With one foreign
  handler and the default there are two policies to confuse, which is what a
  wrong one needs.
- Three processes are two writers and a reader, or three of either; a process runs
  one command, as q-cli does. Two directories, one in the other, have a nearest
  project file, one that comes to shadow another, and none. At most one file is
  there at the start; the others are written by the run.
- With two byte values every hash has several pairs of bytes, so runs resolve to
  old places, overlap themselves and refer to what a run wrote; ten bytes are
  enough for a second control byte. Sizes and lengths stand on both sides of
  each check at the head of `decompress`.
- The 25 lines have every way to begin a line and every character class after a
  blank and after something solid; six lines are a string or a block inside a
  delimiter, closed, and followed by another statement. The proofs have neither
  bound.
- Two updating processes, three versions and five releases have an asset of every
  kind before and after the one that fits, no asset that fits, an unparsable
  tag, and a release published between the fetch of one and of the other.

- A payload of 19 bytes holds a table with a column, a list of lists and every
  vector but one with a GUID in it, which takes 22: of that type the header's
  check is reached, with no element. Lengths are negative, zero, right and too
  large; four levels are what such a table needs. `MaxSymbol` bounds the bytes
  of a symbol.
- Four arguments are one more than any command takes. Three names are one more
  than one redirect can visit, so chains are as long as allowed, one longer,
  broken and circular. One of the names is also an action of `web` and `trace`.
  `MaxArgs`, `Options` and `Maps` bound what the user gives; the proofs have none
  of these bounds.

Deadlock is not checked: each program ends, and connections and clients stop
for good; a command that is done does nothing more.

### Fairness

- `Conn`: the kernel's clock and timers run (`Tick`, `Expire`,
  `ConnectExpire`) and the client goes on between its system calls
  (`Proceed`). Nothing is assumed of the peer, so liveness holds against one
  that stalls.
- `Session`: a client's steps, its timers included, are taken; the server
  answers what it is asked unless it hangs or dies (weak fairness of each
  client's service, which is q's main loop going round its sockets); and a
  connection to a dead server breaks, which TCP resets see to. That a client
  does not connect for ever is taken from `Conn` (`LoginEnds`), not shown again. A
  client without
  a timeout whose server hangs waits for ever, which `OnlyHangsBlock` allows and
  says is the only way.
- `Decompress` and `Reader`: a sequential program takes its next step (weak
  fairness of its next-state relation). Nothing else is needed: the theorems
  `DecodingGetsShorter` and `ReadingGetsShorter` say that every step leaves fewer.
- The other modules have no liveness properties: their steps are single
  messages or system calls that nothing waits for.

## Proofs

`tlapm` checks every theorem and lemma from nothing. They hold for every value
of the constants that satisfies the named assumptions (`TimeAssumption`,
`SizeAssumption` and so on), which only say that counts are natural numbers, that
caps are not zero, and that sets of names do not contain the special values.
Every safety invariant and action property of the runs, and every refinement, is
a theorem; two of the proof modules have a component each in their two parts,
which share nothing.

- `ConfigConnProofs`, first part. `ConnTypeCorrect`, `QueriesGetTheirTimeout`,
  `EstablishmentIsBounded`, `ConnImplementsChannel`. The inductive invariant
  ties the socket options to the phase (`SocketOptions`), the wait of the
  present call to its deadline (`CallInTime`, `CallUntimed`), and the time taken
  so far to the calls made so far (`EstablishBudget`): the bound of
  establishment is a sum over calls, and is not inductive without the wait of
  the present call in it. `ImplementsChannel` is proved action by action, each
  step of `Conn` a step of `Channel` or none.
- `ConfigConnProofs`, second part. `ConfigTypes`, `LoneWritersAreSafe`,
  `QuietLookupIsRight` (an action property), for any number of processes, names,
  values and lines. What a writer will leave is decided when it reads, so the
  invariant says of a writer that has the file for itself that the lines it
  carries mean what was asked for with its own profile in it, and that the file
  is empty once it has opened it (`LoneWriter`, `Kept`); and of a lookup under
  way that no file is being rewritten and that what it has read of its global
  file still stands (`LookupUndisturbed`). The lemma that makes it work is
  `EditParses`: parsing an edited file gives the old profiles with the new one in
  its place. `add` replaces the last line with the name and `parse` takes the
  last with the name and a value, so the proof has to know that a finite set of
  line numbers has a last one. That is an induction, and comes from the
  library's theorem that the order of the naturals is well founded
  (`LeastNatural`, `LastIsThere`).
- `ReaderInspectProofs`, first part. `InspectTypeCorrect`, `EachNameOnce`,
  `CleanIsComplete`, `BlockedIsSound`, `BudgetIsEnough`, for every finite set of
  names, call graph and budget. The invariant says that visited and queued names
  are disjoint and distinct, that all are reachable, and that what a visited name
  calls is visited or queued: with an empty queue the visited names are then
  closed, and what is reachable is among them.
- `ReaderInspectProofs`, second part. `ReaderIsTyped`, `CursorStaysTrue`,
  `AnnouncementsAreTrue`, `OnlyNestingIsTooDeep`, for payloads of any length and
  whatever they announce, and for any limit, so for the 128 of the code. To what
  the run checks the invariant adds that a frame holds the parts it has got and
  needs as many as its kind says, that only the first is the answer itself
  (`FramesKept`), and that `depth` counts the open objects (`DepthCounts`).
  `WidthsAgree` is where the three tables of widths in the code meet.
  `ReadingGetsShorter` bounds the work: three steps for a byte to come and one for
  an open object, and each step leaves fewer.
- `TraceProofs`. `TraceTypeCorrect`, `TraceKeepsPolicy`, `OffUndoesOn`,
  `RetriesTrapOnce`, `TraceIsHonest` (an action property), for any clients,
  handlers and number of manual resets. None of them is inductive alone: what
  off restores depends on what on remembered while the handlers were still its
  own, and on what a tool that has swapped one out will put back. `Inv` says
  what is known of each slot while q-cli owns the state and while nobody does.

- `SessionProofs`. `SessionTypeCorrect`, `PrefixesRun`, `LineIsTheBoundary`,
  `RefusalsLeaveNoTrace`, `DryRunsParse`, `BlocksAreContiguous`,
  `MutationsAreUnseen`, `SessionKeepsPromise`, for any number of clients, any
  scripts and any mix of modes and flags. `IInv` says of each client separately
  where it stands (`Way`): what it has handed over before it executes
  (`Starting`), how far the server has got with its message (`Requested`), what
  its position means between messages and during one (`Executing`,
  `Validating`), and what remains true when it has gone and its message has not
  (`Bounded`, `Exited`). None of these is inductive alone, because the server
  may go on with a message whose client has already said what happened. One
  lemma per action shows it for the client that moves; `Spared` shows it for all
  others. Contiguity needs besides that the last entry of the log is the running
  client's own once its message has begun (`Piece`), and mutations that the
  server's flag `dirty`, if it is set, was set after the client looked or was
  overlooked when it did (`Guarded`). `SessionKeepsPromise` is the refinement of
  `ScriptPromise`: the number of statements a client has begun is the number of
  its entries in the log, which is its position as long as those are a prefix of
  its script, and every step is a step of the promise or none.
- `DispatchProofs`. `DispatchTypeCorrect`, `VerdictsAreRight`, `FlagsAlwaysHold`,
  `OrderIsFree`, `MistakesFirst`, for any arguments, profiles and limit, so for
  the 16 of the code. `Following` says how the names seen so far lead to one
  another or to the next one, which makes them a circle when the next one is
  among them; `Underway` what has been checked at each point, of arguments that
  no longer change. `ActionsAssumption` is that no action contains a colon or an
  `@`.

- `DecompressProofs`. `TypeCorrect`, `InBounds`, `DecoderImplementsFormat`,
  `DecodingGetsShorter`, for every payload, alphabet and hash. In bounds is not
  inductive by itself: it needs that the end of the hash loop, set before a run is
  copied, has been written by the time the loop starts (`HashEndWritten`). Nothing
  has to be known of the table's entries for that, because a run checks its own
  before it uses it. That what it writes is what `Lz` says needs everything: how
  far the cursor has got among the starts of tokens (`Cursor`, which is where it
  matters that a run is hashed for two bytes), that the table has for each hash
  the last of those that it has passed (`TableIsLast`), and that a run under way
  repeats what stands from the place that the format gives it, over again where
  it overlaps itself (`Copying`, with the lemma `SameRemainder`). Decoding is
  bounded as reading is: three steps for a byte of the payload, one for a byte to
  write and one for a byte to hash.
- `ScannersProofs`. `TypeCorrect`, `WellSplitScripts`, `Agreement`, for every set
  of lines and any number of them. Well split follows because what the present
  statement and line have opened, counted apart, is always what is on the stack
  (`BetweenLines`, `InLine`); agreement because inside a line the two scanners
  are in the same state (`InStep`), but for blank lines, which only one of them
  scans.
- `UpdateProofs`. `TypeCorrect`, `ExecutableWorks`, `HonestVerdict`, `Upgrades`,
  for any number of processes and any set of releases. The invariant says what a
  process knows at each point of its way (`Way`): that it has not replaced
  anything before `cleanup`, that what it is about to install is whole and newer
  or was asked for; and that at most one process has moved the executable away
  (`OneRemover`).

Type invariants are theorems and in no cfg.

Only model-checked: the liveness properties (`TimeoutEndsEverything`, `LoginEnds`,
`TimedClientsExit`, `OnlyHangsBlock`, and `Ends` of the decoder
and the reader), because fairness and `ENABLED` are out of the prover's reach;
for the last two the bound on the number of steps is proved, and what is left to
TLC is that a step is enabled until the end. And `conn_round_trip`, which is a
counterexample.

## Not modelled, and why

Rendering, the query texts and number and date formatting are functions from
values to text whose correctness is their layout; unit tests show it better.
`check_readonly` is a filter over q text of some 550 lines with no state to go
wrong; `Session` takes its verdict on the kinds of statement it distinguishes as
given, or wrong. That `web` assigns two handlers and keeps nothing is one
assignment, and so is not a module; what leads to it is in `Dispatch`. The q
server, the operating system, TLS and the GitHub service are external.

## Plan

Done: the connection (`Conn`, `Channel`), the session on top of it (`Session`,
`ScriptPromise`), the state on the server (`RemoteInspect`, `Trace`), the state
in files (`ConfigFile`), the decoder (`Decompress`, `Lz`), the reader (`Reader`),
the scanners (`Splitter`, `Scanners`), the command line (`Dispatch`, `Alias`) and
the update (`Update`), with proofs of all. What would add to it:

1. A probe in `Session` that takes the steps of `RemoteInspect` instead of
   choosing its verdict, and `Session` behind `Dispatch`'s `Contact`.
2. `check_readonly` beside `strip_q_code`, as `Scanners` has the splitter.
