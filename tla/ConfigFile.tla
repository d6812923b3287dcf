------------------------------ MODULE ConfigFile ------------------------------
(***************************************************************************)
(* The server profiles of q-cli (src/config.rs): files of `name = value`   *)
(* lines that `config init` and `config add` rewrite and every command     *)
(* with a named server reads.  There is one global file, one project file  *)
(* in any directory, and the one $Q_CLI_CONFIG names for a process that    *)
(* has it set: that process reads no other, and writes it as its global    *)
(* one.  A lookup overlays the nearest project file up from its directory; *)
(* `--project` writes the file of the directory itself.                    *)
(*                                                                         *)
(* Nothing locks the files.  A writer reads a file, opens it, which        *)
(* empties it, and writes the new content; other q-cli processes may do    *)
(* anything in between, and the writer may fail or be killed.  A reader    *)
(* reads the global file, then the project file.                           *)
(*                                                                         *)
(* Comments and blank lines are left out, and so are files nobody may      *)
(* read.  A line written by hand may have no value, or a comment in its    *)
(* place.  A target that begins with #, which add accepts and parse reads  *)
(* as such a comment, is left out: no host has such a name.                *)
(***************************************************************************)
EXTENDS Naturals, Sequences

CONSTANTS
  Procs,       \* q-cli processes, each of which runs one command
  Dirs,        \* directories, each of which stands for its project file too
  Walk,        \* the directories from each one up to the root
  Names,       \* profile names
  Values,      \* targets config add accepts
  Template,    \* the lines config init writes
  HandWritten  \* the lines a file may hold at the start

NoValue == "no value"

Line == [name : Names, value : Values \cup {NoValue}]

ASSUME ValuesAssumption == NoValue \notin Names \cup Values
ASSUME LinesAssumption == Template \in Seq(Line) /\ HandWritten \subseteq Seq(Line)

\* "env" is the file $Q_CLI_CONFIG names.
Files == {"env", "global"} \cup Dirs

ASSUME WalkAssumption ==
  Walk \in [Dirs -> Seq(Dirs)] /\ {"env", "global", "none"} \cap Dirs = {}
Profiles == [Names -> Values \cup {NoValue}]

VARIABLES
  exists, lines,      \* the files
  pc, job, body,      \* each process: where it is, its file (a lookup: its
                      \* directory, or "env"), name and value, and the
                      \* content it is about to write
  merged, found,      \* ... the global profiles it has read, and its answer
  intended,           \* history: the profiles the finished commands asked for
  disturbed,          \* history: writers of the file overlapped, or one failed
  quiet               \* history: no file was rewritten since the lookup began

files      == <<exists, lines>>
procs      == <<pc, job, body, merged, found>>
history    == <<intended, disturbed, quiet>>
configVars == <<files, procs, history>>
-----------------------------------------------------------------------------
\* The last number in a set of line numbers.
LastOf(S) == CHOOSE i \in S : \A j \in S : j <= i

Assigning(ls, n) == {i \in DOMAIN ls : ls[i].name = n}

\* Lines without a value are not entries, and of the others the last counts.
Parse(ls) ==
  [n \in Names |->
     LET entries == {i \in Assigning(ls, n) : ls[i].value # NoValue}
     IN IF entries = {} THEN NoValue ELSE ls[LastOf(entries)].value]

\* Mutant: the first of several lines for the name is replaced.
EditFirst(ls, n, v) ==
  IF Assigning(ls, n) = {}
    THEN Append(ls, [name |-> n, value |-> v])
    ELSE [ls EXCEPT ![CHOOSE i \in Assigning(ls, n) :
                        \A j \in Assigning(ls, n) : i <= j].value = v]

\* add replaces the last line for the name, or adds one.
Edit(ls, n, v) ==
  IF Assigning(ls, n) = {}
    THEN Append(ls, [name |-> n, value |-> v])
    ELSE [ls EXCEPT ![LastOf(Assigning(ls, n))].value = v]

\* load_merged: project overrides global.
Override(global, project) ==
  [n \in Names |-> IF project[n] # NoValue THEN project[n] ELSE global[n]]

Nothing == [n \in Names |-> NoValue]

Load(f) == IF exists[f] THEN Parse(lines[f]) ELSE Nothing

\* global_path: where a process at d has its global profiles.
GlobalPath(d) == IF d = "env" THEN "env" ELSE "global"

\* Mutant: the outermost project file.
OverlayOutermost(d) ==
  LET there == {i \in DOMAIN Walk[d] : exists[Walk[d][i]]}
  IN IF there = {} THEN Nothing ELSE Load(Walk[d][LastOf(there)])

FirstOf(S) == CHOOSE i \in S : \A j \in S : i <= j

\* project_path_read: the profiles of the nearest project file up from d.
Overlay(d) ==
  LET there == {i \in DOMAIN Walk[d] : exists[Walk[d][i]]}
  IN IF there = {} THEN Nothing ELSE Load(Walk[d][FirstOf(there)])

Writers(f) == {p \in Procs : pc[p] \in {"loaded", "opened"} /\ job[p].file = f}
MidWrite(f) == \E p \in Writers(f) : pc[p] = "opened"

NoJob == [file |-> "none", name |-> NoValue, value |-> NoValue]

ConfigInit ==
  /\ exists \in [Files -> BOOLEAN]
  /\ lines \in [Files -> HandWritten]
  /\ \A f \in Files : ~exists[f] => lines[f] = <<>>
  /\ pc = [p \in Procs |-> "idle"]
  /\ job = [p \in Procs |-> NoJob]
  /\ body = [p \in Procs |-> <<>>]
  /\ merged = [p \in Procs |-> Nothing]
  /\ found = [p \in Procs |-> NoValue]
  /\ intended = [f \in Files |-> Parse(lines[f])]
  /\ disturbed = [f \in Files |-> FALSE]
  /\ quiet = [p \in Procs |-> FALSE]

\* A writer has made up its mind what the file is to hold.
Compose(p, f, n, v, content) ==
  /\ pc[p] = "idle"
  /\ pc' = [pc EXCEPT ![p] = "loaded"]
  /\ job' = [job EXCEPT ![p] = [file |-> f, name |-> n, value |-> v]]
  /\ body' = [body EXCEPT ![p] = content]
  /\ disturbed' = [disturbed EXCEPT ![f] = disturbed[f] \/ Writers(f) # {}]
  /\ UNCHANGED <<files, merged, found, intended, quiet>>

\* add reads the file, if there is one.
StartAdd(p, f, n, v) == Compose(p, f, n, v, Edit(lines[f], n, v))

\* init leaves a file that exists alone.
StartInit(p, f) == ~exists[f] /\ Compose(p, f, NoValue, NoValue, Template)

\* fs::write opens the file, which creates it or empties it ...
OpenForWriting(p) ==
  /\ pc[p] = "loaded"
  /\ pc' = [pc EXCEPT ![p] = "opened"]
  /\ exists' = [exists EXCEPT ![job[p].file] = TRUE]
  /\ lines' = [lines EXCEPT ![job[p].file] = <<>>]
  /\ quiet' = [q \in Procs |-> FALSE]
  /\ UNCHANGED <<job, body, merged, found, intended, disturbed>>

\* What the command asked for, once it has succeeded: init adds to what is
\* there and replaces none of it.
Asked(p, profiles) ==
  IF job[p].name = NoValue THEN Override(Parse(Template), profiles)
  ELSE [profiles EXCEPT ![job[p].name] = job[p].value]

\* ... and writes from its start: over what another writer may have written
\* meanwhile, whose further lines stay.
Write(p) ==
  /\ pc[p] = "opened"
  /\ LET f == job[p].file
     IN /\ lines' = [lines EXCEPT ![f] =
             body[p] \o SubSeq(lines[f], Len(body[p]) + 1, Len(lines[f]))]
        /\ intended' = [intended EXCEPT ![f] = Asked(p, intended[f])]
  /\ pc' = [pc EXCEPT ![p] = "done"]
  /\ job' = [job EXCEPT ![p] = NoJob]
  /\ body' = [body EXCEPT ![p] = <<>>]
  /\ UNCHANGED <<exists, merged, found, disturbed, quiet>>

\* The file cannot be opened; it cannot be written; or the process is killed.
Fail(p) ==
  /\ pc[p] \in {"loaded", "opened"}
  /\ disturbed' = [disturbed EXCEPT ![job[p].file] =
                     disturbed[job[p].file] \/ pc[p] = "opened"]
  /\ pc' = [pc EXCEPT ![p] = "failed"]
  /\ job' = [job EXCEPT ![p] = NoJob]
  /\ body' = [body EXCEPT ![p] = <<>>]
  /\ UNCHANGED <<files, merged, found, intended, quiet>>

\* load_merged reads the global file ...
StartLookup(p, n, d) ==
  /\ pc[p] = "idle"
  /\ pc' = [pc EXCEPT ![p] = "merging"]
  /\ job' = [job EXCEPT ![p] = [file |-> d, name |-> n, value |-> NoValue]]
  /\ merged' = [merged EXCEPT ![p] = Load(GlobalPath(d))]
  /\ quiet' = [quiet EXCEPT ![p] = \A f \in Files : ~MidWrite(f)]
  /\ UNCHANGED <<files, body, found, intended, disturbed>>

\* ... and overlays the project file, if there is one; $Q_CLI_CONFIG is used
\* alone.
FinishLookup(p) ==
  /\ pc[p] = "merging"
  /\ LET d == job[p].file
         all == IF d = "env" THEN merged[p] ELSE Override(merged[p], Overlay(d))
     IN found' = [found EXCEPT ![p] = all[job[p].name]]
  /\ pc' = [pc EXCEPT ![p] = "done"]
  /\ job' = [job EXCEPT ![p] = NoJob]
  /\ merged' = [merged EXCEPT ![p] = Nothing]
  /\ UNCHANGED <<files, body, history>>

ConfigNext == \E p \in Procs :
  \/ \E f \in Files : \/ \E n \in Names, v \in Values : StartAdd(p, f, n, v)
                      \/ StartInit(p, f)
  \/ OpenForWriting(p) \/ Write(p) \/ Fail(p)
  \/ \E n \in Names, d \in Dirs \cup {"env"} : StartLookup(p, n, d)
  \/ FinishLookup(p)

ConfigSpec == ConfigInit /\ [][ConfigNext]_configVars
-----------------------------------------------------------------------------
\* Every variable has its type, and only a file that exists has lines.
ConfigTypeOK ==
  /\ exists \in [Files -> BOOLEAN]
  /\ lines \in [Files -> Seq(Line)]
  /\ \A f \in Files : ~exists[f] => lines[f] = <<>>
  /\ pc \in [Procs -> {"idle", "loaded", "opened", "merging", "done", "failed"}]
  /\ job \in [Procs -> [file : Files \cup {"none"}, name : Names \cup {NoValue},
                        value : Values \cup {NoValue}]]
  /\ body \in [Procs -> Seq(Line)]
  /\ merged \in [Procs -> Profiles] /\ found \in [Procs -> Values \cup {NoValue}]
  /\ intended \in [Files -> Profiles]
  /\ disturbed \in [Files -> BOOLEAN]
  /\ quiet \in [Procs -> BOOLEAN]

\* Writers that neither overlap nor fail keep every profile: the file says
\* what the commands that succeeded asked for, also when it held several
\* lines for a name (config.rs:340), and init never takes anything away.
LoneWritersLoseNothing ==
  \A f \in Files : ~disturbed[f] /\ ~MidWrite(f) => Parse(lines[f]) = intended[f]

\* What the commands that succeeded asked n to be for a process at d: the
\* nearest directory with a project file comes first, and no other counts.
Wanted(d, n) ==
  LET nearest == {i \in DOMAIN Walk[d] : /\ exists[Walk[d][i]]
                                         /\ \A j \in 1 .. i - 1 : ~exists[Walk[d][j]]}
      own == {i \in nearest : intended[Walk[d][i]][n] # NoValue}
  IN IF own = {} THEN intended["global"][n]
                 ELSE intended[Walk[d][CHOOSE i \in own : TRUE]][n]

\* A lookup during which no file is rewritten finds what the commands asked
\* for, in a file that has just come to shadow another too (config.rs:68);
\* with $Q_CLI_CONFIG it finds what that file was asked to hold (config.rs:124).
QuietLookupFindsProfile ==
  [][\A p \in Procs :
       pc[p] = "merging" /\ pc'[p] = "done" /\ quiet[p]
         /\ (\A f \in Files : ~disturbed[f])
       => found'[p] = IF job[p].file = "env" THEN intended["env"][job[p].name]
                      ELSE Wanted(job[p].file, job[p].name)]_configVars
===============================================================================
