-------------------------------- MODULE Update --------------------------------
(***************************************************************************)
(* q-cli update (src/update.rs): one or several invocations replace the    *)
(* executable they were started from by the binary of the latest release,  *)
(* while releases are published.  Every step outside the process, curl,    *)
(* the file system, self_replace, may fail, and a process may be killed    *)
(* between any two of them.                                                *)
(*                                                                         *)
(* External, as src/update.rs uses it: curl -f ends, within its            *)
(* --max-time, with the whole body or with an error.  self_replace copies  *)
(* the new file next to the executable, on Unix with the permissions of    *)
(* the old one, and renames the copy over it; on Windows, where a running  *)
(* executable can only be moved, it moves the old one away first, and puts *)
(* nothing back when a later step fails.                                   *)
(***************************************************************************)
EXTENDS Integers, Sequences

CONSTANTS
  Updaters,   \* processes
  Versions,   \* versions, ordered as SemVer orders them
  Releases    \* what may be published: [version, parses, assets], where
              \* `parses` says whether SemVer::parse takes its tag

\* An asset: its kind, by its extension; whether its name is for this system;
\* whether there is a q-cli binary in it.
Kinds  == {"zip", "tar", "binary", "checksum", "other"}
Assets == [kind : Kinds, fits : BOOLEAN, holds : BOOLEAN]

ASSUME ReleasesAssumption ==
  /\ Versions \subseteq Nat
  /\ Releases \subseteq
       [version : Versions, parses : BOOLEAN, assets : Seq(Assets)]

NoFile   == "none"
Files    == {NoFile, "empty", "partial", "whole"}
Verdicts == {"none", "checked", "current", "updated", "failed", "killed"}

VARIABLES
  latest,     \* the release that the API calls the latest
  installed,  \* the executable: its version, whether it is whole and there
  pc,
  flags,      \* check_only and force
  own,        \* CURRENT_VERSION: that of the executable when it was started
  release, asset,      \* what was fetched, and the asset that was found
  temp,       \* the temporary file
  verdict,    \* what the process said last
  replaced,   \* history: what this invocation has done to the executable
  windows     \* the system, which does not change

given  == <<latest, flags, own, windows>>
locals == <<flags, own, release, asset, temp, verdict, replaced>>
vars   == <<latest, installed, pc, locals, windows>>

NoAsset == [kind |-> "other", fits |-> FALSE, holds |-> FALSE]
-------------------------------------------------------------------------------
Init ==
  /\ latest \in Releases
  /\ installed \in [version : Versions, whole : {TRUE}, there : {TRUE}]
  /\ pc = [u \in Updaters |-> "idle"]
  /\ flags = [u \in Updaters |-> [check |-> FALSE, force |-> FALSE]]
  /\ own = [u \in Updaters |-> installed.version]
  /\ release = [u \in Updaters |-> latest]
  /\ asset = [u \in Updaters |-> NoAsset]
  /\ temp = [u \in Updaters |-> NoFile]
  /\ verdict = [u \in Updaters |-> "none"]
  /\ replaced = [u \in Updaters |-> "no"]
  /\ windows \in BOOLEAN

Publish(r) ==
  /\ latest' = r
  /\ UNCHANGED <<installed, pc, locals, windows>>

\* A process ends, and says so.
Exit(u, v) ==
  /\ pc' = [pc EXCEPT ![u] = "idle"]
  /\ verdict' = [verdict EXCEPT ![u] = v]

Start(u, f) ==
  /\ pc[u] = "idle" /\ installed.there
  /\ flags' = [flags EXCEPT ![u] = f]
  /\ own' = [own EXCEPT ![u] = installed.version]
  /\ pc' = [pc EXCEPT ![u] = "fetch"]
  /\ verdict' = [verdict EXCEPT ![u] = "none"]
  /\ replaced' = [replaced EXCEPT ![u] = "no"]
  /\ asset' = [asset EXCEPT ![u] = NoAsset]
  /\ temp' = [temp EXCEPT ![u] = NoFile]
  /\ UNCHANGED <<latest, installed, release, windows>>

\* fetch_latest_release
Fetch(u) ==
  /\ pc[u] = "fetch"
  /\ \/ /\ release' = [release EXCEPT ![u] = latest]
        /\ pc' = [pc EXCEPT ![u] = "decide"]
        /\ UNCHANGED verdict
     \/ /\ Exit(u, "failed")
        /\ UNCHANGED release
  /\ UNCHANGED <<given, installed, asset, temp, replaced>>

\* Mutant: any other version counts as newer.
IsNewerOther(u) == release[u].version # own[u]

\* A tag that does not parse is only compared for equality, and differs.
IsNewer(u) == release[u].parses => release[u].version > own[u]

\* find_matching_asset: the first that is for this system and is neither
\* metadata nor of an unknown kind.
Candidates(u) ==
  {k \in DOMAIN release[u].assets :
     /\ release[u].assets[k].kind \in {"zip", "tar", "binary"}
     /\ release[u].assets[k].fits}

First(u, k) == k \in Candidates(u) /\ \A j \in Candidates(u) : k <= j

\* Mutant: --check is forgotten.
NothingToDoLate(u) == ~IsNewer(u) /\ ~flags[u].force

NothingToDo(u) == flags[u].check \/ (~IsNewer(u) /\ ~flags[u].force)
NothingFits(u) == Candidates(u) = {}

Decide(u) ==
  /\ pc[u] = "decide"
  /\ IF NothingToDo(u)
       THEN /\ Exit(u, IF flags[u].check THEN "checked" ELSE "current")
            /\ UNCHANGED asset
       ELSE IF NothingFits(u)
       THEN Exit(u, "failed") /\ UNCHANGED asset
       ELSE /\ \E k \in DOMAIN release[u].assets :
                 /\ First(u, k)
                 /\ asset' = [asset EXCEPT ![u] = release[u].assets[k]]
            /\ pc' = [pc EXCEPT ![u] = "download"]
            /\ UNCHANGED verdict
  /\ UNCHANGED <<given, installed, release, temp, replaced>>

\* The asset is downloaded and a temporary file is made, which is kept: it is
\* removed by nothing but Cleanup.
Download(u) ==
  /\ pc[u] = "download"
  /\ \/ /\ temp' = [temp EXCEPT ![u] = "empty"]
        /\ pc' = [pc EXCEPT ![u] = "extract"]
        /\ UNCHANGED verdict
     \/ Exit(u, "failed") /\ UNCHANGED temp
  /\ UNCHANGED <<given, installed, release, asset, replaced>>

Holds(u) == asset[u].kind = "binary" \/ asset[u].holds

\* Mutant: an error in the middle of the copy goes unnoticed.
ExtractUnchecked(u) ==
  /\ pc[u] = "extract"
  /\ \/ /\ Holds(u)
        /\ \E f \in {"partial", "whole"} : temp' = [temp EXCEPT ![u] = f]
        /\ pc' = [pc EXCEPT ![u] = "chmod"]
        /\ UNCHANGED verdict
     \/ Exit(u, "failed") /\ UNCHANGED temp
  /\ UNCHANGED <<given, installed, release, asset, replaced>>

\* extract_zip, extract_tar_gz, or the asset as it is.  What goes wrong before
\* the binary is found leaves the file empty, and what goes wrong after leaves
\* a part of it.
Extract(u) ==
  /\ pc[u] = "extract"
  /\ \/ /\ Holds(u)
        /\ temp' = [temp EXCEPT ![u] = "whole"]
        /\ pc' = [pc EXCEPT ![u] = "chmod"]
        /\ UNCHANGED verdict
     \/ /\ Holds(u)
        /\ temp' = [temp EXCEPT ![u] = "partial"]
        /\ Exit(u, "failed")
     \/ Exit(u, "failed") /\ UNCHANGED temp
  /\ UNCHANGED <<given, installed, release, asset, replaced>>

\* On Unix the permissions of the file are read, which may fail, and set.  What
\* they are set to does not matter: self_replace replaces them.
Chmod(u) ==
  /\ pc[u] = "chmod"
  /\ \/ /\ pc' = [pc EXCEPT ![u] = "replace"]
        /\ UNCHANGED verdict
     \/ ~windows /\ Exit(u, "failed")
  /\ UNCHANGED <<given, installed, release, asset, temp, replaced>>

\* The new executable takes its place.
Put(u) ==
  /\ installed' = [version |-> release[u].version,
                   whole   |-> temp[u] = "whole",
                   there   |-> TRUE]
  /\ replaced' = [replaced EXCEPT ![u] = "yes"]
  /\ pc' = [pc EXCEPT ![u] = "cleanup"]
  /\ UNCHANGED verdict

\* On Windows the old executable is moved away, if it is there ...
TakeAway(u) ==
  /\ installed.there
  /\ installed' = [installed EXCEPT !.there = FALSE]
  /\ replaced' = [replaced EXCEPT ![u] = "removed"]
  /\ pc' = [pc EXCEPT ![u] = "place"]
  /\ UNCHANGED verdict

\* self_replace
Replace(u) ==
  /\ pc[u] = "replace"
  /\ \/ ~windows /\ Put(u)
     \/ windows /\ TakeAway(u)
     \/ Exit(u, "failed") /\ UNCHANGED <<installed, replaced>>
  /\ UNCHANGED <<given, release, asset, temp>>

\* ... and the new one put there, or not.
Place(u) ==
  /\ pc[u] = "place"
  /\ \/ Put(u)
     \/ Exit(u, "failed") /\ UNCHANGED <<installed, replaced>>
  /\ UNCHANGED <<given, release, asset, temp>>

\* Best effort.
Cleanup(u) ==
  /\ pc[u] = "cleanup"
  /\ \/ temp' = [temp EXCEPT ![u] = NoFile]
     \/ UNCHANGED temp
  /\ Exit(u, "updated")
  /\ UNCHANGED <<given, installed, release, asset, replaced>>

Kill(u) ==
  /\ pc[u] # "idle"
  /\ Exit(u, "killed")
  /\ UNCHANGED <<given, installed, release, asset, temp, replaced>>

Step(u) == \/ Fetch(u) \/ Decide(u) \/ Download(u) \/ Extract(u) \/ Chmod(u)
           \/ Replace(u) \/ Place(u) \/ Cleanup(u)

Next == \/ \E r \in Releases : Publish(r)
        \/ \E u \in Updaters, f \in [check : BOOLEAN, force : BOOLEAN] : Start(u, f)
        \/ \E u \in Updaters : Step(u) \/ Kill(u)

Spec == Init /\ [][Next]_vars
-------------------------------------------------------------------------------
\* Every variable has its type, and no process works on an asset it did not find.
TypeOK ==
  /\ latest \in Releases
  /\ installed \in [version : Versions, whole : BOOLEAN, there : BOOLEAN]
  /\ pc \in [Updaters -> {"idle", "fetch", "decide", "download", "extract",
                          "chmod", "replace", "place", "cleanup"}]
  /\ flags \in [Updaters -> [check : BOOLEAN, force : BOOLEAN]]
  /\ own \in [Updaters -> Versions]
  /\ release \in [Updaters -> Releases]
  /\ asset \in [Updaters -> Assets]
  /\ temp \in [Updaters -> Files]
  /\ verdict \in [Updaters -> Verdicts]
  /\ replaced \in [Updaters -> {"no", "removed", "yes"}]
  /\ windows \in BOOLEAN
  /\ \A u \in Updaters : pc[u] \notin {"idle", "fetch", "decide"} => asset[u].fits

\* Whatever fails or is killed, and however many update at once, the executable
\* is a whole one (update.rs:110).  It is missing only on Windows, and only from
\* when an invocation moved it away until that same one has put its own there:
\* if it never does, nobody does.
InstalledWorks ==
  /\ installed.whole
  /\ ~windows => installed.there
  /\ installed.there <=> \A u \in Updaters : replaced[u] # "removed"

\* An invocation that only checks or finds nothing to do has changed nothing,
\* one that reports success has replaced the executable, one that reports a
\* failure has not, and none that was asked to check ever touches it.
VerdictIsTrue ==
  \A u \in Updaters :
    /\ verdict[u] \in {"checked", "current"} \/ flags[u].check => replaced[u] = "no"
    /\ verdict[u] = "updated" => replaced[u] = "yes"
    /\ verdict[u] = "failed" => replaced[u] # "yes" /\ (~windows => replaced[u] = "no")

\* The executable is never replaced by the same or an older version, unless by
\* force, by a release whose tag does not parse, or by a process that was started
\* from another version: the check is made against what runs, not against what
\* is installed by then (update.rs:89).
NoSilentDowngrade ==
  [][\A u \in Updaters :
       replaced[u] # "yes" /\ replaced'[u] = "yes" /\ installed'.version <= installed.version
         => \/ flags[u].force \/ ~release[u].parses
            \/ own[u] # installed.version]_vars
===============================================================================
