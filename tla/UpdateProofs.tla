----------------------------- MODULE UpdateProofs -----------------------------
(***************************************************************************)
(* q-cli update, for any number of processes and whatever is published:    *)
(* the executable works, what a process says is true, and no process       *)
(* installs anything older than what it was started from unasked.          *)
(***************************************************************************)
EXTENDS Update, TLAPS

Working == {"download", "extract", "chmod", "replace", "place", "cleanup"}

\* What a process knows at each point of its way.
Way(u) ==
  /\ pc[u] # "idle" => verdict[u] = "none"
  /\ pc[u] \notin {"idle", "place", "cleanup"} => replaced[u] = "no"
  /\ pc[u] = "place" => windows /\ replaced[u] = "removed"
  /\ pc[u] = "cleanup" => replaced[u] = "yes"
  /\ pc[u] \in Working => ~flags[u].check
  /\ pc[u] \in Working \ {"cleanup"} => flags[u].force \/ IsNewer(u)
  /\ pc[u] \in {"chmod", "replace", "place"} => temp[u] = "whole"

\* Only one process at a time has taken the executable away.
OneRemover ==
  \A u, w \in Updaters : replaced[u] = "removed" /\ replaced[w] = "removed" => u = w

IInv == /\ TypeOK /\ InstalledWorks /\ VerdictIsTrue /\ OneRemover
        /\ \A u \in Updaters : Way(u)

LEMMA InitIInv == Init => IInv
<1> SUFFICES ASSUME Init PROVE IInv
  OBVIOUS
<1> USE DEF Init
<1>1. NoAsset \in Assets
  BY DEF NoAsset, Assets, Kinds
<1>2. TypeOK
  <2>1. installed \in [version : Versions, whole : BOOLEAN, there : BOOLEAN]
    OBVIOUS
  <2>2. flags \in [Updaters -> [check : BOOLEAN, force : BOOLEAN]]
    OBVIOUS
  <2>3. own \in [Updaters -> Versions] /\ release \in [Updaters -> Releases]
    OBVIOUS
  <2>4. asset \in [Updaters -> Assets]
    BY <1>1
  <2>5. /\ temp \in [Updaters -> Files]
        /\ verdict \in [Updaters -> Verdicts]
    BY DEF Files, Verdicts, NoFile
  <2>6. replaced \in [Updaters -> {"no", "removed", "yes"}] /\ windows \in BOOLEAN
    OBVIOUS
  <2>7. pc \in [Updaters -> {"idle", "fetch", "decide", "download", "extract",
                             "chmod", "replace", "place", "cleanup"}]
    OBVIOUS
  <2>8. \A u \in Updaters : pc[u] = "idle"
    OBVIOUS
  <2> QED
    BY <2>1, <2>2, <2>3, <2>4, <2>5, <2>6, <2>7, <2>8 DEF TypeOK
<1>3. InstalledWorks
  BY DEF InstalledWorks
<1>4. \A u \in Updaters : /\ pc[u] = "idle" /\ verdict[u] = "none"
                         /\ replaced[u] = "no" /\ ~flags[u].check
  OBVIOUS
<1>5. VerdictIsTrue /\ OneRemover /\ \A u \in Updaters : Way(u)
  BY <1>4 DEF VerdictIsTrue, OneRemover, Way, Working
<1> QED
  BY <1>2, <1>3, <1>5 DEF IInv

\* The asset that is found is one of the release's and for this system.
LEMMA FirstFits ==
  ASSUME TypeOK, NEW u \in Updaters, NEW k \in DOMAIN release[u].assets, First(u, k)
  PROVE  release[u].assets[k] \in Assets /\ release[u].assets[k].fits
<1>1. release[u].assets \in Seq(Assets)
  BY ReleasesAssumption DEF TypeOK
<1>2. release[u].assets[k].fits
  BY DEF First, Candidates
<1> QED
  BY <1>1, <1>2

\* What the executable's history says of one process: a conjunct of VerdictIsTrue.
Says(u) ==
  /\ verdict[u] \in {"checked", "current"} \/ flags[u].check => replaced[u] = "no"
  /\ verdict[u] = "updated" => replaced[u] = "yes"
  /\ verdict[u] = "failed" => replaced[u] # "yes" /\ (~windows => replaced[u] = "no")

LEMMA StartKeeps ==
  ASSUME IInv, NEW u \in Updaters, NEW f \in [check : BOOLEAN, force : BOOLEAN], Start(u, f)
  PROVE  IInv'
<1> USE DEF Start, NoAsset, Assets, Kinds, given, Files, NoFile, Verdicts, Working
<1>1. TypeOK'
  BY DEF IInv, TypeOK, Way
<1>2. InstalledWorks' /\ OneRemover'
  BY DEF IInv, InstalledWorks, OneRemover, Way, TypeOK
<1>3. \A w \in Updaters \ {u} : (Says(w) /\ Way(w))'
  BY DEF IInv, TypeOK, Says, Way, VerdictIsTrue, IsNewer
<1>4. (Says(u) /\ Way(u))'
  BY DEF IInv, TypeOK, Says, Way, VerdictIsTrue, IsNewer
<1> QED
  BY <1>1, <1>2, <1>3, <1>4 DEF IInv, Says, VerdictIsTrue

LEMMA FetchKeeps ==
  ASSUME IInv, NEW u \in Updaters, Fetch(u)
  PROVE  IInv'
<1> USE DEF Fetch, Exit, given, Files, NoFile, Verdicts, Working
<1> TypeOK
  BY DEF IInv
<1>1. TypeOK'
  <2>0. /\ latest \in Releases /\ release \in [Updaters -> Releases]
        /\ verdict \in [Updaters -> Verdicts]
    BY DEF TypeOK
  <2>1. release' \in [Updaters -> Releases] /\ verdict' \in [Updaters -> Verdicts]
    BY <2>0
  <2>2. pc' \in [Updaters -> {"idle", "fetch", "decide", "download", "extract",
                              "chmod", "replace", "place", "cleanup"}]
    BY DEF TypeOK
  <2>3. \A w \in Updaters : pc'[w] \in {"idle", "fetch", "decide"} \/ pc'[w] = pc[w]
    BY DEF TypeOK
  <2> QED
    BY <2>1, <2>2, <2>3 DEF TypeOK
<1>2. InstalledWorks' /\ OneRemover'
  BY DEF IInv, InstalledWorks, OneRemover, Way, TypeOK
<1>3. \A w \in Updaters \ {u} : (Says(w) /\ Way(w))'
  BY DEF IInv, TypeOK, Says, Way, VerdictIsTrue, IsNewer
<1>4. (Says(u) /\ Way(u))'
  BY DEF IInv, TypeOK, Says, Way, VerdictIsTrue, IsNewer
<1> QED
  BY <1>1, <1>2, <1>3, <1>4 DEF IInv, Says, VerdictIsTrue

LEMMA DecideKeeps ==
  ASSUME IInv, NEW u \in Updaters, Decide(u)
  PROVE  IInv'
<1> USE DEF Decide, Exit, NothingToDo, given, Files, NoFile, Verdicts, Working
<1> TypeOK
  BY DEF IInv
<1>1. TypeOK'
  <2>1. CASE NothingToDo(u) \/ NothingFits(u)
    <3>1. /\ pc' = [pc EXCEPT ![u] = "idle"]
          /\ \E v \in Verdicts : verdict' = [verdict EXCEPT ![u] = v]
          /\ asset' = asset
      BY <2>1
    <3> QED
      BY <3>1 DEF TypeOK
  <2>2. CASE ~NothingToDo(u) /\ ~NothingFits(u)
    <3>1. PICK k \in DOMAIN release[u].assets :
             First(u, k) /\ asset' = [asset EXCEPT ![u] = release[u].assets[k]]
      BY <2>2
    <3>2. asset' \in [Updaters -> Assets] /\ asset'[u].fits
      BY <3>1, FirstFits DEF TypeOK
    <3>3. pc' = [pc EXCEPT ![u] = "download"] /\ verdict' = verdict
      BY <2>2
    <3>4. \A w \in Updaters \ {u} : pc'[w] = pc[w] /\ asset'[w] = asset[w]
      BY <3>1, <3>3 DEF TypeOK
    <3> QED
      BY <3>2, <3>3, <3>4 DEF TypeOK
  <2> QED
    BY <2>1, <2>2
<1>2. InstalledWorks' /\ OneRemover'
  BY DEF IInv, InstalledWorks, OneRemover, Way, TypeOK
<1>3. \A w \in Updaters \ {u} : (Says(w) /\ Way(w))'
  BY DEF IInv, TypeOK, Says, Way, VerdictIsTrue, IsNewer
<1>4. (Says(u) /\ Way(u))'
  BY DEF IInv, TypeOK, Says, Way, VerdictIsTrue, IsNewer
<1> QED
  BY <1>1, <1>2, <1>3, <1>4 DEF IInv, Says, VerdictIsTrue

LEMMA DownloadKeeps ==
  ASSUME IInv, NEW u \in Updaters, Download(u)
  PROVE  IInv'
<1> USE DEF Download, Exit, given, Files, NoFile, Verdicts, Working
<1>1. TypeOK'
  BY DEF IInv, TypeOK, Way
<1>2. InstalledWorks' /\ OneRemover'
  BY DEF IInv, InstalledWorks, OneRemover, Way, TypeOK
<1>3. \A w \in Updaters \ {u} : (Says(w) /\ Way(w))'
  BY DEF IInv, TypeOK, Says, Way, VerdictIsTrue, IsNewer
<1>4. (Says(u) /\ Way(u))'
  BY DEF IInv, TypeOK, Says, Way, VerdictIsTrue, IsNewer
<1> QED
  BY <1>1, <1>2, <1>3, <1>4 DEF IInv, Says, VerdictIsTrue

LEMMA ExtractKeeps ==
  ASSUME IInv, NEW u \in Updaters, Extract(u)
  PROVE  IInv'
<1> USE DEF Extract, Exit, given, Files, NoFile, Verdicts, Working
<1>1. TypeOK'
  BY DEF IInv, TypeOK, Way
<1>2. InstalledWorks' /\ OneRemover'
  BY DEF IInv, InstalledWorks, OneRemover, Way, TypeOK
<1>3. \A w \in Updaters \ {u} : (Says(w) /\ Way(w))'
  BY DEF IInv, TypeOK, Says, Way, VerdictIsTrue, IsNewer
<1>4. (Says(u) /\ Way(u))'
  BY DEF IInv, TypeOK, Says, Way, VerdictIsTrue, IsNewer
<1> QED
  BY <1>1, <1>2, <1>3, <1>4 DEF IInv, Says, VerdictIsTrue

LEMMA ChmodKeeps ==
  ASSUME IInv, NEW u \in Updaters, Chmod(u)
  PROVE  IInv'
<1> USE DEF Chmod, Exit, given, Files, NoFile, Verdicts, Working
<1>1. TypeOK'
  BY DEF IInv, TypeOK, Way
<1>2. InstalledWorks' /\ OneRemover'
  BY DEF IInv, InstalledWorks, OneRemover, Way, TypeOK
<1>3. \A w \in Updaters \ {u} : (Says(w) /\ Way(w))'
  BY DEF IInv, TypeOK, Says, Way, VerdictIsTrue, IsNewer
<1>4. (Says(u) /\ Way(u))'
  BY DEF IInv, TypeOK, Says, Way, VerdictIsTrue, IsNewer
<1> QED
  BY <1>1, <1>2, <1>3, <1>4 DEF IInv, Says, VerdictIsTrue

\* The new executable is a whole one, and the only process that can have taken
\* the old one away is the one that puts it there.
LEMMA PutKeeps ==
  ASSUME IInv, NEW u \in Updaters, Put(u),
         pc[u] = "place" \/ (pc[u] = "replace" /\ ~windows),
         UNCHANGED <<given, release, asset, temp>>
  PROVE  IInv'
<1> USE DEF Put, given, Files, NoFile, Verdicts, Working
<1> TypeOK
  BY DEF IInv
<1>0. PICK new \in [version : Versions, whole : BOOLEAN, there : BOOLEAN] :
        installed' = new /\ new.whole /\ new.there
  <2>1. release[u].version \in Versions
    BY ReleasesAssumption DEF TypeOK
  <2>2. temp[u] = "whole"
    BY DEF IInv, Way
  <2> DEFINE new == [version |-> release[u].version, whole |-> TRUE, there |-> TRUE]
  <2>3. installed' = new
    BY <2>2
  <2>4. new \in [version : Versions, whole : BOOLEAN, there : BOOLEAN]
        /\ new.whole /\ new.there
    BY <2>1
  <2> QED
    BY <2>3, <2>4
<1>1. TypeOK'
  <2>1. installed' \in [version : Versions, whole : BOOLEAN, there : BOOLEAN]
    BY <1>0
  <2>2. /\ replaced' \in [Updaters -> {"no", "removed", "yes"}] /\ verdict' = verdict
        /\ pc' \in [Updaters -> {"idle", "fetch", "decide", "download", "extract",
                                "chmod", "replace", "place", "cleanup"}]
    BY DEF TypeOK
  <2>3. \A w \in Updaters : pc'[w] = pc[w] \/ w = u
    BY DEF TypeOK
  <2> QED
    BY <2>1, <2>2, <2>3 DEF TypeOK
<1>2. /\ replaced'[u] = "yes" /\ pc'[u] = "cleanup"
      /\ \A w \in Updaters \ {u} : replaced'[w] = replaced[w] /\ pc'[w] = pc[w]
  BY DEF TypeOK
<1>3. \A w \in Updaters \ {u} : replaced[w] # "removed"
  <2>1. CASE pc[u] = "place"
    BY <2>1 DEF IInv, OneRemover, Way
  <2>2. CASE ~windows
    BY <2>2 DEF IInv, InstalledWorks
  <2> QED
    BY <2>1, <2>2
<1>4. InstalledWorks' /\ OneRemover'
  BY <1>0, <1>2, <1>3 DEF InstalledWorks, OneRemover
<1>5. \A w \in Updaters \ {u} : (Says(w) /\ Way(w))'
  BY <1>2 DEF IInv, Says, Way, VerdictIsTrue, IsNewer
<1>6. (Says(u) /\ Way(u))'
  BY <1>2 DEF IInv, Says, Way, IsNewer
<1> QED
  BY <1>1, <1>4, <1>5, <1>6 DEF IInv, Says, VerdictIsTrue

LEMMA TakeAwayKeeps ==
  ASSUME IInv, NEW u \in Updaters, TakeAway(u), pc[u] = "replace", windows,
         UNCHANGED <<given, release, asset, temp>>
  PROVE  IInv'
<1> USE DEF TakeAway, given, Files, NoFile, Verdicts, Working
<1>1. TypeOK'
  BY DEF IInv, TypeOK, Way
<1>2. InstalledWorks' /\ OneRemover'
  BY DEF IInv, InstalledWorks, OneRemover, Way, TypeOK
<1>3. \A w \in Updaters \ {u} : (Says(w) /\ Way(w))'
  BY DEF IInv, TypeOK, Says, Way, VerdictIsTrue, IsNewer
<1>4. (Says(u) /\ Way(u))'
  BY DEF IInv, TypeOK, Says, Way, VerdictIsTrue, IsNewer
<1> QED
  BY <1>1, <1>2, <1>3, <1>4 DEF IInv, Says, VerdictIsTrue

\* self_replace gives up: what is not there by then stays away.
LEMMA ReplaceFails ==
  ASSUME IInv, NEW u \in Updaters, pc[u] \in {"replace", "place"}, Exit(u, "failed"),
         UNCHANGED <<given, installed, release, asset, temp, replaced>>
  PROVE  IInv'
<1> USE DEF Exit, given, Files, NoFile, Verdicts, Working
<1>1. TypeOK'
  BY DEF IInv, TypeOK, Way
<1>2. InstalledWorks' /\ OneRemover'
  BY DEF IInv, InstalledWorks, OneRemover, Way, TypeOK
<1>3. \A w \in Updaters \ {u} : (Says(w) /\ Way(w))'
  BY DEF IInv, TypeOK, Says, Way, VerdictIsTrue, IsNewer
<1>4. (Says(u) /\ Way(u))'
  BY DEF IInv, TypeOK, Says, Way, VerdictIsTrue, IsNewer
<1> QED
  BY <1>1, <1>2, <1>3, <1>4 DEF IInv, Says, VerdictIsTrue

LEMMA ReplaceKeeps ==
  ASSUME IInv, NEW u \in Updaters, Replace(u) \/ Place(u)
  PROVE  IInv'
BY PutKeeps, TakeAwayKeeps, ReplaceFails DEF Replace, Place

LEMMA CleanupKeeps ==
  ASSUME IInv, NEW u \in Updaters, Cleanup(u)
  PROVE  IInv'
<1> USE DEF Cleanup, Exit, given, Files, NoFile, Verdicts, Working
<1>1. TypeOK'
  BY DEF IInv, TypeOK, Way
<1>2. InstalledWorks' /\ OneRemover'
  BY DEF IInv, InstalledWorks, OneRemover, Way, TypeOK
<1>3. \A w \in Updaters \ {u} : (Says(w) /\ Way(w))'
  BY DEF IInv, TypeOK, Says, Way, VerdictIsTrue, IsNewer
<1>4. (Says(u) /\ Way(u))'
  BY DEF IInv, TypeOK, Says, Way, VerdictIsTrue, IsNewer
<1> QED
  BY <1>1, <1>2, <1>3, <1>4 DEF IInv, Says, VerdictIsTrue

LEMMA KillKeeps ==
  ASSUME IInv, NEW u \in Updaters, Kill(u)
  PROVE  IInv'
<1> USE DEF Kill, Exit, given, Files, NoFile, Verdicts, Working
<1>1. TypeOK'
  BY DEF IInv, TypeOK, Way
<1>2. InstalledWorks' /\ OneRemover'
  BY DEF IInv, InstalledWorks, OneRemover, Way, TypeOK
<1>3. \A w \in Updaters \ {u} : (Says(w) /\ Way(w))'
  BY DEF IInv, TypeOK, Says, Way, VerdictIsTrue, IsNewer
<1>4. (Says(u) /\ Way(u))'
  BY DEF IInv, TypeOK, Says, Way, VerdictIsTrue, IsNewer
<1> QED
  BY <1>1, <1>2, <1>3, <1>4 DEF IInv, Says, VerdictIsTrue

LEMMA NextIInv == IInv /\ [Next]_vars => IInv'
<1> SUFFICES ASSUME IInv, [Next]_vars PROVE IInv'
  OBVIOUS
<1>1. ASSUME NEW r \in Releases, Publish(r) PROVE IInv'
  BY <1>1 DEF Publish, locals, IInv, TypeOK, InstalledWorks, VerdictIsTrue, OneRemover, Way,
              IsNewer
<1>2. CASE UNCHANGED vars
  BY <1>2 DEF vars, locals, IInv, TypeOK, InstalledWorks, VerdictIsTrue, OneRemover, Way, IsNewer
<1> QED
  BY <1>1, <1>2, StartKeeps, FetchKeeps, DecideKeeps, DownloadKeeps, ExtractKeeps,
     ChmodKeeps, ReplaceKeeps, CleanupKeeps, KillKeeps DEF Next, Step

LEMMA Invariance == Spec => []IInv
  BY InitIInv, NextIInv, PTL DEF Spec

\* Every variable has its type and the asset worked on is one that was found.
THEOREM TypeCorrect == Spec => []TypeOK
<1>1. IInv => TypeOK
  BY DEF IInv
<1> QED
  BY <1>1, Invariance, PTL

\* Whatever fails, the executable is whole, and it is missing only on Windows
\* while the process that moved it away has not put its own there: self_replace
\* is reached only by way of a complete extraction.
THEOREM ExecutableWorks == Spec => []InstalledWorks
<1>1. IInv => InstalledWorks
  BY DEF IInv
<1> QED
  BY <1>1, Invariance, PTL

\* What a process says when it ends agrees with whether it replaced the executable.
THEOREM HonestVerdict == Spec => []VerdictIsTrue
<1>1. IInv => VerdictIsTrue
  BY DEF IInv
<1> QED
  BY <1>1, Invariance, PTL

\* No process installs the same or an older version unasked, but for a release
\* whose tag does not parse and for a process that is itself out of date.
THEOREM Upgrades == Spec => NoSilentDowngrade
<1> DEFINE Asked(u) == \/ flags[u].force \/ ~release[u].parses
                       \/ own[u] # installed.version
<1>1. ASSUME IInv, Next, NEW u \in Updaters, replaced[u] # "yes", replaced'[u] = "yes",
             installed'.version <= installed.version
      PROVE  Asked(u)
  <2> TypeOK
    BY <1>1 DEF IInv
  <2>1. (Replace(u) \/ Place(u)) /\ Put(u)
    <3> SUFFICES ASSUME ~((Replace(u) \/ Place(u)) /\ Put(u)) PROVE FALSE
      OBVIOUS
    <3>1. ASSUME NEW w \in Updaters, NEW f \in [check : BOOLEAN, force : BOOLEAN],
                 Start(w, f)
          PROVE  FALSE
      BY <1>1, <3>1 DEF Start, TypeOK
    <3>2. ASSUME NEW w \in Updaters, Replace(w) \/ Place(w) PROVE FALSE
      BY <1>1, <3>2 DEF Replace, Place, Put, TakeAway, TypeOK
    <3>3. replaced' # replaced
      BY <1>1
    <3> QED
      BY <1>1, <3>1, <3>2, <3>3 DEF Next, Step, Publish, Fetch, Decide, Download,
         Extract, Chmod, Cleanup, Kill, locals
  <2>2. installed'.version = release[u].version
    BY <2>1 DEF Put
  <2>3. flags[u].force \/ IsNewer(u)
    BY <1>1, <2>1 DEF Replace, Place, IInv, Way, Working
  <2>4. /\ release[u].version \in Nat /\ installed.version \in Nat
        /\ own[u] \in Nat
    <3>1. release[u] \in Releases /\ own[u] \in Versions
      BY DEF TypeOK
    <3>2. installed.version \in Versions
      BY DEF TypeOK
    <3>3. release[u].version \in Versions
      BY <3>1, ReleasesAssumption
    <3> QED
      BY <3>1, <3>2, <3>3, ReleasesAssumption
  <2> QED
    BY <1>1, <2>2, <2>3, <2>4 DEF IsNewer
<1>2. IInv /\ [Next]_vars =>
        [\A u \in Updaters :
           replaced[u] # "yes" /\ replaced'[u] = "yes" /\ installed'.version <= installed.version
             => Asked(u)]_vars
  BY <1>1
<1> QED
  BY <1>2, Invariance, PTL DEF Spec, NoSilentDowngrade
===============================================================================
