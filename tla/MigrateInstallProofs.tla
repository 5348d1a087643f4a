------------------------ MODULE MigrateInstallProofs ------------------------
(***************************************************************************)
(* What a run of `identity` leaves behind, whole or failing, and what        *)
(* `start-clean` does, for every set of identities and timestamps and any    *)
(* number of faults.  The invariants follow a run step by step: what its     *)
(* staging dirs hold so far, where the dirs are that it replaced, and what   *)
(* it has already secured of the legacy home.                               *)
(***************************************************************************)
EXTENDS MigrateSafetyProofs

Whole(dir) == dir # Absent => \A f \in Files : dir[f] # Torn

\* Nothing is torn but the copies in staging dirs, and the sweep finds whatever .config dir
\* the service account can read.
HomeWhole(h) ==
    /\ \A n \in ConfNames : Whole(h.conf[n])
    /\ \A n \in PixNames : h.pix[n] # Torn
    /\ \A n \in h.exposed \cap ConfNames : h.conf[n] # Absent
NetWhole(d) == \A n \in Kept : Whole(d[n])
FilesWhole ==
    /\ HomeWhole(home)
    /\ \A h \in homeDisk : HomeWhole(h)
    /\ \A p \in Places : \A d \in Left(p) : NetWhole(d)

PlanWhole == Whole(run.plan) /\ run.plan["migrated-from"] = Absent

-----------------------------------------------------------------------------
\* What this run's staging dir of place p holds of the plan.
Staged(p) == nets[p][Staging(run.ts)]
Copied(f) == IF f \in Planned(run.plan, run.place) THEN run.plan[f] ELSE Absent

InPlace(p) == nets[p][Live] = Full(run.plan, p)

\* The steps at which the staging dir of a place is complete and waits to be published.
DataReady ==
    \/ run.pc = "pubdata"
    \/ run.pc \in {"mkdir", "copy", "verify", "seal"} /\ run.place = "cache"
CacheReady == run.pc \in {"pubdata", "pubcache"}

Installed == run.pc \in MovingLegacy /\ run.result = "Migrated"

InstallInv ==
    /\ run.pc \in {"copy", "verify"} => \A f \in Files \ run.todo : Staged(run.place)[f] = Copied(f)
    /\ run.pc \in {"copy", "verify"} => run.todo \subseteq Planned(run.plan, run.place)
    /\ run.pc = "marker" => run.place = "data" /\ \A f \in Files : Staged("data")[f] = Copied(f)
    /\ run.pc = "seal" => Staged(run.place) = Full(run.plan, run.place)
    /\ DataReady => Staged("data") = Full(run.plan, "data")
    /\ CacheReady => Staged("cache") = Full(run.plan, "cache") /\ run.place = "data"
    /\ (run.pc \in {"pubcache", "pubsync"} \/ Installed) => InPlace("data")
    /\ (run.pc = "pubsync" \/ Installed) => InPlace("cache")
    /\ run.pc = "pubsync" /\ run.place = "cache" => disk["data"] = {nets["data"]}
    /\ Installed => \A p \in Places : disk[p] = {nets[p]}

-----------------------------------------------------------------------------
\* The live dir of place p is as the run found it, or aside and nothing is in its place.
Untouched(p) == nets[p][Live] = run.before[p] /\ run.replaced[p] = Absent
SetAside(p) ==
    IF run.replaced[p] = Absent THEN run.before[p] = Absent
    ELSE nets[p][run.replaced[p]] = run.before[p] /\ run.before[p] # Absent
Cleared(p) == SetAside(p) /\ nets[p][Live] = Absent

\* An undo that has only to put back what was replaced.
Undoable == run.effort = "ok" /\ run.failedAt # "pubsync"

RestoreInv ==
    /\ run.pc = "networks" => run.place = "data" /\ \A p \in Places : Untouched(p)
    /\ run.pc = "aside" =>
          /\ IF run.place = "data" THEN Untouched("data") ELSE Cleared("data")
          /\ Untouched("cache")
    /\ run.pc \in {"mkdir", "copy", "verify", "marker", "seal", "pubdata"} =>
          \A p \in Places : Cleared(p)
    /\ run.pc \in {"pubcache", "undo"} =>
          SetAside("data") /\ Cleared("cache") /\ Staged("data") = Absent
    /\ run.pc = "remove" /\ Undoable => \A p \in Places : Cleared(p)
    /\ run.pc = "restore" /\ Undoable =>
          /\ IF run.place = "data" THEN Untouched("data") \/ Cleared("data")
             ELSE nets["data"][Live] = run.before["data"]
          /\ Untouched("cache") \/ Cleared("cache")

-----------------------------------------------------------------------------
LegacyInv ==
    /\ run.pc \in (MovingLegacy \cup {"reset"}) \ {"cfgaside"} => home.conf[Config] = Absent
    /\ run.pc \in {"redbaside", "sweep", "homesync"} => run.aside \notin home.exposed
    /\ run.pc = "homesync" /\ run.cmd = "identity" /\ run.effort = "ok" =>
          /\ home.exposed \cap ConfNames = {}
          /\ run.uid = "service" => home.exposed = {}
    /\ run.pc \in MovingLegacy => run.place = "data"
    /\ run.pc = "reset" /\ run.place = "cache" => nets["data"][Live] = Absent

\* Only `identity` installs, and only `identity` has an installation to undo.
CommandInv == run.pc \in Installing \cup Undoing => run.cmd = "identity"

StepInv == PlanWhole /\ InstallInv /\ RestoreInv /\ LegacyInv
MigrateInv == SafetyInv /\ FilesWhole /\ StepInv /\ CommandInv

-----------------------------------------------------------------------------
LEMMA EmptyWhole == Whole(Empty) /\ Empty["migrated-from"] = Absent
  BY AbsentAssumption DEF Whole, Empty, Files

LEMMA NamesApart ==
    /\ Live \in Kept /\ Live \in NetNames /\ Live \notin AsideNets
    /\ \A t \in Stamps : Staging(t) \notin Kept /\ Staging(t) # Live /\ Staging(t) \notin AsideNets
  BY KeptNames, NamesTyped DEF Kept, Live, AsideNets

\* The types of what a step is about.
LEMMA Typed ==
    ASSUME MigrateInv
    PROVE  /\ run \in Runs /\ run.place \in Places /\ run.plan \in Dirs
           /\ nets \in [Places -> NetDirs] /\ disk \in [Places -> SUBSET NetDirs]
           /\ home \in Homes /\ homeDisk \subseteq Homes /\ HomeWhole(home)
           /\ \A p \in Places : nets[p] \in NetDirs /\ nets[p] \in disk[p] /\ NetWhole(nets[p])
           /\ run.pc # "idle" => run.ts \in Stamps
<1>1. \A p \in Places : nets[p] \in disk[p] /\ nets[p] \in Left(p)
  BY DEF MigrateInv, SafetyInv, DiskInv, Left
<1>. QED
  BY <1>1 DEF MigrateInv, SafetyInv, TypeInv, TypeOK, RunShape, FilesWhole, Runs

\* A step at which at most more of a staging dir reaches the disk.
Quiet == UNCHANGED files \/ \E u : Synced(u)

LEMMA QuietKeeps == ASSUME Quiet PROVE nets' = nets /\ disk' = disk /\ home' = home
  BY DEF Quiet, Synced, files

LEMMA SameWhole == ASSUME MigrateInv, Quiet PROVE FilesWhole'
<1>1. /\ nets' = nets /\ disk' = disk /\ anchored' = anchored
      /\ home' = home /\ homeDisk' = homeDisk
  BY DEF Quiet, Synced, files
<1>2. \A p : Left(p)' = Left(p)
  BY <1>1 DEF Left
<1>. QED
  BY <1>1, <1>2 DEF MigrateInv, FilesWhole

LEMMA NothingWhole == NetWhole(Nothing)
  BY KeptNames DEF NetWhole, Nothing, Whole

LEMMA NetsWhole ==
    ASSUME MigrateInv, NEW p \in Places, NEW d, Entered(p, d, {d}), NetWhole(d)
    PROVE  FilesWhole'
<1>1. /\ homeDisk' = homeDisk /\ disk' = [disk EXCEPT ![p] = disk[p] \cup {d}]
      /\ home' = home /\ anchored' = anchored
  BY DEF Entered
<1>2. Left(p)' = Left(p) \cup {d} /\ \A q \in Places : q # p => Left(q)' = Left(q)
  BY <1>1, Typed DEF Left
<1>. QED
  BY <1>1, <1>2 DEF MigrateInv, FilesWhole

LEMMA HomeChangeWhole ==
    ASSUME MigrateInv, NEW h, NEW leaves, SetHome(h, leaves), HomeWhole(h),
           \A x \in leaves : HomeWhole(x)
    PROVE  FilesWhole'
<1>1. /\ home' = h /\ homeDisk' = homeDisk \cup leaves
      /\ disk' = disk /\ anchored' = anchored
  BY DEF SetHome, netFiles
<1>2. \A p : Left(p)' = Left(p)
  BY <1>1 DEF Left
<1>. QED
  BY <1>1, <1>2 DEF MigrateInv, FilesWhole

LEMMA Over ==
    ASSUME NEW r, NEW at, run' = Exited(r, at)
    PROVE  StepInv'
<1>1. run'.pc = "idle" /\ run'.plan = Empty
  BY DEF Exited
<1>2. PlanWhole'
  BY <1>1, EmptyWhole DEF PlanWhole
<1>3. InstallInv'
  BY <1>1 DEF InstallInv, DataReady, CacheReady, Installed, MovingLegacy
<1>4. RestoreInv'
  BY <1>1 DEF RestoreInv
<1>5. LegacyInv'
  BY <1>1 DEF LegacyInv, MovingLegacy
<1>. QED
  BY <1>2, <1>3, <1>4, <1>5 DEF StepInv

LEMMA EndWhole ==
    ASSUME MigrateInv, NEW r, NEW at, Ends(r, at)
    PROVE  FilesWhole' /\ StepInv'
  BY Over, SameWhole DEF Quiet, Ends

LEMMA PlanIsWhole ==
    ASSUME MigrateInv, FoundLegacy
    PROVE  Whole(Plan) /\ Plan["migrated-from"] = Absent
<1>1. Plan["migrated-from"] = Absent
  BY DEF Plan, Files
<1>2. ASSUME NEW f \in Files PROVE Plan[f] # Torn
  <2>1. HomeWhole(home)
    BY Typed
  <2>. QED
    BY <2>1, AbsentAssumption, NamesTyped DEF Plan, FoundLegacy, HomeWhole, Whole
<1>. QED
  BY <1>1, <1>2 DEF Whole

LEMMA StartWhole ==
    ASSUME MigrateInv, NEW cmd, cmd = "identity" => FoundLegacy,
           NEW pc \in {"networks", "cfgaside", "reset"}, NEW t, NEW r,
           pc = "cfgaside" => r # "Migrated",
           pc = "reset" => home.conf[Config] = Absent,
           run' = Started(cmd, pc, t, r), UNCHANGED files
    PROVE  FilesWhole' /\ StepInv'
<1>1. /\ run'.pc = pc /\ run'.place = "data" /\ run'.result = r
      /\ run'.plan = (IF cmd = "identity" THEN Plan ELSE Empty)
      /\ \A p \in Places : run'.before[p] = nets[p][Live] /\ run'.replaced[p] = Absent
      /\ nets' = nets /\ home' = home
  BY DEF Started, Exited, files
<1>2. PlanWhole'
  BY <1>1, EmptyWhole, PlanIsWhole DEF PlanWhole
<1>3. InstallInv'
  BY <1>1 DEF InstallInv, DataReady, CacheReady, Installed, MovingLegacy
<1>4. RestoreInv'
  BY <1>1 DEF RestoreInv, Untouched
<1>5. LegacyInv'
  BY <1>1 DEF LegacyInv, MovingLegacy
<1>. QED
  BY <1>2, <1>3, <1>4, <1>5, SameWhole DEF Quiet, StepInv

LEMMA BeginWhole ==
    ASSUME MigrateInv, BeginRun
    PROVE  FilesWhole' /\ StepInv'
<1>1. ASSUME NEW dry \in BOOLEAN, NEW t \in Stamps, IdentityAlready(dry, t)
      PROVE  FilesWhole' /\ StepInv'
  <2>1. UNCHANGED files /\ FoundLegacy
    BY <1>1 DEF IdentityAlready
  <2>2. Quiet
    BY <2>1 DEF Quiet
  <2>3. CASE run' = Exited("AlreadyMigrated", "none")
    BY <2>2, <2>3, Over, SameWhole
  <2>4. CASE run' = Started("identity", "cfgaside", t, "AlreadyMigrated")
    BY <2>1, <2>4, StartWhole
  <2>. QED
    BY <1>1, <2>3, <2>4 DEF IdentityAlready
<1>2. ASSUME NEW replace \in BOOLEAN, NEW t \in Stamps, IdentityInstall(replace, t)
      PROVE  FilesWhole' /\ StepInv'
  BY <1>2, StartWhole DEF IdentityInstall
<1>3. ASSUME NEW cmd \in Commands \ {"identity"}, NEW t \in Stamps, StartClean(cmd, t)
      PROVE  FilesWhole' /\ StepInv'
  <2>1. UNCHANGED files /\ cmd # "identity"
    BY <1>3 DEF StartClean
  <2>2. Quiet
    BY <2>1 DEF Quiet
  <2>3. CASE run' = Exited("NothingToDo", "none")
    BY <2>2, <2>3, Over, SameWhole
  <2>4. CASE run' = Started(cmd, "cfgaside", t, "NothingToDo")
    BY <2>1, <2>4, StartWhole
  <2>5. CASE run' = Started(cmd, "reset", t, "NothingToDo") /\ home.conf[Config] = Absent
    BY <2>1, <2>5, StartWhole
  <2>. QED
    BY <1>3, <2>3, <2>4, <2>5 DEF StartClean
<1>4. \A r, at : Ends(r, at) => FilesWhole' /\ StepInv'
  BY EndWhole
<1>. QED
  BY <1>1, <1>2, <1>3, <1>4
     DEF BeginRun, IdentityNothing, IdentityRefused, IdentityUnreadable, IdentityConflict,
         IdentityDryRun, StartCleanRefused, StartCleanUnreadable

-----------------------------------------------------------------------------
(* The steps of the installation.                                           *)

\* What a step knows of the dirs when it leaves the plan and the dirs' names as they are.
SameRun ==
    /\ run'.plan = run.plan /\ run'.ts = run.ts /\ run'.before = run.before
    /\ run'.effort = run.effort

LEMMA MoveOnPlan ==
    ASSUME MigrateInv, run'.plan = run.plan
    PROVE  PlanWhole' /\ \A p : Full(run.plan, p)' = Full(run.plan, p)
  BY DEF MigrateInv, StepInv, PlanWhole

\* Going on to a step at which nothing changed what is staged, live or aside.
LEMMA CreateNetworksWhole ==
    ASSUME MigrateInv, CreateNetworks
    PROVE  FilesWhole' /\ StepInv'
<1>1. /\ run.pc = "networks" /\ run'.pc = "aside" /\ run'.place = run.place /\ SameRun
      /\ run'.replaced = run.replaced /\ nets' = nets /\ UNCHANGED files
  BY Typed DEF CreateNetworks, At, Runs, SameRun, files
<1>2. PlanWhole'
  BY <1>1, MoveOnPlan DEF SameRun
<1>3. InstallInv'
  BY <1>1 DEF InstallInv, DataReady, CacheReady, Installed, MovingLegacy
<1>4. RestoreInv'
  BY <1>1 DEF RestoreInv, MigrateInv, StepInv, Untouched, Cleared, SetAside, SameRun, Places
<1>5. LegacyInv'
  BY <1>1 DEF LegacyInv, MovingLegacy
<1>. QED
  BY <1>1, <1>2, <1>3, <1>4, <1>5, SameWhole DEF Quiet, StepInv

\* A failing call: the undo has to put back what was moved aside so far.
LEMMA FailWhole ==
    ASSUME MigrateInv, NEW pc \in Undoing, NEW s, Failed(pc, s), Quiet,
           pc = "restore" => run.pc = "aside",
           pc = "remove" =>
              run.pc \in {"mkdir", "copy", "verify", "marker", "seal", "pubdata", "pubsync"},
           pc = "undo" => run.pc = "pubcache"
    PROVE  FilesWhole' /\ StepInv'
<1>1. /\ run'.pc = pc /\ run'.place = "data" /\ SameRun /\ run'.replaced = run.replaced
      /\ run'.failedAt = run.pc /\ nets' = nets
  BY Typed, QuietKeeps DEF Failed, Runs, SameRun
<1>2. PlanWhole'
  BY <1>1, MoveOnPlan DEF SameRun
<1>3. InstallInv'
  BY <1>1 DEF InstallInv, DataReady, CacheReady, Installed, MovingLegacy, Undoing
<1>4. RestoreInv'
  BY <1>1 DEF RestoreInv, MigrateInv, StepInv, Untouched, Cleared, SetAside, Staged, Undoable,
              SameRun, Places, Undoing
<1>5. LegacyInv'
  BY <1>1 DEF LegacyInv, MovingLegacy, Undoing
<1>. QED
  BY <1>1, <1>2, <1>3, <1>4, <1>5, SameWhole DEF Quiet, StepInv

LEMMA RenameMoves ==
    ASSUME NEW d \in NetDirs, NEW from \in NetNames, NEW to \in NetNames, from # to
    PROVE  /\ Rename(d, from, to)[to] = d[from] /\ Rename(d, from, to)[from] = Absent
           /\ \A n \in NetNames : n \notin {from, to} => Rename(d, from, to)[n] = d[n]
  BY DEF Rename, NetDirs

LEMMA RenameWhole ==
    ASSUME NEW d \in NetDirs, NEW from \in NetNames, NEW to \in NetNames, from # to,
           NetWhole(d), Whole(d[from])
    PROVE  NetWhole(Rename(d, from, to))
<1>. SUFFICES ASSUME NEW n \in Kept PROVE Whole(Rename(d, from, to)[n])
  BY DEF NetWhole
<1>1. n \in NetNames /\ Whole(d[n])
  BY KeptNames DEF NetWhole
<1>. QED
  BY <1>1, RenameMoves DEF Whole

\* What a change of the entries of one networks/ dir leaves alone.
LEMMA NetsSet ==
    ASSUME MigrateInv, NEW p \in Places, NEW d, Entered(p, d, {d})
    PROVE  /\ nets'[p] = d /\ \A q \in Places : q # p => nets'[q] = nets[q] /\ disk'[q] = disk[q]
           /\ home' = home
  BY Typed DEF Entered

LEMMA MoveAsideWhole ==
    ASSUME MigrateInv, MoveAside
    PROVE  FilesWhole' /\ StepInv'
<1>. DEFINE p == run.place
<1>0. /\ run \in Runs /\ p \in Places /\ run.pc = "aside" /\ nets[p] \in NetDirs
      /\ (p = "data" => Untouched("data")) /\ (p = "cache" => Cleared("data"))
      /\ Untouched("cache")
  BY Typed DEF MoveAside, At, MigrateInv, StepInv, RestoreInv, Places
<1>1. CASE nets[p][Live] = Absent /\ run' = AfterAside(run) /\ UNCHANGED files
  <2>1. /\ SameRun /\ run'.replaced = run.replaced /\ nets' = nets
        /\ IF p = "data" THEN run'.pc = "aside" /\ run'.place = "cache"
           ELSE run'.pc = "mkdir" /\ run'.place = "data"
    BY <1>0, <1>1 DEF AfterAside, Runs, SameRun, files
  <2>2. PlanWhole'
    BY <2>1, MoveOnPlan DEF SameRun
  <2>3. InstallInv'
    BY <2>1 DEF InstallInv, DataReady, CacheReady, Installed, MovingLegacy
  <2>4. Cleared(p)
    BY <1>0, <1>1 DEF Untouched, Cleared, SetAside, Places
  <2>5. RestoreInv'
    BY <1>0, <2>1, <2>4 DEF RestoreInv, Untouched, Cleared, SetAside, SameRun, Places
  <2>6. LegacyInv'
    BY <2>1 DEF LegacyInv, MovingLegacy
  <2>. QED
    BY <1>1, <2>2, <2>3, <2>5, <2>6, SameWhole DEF Quiet, StepInv
<1>2. ASSUME NEW name \in AsideNets, nets[p][Live] # Absent,
             SetNets(p, Rename(nets[p], Live, name)),
             run' = AfterAside([run EXCEPT !.replaced[p] = name])
      PROVE  FilesWhole' /\ StepInv'
  <2>. DEFINE d == Rename(nets[p], Live, name)
  <2>0. name \in NetNames /\ name # Live /\ Live \in NetNames /\ name # Absent
    BY NamesApart, NamesTyped, NotANameAssumption
  <2>1. d[name] = nets[p][Live] /\ d[Live] = Absent
    BY <1>0, <2>0, RenameMoves
  <2>2. NetWhole(d)
    BY <1>0, <2>0, Typed, NamesApart, RenameWhole DEF NetWhole
  <2>. HIDE DEF d
  <2>3. nets'[p] = d /\ \A q \in Places : q # p => nets'[q] = nets[q]
    BY <1>0, <1>2, NetsSet DEF d, SetNets
  <2>4. /\ SameRun /\ run'.replaced[p] = name
        /\ \A q \in Places : q # p => run'.replaced[q] = run.replaced[q]
        /\ IF p = "data" THEN run'.pc = "aside" /\ run'.place = "cache"
           ELSE run'.pc = "mkdir" /\ run'.place = "data"
    <3>. DEFINE r == [run EXCEPT !.replaced[p] = name]
    <3>1. /\ r \in Runs /\ r.pc = run.pc /\ r.place = p /\ r.plan = run.plan /\ r.ts = run.ts
          /\ r.before = run.before /\ r.effort = run.effort
          /\ r.replaced[p] = name /\ \A q \in Places : q # p => r.replaced[q] = run.replaced[q]
      BY <1>0 DEF Runs
    <3>. HIDE DEF r
    <3>2. run' = AfterAside(r)
      BY <1>2 DEF r
    <3>. QED
      BY <1>0, <3>1, <3>2 DEF AfterAside, Runs, SameRun
  <2>5. PlanWhole'
    BY <2>4, MoveOnPlan DEF SameRun
  <2>6. InstallInv'
    BY <2>4 DEF InstallInv, DataReady, CacheReady, Installed, MovingLegacy
  <2>7. Untouched(p)
    BY <1>0 DEF Places
  <2>8. RestoreInv'
    <3>1. CASE p = "data"
      <4>1. Cleared("data")'
        BY <2>3, <2>4, <2>1, <2>0, <2>7, <1>2, <3>1 DEF Cleared, SetAside, Untouched, SameRun
      <4>2. Untouched("cache")'
        BY <1>0, <2>3, <2>4, <3>1 DEF Untouched, SameRun, Places
      <4>. QED
        BY <2>4, <3>1, <4>1, <4>2 DEF RestoreInv
    <3>2. CASE p = "cache"
      <4>1. Cleared("cache")'
        BY <2>3, <2>4, <2>1, <2>0, <2>7, <1>2, <3>2 DEF Cleared, SetAside, Untouched, SameRun
      <4>2. Cleared("data")'
        BY <1>0, <2>3, <2>4, <3>2 DEF Cleared, SetAside, SameRun, Places
      <4>. QED
        BY <2>4, <3>2, <4>1, <4>2 DEF RestoreInv, Places
    <3>. QED
      BY <1>0, <3>1, <3>2 DEF Places
  <2>9. LegacyInv'
    BY <2>4 DEF LegacyInv, MovingLegacy
  <2>. QED
    BY <1>0, <1>2, <2>2, <2>5, <2>6, <2>8, <2>9, NetsWhole DEF StepInv, d, SetNets
<1>. QED
  BY <1>1, <1>2 DEF MoveAside

\* A change in the staging dir of place p.
LEMMA StagingSet ==
    ASSUME MigrateInv, run.pc # "idle", NEW p \in Places, NEW d \in NetDirs, Entered(p, d, {d}),
           \A n \in NetNames : n # Staging(run.ts) => d[n] = nets[p][n],
           SameRun, run'.replaced = run.replaced
    PROVE  /\ FilesWhole' /\ PlanWhole'
           /\ Staged(p)' = d[Staging(run.ts)]
           /\ nets'[p][Staging(run.ts)] = d[Staging(run.ts)]
           /\ \A q \in Places : q # p => nets'[q] = nets[q]
           /\ \A q \in Places : nets'[q][Live] = nets[q][Live]
           /\ \A q \in Places : run.replaced[q] # Absent =>
                 nets'[q][run.replaced[q]] = nets[q][run.replaced[q]]
<1>1. /\ nets'[p] = d /\ \A q \in Places : q # p => nets'[q] = nets[q]
      /\ run.ts \in Stamps /\ nets[p] \in NetDirs
  BY NetsSet, Typed
<1>2. \A n \in Kept : d[n] = nets[p][n]
  BY <1>1, NamesApart, KeptNames
<1>3. NetWhole(d)
  BY <1>2, Typed DEF NetWhole
<1>4. \A q \in Places : run.replaced[q] # Absent => run.replaced[q] \in Kept
  BY Typed DEF Runs, Kept
<1>. QED
  BY <1>1, <1>2, <1>3, <1>4, NetsWhole, MoveOnPlan, NamesApart DEF SameRun, Staged

LEMMA PlannedFiles ==
    ASSUME MigrateInv, NEW p, NEW f \in Planned(run.plan, p)
    PROVE  f \in Files /\ f # "migrated-from" /\ PlaceOf[f] = p /\ run.plan[f] # Absent
  BY DEF Planned, MigrateInv, StepInv, PlanWhole

LEMMA CreateStagingWhole ==
    ASSUME MigrateInv, CreateStaging
    PROVE  FilesWhole' /\ StepInv'
<1>. DEFINE p == run.place
            n == Staging(run.ts)
<1>0. /\ run \in Runs /\ p \in Places /\ run.pc = "mkdir" /\ nets[p] \in NetDirs
      /\ n \in NetNames
  BY Typed, NamesTyped DEF CreateStaging, At
<1>1. CASE Failed("remove", "Destination") /\ UNCHANGED files
  BY <1>0, <1>1, FailWhole DEF Quiet, Undoing
<1>2. CASE Entered(p, [nets[p] EXCEPT ![n] = Empty], {[nets[p] EXCEPT ![n] = Empty]})
           /\ run' = [run EXCEPT !.pc = "copy", !.todo = Planned(run.plan, p)]
  <2>. DEFINE d == [nets[p] EXCEPT ![n] = Empty]
  <2>1. d[n] = Empty /\ (\A m \in NetNames : m # n => d[m] = nets[p][m]) /\ d \in NetDirs
    BY <1>0, EmptyIsDir DEF NetDirs
  <2>2. /\ run'.pc = "copy" /\ run'.todo = Planned(run.plan, p) /\ run'.place = p
        /\ SameRun /\ run'.replaced = run.replaced
    BY <1>0, <1>2 DEF Runs, SameRun
  <2>. HIDE DEF d
  <2>3. Entered(p, d, {d})
    BY <1>2 DEF d
  <2>4. /\ FilesWhole' /\ PlanWhole' /\ Staged(p)' = Empty
        /\ \A q \in Places : q # p => nets'[q] = nets[q]
        /\ \A q \in Places : nets'[q][Live] = nets[q][Live]
        /\ \A q \in Places : run.replaced[q] # Absent =>
              nets'[q][run.replaced[q]] = nets[q][run.replaced[q]]
    BY <1>0, <2>1, <2>2, <2>3, StagingSet
  <2>5. InstallInv'
    <3>1. \A f \in Files \ run'.todo : Staged(p)'[f] = Absent /\ f \notin Planned(run.plan, p)
      BY <2>2, <2>4 DEF Empty
    <3>2. (\A f \in Files \ run.todo : Staged(run.place)[f] = Copied(f))'
      BY <2>2, <3>1 DEF Copied, SameRun, Staged
    <3>3. DataReady' => Staged("data")' = Full(run.plan, "data")
      BY <1>0, <2>2, <2>4 DEF DataReady, MigrateInv, StepInv, InstallInv, Staged, SameRun, Places
    <3>. QED
      BY <2>2, <3>2, <3>3, MoveOnPlan DEF InstallInv, CacheReady, Installed, MovingLegacy, SameRun
  <2>6. RestoreInv'
    BY <1>0, <2>2, <2>4
       DEF MigrateInv, StepInv, RestoreInv, Cleared, SetAside, Places, SameRun
  <2>7. LegacyInv'
    BY <2>2 DEF LegacyInv, MovingLegacy
  <2>. QED
    BY <2>4, <2>5, <2>6, <2>7 DEF StepInv
<1>. QED
  BY <1>1, <1>2 DEF CreateStaging

\* Writing a file of the staging dir and going on to step pc; what has been staged of the
\* other place, and what is aside, stays as it is.
LEMMA StageFileWhole ==
    ASSUME MigrateInv, NEW f \in Files, NEW c \in Contents, NEW u, StageFile(f, c, u),
           run.pc \in {"copy", "marker"}, NEW pc \in {"verify", "seal"},
           run' = [run EXCEPT !.pc = pc]
    PROVE  /\ FilesWhole' /\ PlanWhole' /\ RestoreInv' /\ LegacyInv'
           /\ SameRun /\ run'.place = run.place /\ run'.todo = run.todo /\ run'.pc = pc
           /\ Staged(run.place)' = [Staged(run.place) EXCEPT ![f] = c]
           /\ Staged(run.place) \in Dirs
           /\ \A q \in Places : q # run.place => Staged(q)' = Staged(q)
<1>. DEFINE p == run.place
            n == Staging(run.ts)
            d == [nets[p] EXCEPT ![n][f] = c]
<1>1. /\ run \in Runs /\ p \in Places /\ n \in NetNames
      /\ nets[p] \in NetDirs /\ nets[p][n] \in Dirs
  BY Typed, NamesTyped DEF MigrateInv, SafetyInv, TypeInv, RunShape, NetDirs
<1>2. d[n] = [nets[p][n] EXCEPT ![f] = c] /\ \A m \in NetNames : m # n => d[m] = nets[p][m]
  BY <1>1 DEF NetDirs
<1>3. d \in NetDirs
  <2>1. [nets[p][n] EXCEPT ![f] = c] \in Dirs
    BY <1>1 DEF Dirs
  <2>2. d = [nets[p] EXCEPT ![n] = [nets[p][n] EXCEPT ![f] = c]]
    BY <1>1 DEF NetDirs
  <2>. HIDE DEF d
  <2>. QED
    BY <1>1, <2>1, <2>2 DEF NetDirs
<1>4. /\ run'.pc = pc /\ run'.todo = run.todo /\ run'.place = p
      /\ SameRun /\ run'.replaced = run.replaced
  BY <1>1 DEF Runs, SameRun
<1>5. Entered(p, d, {d})
  BY DEF StageFile
<1>. HIDE DEF d
<1>6. /\ FilesWhole' /\ PlanWhole' /\ Staged(p)' = d[n] /\ nets'[p][n] = d[n]
      /\ \A q \in Places : q # p => nets'[q] = nets[q]
      /\ \A q \in Places : nets'[q][Live] = nets[q][Live]
      /\ \A q \in Places : run.replaced[q] # Absent =>
            nets'[q][run.replaced[q]] = nets[q][run.replaced[q]]
  BY <1>1, <1>2, <1>3, <1>4, <1>5, StagingSet
<1>7. RestoreInv'
  BY <1>4, <1>6 DEF MigrateInv, StepInv, RestoreInv, Cleared, SetAside, Places, SameRun
<1>8. LegacyInv'
  BY <1>4 DEF LegacyInv, MovingLegacy
<1>9. \A q \in Places : q # p => Staged(q)' = Staged(q)
  BY <1>4, <1>6 DEF Staged, SameRun
<1>. QED
  BY <1>1, <1>2, <1>4, <1>6, <1>7, <1>8, <1>9 DEF Staged

LEMMA CopyFileWhole ==
    ASSUME MigrateInv, NEW f \in Files, CopyFile(f)
    PROVE  FilesWhole' /\ StepInv'
<1>0. run \in Runs /\ run.place \in Places /\ run.pc = "copy" /\ f \in run.todo
  BY Typed DEF CopyFile, At, NextCopy
<1>1. PICK c \in Contents : StageFile(f, c, {"data", "entry"} \X {f})
  BY Typed DEF CopyFile, Contents, Dirs
<1>2. /\ FilesWhole' /\ PlanWhole' /\ RestoreInv' /\ LegacyInv'
      /\ SameRun /\ run'.place = run.place /\ run'.todo = run.todo /\ run'.pc = "verify"
      /\ Staged(run.place)' = [Staged(run.place) EXCEPT ![f] = c] /\ Staged(run.place) \in Dirs
      /\ \A q \in Places : q # run.place => Staged(q)' = Staged(q)
  BY <1>0, <1>1, StageFileWhole DEF CopyFile
<1>3. (\A g \in Files \ run.todo : Staged(run.place)[g] = Copied(g))'
  BY <1>0, <1>2 DEF MigrateInv, StepInv, InstallInv, Copied, SameRun, Dirs
<1>4. DataReady' => Staged("data")' = Full(run.plan, "data")
  BY <1>0, <1>2 DEF DataReady, MigrateInv, StepInv, InstallInv, Places
<1>5. (run.todo \subseteq Planned(run.plan, run.place))'
  BY <1>0, <1>2 DEF MigrateInv, StepInv, InstallInv, Planned, SameRun
<1>6. InstallInv'
  BY <1>2, <1>3, <1>4, <1>5, MoveOnPlan
     DEF InstallInv, CacheReady, Installed, MovingLegacy, SameRun
<1>. QED
  BY <1>2, <1>6 DEF StepInv

LEMMA VerifyCopyWhole ==
    ASSUME MigrateInv, NEW f \in Files, VerifyCopy(f)
    PROVE  FilesWhole' /\ StepInv'
<1>0. /\ run \in Runs /\ run.place \in Places /\ run.pc = "verify" /\ f \in run.todo
      /\ Quiet /\ nets' = nets
  BY Typed, QuietKeeps DEF VerifyCopy, At, NextCopy, Quiet
<1>1. CASE Failed("remove", "Destination")
  BY <1>0, <1>1, FailWhole DEF Quiet, Undoing
<1>2. CASE /\ Staged(run.place)[f] = run.plan[f]
           /\ run' = [run EXCEPT !.pc = "copy", !.todo = @ \ {f}]
  <2>1. /\ SameRun /\ run'.replaced = run.replaced /\ run'.place = run.place /\ run'.pc = "copy"
        /\ run'.todo = run.todo \ {f}
    BY <1>0, <1>2 DEF Runs, SameRun
  <2>2. run.todo \subseteq Planned(run.plan, run.place) /\ Copied(f) = run.plan[f]
    BY <1>0 DEF MigrateInv, StepInv, InstallInv, Copied
  <2>3. /\ \A g : Copied(g)' = Copied(g)
        /\ \A q : Staged(q)' = Staged(q)
        /\ Planned(run.plan, run.place)' = Planned(run.plan, run.place)
    BY <1>0, <2>1 DEF Copied, Staged, SameRun
  <2>4. (\A g \in Files \ run.todo : Staged(run.place)[g] = Copied(g))'
    BY <1>0, <1>2, <2>1, <2>2, <2>3 DEF MigrateInv, StepInv, InstallInv
  <2>5. InstallInv'
    BY <1>0, <2>1, <2>2, <2>3, <2>4, MoveOnPlan
       DEF MigrateInv, StepInv, InstallInv, DataReady, CacheReady, Installed, MovingLegacy, SameRun
  <2>6. RestoreInv'
    BY <1>0, <2>1 DEF MigrateInv, StepInv, RestoreInv, Cleared, SetAside, SameRun
  <2>7. LegacyInv'
    BY <2>1 DEF LegacyInv, MovingLegacy
  <2>. QED
    BY <1>0, <2>1, <2>5, <2>6, <2>7, MoveOnPlan, SameWhole DEF Quiet, StepInv, SameRun
<1>. QED
  BY <1>0, <1>1, <1>2 DEF VerifyCopy, Staged

LEMMA CopiesDoneWhole ==
    ASSUME MigrateInv, CopiesDone
    PROVE  FilesWhole' /\ StepInv'
<1>1. /\ run \in Runs /\ run.place \in Places /\ run.pc = "copy" /\ run.todo = {}
      /\ UNCHANGED files /\ nets' = nets
      /\ SameRun /\ run'.replaced = run.replaced /\ run'.place = run.place
      /\ run'.pc = IF run.place = "data" THEN "marker" ELSE "seal"
  BY Typed DEF CopiesDone, At, Runs, SameRun, files
<1>2. PlanWhole'
  BY <1>1, MoveOnPlan DEF SameRun
<1>3. \A f \in Files : Staged(run.place)[f] = Copied(f)
  BY <1>1 DEF MigrateInv, StepInv, InstallInv
<1>4. (\A f : Copied(f)' = Copied(f)) /\ (\A q : Staged(q)' = Staged(q))
      /\ Staged(run.place) \in Dirs
  BY <1>1, NamesTyped, Typed
     DEF Copied, Staged, SameRun, MigrateInv, SafetyInv, TypeInv, RunShape, NetDirs
<1>5. CASE run.place = "data"
  <2>1. DataReady' = FALSE
    BY <1>1, <1>5 DEF DataReady
  <2>. QED
    <3>1. InstallInv'
      BY <1>1, <1>3, <1>4, <1>5, <2>1 DEF InstallInv, CacheReady, Installed, MovingLegacy
    <3>2. RestoreInv'
      BY <1>1, <1>5 DEF MigrateInv, StepInv, RestoreInv, Cleared, SetAside, SameRun
    <3>3. LegacyInv'
      BY <1>1, <1>5 DEF LegacyInv, MovingLegacy
    <3>. QED
      BY <1>1, <1>2, <3>1, <3>2, <3>3, SameWhole DEF Quiet, StepInv
<1>6. CASE run.place = "cache"
  <2>1. DataReady
    BY <1>1, <1>6 DEF DataReady
  <2>2. Staged("cache") = Full(run.plan, "cache")
    BY <1>3, <1>4, <1>6 DEF Full, Copied, Dirs
  <2>3. InstallInv'
    BY <1>1, <1>4, <1>6, <2>1, <2>2, MoveOnPlan
       DEF MigrateInv, StepInv, InstallInv, CacheReady, Installed, MovingLegacy, SameRun
  <2>4. RestoreInv'
    BY <1>1, <1>6 DEF MigrateInv, StepInv, RestoreInv, Cleared, SetAside, SameRun
  <2>5. LegacyInv'
    BY <1>1, <1>6 DEF LegacyInv, MovingLegacy
  <2>. QED
    BY <1>1, <1>2, <2>3, <2>4, <2>5, SameWhole DEF Quiet, StepInv
<1>. QED
  BY <1>1, <1>5, <1>6 DEF Places

LEMMA WriteMarkerWhole ==
    ASSUME MigrateInv, WriteMarker
    PROVE  FilesWhole' /\ StepInv'
<1>0. /\ run.pc = "marker" /\ run.place = "data"
      /\ StageFile("migrated-from", run.plan["id"], {<<"entry", "migrated-from">>})
      /\ run' = [run EXCEPT !.pc = "seal"] /\ run.plan["id"] \in Contents
      /\ \A f \in Files : Staged("data")[f] = Copied(f)
  BY Typed DEF WriteMarker, At, MigrateInv, StepInv, InstallInv, Dirs, Files
<1>1. /\ FilesWhole' /\ PlanWhole' /\ RestoreInv' /\ LegacyInv'
      /\ SameRun /\ run'.place = "data" /\ run'.pc = "seal"
      /\ Staged("data")' = [Staged("data") EXCEPT !["migrated-from"] = run.plan["id"]]
      /\ Staged("data") \in Dirs
  BY <1>0, StageFileWhole DEF Files
<1>2. Staged("data")' = Full(run.plan, "data")
  BY <1>0, <1>1 DEF Full, Copied, Dirs, Files
<1>3. InstallInv'
  BY <1>1, <1>2, MoveOnPlan DEF InstallInv, DataReady, CacheReady, Installed, MovingLegacy, SameRun
<1>. QED
  BY <1>1, <1>3 DEF StepInv

LEMMA SealStagingWhole ==
    ASSUME MigrateInv, SealStaging
    PROVE  FilesWhole' /\ StepInv'
<1>1. /\ run \in Runs /\ run.place \in Places /\ run.pc = "seal"
      /\ Quiet /\ nets' = nets
      /\ SameRun /\ run'.replaced = run.replaced
      /\ IF run.place = "data" THEN run'.pc = "mkdir" /\ run'.place = "cache"
         ELSE run'.pc = "pubdata" /\ run'.place = "data"
  BY Typed, QuietKeeps DEF SealStaging, AfterSeal, At, Runs, SameRun, Quiet
<1>2. PlanWhole'
  BY <1>1, MoveOnPlan DEF SameRun
<1>3. \A q : Staged(q)' = Staged(q)
  BY <1>1 DEF Staged, SameRun
<1>4. InstallInv'
  BY <1>1, <1>3, MoveOnPlan
     DEF MigrateInv, StepInv, InstallInv, DataReady, CacheReady, Installed, MovingLegacy, SameRun,
         Places
<1>5. RestoreInv'
  BY <1>1 DEF MigrateInv, StepInv, RestoreInv, Cleared, SetAside, SameRun
<1>6. LegacyInv'
  BY <1>1 DEF LegacyInv, MovingLegacy
<1>. QED
  BY <1>1, <1>2, <1>4, <1>5, <1>6, SameWhole DEF Quiet, StepInv

LEMMA StageFailsWhole ==
    ASSUME MigrateInv, StageFails
    PROVE  FilesWhole' /\ StepInv'
  BY FailWhole DEF Quiet, StageFails, Undoing, files

-----------------------------------------------------------------------------
(* The steps of publish and of its undo.                                    *)

LEMMA FullWhole ==
    ASSUME MigrateInv, NEW p PROVE Whole(Full(run.plan, p)) /\ Full(run.plan, p) # Absent
<1>1. Full(run.plan, p) \in Dirs
  BY Typed DEF Full, Dirs, Contents, Files
<1>2. \A f \in Files : Full(run.plan, p)[f] \in {run.plan[f], run.plan["id"], Absent}
  BY DEF Full
<1>3. run.plan \in Dirs /\ \A f \in Files : run.plan[f] # Torn
  BY Typed, NotADirAssumption DEF MigrateInv, StepInv, PlanWhole, Whole
<1>. QED
  BY <1>1, <1>2, <1>3, AbsentAssumption, NotADirAssumption DEF Whole, Files

\* Between a staging name and the live one a dir moves without touching what is aside.
LEMMA LiveSet ==
    ASSUME MigrateInv, run.pc # "idle", NEW p \in Places,
           NEW from, NEW to, from # to, {from, to} = {Staging(run.ts), Live},
           SetNets(p, Rename(nets[p], from, to)), Whole(nets[p][from]),
           SameRun, run'.replaced = run.replaced
    PROVE  /\ FilesWhole' /\ PlanWhole'
           /\ nets'[p][to] = nets[p][from] /\ nets'[p][from] = Absent
           /\ \A q \in Places : q # p => nets'[q] = nets[q]
           /\ \A q \in Places : run.replaced[q] # Absent =>
                 nets'[q][run.replaced[q]] = nets[q][run.replaced[q]]
<1>. DEFINE d == Rename(nets[p], from, to)
<1>1. /\ nets[p] \in NetDirs /\ run.ts \in Stamps /\ NetWhole(nets[p])
      /\ from \in NetNames /\ to \in NetNames
      /\ \A n \in AsideNets : n \in NetNames /\ n \notin {from, to}
  BY Typed, NamesTyped, NamesApart
<1>2. d[to] = nets[p][from] /\ d[from] = Absent /\ \A n \in AsideNets : d[n] = nets[p][n]
  BY <1>1, RenameMoves
<1>3. NetWhole(d)
  BY <1>1, RenameWhole
<1>. HIDE DEF d
<1>4. Entered(p, d, {d})
  BY DEF d, SetNets
<1>5. nets'[p] = d /\ \A q \in Places : q # p => nets'[q] = nets[q]
  BY <1>4, NetsSet
<1>6. \A q \in Places : run.replaced[q] # Absent => run.replaced[q] \in AsideNets
  BY Typed DEF Runs
<1>. QED
  BY <1>2, <1>3, <1>4, <1>5, <1>6, NetsWhole, MoveOnPlan DEF SameRun

LEMMA PublishDataWhole ==
    ASSUME MigrateInv, PublishData
    PROVE  FilesWhole' /\ StepInv'
<1>0. /\ run \in Runs /\ run.pc = "pubdata" /\ run.place = "data" /\ run.ts \in Stamps
      /\ Staged("data") = Full(run.plan, "data") /\ Staged("cache") = Full(run.plan, "cache")
      /\ Cleared("data") /\ Cleared("cache")
  BY Typed DEF PublishData, At, MigrateInv, StepInv, InstallInv, RestoreInv, DataReady,
               CacheReady, Places
<1>1. CASE Failed("remove", "Destination") /\ UNCHANGED files
  BY <1>0, <1>1, FailWhole DEF Quiet, Undoing
<1>2. CASE /\ SetNets("data", Rename(nets["data"], Staging(run.ts), Live))
           /\ run' = [run EXCEPT !.pc = "pubcache"]
  <2>1. /\ SameRun /\ run'.replaced = run.replaced /\ run'.pc = "pubcache" /\ run'.place = "data"
    BY <1>0, <1>2 DEF Runs, SameRun
  <2>2. /\ FilesWhole' /\ PlanWhole'
        /\ nets'["data"][Live] = Full(run.plan, "data")
        /\ nets'["data"][Staging(run.ts)] = Absent
        /\ nets'["cache"] = nets["cache"]
        /\ \A q \in Places : run.replaced[q] # Absent =>
              nets'[q][run.replaced[q]] = nets[q][run.replaced[q]]
    BY <1>0, <1>2, <2>1, LiveSet, FullWhole, NamesApart DEF Staged, Places
  <2>3. InstallInv'
    BY <1>0, <2>1, <2>2, MoveOnPlan
       DEF InstallInv, DataReady, CacheReady, Installed, MovingLegacy, SameRun, InPlace, Staged
  <2>4. RestoreInv'
    BY <1>0, <2>1, <2>2 DEF RestoreInv, Cleared, SetAside, SameRun, Staged, Places
  <2>5. LegacyInv'
    BY <2>1 DEF LegacyInv, MovingLegacy
  <2>. QED
    BY <2>2, <2>3, <2>4, <2>5 DEF StepInv
<1>. QED
  BY <1>1, <1>2, PublishesAll DEF PublishData, At, MigrateInv, SafetyInv, Places

LEMMA PublishCacheWhole ==
    ASSUME MigrateInv, PublishCache
    PROVE  FilesWhole' /\ StepInv'
<1>0. /\ run \in Runs /\ run.pc = "pubcache" /\ run.place = "data" /\ run.ts \in Stamps
      /\ Staged("cache") = Full(run.plan, "cache") /\ InPlace("data")
  BY Typed DEF PublishCache, At, MigrateInv, StepInv, InstallInv, CacheReady
<1>1. CASE Failed("undo", "Destination") /\ UNCHANGED files
  BY <1>0, <1>1, FailWhole DEF Quiet, Undoing
<1>2. CASE /\ SetNets("cache", Rename(nets["cache"], Staging(run.ts), Live))
           /\ run' = [run EXCEPT !.pc = "pubsync"]
  <2>1. /\ SameRun /\ run'.replaced = run.replaced /\ run'.pc = "pubsync" /\ run'.place = "data"
    BY <1>0, <1>2 DEF Runs, SameRun
  <2>2. /\ FilesWhole' /\ PlanWhole'
        /\ nets'["cache"][Live] = Full(run.plan, "cache")
        /\ nets'["data"] = nets["data"]
    BY <1>0, <1>2, <2>1, LiveSet, FullWhole, NamesApart DEF Staged, Places
  <2>3. InstallInv'
    BY <1>0, <2>1, <2>2, MoveOnPlan
       DEF InstallInv, DataReady, CacheReady, Installed, MovingLegacy, SameRun, InPlace
  <2>4. RestoreInv'
    BY <2>1 DEF RestoreInv
  <2>5. LegacyInv'
    BY <2>1 DEF LegacyInv, MovingLegacy
  <2>. QED
    BY <2>2, <2>3, <2>4, <2>5 DEF StepInv
<1>. QED
  BY <1>1, <1>2, PublishesAll DEF PublishCache, At, MigrateInv, SafetyInv, Places

LEMMA UndoPublishWhole ==
    ASSUME MigrateInv, UndoPublish
    PROVE  FilesWhole' /\ StepInv'
<1>0. /\ run \in Runs /\ run.pc = "undo" /\ run.ts \in Stamps
      /\ SetAside("data") /\ Cleared("cache") /\ NetWhole(nets["data"])
  BY Typed DEF UndoPublish, At, MigrateInv, StepInv, RestoreInv, Places
<1>1. /\ SameRun \/ run'.effort = "missed"
      /\ run'.plan = run.plan /\ run'.ts = run.ts /\ run'.before = run.before
      /\ run'.replaced = run.replaced /\ run'.pc = "remove" /\ run'.place = run.place
  BY <1>0 DEF UndoPublish, Runs, SameRun
<1>2. InstallInv' /\ LegacyInv' /\ PlanWhole'
  BY <1>1, MoveOnPlan
     DEF InstallInv, LegacyInv, DataReady, CacheReady, Installed, MovingLegacy
<1>3. CASE UNCHANGED files /\ run'.effort = "missed"
  <2>1. RestoreInv'
    BY <1>1, <1>3 DEF RestoreInv, Undoable
  <2>. QED
    BY <1>2, <1>3, <2>1, SameWhole DEF Quiet, StepInv
<1>4. CASE SetNets("data", Rename(nets["data"], Live, Staging(run.ts))) /\ SameRun
  <2>1. /\ FilesWhole' /\ nets'["data"][Live] = Absent
        /\ nets'["cache"] = nets["cache"]
        /\ \A q \in Places : run.replaced[q] # Absent =>
              nets'[q][run.replaced[q]] = nets[q][run.replaced[q]]
    <3>1. Whole(nets["data"][Live])
      BY <1>0, NamesApart DEF NetWhole
    <3>. QED
      BY <1>0, <1>1, <1>4, <3>1, LiveSet, NamesApart DEF Places
  <2>2. RestoreInv'
    BY <1>0, <1>1, <2>1 DEF RestoreInv, Cleared, SetAside, Places
  <2>. QED
    BY <1>2, <2>1, <2>2 DEF StepInv
<1>5. (UNCHANGED files /\ run'.effort = "missed")
      \/ (SetNets("data", Rename(nets["data"], Live, Staging(run.ts))) /\ SameRun)
  BY <1>0 DEF UndoPublish, Runs, SameRun
<1>. QED
  BY <1>3, <1>4, <1>5

LEMMA PublishSyncWhole ==
    ASSUME MigrateInv, PublishSync
    PROVE  FilesWhole' /\ StepInv'
<1>0. /\ run \in Runs /\ run.pc = "pubsync" /\ run.place \in Places
      /\ disk \in [Places -> SUBSET NetDirs]
      /\ disk' = [disk EXCEPT ![run.place] = {nets[run.place]}] /\ nets' = nets
      /\ homeDisk' = homeDisk /\ home' = home /\ anchored' = anchored
      /\ InPlace("data") /\ InPlace("cache")
      /\ run.place = "cache" => disk["data"] = {nets["data"]}
  BY Typed, SyncsAll DEF PublishSync, At, MigrateInv, SafetyInv, StepInv, InstallInv
<1>1. /\ SameRun /\ run'.replaced = run.replaced
      /\ IF run.place = "data" THEN run'.pc = "pubsync" /\ run'.place = "cache"
         ELSE run'.pc = "cfgaside" /\ run'.place = "data"
  BY <1>0 DEF PublishSync, Runs, SameRun
<1>3. disk'[run.place] = {nets[run.place]}
      /\ \A q \in Places : q # run.place => disk'[q] = disk[q]
  BY <1>0
<1>6. \A q \in Places : Left(q)' \subseteq Left(q)
  BY <1>0, <1>3, Typed DEF Left
<1>2. FilesWhole'
  BY <1>0, <1>6 DEF MigrateInv, FilesWhole
<1>4. InstallInv'
  BY <1>0, <1>1, <1>3, MoveOnPlan
     DEF InstallInv, DataReady, CacheReady, Installed, MovingLegacy, SameRun, InPlace, Places
<1>5. RestoreInv' /\ LegacyInv' /\ PlanWhole'
  BY <1>1, MoveOnPlan DEF RestoreInv, LegacyInv, SameRun, MovingLegacy
<1>. QED
  BY <1>2, <1>4, <1>5 DEF StepInv

LEMMA PublishSyncFailsWhole ==
    ASSUME MigrateInv, PublishSyncFails
    PROVE  FilesWhole' /\ StepInv'
  BY FailWhole DEF Quiet, PublishSyncFails, Undoing, At, files

\* An undo step that is not over leaves nothing to say of what is staged or of the legacy home.
LEMMA UndoingWhole ==
    ASSUME run'.pc \in {"remove", "restore"}
    PROVE  InstallInv' /\ LegacyInv'
  BY DEF InstallInv, LegacyInv, DataReady, CacheReady, Installed, MovingLegacy

LEMMA RemoveStagingWhole ==
    ASSUME MigrateInv, RemoveStaging
    PROVE  FilesWhole' /\ StepInv'
<1>. DEFINE p == run.place
            n == Staging(run.ts)
            d == [nets[p] EXCEPT ![n] = Absent]
<1>0. /\ run \in Runs /\ run.pc = "remove" /\ p \in Places /\ n \in NetNames
      /\ nets[p] \in NetDirs
      /\ Undoable => \A q \in Places : Cleared(q)
  BY Typed, NamesTyped DEF RemoveStaging, At, MigrateInv, StepInv, RestoreInv
<1>1. /\ SameRun /\ run'.replaced = run.replaced /\ run'.failedAt = run.failedAt
      /\ IF p = "data" THEN run'.pc = "remove" /\ run'.place = "cache"
         ELSE run'.pc = "restore" /\ run'.place = "data"
  BY <1>0 DEF RemoveStaging, AfterUndo, Runs, SameRun
<1>2. InstallInv' /\ LegacyInv' /\ PlanWhole'
  BY <1>1, MoveOnPlan, UndoingWhole DEF SameRun
<1>3. /\ FilesWhole'
      /\ \A q \in Places : nets'[q][Live] = nets[q][Live]
      /\ \A q \in Places : run.replaced[q] # Absent =>
            nets'[q][run.replaced[q]] = nets[q][run.replaced[q]]
  <2>1. CASE UNCHANGED files
    BY <2>1, SameWhole DEF Quiet, files
  <2>2. CASE SetNets(p, d)
    <3>1. d \in NetDirs /\ \A m \in NetNames : m # n => d[m] = nets[p][m]
      BY <1>0 DEF NetDirs
    <3>. HIDE DEF d
    <3>. QED
      BY <1>0, <1>1, <2>2, <3>1, StagingSet DEF SetNets
  <2>. QED
    BY <2>1, <2>2 DEF RemoveStaging
<1>4. Undoable' <=> Undoable
  BY <1>1 DEF Undoable, SameRun
<1>5. Undoable => \A q \in Places : Cleared(q)'
  BY <1>0, <1>1, <1>3 DEF Cleared, SetAside, SameRun
<1>6. RestoreInv'
  BY <1>0, <1>1, <1>4, <1>5 DEF RestoreInv, Places
<1>. QED
  BY <1>2, <1>3, <1>6 DEF StepInv

\* What restore does to one place: with nothing left to go wrong, the live dir is back.
LEMMA RestoresOne ==
    ASSUME MigrateInv, Restore
    PROVE  /\ FilesWhole' /\ PlanWhole'
           /\ \A q \in Places : q # run.place => nets'[q] = nets[q]
           /\ Undoable /\ NoFault => nets'[run.place][Live] = run.before[run.place]
           /\ \/ NoFault /\ run' = AfterUndo(run, Exited(run.result, run.failedAt))
              \/ /\ Fault
                 /\ run' = AfterUndo([run EXCEPT !.effort = "missed"],
                                     Exited(run.result, run.failedAt))
<1>. DEFINE p == run.place
            aside == run.replaced[p]
            d == Rename(nets[p], aside, Live)
<1>0. /\ run \in Runs /\ run.pc = "restore" /\ p \in Places
      /\ nets[p] \in NetDirs /\ NetWhole(nets[p])
      /\ aside # Absent => aside \in AsideNets
      /\ Undoable => \/ nets[p][Live] = run.before[p] /\ aside = Absent
                     \/ Cleared(p)
  BY Typed DEF Restore, At, MigrateInv, StepInv, RestoreInv, Runs, Untouched, Places
<1>1. PlanWhole'
  <2>1. run'.plan \in {run.plan, Empty}
    <3>. DEFINE m == [run EXCEPT !.effort = "missed"]
    <3>1. m.plan = run.plan
      BY <1>0 DEF Runs
    <3>. HIDE DEF m
    <3>2. \E r \in {run, m} : run' = AfterUndo(r, Exited(run.result, run.failedAt))
      BY DEF Restore, m
    <3>3. \A r \in {run, m} : [r EXCEPT !.place = "cache"].plan = r.plan
      BY <1>0 DEF Runs, m
    <3>. QED
      BY <3>1, <3>2, <3>3 DEF AfterUndo, Exited
  <2>. QED
    BY <2>1, EmptyWhole DEF PlanWhole, MigrateInv, StepInv
<1>2. CASE aside # Absent /\ SetNets(p, d) /\ CanRename(nets[p], aside, Live)
  <2>0. aside \in NetNames /\ Live \in NetNames /\ aside # Live /\ aside \in Kept
    BY <1>0, <1>2, NamesApart, NamesTyped DEF Kept
  <2>1. d[Live] = nets[p][aside]
    BY <1>0, <2>0, RenameMoves
  <2>2. NetWhole(d)
    BY <1>0, <2>0, RenameWhole DEF NetWhole
  <2>. HIDE DEF d
  <2>3. nets'[p] = d /\ \A q \in Places : q # p => nets'[q] = nets[q]
    BY <1>0, <1>2, NetsSet DEF SetNets
  <2>4. FilesWhole'
    BY <1>0, <1>2, <2>2, NetsWhole DEF SetNets
  <2>5. Undoable => nets'[p][Live] = run.before[p]
    BY <1>0, <1>2, <2>1, <2>3 DEF Cleared, SetAside
  <2>. QED
    BY <1>1, <1>2, <2>3, <2>4, <2>5 DEF Restore, d
<1>3. CASE UNCHANGED files /\ (Fault \/ aside = Absent \/ ~CanRename(nets[p], aside, Live))
  <2>1. nets' = nets
    BY <1>3 DEF files
  <2>2. ASSUME Undoable, NoFault PROVE nets'[p][Live] = run.before[p]
    <3>1. ~Fault
      BY <2>2 DEF NoFault, Fault, MigrateInv, SafetyInv, TypeInv, TypeOK
    <3>2. Cleared(p) => aside = Absent
      BY <1>3, <3>1 DEF Cleared, SetAside, CanRename
    <3>. QED
      BY <1>0, <2>1, <2>2, <3>2 DEF Cleared, SetAside
  <2>. QED
    BY <1>1, <1>3, <2>1, <2>2, SameWhole DEF Quiet, Restore
<1>. QED
  BY <1>2, <1>3 DEF Restore

LEMMA RestoreWhole ==
    ASSUME MigrateInv, Restore
    PROVE  FilesWhole' /\ StepInv'
<1>0. run \in Runs /\ run.place \in Places /\ run.pc = "restore"
  BY Typed DEF Restore, At
<1>1. CASE run.place = "cache"
  <2>1. run' = Exited(run.result, run.failedAt)
    BY <1>0, <1>1, RestoresOne DEF AfterUndo, Runs
  <2>. QED
    BY <2>1, Over, RestoresOne
<1>2. CASE run.place = "data"
  <2>1. /\ run'.pc = "restore" /\ run'.place = "cache" /\ run'.replaced = run.replaced
        /\ run'.failedAt = run.failedAt /\ run'.before = run.before
        /\ Undoable' => Undoable /\ NoFault
    BY <1>0, <1>2, RestoresOne DEF AfterUndo, Runs, Undoable
  <2>2. Undoable => Untouched("cache") \/ Cleared("cache")
    BY <1>0 DEF MigrateInv, StepInv, RestoreInv
  <2>3. nets'["cache"] = nets["cache"]
    BY <1>2, RestoresOne DEF Places
  <2>4. Undoable => (Untouched("cache") \/ Cleared("cache"))'
    BY <2>1, <2>2, <2>3 DEF Untouched, Cleared, SetAside
  <2>5. RestoreInv'
    BY <1>2, <2>1, <2>4, RestoresOne DEF RestoreInv
  <2>. QED
    BY <2>1, <2>5, RestoresOne, UndoingWhole DEF StepInv
<1>. QED
  BY <1>0, <1>1, <1>2 DEF Places

-----------------------------------------------------------------------------
(* The legacy home.                                                         *)

LEMMA HomeNamesApart ==
    /\ ConfNames \cap PixNames = {} /\ Config \in ConfNames /\ Pix \in PixNames
  BY DEF ConfNames, PixNames, Config, Pix

\* A step in the legacy home that goes on with it: what is installed stays installed.
LEMMA HomeStepWhole ==
    ASSUME MigrateInv, NEW h, NEW leaves, SetHome(h, leaves), HomeWhole(h),
           \A x \in leaves : HomeWhole(x), h.conf[Config] = Absent,
           run.pc \in MovingLegacy, run'.pc \in MovingLegacy \ {"cfgaside"},
           run'.plan = run.plan, run'.place = run.place,
           run'.result = run.result \/ run'.result # "Migrated",
           run'.pc \in {"redbaside", "sweep", "homesync"} => run'.aside \notin h.exposed,
           run'.pc = "homesync" /\ run'.cmd = "identity" /\ run'.effort = "ok" =>
              /\ h.exposed \cap ConfNames = {}
              /\ run'.uid = "service" => h.exposed = {}
    PROVE  FilesWhole' /\ StepInv'
<1>1. nets' = nets /\ disk' = disk /\ home' = h
  BY DEF SetHome, netFiles
<1>2. PlanWhole' /\ \A p : Full(run.plan, p)' = Full(run.plan, p)
  BY MoveOnPlan
<1>3. Installed' => Installed
  BY DEF Installed
<1>4. InstallInv'
  BY <1>1, <1>2, <1>3
     DEF MigrateInv, StepInv, InstallInv, DataReady, CacheReady, MovingLegacy, InPlace
<1>5. RestoreInv'
  BY DEF RestoreInv, MovingLegacy
<1>6. LegacyInv'
  BY <1>1 DEF MigrateInv, StepInv, LegacyInv, MovingLegacy
<1>. QED
  BY <1>2, <1>4, <1>5, <1>6, HomeChangeWhole DEF StepInv

LEMMA AllRenamedWhole ==
    ASSUME MigrateInv, NEW h \in AllRenamed
    PROVE  h \in Homes /\ HomeWhole(h) /\ h.conf = home.conf /\ h.pix = home.pix
  BY Typed, AllRenamedHolds DEF MigrateInv, FilesWhole

LEMMA ConfigAsideWhole ==
    ASSUME MigrateInv, ConfigAside
    PROVE  FilesWhole' /\ StepInv'
<1>0. run \in Runs /\ run.pc = "cfgaside" /\ home \in Homes /\ HomeWhole(home)
  BY Typed DEF ConfigAside, At
<1>. PICK name \in ConfNames :
        /\ UniqueName(home.conf, AsideKind, run.ts, name)
        /\ CanRename(home.conf, Config, name)
        /\ SetHome(ConfigMoved(home, name), {ConfigMoved(h, name) : h \in AllRenamed})
        /\ run' = [run EXCEPT !.pc = "lockdown", !.aside = name]
  BY DEF ConfigAside
<1>1. name # Config /\ home.conf[Config] # Absent /\ Config \in ConfNames
  BY HomeNamesApart DEF UniqueName, CanRename
<1>2. ASSUME NEW g \in Homes, HomeWhole(g), g.conf = home.conf
      PROVE  HomeWhole(ConfigMoved(g, name)) /\ ConfigMoved(g, name).conf[Config] = Absent
  <2>. DEFINE h == ConfigMoved(g, name)
  <2>1. /\ h.conf[Config] = Absent /\ h.conf[name] = home.conf[Config]
        /\ \A n \in ConfNames : n \notin {Config, name} => h.conf[n] = home.conf[n]
        /\ h.pix = g.pix
        /\ h.exposed \subseteq (g.exposed \ {Config}) \cup {name}
    BY <1>1, <1>2 DEF Homes, Rename, MoveExposed, ConfigMoved
  <2>. HIDE DEF h
  <2>2. HomeWhole(h)
    BY <1>1, <1>2, <2>1 DEF HomeWhole, Whole
  <2>. QED
    BY <2>1, <2>2 DEF h
<1>3. \A x \in {ConfigMoved(h, name) : h \in AllRenamed} : HomeWhole(x)
  BY <1>2, AllRenamedWhole
<1>4. /\ run'.pc = "lockdown" /\ run'.plan = run.plan /\ run'.place = run.place
      /\ run'.result = run.result
  BY <1>0 DEF Runs
<1>5. HomeWhole(ConfigMoved(home, name)) /\ ConfigMoved(home, name).conf[Config] = Absent
  BY <1>0, <1>2
<1>. QED
  BY <1>0, <1>3, <1>4, <1>5, HomeStepWhole DEF MovingLegacy

\* Taking entries away from the service account.
LEMMA LockedWhole ==
    ASSUME NEW g \in Homes, HomeWhole(g), NEW names
    PROVE  /\ HomeWhole(Locked(g, names))
           /\ Locked(g, names).exposed = g.exposed \ names
           /\ Locked(g, names).conf = g.conf
<1>. DEFINE h == Locked(g, names)
<1>1. h.conf = g.conf /\ h.pix = g.pix /\ h.exposed = g.exposed \ names
  BY DEF Homes, Locked
<1>. HIDE DEF h
<1>2. HomeWhole(h)
  BY <1>1 DEF HomeWhole
<1>. QED
  BY <1>1, <1>2 DEF h

LEMMA LockDownWhole ==
    ASSUME MigrateInv, LockDown
    PROVE  FilesWhole' /\ StepInv'
<1>0. run \in Runs /\ run.pc = "lockdown" /\ home.conf[Config] = Absent
  BY Typed DEF LockDown, At, MigrateInv, StepInv, LegacyInv, MovingLegacy
<1>. DEFINE h == Locked(home, {run.aside})
            lock(g) == Locked(g, {IF g.conf[Config] # Absent THEN Config ELSE run.aside})
<1>1. SetHome(h, {lock(g) : g \in homeDisk})
  BY DEF LockDown
<1>2. HomeWhole(h) /\ h.exposed = home.exposed \ {run.aside} /\ h.conf = home.conf
  BY Typed, LockedWhole
<1>5. ASSUME NEW g \in homeDisk PROVE HomeWhole(lock(g))
  <2>1. g \in Homes /\ HomeWhole(g)
    BY Typed DEF MigrateInv, FilesWhole
  <2>2. \A names : HomeWhole(Locked(g, names))
    BY <2>1, LockedWhole
  <2>. QED
    BY <2>2
<1>. HIDE DEF h, lock
<1>3. /\ run'.plan = run.plan /\ run'.place = run.place /\ run'.cmd = run.cmd
      /\ run'.aside = run.aside
      /\ run'.pc \in {"redbaside", "sweep", "homesync"}
      /\ run'.pc = "homesync" => run.cmd # "identity"
      /\ run'.result \in {run.result, "StartedClean"}
  BY <1>0 DEF LockDown, Runs
<1>4. run'.aside \notin h.exposed
  BY <1>2, <1>3
<1>. QED
  BY <1>0, <1>1, <1>2, <1>3, <1>4, <1>5, HomeStepWhole DEF MovingLegacy

LEMMA RedbAsideWhole ==
    ASSUME MigrateInv, RedbAside
    PROVE  FilesWhole' /\ StepInv'
<1>0. /\ run \in Runs /\ run.pc = "redbaside" /\ home \in Homes /\ HomeWhole(home)
      /\ home.conf[Config] = Absent /\ run.aside \in ConfNames /\ run.aside \notin home.exposed
  BY Typed DEF RedbAside, At, MigrateInv, StepInv, LegacyInv, MovingLegacy, Runs
<1>. PICK name \in PixNames :
        SetHome(PixMoved(home, name), {PixMoved(h, name) : h \in AllRenamed})
  BY DEF RedbAside
<1>1. ASSUME NEW g \in Homes, HomeWhole(g)
      PROVE  /\ HomeWhole(PixMoved(g, name)) /\ PixMoved(g, name).conf = g.conf
             /\ PixMoved(g, name).exposed \subseteq g.exposed \cup {name}
  <2>. DEFINE h == PixMoved(g, name)
  <2>1. /\ h.conf = g.conf /\ h.exposed \subseteq g.exposed \cup {name}
        /\ \A n \in PixNames : h.pix[n] \in {g.pix[m] : m \in PixNames} \cup {Absent}
    BY HomeNamesApart DEF Homes, Rename, MoveExposed, PixMoved
  <2>. HIDE DEF h
  <2>2. HomeWhole(h)
    BY <1>1, <2>1, AbsentAssumption, HomeNamesApart DEF HomeWhole
  <2>. QED
    BY <2>1, <2>2 DEF h
<1>2. \A x \in {PixMoved(h, name) : h \in AllRenamed} : HomeWhole(x)
  BY <1>1, AllRenamedWhole
<1>3. /\ run'.pc = "sweep" /\ run'.plan = run.plan /\ run'.place = run.place
      /\ run'.result = run.result /\ run'.aside = run.aside
  BY <1>0 DEF RedbAside, Runs
<1>. DEFINE h == PixMoved(home, name)
<1>4. HomeWhole(h) /\ h.conf = home.conf /\ h.exposed \subseteq home.exposed \cup {name}
  BY <1>0, <1>1
<1>6. SetHome(h, {PixMoved(g, name) : g \in AllRenamed})
  OBVIOUS
<1>. HIDE DEF h
<1>5. run'.aside \notin h.exposed
  BY <1>0, <1>4, <1>3, HomeNamesApart
<1>. QED
  BY <1>0, <1>2, <1>3, <1>4, <1>5, <1>6, HomeStepWhole DEF MovingLegacy

LEMMA SecureLeftoversWhole ==
    ASSUME MigrateInv, SecureLeftovers
    PROVE  FilesWhole' /\ StepInv'
<1>0. /\ run \in Runs /\ run.pc = "sweep" /\ home \in Homes /\ HomeWhole(home)
      /\ home.conf[Config] = Absent /\ run.aside \notin home.exposed
  BY Typed DEF SecureLeftovers, At, MigrateInv, StepInv, LegacyInv, MovingLegacy
<1>1. PICK missed :
        /\ SetHome(Locked(home, Securable \ missed), SweepLeaves(missed))
        /\ run' = [run EXCEPT !.pc = "homesync", !.effort = IF missed = {} THEN @ ELSE "missed"]
  BY DEF SecureLeftovers
<1>. DEFINE h == Locked(home, Securable \ missed)
<1>2. /\ HomeWhole(h) /\ h.exposed = home.exposed \ (Securable \ missed)
      /\ h.conf = home.conf
  BY <1>0, LockedWhole
<1>. HIDE DEF h
<1>3. /\ run'.plan = run.plan /\ run'.place = run.place /\ run'.pc = "homesync"
      /\ run'.aside = run.aside /\ run'.result = run.result /\ run'.uid = run.uid
      /\ run'.effort = "ok" => missed = {}
  BY <1>0, <1>1 DEF Runs
<1>4. missed = {} => h.exposed \cap ConfNames = {}
  BY <1>0, <1>2 DEF Securable, HomeWhole
<1>5. missed = {} /\ run.uid = "service" => h.exposed = {}
  BY <1>0, <1>2, <1>4 DEF Securable, Homes
<1>6. SetHome(h, SweepLeaves(missed))
  BY <1>1 DEF h
<1>7. ASSUME NEW x \in SweepLeaves(missed)
      PROVE  HomeWhole(x)
  <2>1. PICK g \in AllRenamed : \E taken : x = Locked(g, taken)
    BY <1>7 DEF SweepLeaves
  <2>2. PICK taken : x = Locked(g, taken)
    BY <2>1
  <2>. QED
    BY <2>1, <2>2, AllRenamedWhole, LockedWhole
<1>. QED
  BY <1>0, <1>2, <1>3, <1>4, <1>5, <1>6, <1>7, HomeStepWhole DEF MovingLegacy

LEMMA HomeSyncWhole ==
    ASSUME MigrateInv, HomeSync
    PROVE  FilesWhole' /\ StepInv'
<1>0. /\ run \in Runs /\ run.pc = "homesync" /\ home.conf[Config] = Absent
      /\ run.place = "data" /\ nets' = nets /\ disk' = disk /\ home' = home
      /\ homeDisk' \subseteq homeDisk /\ HomeWhole(home) /\ anchored' = anchored
  BY Typed, AllRenamedHolds DEF HomeSync, netFiles, At, MigrateInv, StepInv, LegacyInv, MovingLegacy
<1>4. \A p : Left(p)' = Left(p)
  BY <1>0 DEF Left
<1>1. FilesWhole'
  BY <1>0, <1>4 DEF MigrateInv, FilesWhole
<1>2. CASE run' = Exited(run.result, "none")
  BY <1>1, <1>2, Over
<1>3. CASE run' = [run EXCEPT !.pc = "reset"]
  <2>1. run'.pc = "reset" /\ run'.place = "data" /\ run'.plan = run.plan
    BY <1>0, <1>3 DEF Runs
  <2>2. InstallInv' /\ RestoreInv' /\ LegacyInv'
    BY <1>0, <2>1
       DEF InstallInv, RestoreInv, LegacyInv, DataReady, CacheReady, Installed, MovingLegacy
  <2>. QED
    BY <1>1, <2>1, <2>2, MoveOnPlan DEF StepInv
<1>. QED
  BY <1>2, <1>3 DEF HomeSync

LEMMA ResetDirWhole ==
    ASSUME MigrateInv, ResetDir
    PROVE  /\ FilesWhole' /\ StepInv'
           /\ nets'[run.place][Live] = Absent /\ home' = home
           /\ \A q \in Places : q # run.place => nets'[q] = nets[q]
<1>. DEFINE p == run.place
<1>0. /\ run \in Runs /\ run.pc = "reset" /\ p \in Places /\ home.conf[Config] = Absent
      /\ nets[p] \in NetDirs /\ NetWhole(nets[p]) /\ PlanWhole
  BY Typed DEF ResetDir, At, MigrateInv, StepInv, LegacyInv
<1>1. /\ FilesWhole' /\ nets'[p][Live] = Absent /\ home' = home
      /\ \A q \in Places : q # p => nets'[q] = nets[q]
  <2>1. CASE nets[p][Live] = Absent /\ UNCHANGED files
    BY <2>1, SameWhole DEF Quiet, files
  <2>2. ASSUME NEW name \in AsideNets, SetNets(p, Rename(nets[p], Live, name))
        PROVE  /\ FilesWhole' /\ nets'[p][Live] = Absent /\ home' = home
               /\ \A q \in Places : q # p => nets'[q] = nets[q]
    <3>1. name \in NetNames /\ name # Live /\ Live \in NetNames /\ Live \in Kept
      BY NamesApart, NamesTyped
    <3>2. /\ Rename(nets[p], Live, name)[Live] = Absent
          /\ NetWhole(Rename(nets[p], Live, name))
      BY <1>0, <3>1, RenameMoves, RenameWhole DEF NetWhole
    <3>. QED
      BY <1>0, <2>2, <3>2, NetsSet, NetsWhole DEF SetNets
  <2>. QED
    BY <2>1, <2>2 DEF ResetDir
<1>2. \/ \E r : run' = Exited(r, "none")
      \/ p = "data" /\ run'.pc = "reset" /\ run'.place = "cache" /\ run'.plan = run.plan
  <2>. DEFINE m == [run EXCEPT !.result = "StartedClean"]
  <2>1. m \in Runs /\ m.place = p /\ m.pc = run.pc /\ m.plan = run.plan
    BY <1>0 DEF Runs, Results
  <2>. HIDE DEF m
  <2>2. \E x \in {run, m} : \E y : run' = AfterUndo(x, Exited(y, "none"))
    BY DEF ResetDir, m
  <2>. QED
    BY <1>0, <2>1, <2>2 DEF AfterUndo, Runs
<1>3. CASE \E r : run' = Exited(r, "none")
  BY <1>1, <1>3, Over
<1>4. CASE p = "data" /\ run'.pc = "reset" /\ run'.place = "cache" /\ run'.plan = run.plan
  <2>1. InstallInv' /\ RestoreInv' /\ LegacyInv'
    BY <1>0, <1>1, <1>4
       DEF InstallInv, RestoreInv, LegacyInv, DataReady, CacheReady, Installed, MovingLegacy
  <2>. QED
    BY <1>1, <1>4, <2>1, MoveOnPlan DEF StepInv
<1>. QED
  BY <1>1, <1>2, <1>3, <1>4

-----------------------------------------------------------------------------
(* Failures around a run, the other programs, and the initial states.       *)

LEMMA PowerCutWhole ==
    ASSUME MigrateInv, PowerCut
    PROVE  FilesWhole' /\ StepInv'
<1>1. PICK n \in [Places -> UNION {Left(p) : p \in Places}] :
         /\ \A p \in Places : n[p] \in Left(p)
         /\ disk' = [p \in Places |-> {n[p]}]
         /\ anchored' = anchored \cup {p \in Places : n[p] # Nothing}
  BY DEF PowerCut
<1>2. PICK h \in homeDisk : home' = h /\ homeDisk' = {h}
  BY DEF PowerCut
<1>4. ASSUME NEW p \in Places
      PROVE  Left(p)' = {n[p]}
  BY <1>1 DEF Left
<1>3. FilesWhole'
  BY <1>1, <1>2, <1>4 DEF MigrateInv, FilesWhole
<1>. QED
  BY <1>3, Over DEF PowerCut

LEMMA NewDirsWhole ==
    ASSUME NEW i \in Ids, NEW safe \in BOOLEAN, NEW c, Whole(c)
    PROVE  Whole(NewData(i)) /\ Whole(NewCache(c, i, safe))
<1>1. Whole([Empty EXCEPT !["id"] = i, !["pass"] = i]) /\ Whole([Empty EXCEPT !["safe"] = i])
  BY AbsentAssumption DEF Whole, Empty, Files
<1>. QED
  BY <1>1, EmptyWhole DEF NewData, NewCache

LEMMA ClientStartWhole ==
    ASSUME MigrateInv, NEW i \in Ids, NEW safe \in BOOLEAN, ClientStart(i, safe)
    PROVE  FilesWhole' /\ StepInv'
<1>1. /\ nets["data"] \in NetDirs /\ nets["cache"] \in NetDirs
      /\ NetWhole(nets["data"]) /\ NetWhole(nets["cache"])
      /\ HomeWhole(home) /\ TypeOK
  BY Typed DEF Places, MigrateInv, SafetyInv, TypeInv
<1>2. /\ nets'["data"] = [nets["data"] EXCEPT ![Live] = NewData(i)]
      /\ nets'["cache"] = [nets["cache"] EXCEPT ![Live] = NewCache(nets["cache"][Live], i, safe)]
  BY <1>1, ClientStartNets
<1>3. /\ disk' = [p \in Places |-> {nets'[p]}] /\ homeDisk' = homeDisk /\ home' = home
      /\ run' = Exited("none", "none") /\ anchored' = Places
  BY DEF ClientStart
<1>4. Whole(NewData(i)) /\ Whole(NewCache(nets["cache"][Live], i, safe))
  BY <1>1, NamesApart, NewDirsWhole DEF NetWhole
<1>5. ASSUME NEW d \in NetDirs, NetWhole(d), NEW l, Whole(l)
      PROVE  NetWhole([d EXCEPT ![Live] = l])
  BY <1>5, KeptNames DEF NetWhole, NetDirs
<1>6. NetWhole(nets'["data"]) /\ NetWhole(nets'["cache"])
  BY <1>1, <1>2, <1>4, <1>5
<1>7. FilesWhole'
  <2>1. Left("data")' = {nets'["data"]} /\ Left("cache")' = {nets'["cache"]}
    BY <1>3 DEF Left, Places
  <2>. QED
    BY <1>1, <1>3, <1>6, <2>1 DEF MigrateInv, FilesWhole, Places
<1>. QED
  BY <1>3, <1>7, Over

LEMMA LegacyStartWhole ==
    ASSUME MigrateInv, NEW i \in Ids, LegacyStart(i)
    PROVE  FilesWhole' /\ StepInv'
<1>1. /\ home \in Homes /\ HomeWhole(home) /\ TypeOK /\ nets' = nets
      /\ disk' = disk /\ anchored' = anchored /\ homeDisk' = {home'}
      /\ run' = Exited("none", "none")
  BY Typed DEF MigrateInv, SafetyInv, TypeInv, LegacyStart, netFiles
<1>2. /\ home'.conf = [home.conf EXCEPT ![Config] = NewData(i)]
      /\ home'.pix = [home.pix EXCEPT ![Pix] = IF home.pix[Pix] = Absent THEN i ELSE home.pix[Pix]]
  BY <1>1, LegacyStartHome
<1>3. home'.exposed = home.exposed \cup {Config, Pix}
  <2>. DEFINE c == [home.conf EXCEPT ![Config] = [Empty EXCEPT !["id"] = i, !["pass"] = i]]
              x == [home.pix EXCEPT ![Pix] = IF home.pix[Pix] = Absent THEN i ELSE home.pix[Pix]]
              e == home.exposed \cup {Config, Pix}
  <2>1. home' = [home EXCEPT !.conf = c, !.pix = x, !.exposed = e]
    BY <1>1 DEF LegacyStart, Homes
  <2>. HIDE DEF c, x, e
  <2>2. home'.exposed = e
    BY <1>1, <2>1 DEF Homes
  <2>. QED
    BY <2>2 DEF e
<1>4. Whole(NewData(i)) /\ NewData(i) # Absent
  BY NewDirsWhole, NewDirsTyped, NotADirAssumption DEF Whole
<1>5. HomeWhole(home')
  BY <1>1, <1>2, <1>3, <1>4, AbsentAssumption, HomeNamesApart DEF HomeWhole, Homes
<1>6. FilesWhole'
  <2>1. \A p : Left(p)' = Left(p)
    BY <1>1 DEF Left
  <2>. QED
    BY <1>1, <1>5, <2>1 DEF MigrateInv, FilesWhole
<1>. QED
  BY <1>1, <1>6, Over

LEMMA InitWhole ==
    ASSUME Init
    PROVE  MigrateInv
<1>1. run = Exited("none", "none") /\ homeDisk = {home}
      /\ nets = [p \in Places |-> [n \in NetNames |-> Absent]]
      /\ disk = [p \in Places |-> {nets[p]}]
  BY DEF Init
<1>2. run.pc = "idle" /\ run.plan = Empty
  BY <1>1 DEF Exited
<1>3. StepInv /\ CommandInv
  BY <1>2, EmptyWhole
     DEF StepInv, PlanWhole, InstallInv, RestoreInv, LegacyInv, CommandInv, DataReady, CacheReady,
         Installed, MovingLegacy, Installing, Undoing
<1>4. \A p \in Places : \A d \in Left(p) : NetWhole(d)
  BY <1>1, NothingWhole DEF Left, Nothing
<1>5. PICK conf, redb, e :
         /\ home = LegacyHome(conf, redb, e)
         /\ Whole(conf) /\ redb # Torn /\ e \subseteq {Config, Pix}
         /\ Config \in e => conf # Absent
  <2>1. ASSUME NEW i \in Ids, NEW opt \in SUBSET {"pass", "safe"}, NEW redb \in BOOLEAN,
               NEW owner \in {{}, {Config}},
               home = LegacyHome([f \in Files |-> IF f \in {"id"} \cup opt THEN i ELSE Absent],
                                 IF redb THEN i ELSE Absent,
                                 owner \cup (IF redb THEN {Pix} ELSE {}))
        PROVE  \E conf, r, e :
                  /\ home = LegacyHome(conf, r, e)
                  /\ Whole(conf) /\ r # Torn /\ e \subseteq {Config, Pix}
                  /\ Config \in e => conf # Absent
    <3>. DEFINE conf == [f \in Files |-> IF f \in {"id"} \cup opt THEN i ELSE Absent]
    <3>1. conf \in Dirs
      BY DEF Dirs, Contents
    <3>2. conf # Absent /\ Whole(conf)
      BY <3>1, NotADirAssumption, AbsentAssumption DEF Whole
    <3>. HIDE DEF conf
    <3>3. (IF redb THEN i ELSE Absent) # Torn
      BY AbsentAssumption
    <3>4. owner \cup (IF redb THEN {Pix} ELSE {}) \subseteq {Config, Pix}
      OBVIOUS
    <3>. QED
      BY <2>1, <3>2, <3>3, <3>4 DEF conf
  <2>2. ASSUME NEW conf \in {Absent, Empty},
               home = LegacyHome(conf, Absent, IF conf = Empty THEN {Config} ELSE {})
        PROVE  \E c, r, e :
                  /\ home = LegacyHome(c, r, e)
                  /\ Whole(c) /\ r # Torn /\ e \subseteq {Config, Pix}
                  /\ Config \in e => c # Absent
    <3>1. Empty # Absent
      BY EmptyIsDir, NotADirAssumption
    <3>2. Whole(conf) /\ Absent # Torn
      BY EmptyWhole, AbsentAssumption DEF Whole
    <3>3. /\ (IF conf = Empty THEN {Config} ELSE {}) \subseteq {Config, Pix}
          /\ Config \in (IF conf = Empty THEN {Config} ELSE {}) => conf # Absent
      BY <3>1
    <3>. QED
      BY <2>2, <3>2, <3>3
  <2>. QED
    BY <2>1, <2>2 DEF Init
<1>6. HomeWhole(home)
  BY <1>5, AbsentAssumption, HomeNamesApart DEF HomeWhole, LegacyHome, Whole
<1>7. FilesWhole
  BY <1>1, <1>4, <1>6 DEF FilesWhole
<1>. QED
  BY <1>3, <1>7, InitSafe DEF MigrateInv

-----------------------------------------------------------------------------
\* A step leaves the command as it is, ends it, or begins another.
LEMMA CommandKept ==
    ASSUME MigrateInv, Next
    PROVE  CommandInv'
<1>. USE DEF At
<1>0. run \in Runs
  BY Typed
<1>1. CASE \E r, at : run' = Exited(r, at)
  BY <1>1 DEF CommandInv, Exited, Installing, Undoing
<1>2. CASE \E cmd, pc, t, r : /\ run' = Started(cmd, pc, t, r)
                              /\ cmd = "identity" \/ pc \notin Installing \cup Undoing
  BY <1>2 DEF CommandInv, Started, Exited
<1>3. CASE run'.cmd = run.cmd /\ run.pc \in Installing \cup Undoing
  <2>1. CommandInv
    BY DEF MigrateInv
  <2>2. run.cmd = "identity"
    BY <1>3, <2>1 DEF CommandInv
  <2>. QED
    BY <1>3, <2>2 DEF CommandInv
<1>4. CASE run'.pc \in MovingLegacy \cup {"reset"}
  BY <1>4 DEF CommandInv, MovingLegacy, Installing, Undoing
<1>5. CASE BeginRun
  <2>. DEFINE Begun == \E cmd, pc, t, r : /\ run' = Started(cmd, pc, t, r)
                                          /\ cmd = "identity" \/ pc \notin Installing \cup Undoing
              Ended == \E r, at : run' = Exited(r, at)
  <2>1. \A t, r, pc : run' = Started("identity", pc, t, r) => Begun
    OBVIOUS
  <2>2. \A t, r, cmd : /\ run' = Started(cmd, "cfgaside", t, r) => Begun
                       /\ run' = Started(cmd, "reset", t, r) => Begun
    BY DEF Installing, Undoing
  <2>3. \A r, at : run' = Exited(r, at) => Ended
    OBVIOUS
  <2>. HIDE DEF Begun, Ended
  <2>4. ASSUME NEW dry \in BOOLEAN, NEW t \in Stamps, IdentityAlready(dry, t)
        PROVE  Begun \/ Ended
    BY <2>1, <2>3, <2>4 DEF IdentityAlready
  <2>5. ASSUME NEW replace \in BOOLEAN, NEW t \in Stamps, IdentityInstall(replace, t)
        PROVE  Begun
    BY <2>1, <2>5 DEF IdentityInstall
  <2>6. ASSUME NEW cmd \in Commands \ {"identity"}, NEW t \in Stamps, StartClean(cmd, t)
        PROVE  Begun \/ Ended
    BY <2>2, <2>3, <2>6 DEF StartClean
  <2>7. \A r, at : Ends(r, at) => Ended
    BY <2>3 DEF Ends
  <2>8. Begun \/ Ended
    BY <1>5, <2>4, <2>5, <2>6, <2>7
       DEF BeginRun, IdentityNothing, IdentityRefused, IdentityUnreadable, IdentityConflict,
           IdentityDryRun, StartCleanRefused, StartCleanUnreadable
  <2>. QED
    BY <1>1, <1>2, <2>8 DEF Begun, Ended
<1>6. CASE Environment
  BY <1>1, <1>6 DEF Environment, Killed, PowerCut, ClientStart, LegacyStart, Ends
<1>7. ASSUME NEW r \in Runs
      PROVE  AfterAside(r).cmd = r.cmd
  BY <1>0 DEF AfterAside, Runs
<1>8. CASE MoveAside
  <2>1. run.pc \in Installing
    BY <1>8 DEF MoveAside, Installing
  <2>2. \A name \in AsideNets : /\ [run EXCEPT !.replaced[run.place] = name] \in Runs
                                /\ [run EXCEPT !.replaced[run.place] = name].cmd = run.cmd
    BY <1>0 DEF Runs
  <2>3. \E r \in Runs : r.cmd = run.cmd /\ run' = AfterAside(r)
    BY <1>0, <1>8, <2>2 DEF MoveAside
  <2>. QED
    BY <1>3, <1>7, <2>1, <2>3
<1>9. CASE CreateNetworks \/ MoveAsideFails \/ CreateStaging
           \/ (\E f \in Files : CopyFile(f) \/ VerifyCopy(f))
           \/ CopiesDone \/ WriteMarker \/ SealStaging \/ StageFails
  <2>1. run.pc \in Installing
    BY <1>9 DEF CreateNetworks, MoveAsideFails, CreateStaging, CopyFile, VerifyCopy, CopiesDone,
                WriteMarker, SealStaging, StageFails, Installing
  <2>2. run'.cmd = run.cmd
    BY <1>0, <1>9
       DEF CreateNetworks, MoveAsideFails, CreateStaging, CopyFile, VerifyCopy, CopiesDone,
           WriteMarker, SealStaging, AfterSeal, StageFails, Failed, Runs
  <2>. QED
    BY <1>3, <2>1, <2>2
<1>10. CASE PublishData \/ PublishCache \/ UndoPublish \/ PublishSyncFails
  <2>1. run.pc \in Installing \cup Undoing
    BY <1>10 DEF PublishData, PublishCache, UndoPublish, PublishSyncFails, Installing, Undoing
  <2>2. run'.cmd = run.cmd
    BY <1>0, <1>10 DEF PublishData, PublishCache, UndoPublish, PublishSyncFails, Failed, Runs
  <2>. QED
    BY <1>3, <2>1, <2>2
<1>11. CASE PublishSync
  <2>1. run.pc \in Installing /\ run'.cmd = run.cmd
    BY <1>0, <1>11 DEF PublishSync, Installing, Runs
  <2>. QED
    BY <1>3, <2>1
<1>12. CASE RemoveStaging
  <2>1. run.pc \in Undoing /\ run'.cmd = run.cmd
    BY <1>0, <1>12 DEF RemoveStaging, AfterUndo, Undoing, Runs
  <2>. QED
    BY <1>3, <2>1
<1>13. CASE Restore
  <2>. DEFINE m == [run EXCEPT !.effort = "missed"]
  <2>1. m \in Runs /\ m.cmd = run.cmd
    BY <1>0 DEF Runs
  <2>. HIDE DEF m
  <2>2. \E r \in {run, m} : run' = AfterUndo(r, Exited(run.result, run.failedAt))
    BY <1>13 DEF Restore, m
  <2>3. run.pc \in Undoing
    BY <1>13 DEF Restore, Undoing
  <2>4. \A r \in {run, m} : [r EXCEPT !.place = "cache"].cmd = run.cmd
    BY <1>0, <2>1 DEF Runs
  <2>. QED
    BY <1>1, <1>3, <2>2, <2>3, <2>4 DEF AfterUndo
<1>14. CASE ConfigAside \/ LockDown \/ RedbAside \/ SecureLeftovers
  <2>1. run'.pc \in MovingLegacy
    BY <1>0, <1>14 DEF ConfigAside, LockDown, RedbAside, SecureLeftovers, MovingLegacy, Runs
  <2>. QED
    BY <1>4, <2>1
<1>15. CASE HomeSync
  <2>1. [run EXCEPT !.pc = "reset"].pc = "reset"
    BY <1>0 DEF Runs
  <2>. QED
    BY <1>1, <1>4, <1>15, <2>1 DEF HomeSync
<1>16. CASE ResetDir
  <2>. DEFINE m == [run EXCEPT !.result = "StartedClean"]
  <2>1. m \in Runs /\ m.pc = "reset" /\ run.pc = "reset"
    BY <1>0, <1>16 DEF ResetDir, Runs, Results
  <2>. HIDE DEF m
  <2>2. \E x \in {run, m} : \E y : run' = AfterUndo(x, Exited(y, "none"))
    BY <1>16 DEF ResetDir, m
  <2>3. \A x \in {run, m} : [x EXCEPT !.place = "cache"].pc = "reset"
    BY <1>0, <2>1 DEF Runs
  <2>. QED
    BY <1>1, <1>4, <2>2, <2>3 DEF AfterUndo
<1>17. CASE CreateNetworksFails \/ LegacyFails \/ ResetFails
  BY <1>1, <1>17 DEF CreateNetworksFails, LegacyFails, ResetFails, Ends
<1>. QED
  BY <1>5, <1>6, <1>8, <1>9, <1>10, <1>11, <1>12, <1>13, <1>14, <1>15, <1>16, <1>17
     DEF Next, RunStep

LEMMA InstallStepsWhole ==
    ASSUME MigrateInv,
           \/ CreateNetworks \/ CreateNetworksFails \/ MoveAside \/ MoveAsideFails
           \/ CreateStaging \/ (\E f \in Files : CopyFile(f) \/ VerifyCopy(f))
           \/ CopiesDone \/ WriteMarker \/ SealStaging \/ StageFails
           \/ PublishData \/ PublishCache \/ UndoPublish \/ PublishSync \/ PublishSyncFails
           \/ RemoveStaging \/ Restore
    PROVE  FilesWhole' /\ StepInv'
<1>1. CASE CreateNetworksFails
  BY <1>1, EndWhole DEF CreateNetworksFails
<1>2. CASE MoveAsideFails
  BY <1>2, FailWhole DEF Quiet, MoveAsideFails, Undoing, At, files
<1>. QED
  BY <1>1, <1>2, CreateNetworksWhole, MoveAsideWhole, CreateStagingWhole, CopyFileWhole,
     VerifyCopyWhole, CopiesDoneWhole, WriteMarkerWhole, SealStagingWhole, StageFailsWhole,
     PublishDataWhole, PublishCacheWhole, UndoPublishWhole, PublishSyncWhole,
     PublishSyncFailsWhole, RemoveStagingWhole, RestoreWhole

LEMMA LegacyStepsWhole ==
    ASSUME MigrateInv,
           \/ ConfigAside \/ LockDown \/ RedbAside \/ SecureLeftovers \/ HomeSync \/ LegacyFails
           \/ ResetDir \/ ResetFails
    PROVE  FilesWhole' /\ StepInv'
<1>1. CASE LegacyFails \/ ResetFails
  BY <1>1, EndWhole DEF LegacyFails, ResetFails
<1>. QED
  BY <1>1, ConfigAsideWhole, LockDownWhole, RedbAsideWhole, SecureLeftoversWhole,
     HomeSyncWhole, ResetDirWhole

LEMMA EnvironmentWhole ==
    ASSUME MigrateInv, Environment
    PROVE  FilesWhole' /\ StepInv'
<1>1. CASE Killed
  BY <1>1, EndWhole DEF Killed
<1>. QED
  BY <1>1, PowerCutWhole, ClientStartWhole, LegacyStartWhole DEF Environment

LEMMA StepWhole == MigrateInv /\ [Next]_vars => MigrateInv'
<1>. SUFFICES ASSUME MigrateInv, [Next]_vars PROVE MigrateInv'
  OBVIOUS
<1>1. SafetyInv'
  BY StepSafe DEF MigrateInv
<1>2. CASE Next
  <2>1. FilesWhole' /\ StepInv'
    BY <1>2, BeginWhole, InstallStepsWhole, LegacyStepsWhole, EnvironmentWhole DEF Next, RunStep
  <2>. QED
    BY <1>1, <1>2, <2>1, CommandKept DEF MigrateInv
<1>3. CASE UNCHANGED vars
  <2>1. run' = run /\ nets' = nets /\ disk' = disk /\ home' = home /\ UNCHANGED files
    BY <1>3 DEF vars, files
  <2>2. PlanWhole' /\ \A p : Full(run.plan, p)' = Full(run.plan, p)
    BY <2>1, MoveOnPlan
  <2>3. InstallInv'
    BY <2>1, <2>2
       DEF MigrateInv, StepInv, InstallInv, DataReady, CacheReady, Installed, InPlace, Staged,
           Copied
  <2>4. RestoreInv'
    BY <2>1 DEF MigrateInv, StepInv, RestoreInv, Undoable, Untouched, Cleared, SetAside, Staged
  <2>5. LegacyInv' /\ CommandInv'
    BY <2>1 DEF MigrateInv, StepInv, LegacyInv, CommandInv
  <2>. QED
    BY <1>1, <2>1, <2>2, <2>3, <2>4, <2>5, SameWhole DEF Quiet, MigrateInv, StepInv
<1>. QED
  BY <1>2, <1>3

LEMMA AlwaysWhole == Spec => []MigrateInv
  BY InitWhole, StepWhole, PTL DEF Spec

-----------------------------------------------------------------------------
(* Results.                                                                 *)

\* No networks/<network> dir is ever half-written: whatever step fails, is killed or loses
\* power, and whatever part of the unsynced renames the disk kept, a live dir holds no torn
\* file, and what publish put there is exactly what the plan read from the legacy home, on disk
\* as well, since stage had synced each file and dir of it before.
THEOREM PublishedIsWhole == Spec => []PublishedWhole
<1>1. MigrateInv => PublishedWhole
  <2>. SUFFICES ASSUME MigrateInv PROVE PublishedWhole
    OBVIOUS
  <2>1. ASSUME NEW p \in Places, NEW d \in Left(p), d[Live] # Absent, NEW f \in Files
        PROVE  d[Live][f] # Torn
    BY <2>1, NamesApart DEF MigrateInv, FilesWhole, NetWhole, Whole
  <2>2. ASSUME NEW p \in Places, Published(p)
        PROVE  {nets[p][Live]} \cup Partly(nets[p][Live], unsynced[p]) = {Full(run.plan, p)}
    <3>1. nets[p][Live] = Full(run.plan, p)
      BY <2>2 DEF MigrateInv, StepInv, InstallInv, Installed, InPlace, Published, Places
    <3>2. unsynced[p] = {}
      BY <2>2 DEF MigrateInv, SafetyInv, SyncInv, Published, Places
    <3>3. nets[p][Live] \in Dirs \cup {Absent}
      BY Typed, NamesTyped DEF NetDirs
    <3>. QED
      BY <3>1, <3>2, <3>3, PartlyAll
  <2>. QED
    BY <2>1, <2>2 DEF PublishedWhole
<1>. QED
  BY <1>1, AlwaysWhole, PTL

\* A run that installed the identity touches the legacy home only once no power cut can take
\* the installed one away, where networks/ itself was on disk: every form of it that a cut may
\* leave has the live dir with all of the plan's files.
THEOREM LegacyGoesDurably == Spec => []InstalledIsDurable
<1>1. MigrateInv => InstalledIsDurable
  <2>. SUFFICES ASSUME MigrateInv, Installed, NEW p \in anchored, NEW d \in Left(p)
                PROVE  d[Live] = Full(run.plan, p)
    BY DEF InstalledIsDurable, Installed
  <2>1. p \in Places
    BY DEF MigrateInv, SafetyInv, TypeInv, TypeOK
  <2>2. d \in disk[p]
    BY DEF Left
  <2>. QED
    BY <2>1, <2>2 DEF MigrateInv, StepInv, InstallInv, InPlace, Places
<1>. QED
  BY <1>1, AlwaysWhole, PTL

\* A step other than these does not end a run with a result of its own.
LEMMA EndsBy ==
    ASSUME MigrateInv, Next, run.pc # "idle", run'.pc = "idle"
    PROVE  \/ run'.result = "Crashed"
           \/ CreateNetworksFails \/ Restore \/ HomeSync \/ LegacyFails \/ ResetDir \/ ResetFails
<1>. USE DEF At
<1>0. run \in Runs
  BY Typed
<1>1. ~BeginRun
  <2>1. /\ ~\E dry \in BOOLEAN, t \in Stamps : IdentityAlready(dry, t)
        /\ ~\E replace \in BOOLEAN, t \in Stamps : IdentityInstall(replace, t)
        /\ ~\E cmd \in Commands \ {"identity"}, t \in Stamps : StartClean(cmd, t)
    BY DEF IdentityAlready, IdentityInstall, StartClean
  <2>2. ~(IdentityNothing \/ IdentityRefused \/ IdentityUnreadable \/ IdentityConflict
          \/ IdentityDryRun \/ StartCleanRefused \/ StartCleanUnreadable)
    BY DEF IdentityNothing, IdentityRefused, IdentityUnreadable, IdentityConflict,
           IdentityDryRun, StartCleanRefused, StartCleanUnreadable
  <2>. QED
    BY <2>1, <2>2 DEF BeginRun
<1>2. CASE Environment
  <2>1. \A i, safe : ~ClientStart(i, safe) /\ ~LegacyStart(i)
    BY DEF ClientStart, LegacyStart
  <2>2. CASE Killed \/ PowerCut
    BY <2>2 DEF Killed, PowerCut, Ends, Exited
  <2>. QED
    BY <1>2, <2>1, <2>2 DEF Environment
<1>3. ~(CreateNetworks \/ MoveAsideFails \/ CreateStaging
        \/ (\E f \in Files : CopyFile(f) \/ VerifyCopy(f))
        \/ CopiesDone \/ WriteMarker \/ SealStaging \/ StageFails)
  BY <1>0 DEF CreateNetworks, MoveAsideFails, CreateStaging, CopyFile, VerifyCopy, CopiesDone,
              WriteMarker, SealStaging, AfterSeal, StageFails, Failed, Runs
<1>4. ~(PublishData \/ PublishCache \/ UndoPublish \/ PublishSync \/ PublishSyncFails)
  BY <1>0 DEF PublishData, PublishCache, UndoPublish, PublishSync, PublishSyncFails, Failed, Runs
<1>5. ~RemoveStaging
  BY <1>0 DEF RemoveStaging, AfterUndo, Runs
<1>6. ~(ConfigAside \/ LockDown \/ RedbAside \/ SecureLeftovers)
  BY <1>0 DEF ConfigAside, LockDown, RedbAside, SecureLeftovers, Runs
<1>7. ~MoveAside
  <2>. SUFFICES ASSUME MoveAside PROVE FALSE
    OBVIOUS
  <2>1. \A name \in AsideNets : /\ [run EXCEPT !.replaced[run.place] = name] \in Runs
                                /\ [run EXCEPT !.replaced[run.place] = name].pc = run.pc
    BY <1>0 DEF Runs
  <2>2. \E r \in Runs : r.pc = "aside" /\ run' = AfterAside(r)
    BY <1>0, <2>1 DEF MoveAside
  <2>. QED
    BY <2>2 DEF AfterAside, Runs
<1>. QED
  BY <1>1, <1>2, <1>3, <1>4, <1>5, <1>6, <1>7 DEF Next, RunStep

\* migrate_identity's error path: an installation that fails before publish's fsync ends with
\* the live dirs it found, whatever it had moved aside, staged or published by then, when its
\* own undo steps succeed.
THEOREM FailedRunsRestore == Spec => FailureRestores
<1>1. MigrateInv /\ [Next]_vars => [RunFails /\ run.failedAt # "pubsync" => AsBefore]_vars
  <2>. SUFFICES ASSUME MigrateInv, Next, RunFails, run.failedAt # "pubsync"
                PROVE  AsBefore
    OBVIOUS
  <2>0. run.pc # "idle" /\ run'.pc = "idle" /\ run'.result # "Crashed" /\ Undoable
        /\ run.pc \in Installing \cup Undoing
    BY DEF RunFails, Installing, Undoing, Stages, Undoable
  <2>1. CASE CreateNetworksFails
    BY <2>1 DEF CreateNetworksFails, At, Ends, files, MigrateInv, StepInv, RestoreInv, Untouched,
                AsBefore
  <2>2. CASE Restore
    <3>1. run.pc = "restore" /\ NoFault /\ run \in Runs /\ run.place \in Places
      BY <2>2, Typed DEF Restore, At, RunFails, NoFault
    <3>2. run.place = "cache"
      <4>1. ~Fault
        BY <3>1 DEF NoFault, Fault, MigrateInv, SafetyInv, TypeInv, TypeOK
      <4>. QED
        BY <2>0, <2>2, <3>1, <4>1, RestoresOne DEF AfterUndo, Runs, Places
    <3>3. nets["data"][Live] = run.before["data"]
      BY <2>0, <3>1, <3>2 DEF MigrateInv, StepInv, RestoreInv
    <3>4. nets'["cache"][Live] = run.before["cache"] /\ nets'["data"] = nets["data"]
      BY <2>0, <2>2, <3>1, <3>2, RestoresOne DEF Places
    <3>. QED
      BY <3>3, <3>4 DEF AsBefore, Places
  <2>3. CASE HomeSync \/ LegacyFails \/ ResetDir \/ ResetFails
    BY <2>0, <2>3 DEF HomeSync, LegacyFails, ResetDir, ResetFails, At, Installing, Undoing
  <2>. QED
    BY <2>0, <2>1, <2>2, <2>3, EndsBy
<1>. QED
  BY <1>1, AlwaysWhole, PTL DEF Spec, FailureRestores

\* A migration that ends well has taken the dir it moved aside from the service account even
\* when the sweep missed something; when nothing was missed that account can read no .config*
\* dir, and nothing at all where .config had been its own.
THEOREM MigratedIsSecured == Spec => LegacySecured
<1>. DEFINE Ended == /\ run.cmd = "identity" /\ run.pc = "homesync"
                     /\ run'.pc = "idle" /\ run'.result \in {"Migrated", "AlreadyMigrated"}
            Secured == /\ run.aside \notin home'.exposed
                       /\ run.effort = "ok" => home'.exposed \cap ConfNames = {}
                       /\ run.effort = "ok" /\ run.uid = "service" => home'.exposed = {}
<1>1. MigrateInv /\ [Next]_vars => [Ended => Secured]_vars
  <2>. SUFFICES ASSUME MigrateInv, Next, Ended
                PROVE  Secured
    OBVIOUS
  <2>1. ~(CreateNetworksFails \/ Restore \/ LegacyFails \/ ResetDir \/ ResetFails)
    BY DEF CreateNetworksFails, Restore, LegacyFails, ResetDir, ResetFails, At, Ends, Exited
  <2>2. home' = home
    BY <2>1, EndsBy DEF HomeSync
  <2>. QED
    BY <2>2 DEF MigrateInv, StepInv, LegacyInv
<1>. QED
  BY <1>1, AlwaysWhole, PTL DEF Spec, LegacySecured

\* After a start-clean that reports success the old service finds no .config, and after one
\* for a user neither networks/ dir has a live dir the client could reuse.
THEOREM CleanStart == Spec => StartsClean
<1>. DEFINE Ended == /\ run.cmd # "identity" /\ run.pc # "idle"
                     /\ run'.pc = "idle" /\ run'.result \in {"StartedClean", "NothingToDo"}
            Clean == /\ home'.conf[Config] = Absent
                     /\ run.cmd = "start-clean user" => \A p \in Places : nets'[p][Live] = Absent
<1>1. MigrateInv /\ [Next]_vars => [Ended => Clean]_vars
  <2>. SUFFICES ASSUME MigrateInv, Next, Ended
                PROVE  Clean
    OBVIOUS
  <2>0. run \in Runs /\ run.place \in Places
    BY Typed
  <2>1. ~(CreateNetworksFails \/ Restore \/ LegacyFails \/ ResetFails)
    <3>1. run.pc \notin Installing \cup Undoing
      BY DEF MigrateInv, CommandInv
    <3>. QED
      BY <3>1 DEF CreateNetworksFails, Restore, LegacyFails, ResetFails, At, Ends, Exited,
                  Installing, Undoing
  <2>2. CASE HomeSync
    <3>1. run.pc = "homesync" /\ home' = home /\ home.conf[Config] = Absent
      BY <2>2 DEF HomeSync, At, MigrateInv, StepInv, LegacyInv, MovingLegacy
    <3>2. run.cmd # "start-clean user"
      BY <2>0, <2>2 DEF HomeSync, Runs
    <3>. QED
      BY <3>1, <3>2
  <2>3. CASE ResetDir
    <3>1. /\ run.pc = "reset" /\ home.conf[Config] = Absent
          /\ run.place = "cache" => nets["data"][Live] = Absent
      BY <2>3 DEF ResetDir, At, MigrateInv, StepInv, LegacyInv
    <3>2. run.place = "cache"
      <4>. DEFINE m == [run EXCEPT !.result = "StartedClean"]
      <4>1. m \in Runs /\ m.place = run.place /\ m.pc = run.pc
        BY <2>0 DEF Runs, Results
      <4>. HIDE DEF m
      <4>2. \E x \in {run, m} : \E y : run' = AfterUndo(x, Exited(y, "none"))
        BY <2>3 DEF ResetDir, m
      <4>. QED
        BY <2>0, <3>1, <4>1, <4>2 DEF AfterUndo, Runs, Places
    <3>. QED
      BY <2>3, <3>1, <3>2, ResetDirWhole DEF Places
  <2>. QED
    BY <2>1, <2>2, <2>3, EndsBy
<1>. QED
  BY <1>1, AlwaysWhole, PTL DEF Spec, StartsClean
=============================================================================
