------------------------ MODULE MigrateSafetyProofs ------------------------
(* NothingLost for every instance of Migrate.  It is not inductive: publish *)
(* puts a copy under the live name, the undo of publish takes it back into  *)
(* a staging dir and cleanup deletes that.  What makes this safe is that    *)
(* whatever publish's undo can take back came from the plan, and that the   *)
(* plan's files are still in the legacy home until the run ends.            *)
EXTENDS MigrateProofs

PlanHeld == \A f \in Files, i \in Ids : run.plan[f] = i => HomeHolds(home, f, i)

\* Identity files in this dir are those of the plan.
FromPlan(dir) ==
    dir # Absent =>
        \A f \in Files \ {"migrated-from"}, i \in Ids : dir[f] = i => run.plan[f] = i

\* The data staging dir of this run exists and has not been published.
DataStaged ==
    \/ run.pc \in {"copy", "verify", "marker", "seal", "pubdata"}
    \/ run.pc = "mkdir" /\ run.place = "cache"

StagedFromPlan == DataStaged => FromPlan(nets["data"][Staging(run.ts)])

LiveFromPlan == run.pc \in {"pubcache", "undo"} => FromPlan(nets["data"][Live])

RunInv == PlanHeld /\ StagedFromPlan /\ LiveFromPlan

\* The current networks/ dirs are among those a power cut may leave, and the unsynced changes
\* of the legacy home have lost nothing.
DiskInv ==
    /\ \A p \in Places : nets[p] \in disk[p]
    /\ \A h \in homeDisk, f \in Files, i \in Ids : HomeHolds(home, f, i) => HomeHolds(h, f, i)

KnownHeld ==
    \A k \in known :
        /\ k[1] # "migrated-from"
        /\ \A d \in Left(PlaceOf[k[1]]) :
              HomeHolds(home, k[1], k[2]) \/ NetsHold(d, k[1], k[2])

SafetyInv == TypeInv /\ SyncInv /\ RunInv /\ DiskInv /\ KnownHeld

-----------------------------------------------------------------------------
(* What the file system operations keep.                                   *)

LEMMA KeptNames == Kept \subseteq NetNames /\ \A t \in Stamps : Staging(t) \notin Kept
  BY DEF Kept, NetNames, AsideNets, Live, Staging

LEMMA KnownTyped ==
    ASSUME TypeOK, NEW k \in known
    PROVE  k[1] \in Files /\ k[2] \in Ids /\ k = <<k[1], k[2]>> /\ PlaceOf[k[1]] \in Places
  BY DEF TypeOK, PlaceOf, Places

\* A dir renamed to a kept name that is free or empty takes its files with it.
LEMMA RenameKeeps ==
    ASSUME NEW d \in NetDirs, NEW from \in NetNames, NEW to \in Kept, from # to,
           CanRename(d, from, to), NEW f \in Files, NEW i \in Ids, NetsHold(d, f, i)
    PROVE  NetsHold(Rename(d, from, to), f, i)
<1>1. PICK n \in Kept : d[n] # Absent /\ d[n][f] = i
  BY DEF NetsHold
<1>2. n # to
  BY <1>1, AbsentAssumption DEF CanRename, Empty
<1>3. n \in NetNames /\ to \in NetNames
  BY KeptNames
<1>4. CASE n = from
  <2>1. Rename(d, from, to)[to] = d[from]
    BY <1>3 DEF Rename, NetDirs
  <2>. QED
    BY <1>1, <1>4, <2>1 DEF NetsHold
<1>5. CASE n # from
  <2>1. Rename(d, from, to)[n] = d[n]
    BY <1>2, <1>3, <1>5 DEF Rename, NetDirs
  <2>. QED
    BY <1>1, <2>1 DEF NetsHold
<1>. QED
  BY <1>4, <1>5

\* A change that leaves the kept names alone loses nothing.
LEMMA KeptAlone ==
    ASSUME NEW d, NEW e, \A n \in Kept : e[n] = d[n], NEW f, NEW i, NetsHold(d, f, i)
    PROVE  NetsHold(e, f, i)
  BY DEF NetsHold

\* Taking the live dir back into staging loses only what the live dir held.
LEMMA TakeBackKeeps ==
    ASSUME NEW d \in NetDirs, NEW t \in Stamps, NEW f \in Files, NEW i \in Ids,
           NetsHold(d, f, i), ~(d[Live] # Absent /\ d[Live][f] = i)
    PROVE  NetsHold(Rename(d, Live, Staging(t)), f, i)
<1>1. PICK n \in Kept : d[n] # Absent /\ d[n][f] = i
  BY DEF NetsHold
<1>2. n # Live /\ n # Staging(t) /\ n \in NetNames
  BY <1>1, KeptNames
<1>3. Rename(d, Live, Staging(t))[n] = d[n]
  BY <1>2 DEF Rename, NetDirs
<1>. QED
  BY <1>1, <1>3 DEF NetsHold

\* Renaming .config to a free name.
LEMMA ConfigRenameKeeps ==
    ASSUME NEW h \in Homes, NEW g \in Homes, NEW to \in ConfNames, to # Config,
           h.conf[to] = Absent, g.conf = Rename(h.conf, Config, to), g.pix = h.pix,
           NEW f \in Files, NEW i \in Ids
    PROVE  HomeHolds(g, f, i) <=> HomeHolds(h, f, i)
<1>1. /\ g.conf[to] = h.conf[Config] /\ g.conf[Config] = Absent
      /\ \A n \in ConfNames \ {to, Config} : g.conf[n] = h.conf[n]
  BY NamesTyped DEF Rename, Homes
<1>2. (\E n \in ConfNames : g.conf[n] # Absent /\ g.conf[n][f] = i)
        <=> (\E n \in ConfNames : h.conf[n] # Absent /\ h.conf[n][f] = i)
  BY <1>1, NamesTyped
<1>. QED
  BY <1>2 DEF HomeHolds

\* Renaming the PIX db to a free name: a file rename, which would overwrite another.
LEMMA PixRenameKeeps ==
    ASSUME NEW h \in Homes, NEW g \in Homes, NEW to \in PixNames, to # Pix,
           h.pix[to] = Absent, g.pix = Rename(h.pix, Pix, to), g.conf = h.conf,
           NEW f \in Files, NEW i \in Ids
    PROVE  HomeHolds(g, f, i) <=> HomeHolds(h, f, i)
<1>1. /\ g.pix[to] = h.pix[Pix] /\ g.pix[Pix] = Absent
      /\ \A n \in PixNames \ {to, Pix} : g.pix[n] = h.pix[n]
  BY NamesTyped DEF Rename, Homes
<1>2. (\E n \in PixNames : g.pix[n] = i) <=> (\E n \in PixNames : h.pix[n] = i)
  BY <1>1, NamesTyped, AbsentAssumption
<1>. QED
  BY <1>2 DEF HomeHolds

-----------------------------------------------------------------------------
(* The part of the invariant about files, by kind of change.               *)

\* All but what is on disk of a staging dir.
SameEntries == UNCHANGED <<nets, disk, anchored, home, homeDisk, known>>

LEMMA SameWhenSynced ==
    ASSUME UNCHANGED known, UNCHANGED files \/ \E u : Synced(u)
    PROVE  SameEntries
  BY DEF SameEntries, files, Synced

LEMMA SameFiles ==
    ASSUME SafetyInv, SameEntries
    PROVE  DiskInv' /\ KnownHeld'
  BY DEF SameEntries, SafetyInv, DiskInv, KnownHeld, Left

LEMMA NetsChange ==
    ASSUME SafetyInv, NEW p \in Places, NEW d \in NetDirs, Entered(p, d, {d}), UNCHANGED known,
           \A f \in Files \ {"migrated-from"}, i \in Ids :
              NetsHold(nets[p], f, i) => NetsHold(d, f, i) \/ HomeHolds(home, f, i)
    PROVE  DiskInv' /\ KnownHeld'
<1>1. /\ disk'[p] = disk[p] \cup {d} /\ nets'[p] = d
      /\ \A q \in Places \ {p} : disk'[q] = disk[q] /\ nets'[q] = nets[q]
      /\ home' = home /\ homeDisk' = homeDisk /\ known' = known /\ anchored' = anchored
  BY DEF SafetyInv, TypeInv, TypeOK, Entered
<1>2. DiskInv'
  BY <1>1 DEF SafetyInv, DiskInv
<1>7. Left(p)' = Left(p) \cup {d} /\ \A q \in Places \ {p} : Left(q)' = Left(q)
  BY <1>1 DEF Left
<1>8. \A q \in Places : nets[q] \in Left(q)
  BY DEF SafetyInv, DiskInv, Left
<1>3. ASSUME NEW k \in known', NEW e \in Left(PlaceOf[k[1]])'
      PROVE  /\ k[1] # "migrated-from"
             /\ HomeHolds(home', k[1], k[2]) \/ NetsHold(e, k[1], k[2])
  <2>1. /\ k \in known /\ k[1] \in Files /\ k[2] \in Ids /\ PlaceOf[k[1]] \in Places
        /\ k[1] # "migrated-from"
    BY <1>1, KnownTyped DEF SafetyInv, TypeInv, KnownHeld
  <2>2. CASE e \in Left(PlaceOf[k[1]])
    BY <1>1, <2>1, <2>2 DEF SafetyInv, KnownHeld
  <2>3. CASE e \notin Left(PlaceOf[k[1]])
    <3>1. PlaceOf[k[1]] = p /\ e = d
      BY <1>3, <1>7, <2>1, <2>3
    <3>2. HomeHolds(home, k[1], k[2]) \/ NetsHold(nets[p], k[1], k[2])
      BY <1>8, <2>1, <3>1 DEF SafetyInv, KnownHeld
    <3>. QED
      BY <1>1, <2>1, <3>1, <3>2
  <2>. QED
    BY <2>1, <2>2, <2>3
<1>4. \A k \in known' : k[1] # "migrated-from"
  BY <1>1 DEF SafetyInv, KnownHeld
<1>5. KnownHeld'
  BY <1>3, <1>4 DEF KnownHeld
<1>. QED
  BY <1>2, <1>5

\* Home h holds the files that the legacy home does.
SameHeld(h) == \A f \in Files, i \in Ids : HomeHolds(h, f, i) <=> HomeHolds(home, f, i)

LEMMA SameHeldBy ==
    ASSUME NEW h, NEW g, SameHeld(g), h.conf = g.conf, h.pix = g.pix
    PROVE  SameHeld(h)
  BY DEF SameHeld, HomeHolds

LEMMA HomeChange ==
    ASSUME SafetyInv, NEW h, NEW leaves, SetHome(h, leaves), UNCHANGED known,
           SameHeld(h),
           \A x \in leaves, f \in Files, i \in Ids : HomeHolds(home, f, i) => HomeHolds(x, f, i)
    PROVE  DiskInv' /\ KnownHeld'
<1>1. /\ home' = h /\ homeDisk' = homeDisk \cup leaves /\ known' = known
      /\ nets' = nets /\ disk' = disk /\ anchored' = anchored
  BY DEF SetHome, netFiles
<1>2. DiskInv'
  BY <1>1 DEF SafetyInv, DiskInv, SameHeld
<1>3. KnownHeld'
  <2>1. \A k \in known : k[1] \in Files /\ k[2] \in Ids
    BY KnownTyped DEF SafetyInv, TypeInv
  <2>2. \A q : Left(q)' = Left(q)
    BY <1>1 DEF Left
  <2>. QED
    BY <1>1, <2>1, <2>2 DEF SafetyInv, KnownHeld, SameHeld
<1>. QED
  BY <1>2, <1>3

LEMMA RunOver ==
    ASSUME NEW r, NEW at, run' = Exited(r, at)
    PROVE  RunInv'
<1>1. run'.pc = "idle" /\ run'.plan = Empty
  BY DEF Exited
<1>. QED
  BY <1>1, AbsentAssumption DEF RunInv, PlanHeld, StagedFromPlan, DataStaged, LiveFromPlan, Empty

-----------------------------------------------------------------------------
(* Each action keeps the invariant.                                        *)

LEMMA EndSafe ==
    ASSUME SafetyInv, NEW r, NEW at, Ends(r, at)
    PROVE  RunInv' /\ DiskInv' /\ KnownHeld'
  BY RunOver, SameFiles, SameWhenSynced DEF Ends

\* The plan is read from .config and the PIX db themselves.
LEMMA StartSafe ==
    ASSUME SafetyInv, NEW cmd \in Commands, cmd = "identity" => FoundLegacy,
           NEW pc \in {"networks", "cfgaside", "reset"}, NEW t, NEW r,
           run' = Started(cmd, pc, t, r), UNCHANGED <<files, known>>
    PROVE  RunInv' /\ DiskInv' /\ KnownHeld'
<1>1. home' = home
  BY DEF files
<1>2. run'.pc = pc /\ run'.plan = IF cmd = "identity" THEN Plan ELSE Empty
  BY DEF Started, Exited
<1>3. PlanHeld'
  <2>1. ASSUME NEW f \in Files, NEW i \in Ids, run'.plan[f] = i
        PROVE  HomeHolds(home, f, i)
    <3>1. cmd = "identity"
      BY <1>2, <2>1, AbsentAssumption DEF Empty
    <3>2. Plan[f] = i
      BY <1>2, <2>1, <3>1
    <3>3. CASE f = "redb"
      BY <3>2, <3>3, NamesTyped DEF Plan, HomeHolds
    <3>4. CASE f = "migrated-from"
      BY <3>2, <3>4, AbsentAssumption DEF Plan
    <3>5. CASE f \notin {"redb", "migrated-from"}
      <4>1. home.conf[Config][f] = i
        BY <3>2, <3>5 DEF Plan, Files
      <4>. QED
        BY <3>1, <4>1, NamesTyped DEF FoundLegacy, HomeHolds
    <3>. QED
      BY <3>3, <3>4, <3>5
  <2>. QED
    BY <1>1, <2>1 DEF PlanHeld
<1>4. StagedFromPlan' /\ LiveFromPlan'
  BY <1>2 DEF StagedFromPlan, DataStaged, LiveFromPlan
<1>. QED
  BY <1>3, <1>4, SameFiles, SameWhenSynced DEF RunInv

LEMMA BeginSafe ==
    ASSUME SafetyInv, BeginRun
    PROVE  RunInv' /\ DiskInv' /\ KnownHeld'
<1>1. ASSUME NEW dry \in BOOLEAN, NEW t \in Stamps, IdentityAlready(dry, t)
      PROVE  RunInv' /\ DiskInv' /\ KnownHeld'
  BY <1>1, RunOver, SameFiles, SameWhenSynced, StartSafe DEF IdentityAlready, Commands
<1>2. ASSUME NEW replace \in BOOLEAN, NEW t \in Stamps, IdentityInstall(replace, t)
      PROVE  RunInv' /\ DiskInv' /\ KnownHeld'
  BY <1>2, StartSafe DEF IdentityInstall, Commands
<1>3. ASSUME NEW cmd \in Commands \ {"identity"}, NEW t \in Stamps, StartClean(cmd, t)
      PROVE  RunInv' /\ DiskInv' /\ KnownHeld'
  BY <1>3, RunOver, SameFiles, SameWhenSynced, StartSafe DEF StartClean
<1>4. \A r, at : Ends(r, at) => RunInv' /\ DiskInv' /\ KnownHeld'
  BY EndSafe
<1>. QED
  BY <1>1, <1>2, <1>3, <1>4
     DEF BeginRun, IdentityNothing, IdentityRefused, IdentityUnreadable, IdentityConflict,
         IdentityDryRun, StartCleanRefused, StartCleanUnreadable

\* A step that keeps the plan, the files and a data staging dir already there.
LEMMA RunOnly ==
    ASSUME SafetyInv, UNCHANGED known, UNCHANGED files \/ \E u : Synced(u),
           run'.plan = run.plan, run'.ts = run.ts,
           DataStaged' => DataStaged,
           run'.pc \in {"pubcache", "undo"} => run.pc \in {"pubcache", "undo"}
    PROVE  RunInv' /\ DiskInv' /\ KnownHeld'
<1>1. SameEntries /\ nets' = nets /\ home' = home
  BY SameWhenSynced DEF SameEntries
<1>. QED
  BY <1>1, SameFiles
     DEF SafetyInv, RunInv, PlanHeld, StagedFromPlan, LiveFromPlan, FromPlan

\* Any call that fails sends the run to its error path.
LEMMA FailSafe ==
    ASSUME SafetyInv, NEW pc \in Undoing, NEW s, Failed(pc, s), UNCHANGED known,
           UNCHANGED files \/ \E u : Synced(u),
           pc = "undo" => run.pc = "pubcache"
    PROVE  RunInv' /\ DiskInv' /\ KnownHeld'
<1>1. run'.plan = run.plan /\ run'.ts = run.ts /\ run'.pc = pc
  BY DEF Failed, SafetyInv, TypeInv, TypeOK, Runs
<1>2. ~DataStaged'
  BY <1>1 DEF DataStaged, Undoing
<1>. QED
  BY <1>1, <1>2, RunOnly DEF Undoing

LEMMA StageFileSafe ==
    ASSUME SafetyInv, NEW f \in Files, NEW c \in Contents, NEW u, StageFile(f, c, u),
           UNCHANGED known,
           c \in {run.plan[f], Torn} \/ f = "migrated-from",
           run.pc \in {"copy", "marker"}, NEW pc \in {"verify", "seal"},
           run' = [run EXCEPT !.pc = pc]
    PROVE  RunInv' /\ DiskInv' /\ KnownHeld'
<1> DEFINE p == run.place
           n == Staging(run.ts)
           d == [nets[p] EXCEPT ![n][f] = c]
<1>1. /\ p \in Places /\ run.ts \in Stamps /\ n \in NetNames /\ n \notin Kept
      /\ nets[p] \in NetDirs /\ nets[p][n] \in Dirs
  BY NamesTyped, KeptNames DEF SafetyInv, TypeInv, TypeOK, RunShape, Runs, NetDirs
<1>2. /\ d[n] = [nets[p][n] EXCEPT ![f] = c]
      /\ \A m \in NetNames \ {n} : d[m] = nets[p][m]
  BY <1>1 DEF NetDirs
<1>3. d \in NetDirs
  <2>1. [nets[p][n] EXCEPT ![f] = c] \in Dirs
    BY <1>1 DEF Dirs
  <2>2. d = [nets[p] EXCEPT ![n] = [nets[p][n] EXCEPT ![f] = c]]
    BY <1>1 DEF NetDirs
  <2>. QED
    BY <1>1, <2>1, <2>2 DEF NetDirs
<1>4. Entered(p, d, {d})
  BY DEF StageFile
<1>5. DiskInv' /\ KnownHeld'
  <2>1. \A m \in Kept : d[m] = nets[p][m]
    BY <1>1, <1>2, KeptNames
  <2>2. \A g \in Files, i \in Ids : NetsHold(nets[p], g, i) => NetsHold(d, g, i)
    BY <2>1, KeptAlone
  <2>. QED
    BY <1>1, <1>3, <1>4, <2>2, NetsChange
<1>6. run'.plan = run.plan /\ run'.ts = run.ts /\ run'.pc = pc /\ home' = home
  BY <1>4 DEF SafetyInv, TypeInv, TypeOK, Runs, Entered
<1>7. FromPlan(nets["data"][n]) /\ PlanHeld
  BY DEF SafetyInv, RunInv, StagedFromPlan, DataStaged
<1>8. StagedFromPlan'
  <2>1. CASE p = "data"
    <3>1. nets'["data"][n] = [nets["data"][n] EXCEPT ![f] = c]
      BY <1>1, <1>2, <1>4, <2>1 DEF Entered, SafetyInv, TypeInv, TypeOK
    <3>2. ASSUME NEW g \in Files \ {"migrated-from"}, NEW i \in Ids, nets'["data"][n][g] = i
          PROVE  run.plan[g] = i
      <4>1. CASE g = f
        BY <1>1, <2>1, <3>1, <3>2, <4>1, AbsentAssumption DEF Dirs
      <4>2. CASE g # f
        <5>1. nets["data"][n][g] = i /\ nets["data"][n] # Absent
          BY <1>1, <2>1, <3>1, <3>2, <4>2, NotADirAssumption DEF Dirs
        <5>. QED
          BY <1>7, <5>1 DEF FromPlan
      <4>. QED
        BY <4>1, <4>2
    <3>. QED
      BY <1>6, <3>2 DEF StagedFromPlan, FromPlan
  <2>2. CASE p # "data"
    <3>1. nets'["data"] = nets["data"]
      BY <1>1, <1>4, <2>2 DEF Entered, SafetyInv, TypeInv, TypeOK, Places
    <3>. QED
      BY <1>6, <1>7, <3>1 DEF StagedFromPlan, FromPlan
  <2>. QED
    BY <2>1, <2>2
<1>. QED
  BY <1>5, <1>6, <1>7, <1>8 DEF RunInv, PlanHeld, LiveFromPlan

\* A rename within a networks/ dir, to a live or aside name.
LEMMA RenameSafe ==
    ASSUME SafetyInv, NEW p \in Places, NEW from \in NetNames, NEW to \in Kept, from # to,
           CanRename(nets[p], from, to), SetNets(p, Rename(nets[p], from, to)), UNCHANGED known
    PROVE  DiskInv' /\ KnownHeld'
<1>1. nets[p] \in NetDirs /\ to \in NetNames
  BY KeptNames DEF SafetyInv, TypeInv, TypeOK
<1>2. Rename(nets[p], from, to) \in NetDirs
  BY <1>1, RenameTyped
<1>3. \A f \in Files, i \in Ids :
         NetsHold(nets[p], f, i) => NetsHold(Rename(nets[p], from, to), f, i)
  BY <1>1, RenameKeeps
<1>. QED
  BY <1>2, <1>3, NetsChange DEF SetNets

\* A step that changes a networks/ dir but stages and publishes no data.
LEMMA PlanKept ==
    ASSUME SafetyInv, run'.plan = run.plan, home' = home, ~DataStaged',
           run'.pc \notin {"pubcache", "undo"}
    PROVE  RunInv'
  BY DEF SafetyInv, RunInv, PlanHeld, StagedFromPlan, LiveFromPlan

LEMMA InstallSafe ==
    ASSUME SafetyInv,
           \/ CreateNetworks \/ CreateNetworksFails \/ MoveAside \/ MoveAsideFails
           \/ CreateStaging \/ (\E f \in Files : CopyFile(f) \/ VerifyCopy(f))
           \/ CopiesDone \/ WriteMarker \/ SealStaging \/ StageFails
           \/ PublishData \/ PublishCache
    PROVE  RunInv' /\ DiskInv' /\ KnownHeld'
<1>. USE DEF At
<1> DEFINE p == run.place
           n == Staging(run.ts)
<1>0. /\ run \in Runs /\ p \in Places /\ nets[p] \in NetDirs /\ run.plan \in Dirs
      /\ nets["data"] \in NetDirs /\ nets["cache"] \in NetDirs
      /\ run.pc # "idle" => run.ts \in Stamps /\ n \in NetNames /\ n \notin Kept
  BY NamesTyped, KeptNames DEF SafetyInv, TypeInv, TypeOK, RunShape, Runs, Places
<1>1. CASE CreateNetworks
  <2>1. run'.plan = run.plan /\ run'.ts = run.ts /\ run'.pc = "aside"
    BY <1>0, <1>1 DEF CreateNetworks, Runs
  <2>. QED
    BY <1>1, <2>1, RunOnly DEF CreateNetworks, DataStaged
<1>2. CASE CreateNetworksFails
  BY <1>2, EndSafe DEF CreateNetworksFails
<1>3. CASE MoveAside
  <2>1. CASE nets[p][Live] = Absent /\ run' = AfterAside(run) /\ UNCHANGED files
    <3>1. run'.plan = run.plan /\ run'.ts = run.ts /\ run'.pc \in {"aside", "mkdir"}
          /\ ~DataStaged'
      BY <1>0, <1>3, <2>1 DEF MoveAside, AfterAside, Runs, DataStaged
    <3>. QED
      BY <1>3, <2>1, <3>1, RunOnly DEF MoveAside
  <2>2. ASSUME NEW name \in AsideNets, CanRename(nets[p], Live, name),
               SetNets(p, Rename(nets[p], Live, name)),
               run' = AfterAside([run EXCEPT !.replaced[p] = name])
        PROVE  RunInv' /\ DiskInv' /\ KnownHeld'
    <3>1. name \in Kept /\ name # Live /\ Live \in NetNames
      BY NamesTyped DEF Kept, AsideNets, Live
    <3>2. DiskInv' /\ KnownHeld'
      BY <1>0, <1>3, <2>2, <3>1, RenameSafe DEF MoveAside
    <3>3. run'.plan = run.plan /\ run'.pc \in {"aside", "mkdir"} /\ ~DataStaged'
      <4> DEFINE r == [run EXCEPT !.replaced[p] = name]
      <4>1. r \in Runs /\ r.pc = "aside" /\ r.plan = run.plan
        BY <1>0, <1>3 DEF MoveAside, Runs
      <4> HIDE DEF r
      <4>2. run' = AfterAside(r)
        BY <2>2 DEF r
      <4>. QED
        BY <4>1, <4>2 DEF AfterAside, Runs, DataStaged
    <3>. QED
      BY <2>2, <3>2, <3>3, PlanKept DEF SetNets, Entered
  <2>. QED
    BY <1>3, <2>1, <2>2 DEF MoveAside
<1>4. CASE MoveAsideFails
  BY <1>4, FailSafe DEF MoveAsideFails, Undoing
<1>5. CASE CreateStaging
  <2>1. CASE /\ nets[p][n] = Absent
             /\ Entered(p, [nets[p] EXCEPT ![n] = Empty], {[nets[p] EXCEPT ![n] = Empty]})
             /\ run' = [run EXCEPT !.pc = "copy", !.todo = Planned(run.plan, p)]
    <3> DEFINE d == [nets[p] EXCEPT ![n] = Empty]
    <3>1. d \in NetDirs /\ \A m \in Kept : d[m] = nets[p][m]
      BY <1>0, <1>5, EmptyIsDir, KeptNames DEF CreateStaging, NetDirs
    <3>2. \A f \in Files, i \in Ids : NetsHold(nets[p], f, i) => NetsHold(d, f, i)
      BY <3>1, KeptAlone
    <3>3. DiskInv' /\ KnownHeld'
      BY <1>0, <1>5, <2>1, <3>1, <3>2, NetsChange DEF CreateStaging
    <3>4. run'.plan = run.plan /\ run'.ts = run.ts /\ run'.pc = "copy" /\ home' = home
      BY <1>0, <2>1 DEF Runs, Entered
    <3>5. FromPlan(nets["data"][n])'
      <4>1. CASE p = "data"
        <5>1. nets'["data"][n] = Empty
          BY <1>0, <1>5, <2>1, <4>1 DEF CreateStaging, Entered, SafetyInv, TypeInv, TypeOK, NetDirs
        <5>. QED
          BY <3>4, <5>1, AbsentAssumption DEF FromPlan, Empty
      <4>2. CASE p # "data"
        <5>1. nets'["data"] = nets["data"] /\ p = "cache"
          BY <1>0, <2>1, <4>2 DEF Entered, SafetyInv, TypeInv, TypeOK, Places
        <5>2. FromPlan(nets["data"][n])
          BY <1>5, <5>1 DEF CreateStaging, SafetyInv, RunInv, StagedFromPlan, DataStaged
        <5>. QED
          BY <3>4, <5>1, <5>2 DEF FromPlan
      <4>. QED
        BY <4>1, <4>2
    <3>. QED
      BY <3>3, <3>4, <3>5
         DEF SafetyInv, RunInv, PlanHeld, StagedFromPlan, LiveFromPlan
  <2>2. CASE Failed("remove", "Destination") /\ UNCHANGED files
    BY <1>5, <2>2, FailSafe DEF CreateStaging, Undoing
  <2>. QED
    BY <1>5, <2>1, <2>2 DEF CreateStaging
<1>6. ASSUME NEW f \in Files, CopyFile(f)
      PROVE  RunInv' /\ DiskInv' /\ KnownHeld'
  <2>1. run.plan[f] \in Contents /\ Torn \in Contents
    BY <1>0 DEF Dirs, Contents
  <2>. QED
    BY <1>6, <2>1, StageFileSafe DEF CopyFile
<1>7. ASSUME NEW f \in Files, VerifyCopy(f)
      PROVE  RunInv' /\ DiskInv' /\ KnownHeld'
  <2>1. CASE run' = [run EXCEPT !.pc = "copy", !.todo = @ \ {f}]
    <3>1. run'.plan = run.plan /\ run'.ts = run.ts /\ run'.pc = "copy"
      BY <1>0, <2>1 DEF Runs
    <3>. QED
      BY <1>7, <3>1, RunOnly DEF VerifyCopy, DataStaged
  <2>2. CASE Failed("remove", "Destination")
    BY <1>7, <2>2, FailSafe DEF VerifyCopy, Undoing
  <2>. QED
    BY <1>7, <2>1, <2>2 DEF VerifyCopy
<1>8. CASE CopiesDone
  <2>1. run'.plan = run.plan /\ run'.ts = run.ts /\ run'.pc \in {"marker", "seal"}
    BY <1>0, <1>8 DEF CopiesDone, Runs
  <2>. QED
    BY <1>8, <2>1, RunOnly DEF CopiesDone, DataStaged
<1>9. CASE WriteMarker
  <2>1. run.plan["id"] \in Contents /\ "migrated-from" \in Files
    BY <1>0 DEF Dirs, Files
  <2>. QED
    BY <1>9, <2>1, StageFileSafe DEF WriteMarker
<1>10. CASE SealStaging
  <2>1. run'.plan = run.plan /\ run'.ts = run.ts /\ run'.pc \in {"mkdir", "pubdata"}
    BY <1>0, <1>10 DEF SealStaging, AfterSeal, Runs
  <2>. QED
    BY <1>10, <2>1, RunOnly DEF SealStaging, DataStaged
<1>11. CASE StageFails
  BY <1>11, FailSafe DEF StageFails, Undoing
<1>12. CASE PublishData
  <2>1. CASE /\ CanRename(nets["data"], n, Live)
             /\ SetNets("data", Rename(nets["data"], n, Live))
             /\ run' = [run EXCEPT !.pc = "pubcache"]
    <3>1. n # Live /\ Live \in Kept /\ n \in NetNames
      BY <1>0, <1>12 DEF PublishData, Kept
    <3>2. DiskInv' /\ KnownHeld'
      BY <1>12, <2>1, <3>1, RenameSafe DEF PublishData, Places
    <3>3. run'.plan = run.plan /\ run'.pc = "pubcache" /\ home' = home
      BY <1>0, <2>1 DEF Runs, SetNets, Entered
    <3>4. nets'["data"][Live] = nets["data"][n]
      BY <1>0, <2>1, <3>1, NamesTyped
         DEF SetNets, Entered, Rename, NetDirs, SafetyInv, TypeInv, TypeOK, Places
    <3>5. FromPlan(nets["data"][n])
      BY <1>12 DEF PublishData, SafetyInv, RunInv, StagedFromPlan, DataStaged
    <3>. QED
      BY <3>2, <3>3, <3>4, <3>5
         DEF SafetyInv, RunInv, PlanHeld, StagedFromPlan, DataStaged, LiveFromPlan, FromPlan
  <2>2. CASE Failed("remove", "Destination") /\ UNCHANGED files
    BY <1>12, <2>2, FailSafe DEF PublishData, Undoing
  <2>. QED
    BY <1>12, <2>1, <2>2, PublishesAll DEF PublishData, SafetyInv, Places
<1>13. CASE PublishCache
  <2>1. CASE /\ CanRename(nets["cache"], n, Live)
             /\ SetNets("cache", Rename(nets["cache"], n, Live))
             /\ run' = [run EXCEPT !.pc = "pubsync"]
    <3>1. n # Live /\ Live \in Kept /\ n \in NetNames
      BY <1>0, <1>13 DEF PublishCache, Kept
    <3>2. DiskInv' /\ KnownHeld'
      BY <1>13, <2>1, <3>1, RenameSafe DEF PublishCache, Places
    <3>3. run'.plan = run.plan /\ run'.pc = "pubsync" /\ home' = home
      BY <1>0, <2>1 DEF Runs, SetNets, Entered
    <3>. QED
      BY <3>2, <3>3, PlanKept DEF DataStaged
  <2>2. CASE Failed("undo", "Destination") /\ UNCHANGED files
    BY <1>13, <2>2, FailSafe DEF PublishCache, Undoing
  <2>. QED
    BY <1>13, <2>1, <2>2, PublishesAll DEF PublishCache, SafetyInv, Places
<1>. QED
  BY <1>1, <1>2, <1>3, <1>4, <1>5, <1>6, <1>7, <1>8, <1>9, <1>10, <1>11, <1>12, <1>13

LEMMA UndoSafe ==
    ASSUME SafetyInv,
           UndoPublish \/ PublishSync \/ PublishSyncFails \/ RemoveStaging \/ Restore
    PROVE  RunInv' /\ DiskInv' /\ KnownHeld'
<1>. USE DEF At
<1> DEFINE p == run.place
           n == Staging(run.ts)
<1>0. /\ run \in Runs /\ p \in Places /\ nets[p] \in NetDirs /\ nets["data"] \in NetDirs
      /\ run.pc # "idle" => run.ts \in Stamps /\ n \in NetNames /\ n \notin Kept
  BY NamesTyped, KeptNames DEF SafetyInv, TypeInv, TypeOK, RunShape, Runs, Places
<1>1. CASE UndoPublish
  <2>1. CASE /\ SetNets("data", Rename(nets["data"], Live, n))
             /\ run' = [run EXCEPT !.pc = "remove"]
    <3> DEFINE d == Rename(nets["data"], Live, n)
    <3>1. d \in NetDirs /\ run.ts \in Stamps
      BY <1>0, <1>1, NamesTyped, RenameTyped DEF UndoPublish
    <3>2. FromPlan(nets["data"][Live]) /\ PlanHeld
      BY <1>1 DEF UndoPublish, SafetyInv, RunInv, LiveFromPlan
    <3>3. ASSUME NEW f \in Files \ {"migrated-from"}, NEW i \in Ids, NetsHold(nets["data"], f, i)
          PROVE  NetsHold(d, f, i) \/ HomeHolds(home, f, i)
      <4>1. CASE nets["data"][Live] # Absent /\ nets["data"][Live][f] = i
        BY <3>2, <4>1 DEF FromPlan, PlanHeld
      <4>2. CASE ~(nets["data"][Live] # Absent /\ nets["data"][Live][f] = i)
        BY <1>0, <3>1, <3>3, <4>2, TakeBackKeeps
      <4>. QED
        BY <4>1, <4>2
    <3>4. DiskInv' /\ KnownHeld'
      BY <1>1, <2>1, <3>1, <3>3, NetsChange DEF UndoPublish, SetNets, Places
    <3>5. run'.plan = run.plan /\ run'.pc = "remove" /\ home' = home
      BY <1>0, <2>1 DEF Runs, SetNets, Entered
    <3>. QED
      BY <3>4, <3>5, PlanKept DEF DataStaged
  <2>2. CASE run' = [run EXCEPT !.pc = "remove", !.effort = "missed"] /\ UNCHANGED files
    <3>1. run'.plan = run.plan /\ run'.ts = run.ts /\ run'.pc = "remove"
      BY <1>0, <2>2 DEF Runs
    <3>. QED
      BY <1>1, <2>2, <3>1, RunOnly DEF UndoPublish, DataStaged
  <2>. QED
    BY <1>1, <2>1, <2>2 DEF UndoPublish
<1>2. CASE PublishSync
  <2>1. /\ nets' = nets /\ home' = home /\ homeDisk' = homeDisk /\ known' = known
        /\ anchored' = anchored
        /\ \A q \in Places : disk'[q] \subseteq disk[q] /\ nets[q] \in disk'[q]
    BY <1>0, <1>2, SyncsAll DEF PublishSync, SafetyInv, TypeInv, TypeOK, DiskInv
  <2>2. \A k \in known : PlaceOf[k[1]] \in Places
    BY KnownTyped DEF SafetyInv, TypeInv
  <2>5. \A q \in Places : Left(q)' \subseteq Left(q)
    BY <2>1 DEF Left
  <2>3. DiskInv' /\ KnownHeld'
    BY <2>1, <2>2, <2>5 DEF SafetyInv, DiskInv, KnownHeld
  <2>4. run'.plan = run.plan /\ run'.pc \in {"pubsync", "cfgaside"}
    BY <1>0, <1>2 DEF PublishSync, Runs
  <2>. QED
    BY <2>1, <2>3, <2>4, PlanKept DEF DataStaged
<1>3. CASE PublishSyncFails
  BY <1>3, FailSafe DEF PublishSyncFails, Undoing
<1>4. CASE RemoveStaging
  <2>1. run'.plan = run.plan /\ run'.ts = run.ts /\ run'.pc \in {"remove", "restore"}
    BY <1>0, <1>4 DEF RemoveStaging, AfterUndo, Runs
  <2>2. CASE SetNets(p, [nets[p] EXCEPT ![n] = Absent])
    <3> DEFINE d == [nets[p] EXCEPT ![n] = Absent]
    <3>1. d \in NetDirs /\ \A m \in Kept : d[m] = nets[p][m]
      BY <1>0, <1>4, KeptNames DEF RemoveStaging, NetDirs
    <3>2. \A f \in Files, i \in Ids : NetsHold(nets[p], f, i) => NetsHold(d, f, i)
      BY <3>1, KeptAlone
    <3>3. DiskInv' /\ KnownHeld'
      BY <1>0, <1>4, <2>2, <3>1, <3>2, NetsChange DEF RemoveStaging, SetNets
    <3>. QED
      BY <2>1, <2>2, <3>3, PlanKept DEF DataStaged, SetNets, Entered
  <2>3. CASE UNCHANGED files
    BY <1>4, <2>1, <2>3, RunOnly DEF RemoveStaging, DataStaged
  <2>. QED
    BY <1>4, <2>2, <2>3 DEF RemoveStaging
<1>5. CASE Restore
  <2> DEFINE done == Exited(run.result, run.failedAt)
             missed == [run EXCEPT !.effort = "missed"]
  <2>1. home' = home => RunInv'
    <3>1. missed \in Runs /\ missed.plan = run.plan /\ missed.pc = run.pc
      BY <1>0 DEF Runs
    <3>2. PICK r \in {run, missed} : run' = AfterUndo(r, done)
      BY <1>5 DEF Restore
    <3>3. CASE run' = done
      BY <3>3, RunOver
    <3>4. CASE run' = [r EXCEPT !.place = "cache"]
      <4>1. run'.plan = run.plan /\ run'.pc = "restore"
        BY <1>0, <1>5, <3>1, <3>4 DEF Restore, Runs
      <4>. QED
        BY <4>1, PlanKept DEF DataStaged
    <3>. QED
      BY <3>2, <3>3, <3>4 DEF AfterUndo
  <2>2. CASE /\ run.replaced[p] # Absent /\ CanRename(nets[p], run.replaced[p], Live)
             /\ SetNets(p, Rename(nets[p], run.replaced[p], Live))
    <3>1. run.replaced[p] \in AsideNets
      BY <1>0, <2>2 DEF Runs
    <3>2. run.replaced[p] \in NetNames /\ run.replaced[p] # Live /\ Live \in Kept
      BY <3>1, NamesTyped DEF AsideNets, Live, Kept
    <3>3. DiskInv' /\ KnownHeld'
      BY <1>0, <1>5, <2>2, <3>2, RenameSafe DEF Restore
    <3>. QED
      BY <2>1, <2>2, <3>3 DEF SetNets, Entered
  <2>3. CASE UNCHANGED files
    BY <1>5, <2>1, <2>3, SameFiles, SameWhenSynced DEF Restore, files
  <2>. QED
    BY <1>5, <2>2, <2>3 DEF Restore
<1>. QED
  BY <1>1, <1>2, <1>3, <1>4, <1>5

\* A step on the legacy home that keeps what it holds.
LEMMA HomeSafe ==
    ASSUME SafetyInv, NEW h, NEW leaves, SetHome(h, leaves), UNCHANGED known, SameHeld(h),
           \A x \in leaves, f \in Files, i \in Ids : HomeHolds(home, f, i) => HomeHolds(x, f, i),
           run'.plan = run.plan, run'.pc \in MovingLegacy
    PROVE  RunInv' /\ DiskInv' /\ KnownHeld'
<1>1. home' = h
  BY DEF SetHome
<1>2. PlanHeld'
  BY <1>1 DEF SafetyInv, RunInv, PlanHeld, SameHeld
<1>3. StagedFromPlan' /\ LiveFromPlan'
  BY DEF StagedFromPlan, DataStaged, LiveFromPlan, MovingLegacy
<1>. QED
  BY <1>2, <1>3, HomeChange DEF RunInv

\* Locking an entry does not touch what it holds.
LEMMA LockedHolds ==
    ASSUME NEW h \in Homes, NEW names
    PROVE  /\ \A f, i : HomeHolds(Locked(h, names), f, i) <=> HomeHolds(h, f, i)
           /\ Locked(h, names).conf = h.conf /\ Locked(h, names).pix = h.pix
<1>1. Locked(h, names).conf = h.conf /\ Locked(h, names).pix = h.pix
  BY DEF Locked, Homes
<1>. QED
  BY <1>1 DEF HomeHolds

\* So does a home that the renames so far have reached.
LEMMA AllRenamedHolds ==
    ASSUME NEW h \in AllRenamed
    PROVE  h \in homeDisk /\ h.conf = home.conf /\ h.pix = home.pix
  BY DEF AllRenamed

LEMMA LegacySafe ==
    ASSUME SafetyInv,
           \/ ConfigAside \/ LockDown \/ RedbAside \/ SecureLeftovers \/ HomeSync \/ LegacyFails
           \/ ResetDir \/ ResetFails
    PROVE  RunInv' /\ DiskInv' /\ KnownHeld'
<1>. USE DEF At
<1> DEFINE p == run.place
<1>0. /\ run \in Runs /\ p \in Places /\ home \in Homes
      /\ home.conf \in [ConfNames -> Dirs \cup {Absent}]
      /\ home.pix \in [PixNames -> Contents]
      /\ home.exposed \in SUBSET (ConfNames \cup PixNames)
      /\ homeDisk \subseteq Homes
  BY DEF SafetyInv, TypeInv, TypeOK, Runs, Homes
<1>1. CASE ConfigAside
  <2>1. PICK name \in ConfNames :
           /\ UniqueName(home.conf, AsideKind, run.ts, name)
           /\ SetHome(ConfigMoved(home, name), {ConfigMoved(h, name) : h \in AllRenamed})
           /\ run' = [run EXCEPT !.pc = "lockdown", !.aside = name]
    BY <1>1 DEF ConfigAside
  <2>2. home.conf[name] = Absent /\ name # Config
    BY <2>1 DEF UniqueName, AsideKind, Config
  <2>3. ASSUME NEW h \in Homes, h.conf = home.conf, h.pix = home.pix
        PROVE  SameHeld(ConfigMoved(h, name))
    <3>1. /\ Rename(home.conf, Config, name) \in [ConfNames -> Dirs \cup {Absent}]
          /\ MoveExposed(h.exposed, Config, name) \in SUBSET (ConfNames \cup PixNames)
      BY <1>0, NamesTyped, MoveExposedTyped DEF Rename, Homes
    <3>2. /\ ConfigMoved(h, name) \in Homes
          /\ ConfigMoved(h, name).conf = Rename(home.conf, Config, name)
          /\ ConfigMoved(h, name).pix = home.pix
      BY <2>3, <3>1 DEF Homes, ConfigMoved
    <3>3. \A f \in Files, i \in Ids : HomeHolds(ConfigMoved(h, name), f, i) <=> HomeHolds(home, f, i)
      BY <1>0, <2>2, <3>2, ConfigRenameKeeps
    <3>. QED
      BY <3>3 DEF SameHeld
  <2>4. \A h \in AllRenamed : SameHeld(ConfigMoved(h, name))
    BY <1>0, <2>3, AllRenamedHolds
  <2>5. SameHeld(ConfigMoved(home, name))
    BY <1>0, <2>3
  <2>6. run'.plan = run.plan /\ run'.pc \in MovingLegacy
    BY <1>0, <2>1 DEF Runs, MovingLegacy
  <2>7. \A x \in {ConfigMoved(h, name) : h \in AllRenamed}, f \in Files, i \in Ids :
           HomeHolds(home, f, i) => HomeHolds(x, f, i)
    BY <2>4 DEF SameHeld
  <2>. QED
    BY <1>1, <2>1, <2>5, <2>6, <2>7, HomeSafe DEF ConfigAside
<1>2. CASE LockDown
  <2> DEFINE lock(h) == Locked(h, {IF h.conf[Config] # Absent THEN Config ELSE run.aside})
  <2>1. SetHome(Locked(home, {run.aside}), {lock(h) : h \in homeDisk})
    BY <1>2 DEF LockDown
  <2>2. run'.plan = run.plan /\ run'.pc \in MovingLegacy
    BY <1>0, <1>2 DEF LockDown, Runs, MovingLegacy
  <2>3. SameHeld(Locked(home, {run.aside}))
    BY <1>0, LockedHolds DEF SameHeld
  <2>4. ASSUME NEW h \in homeDisk, NEW f \in Files, NEW i \in Ids, HomeHolds(home, f, i)
        PROVE  HomeHolds(lock(h), f, i)
    BY <1>0, <2>4, LockedHolds DEF SafetyInv, DiskInv
  <2> HIDE DEF lock
  <2>. QED
    BY <1>2, <2>1, <2>2, <2>3, <2>4, HomeSafe DEF LockDown
<1>3. CASE RedbAside
  <2>1. PICK name \in PixNames :
           /\ UniqueName(home.pix, "pix-migrated", run.ts, name)
           /\ SetHome(PixMoved(home, name), {PixMoved(h, name) : h \in AllRenamed})
    BY <1>3 DEF RedbAside
  <2>2. home.pix[name] = Absent /\ name # Pix
    BY <2>1 DEF UniqueName, Pix
  <2>3. ASSUME NEW h \in Homes, h.conf = home.conf, h.pix = home.pix
        PROVE  SameHeld(PixMoved(h, name))
    <3>1. /\ Rename(home.pix, Pix, name) \in [PixNames -> Contents]
          /\ MoveExposed(h.exposed, Pix, name) \in SUBSET (ConfNames \cup PixNames)
      BY <1>0, NamesTyped, MoveExposedTyped DEF Rename, Contents, Homes
    <3>2. /\ PixMoved(h, name) \in Homes
          /\ PixMoved(h, name).pix = Rename(home.pix, Pix, name)
          /\ PixMoved(h, name).conf = home.conf
      BY <2>3, <3>1 DEF Homes, PixMoved
    <3>3. \A f \in Files, i \in Ids : HomeHolds(PixMoved(h, name), f, i) <=> HomeHolds(home, f, i)
      BY <1>0, <2>2, <3>2, PixRenameKeeps
    <3>. QED
      BY <3>3 DEF SameHeld
  <2>4. \A h \in AllRenamed : SameHeld(PixMoved(h, name))
    BY <1>0, <2>3, AllRenamedHolds
  <2>5. SameHeld(PixMoved(home, name))
    BY <1>0, <2>3
  <2>6. run'.plan = run.plan /\ run'.pc \in MovingLegacy
    BY <1>0, <1>3 DEF RedbAside, Runs, MovingLegacy
  <2>7. \A x \in {PixMoved(h, name) : h \in AllRenamed}, f \in Files, i \in Ids :
           HomeHolds(home, f, i) => HomeHolds(x, f, i)
    BY <2>4 DEF SameHeld
  <2>. QED
    BY <1>3, <2>1, <2>5, <2>6, <2>7, HomeSafe DEF RedbAside
<1>4. CASE SecureLeftovers
  <2>1. PICK missed : SetHome(Locked(home, Securable \ missed), SweepLeaves(missed))
    BY <1>4 DEF SecureLeftovers
  <2>2. run'.plan = run.plan /\ run'.pc \in MovingLegacy
    BY <1>0, <1>4 DEF SecureLeftovers, Runs, MovingLegacy
  <2>3. SameHeld(Locked(home, Securable \ missed))
    BY <1>0, LockedHolds DEF SameHeld
  <2>4. ASSUME NEW x \in SweepLeaves(missed), NEW f \in Files, NEW i \in Ids, HomeHolds(home, f, i)
        PROVE  HomeHolds(x, f, i)
    <3>1. PICK h \in AllRenamed : \E taken : x = Locked(h, taken)
      BY <2>4 DEF SweepLeaves
    <3>2. PICK taken : x = Locked(h, taken)
      BY <3>1
    <3>. QED
      BY <1>0, <2>4, <3>1, <3>2, AllRenamedHolds, LockedHolds DEF HomeHolds
  <2>. QED
    BY <1>4, <2>1, <2>2, <2>3, <2>4, HomeSafe DEF SecureLeftovers
<1>5. CASE HomeSync
  <2>1. DiskInv' /\ KnownHeld'
    <3>1. /\ homeDisk' \subseteq homeDisk /\ home' = home /\ known' = known
          /\ nets' = nets /\ disk' = disk /\ anchored' = anchored
      BY <1>5, AllRenamedHolds DEF HomeSync, netFiles
    <3>2. \A q : Left(q)' = Left(q)
      BY <3>1 DEF Left
    <3>. QED
      BY <3>1, <3>2 DEF SafetyInv, DiskInv, KnownHeld
  <2>2. CASE run' = [run EXCEPT !.pc = "reset"]
    <3>1. run'.plan = run.plan /\ run'.pc = "reset"
      BY <1>0, <2>2 DEF Runs
    <3>. QED
      BY <1>5, <2>1, <3>1, PlanKept DEF HomeSync, DataStaged
  <2>3. CASE run' = Exited(run.result, "none")
    BY <2>1, <2>3, RunOver
  <2>. QED
    BY <1>5, <2>2, <2>3 DEF HomeSync
<1>6. CASE LegacyFails
  BY <1>6, EndSafe DEF LegacyFails
<1>7. CASE ResetDir
  <2> DEFINE clean == [run EXCEPT !.result = "StartedClean"]
  <2>1. home' = home => RunInv'
    <3>1. clean \in Runs /\ clean.plan = run.plan /\ clean.pc = run.pc
      BY <1>0 DEF Runs, Results
    <3>2. PICK r \in {run, clean}, res \in {run.result, "StartedClean"} :
             run' = AfterUndo(r, Exited(res, "none"))
      BY <1>7 DEF ResetDir
    <3>3. CASE run' = Exited(res, "none")
      BY <3>3, RunOver
    <3>4. CASE run' = [r EXCEPT !.place = "cache"]
      <4>1. run'.plan = run.plan /\ run'.pc = "reset"
        BY <1>0, <1>7, <3>1, <3>4 DEF ResetDir, Runs
      <4>. QED
        BY <4>1, PlanKept DEF DataStaged
    <3>. QED
      BY <3>2, <3>3, <3>4 DEF AfterUndo
  <2>2. ASSUME NEW name \in AsideNets, CanRename(nets[p], Live, name),
               SetNets(p, Rename(nets[p], Live, name))
        PROVE  RunInv' /\ DiskInv' /\ KnownHeld'
    <3>1. name \in Kept /\ name # Live /\ Live \in NetNames
      BY NamesTyped DEF Kept, AsideNets, Live
    <3>2. DiskInv' /\ KnownHeld'
      BY <1>0, <1>7, <2>2, <3>1, RenameSafe DEF ResetDir
    <3>. QED
      BY <2>1, <2>2, <3>2 DEF SetNets, Entered
  <2>3. CASE UNCHANGED files
    BY <1>7, <2>1, <2>3, SameFiles, SameWhenSynced DEF ResetDir, files
  <2>. QED
    BY <1>7, <2>2, <2>3 DEF ResetDir
<1>8. CASE ResetFails
  BY <1>8, EndSafe DEF ResetFails
<1>. QED
  BY <1>1, <1>2, <1>3, <1>4, <1>5, <1>6, <1>7, <1>8

\* A kept name that is written over an absent or empty dir hides nothing.
LEMMA NewLiveKeeps ==
    ASSUME NEW d \in NetDirs, NEW new, d[Live] \in {Absent, Empty} \/ new = d[Live],
           NEW f \in Files, NEW i \in Ids, NetsHold(d, f, i)
    PROVE  NetsHold([d EXCEPT ![Live] = new], f, i)
<1>1. PICK n \in Kept : d[n] # Absent /\ d[n][f] = i
  BY DEF NetsHold
<1>2. n \in NetNames
  BY KeptNames
<1>3. [d EXCEPT ![Live] = new][n] = d[n]
  BY <1>1, <1>2, AbsentAssumption DEF NetDirs, Empty
<1>. QED
  BY <1>1, <1>3 DEF NetsHold

LEMMA EnvironmentSafe ==
    ASSUME SafetyInv, Environment
    PROVE  RunInv' /\ DiskInv' /\ KnownHeld'
<1>1. CASE Killed
  BY <1>1, EndSafe DEF Killed
<1>2. CASE PowerCut
  <2>1. PICK n \in [Places -> UNION {Left(p) : p \in Places}] :
           /\ \A p \in Places : n[p] \in Left(p)
           /\ nets' = n /\ disk' = [p \in Places |-> {n[p]}]
           /\ anchored' = anchored \cup {p \in Places : n[p] # Nothing}
    BY <1>2 DEF PowerCut
  <2>6. \A p \in Places : Left(p)' \subseteq Left(p)
    <3>1. ASSUME NEW p \in Places
          PROVE  Left(p)' = {n[p]}
      BY <2>1 DEF Left
    <3>. QED
      BY <2>1, <3>1
  <2>2. PICK h \in homeDisk : home' = h /\ homeDisk' = {h}
    BY <1>2 DEF PowerCut
  <2>3. DiskInv'
    BY <2>1, <2>2 DEF DiskInv
  <2>4. KnownHeld'
    <3>1. \A k \in known : k[1] \in Files /\ k[2] \in Ids /\ PlaceOf[k[1]] \in Places
      BY KnownTyped DEF SafetyInv, TypeInv
    <3>2. known' = known
      BY <1>2 DEF PowerCut
    <3>. QED
      BY <2>2, <2>6, <3>1, <3>2 DEF SafetyInv, DiskInv, KnownHeld
  <2>5. RunInv'
    BY <1>2, RunOver DEF PowerCut
  <2>. QED
    BY <2>3, <2>4, <2>5
<1>3. ASSUME NEW i \in Ids, NEW safe \in BOOLEAN, ClientStart(i, safe)
      PROVE  RunInv' /\ DiskInv' /\ KnownHeld'
  <2>0. TypeOK /\ nets["data"] \in NetDirs /\ nets["cache"] \in NetDirs
    BY DEF SafetyInv, TypeInv, TypeOK, Places
  <2>1. /\ nets' \in [Places -> NetDirs]
        /\ nets'["data"] = [nets["data"] EXCEPT ![Live] = NewData(i)]
        /\ nets'["cache"] = [nets["cache"] EXCEPT ![Live] = NewCache(nets["cache"][Live], i, safe)]
    BY <1>3, <2>0, ClientStartNets
  <2>2. /\ disk' = [p \in Places |-> {nets'[p]}] /\ homeDisk' = homeDisk /\ home' = home
        /\ anchored' = Places /\ nets["data"][Live] = Absent
    BY <1>3 DEF ClientStart
  <2>3. DiskInv'
    BY <2>2 DEF SafetyInv, DiskInv
  <2>8. \A p \in Places : Left(p)' = {nets'[p]} /\ nets[p] \in Left(p)
    BY <2>2 DEF SafetyInv, DiskInv, Left
  <2>4. \A p \in Places, f \in Files, j \in Ids :
           NetsHold(nets[p], f, j) => NetsHold(nets'[p], f, j)
    <3>1. \A f \in Files, j \in Ids : NetsHold(nets["data"], f, j) => NetsHold(nets'["data"], f, j)
      BY <2>0, <2>1, <2>2, NewLiveKeeps
    <3>2. \/ nets["cache"][Live] \in {Absent, Empty}
          \/ NewCache(nets["cache"][Live], i, safe) = nets["cache"][Live]
      BY DEF NewCache
    <3>3. \A f \in Files, j \in Ids : NetsHold(nets["cache"], f, j) => NetsHold(nets'["cache"], f, j)
      BY <2>0, <2>1, <3>2, NewLiveKeeps
    <3>. QED
      BY <3>1, <3>3 DEF Places
  <2>5. ASSUME NEW k \in known'
        PROVE  /\ k[1] # "migrated-from" /\ PlaceOf[k[1]] \in Places
               /\ HomeHolds(home, k[1], k[2]) \/ NetsHold(nets'[PlaceOf[k[1]]], k[1], k[2])
    <3>1. CASE k \in known
      <4>1. k[1] \in Files /\ k[2] \in Ids /\ PlaceOf[k[1]] \in Places
        BY <2>0, <3>1, KnownTyped
      <4>. QED
        BY <2>4, <2>8, <3>1, <4>1 DEF SafetyInv, KnownHeld
    <3>2. CASE k \in {<<"id", i>>, <<"pass", i>>}
      <4>1. PlaceOf[k[1]] = "data" /\ k[1] \in {"id", "pass"} /\ k[2] = i
        BY <3>2 DEF PlaceOf, Files
      <4>2. nets'["data"][Live] = NewData(i) /\ NewData(i) \in Dirs
        BY <2>0, <2>1, NamesTyped, NewDirsTyped DEF NetDirs
      <4>3. NewData(i)[k[1]] = i
        BY <4>1 DEF NewData, Empty, Files
      <4>. QED
        BY <4>1, <4>2, <4>3, NotADirAssumption DEF NetsHold, Kept, Places
    <3>3. CASE k = <<"safe", i>> /\ nets'["cache"][Live]["safe"] = i
      <4>1. PlaceOf[k[1]] = "cache" /\ k[1] = "safe" /\ k[2] = i
        BY <3>3 DEF PlaceOf, Files
      <4>2. nets'["cache"][Live] \in Dirs
        <5>1. nets["cache"][Live] \in Dirs \cup {Absent}
          BY <2>0, NamesTyped DEF NetDirs
        <5>. QED
          BY <2>0, <2>1, <5>1, NamesTyped, NewDirsTyped DEF NetDirs
      <4>. QED
        BY <3>3, <4>1, <4>2, NotADirAssumption DEF NetsHold, Kept, Places
    <3>. QED
      BY <1>3, <3>1, <3>2, <3>3 DEF ClientStart
  <2>6. KnownHeld'
    BY <2>2, <2>5, <2>8 DEF KnownHeld
  <2>7. RunInv'
    BY <1>3, RunOver DEF ClientStart
  <2>. QED
    BY <2>3, <2>6, <2>7
<1>4. ASSUME NEW i \in Ids, LegacyStart(i)
      PROVE  RunInv' /\ DiskInv' /\ KnownHeld'
  <2>0. TypeOK /\ home \in Homes /\ home.conf[Config] \in {Absent, Empty}
    BY <1>4 DEF SafetyInv, TypeInv, TypeOK, LegacyStart
  <2>1. /\ home' \in Homes
        /\ home'.conf = [home.conf EXCEPT ![Config] = NewData(i)]
        /\ home'.pix = [home.pix EXCEPT ![Pix] = IF home.pix[Pix] = Absent THEN i ELSE home.pix[Pix]]
    BY <1>4, <2>0, LegacyStartHome
  <2>2. homeDisk' = {home'} /\ disk' = disk /\ nets' = nets /\ anchored' = anchored
    BY <1>4 DEF LegacyStart, netFiles
  <2>3. DiskInv'
    BY <2>2 DEF SafetyInv, DiskInv
  <2>9. \A q : Left(q)' = Left(q)
    BY <2>2 DEF Left
  <2>4. /\ home'.conf[Config] = NewData(i) /\ NewData(i) # Absent
        /\ \A n \in ConfNames \ {Config} : home'.conf[n] = home.conf[n]
        /\ home'.pix[Pix] = IF home.pix[Pix] = Absent THEN i ELSE home.pix[Pix]
        /\ \A n \in PixNames \ {Pix} : home'.pix[n] = home.pix[n]
    BY <2>0, <2>1, NamesTyped, NewDirsTyped, NotADirAssumption DEF Homes
  <2>5. \A f \in Files, j \in Ids : HomeHolds(home, f, j) => HomeHolds(home', f, j)
    <3>1. \A f \in Files, j \in Ids, n \in ConfNames :
             home.conf[n] # Absent /\ home.conf[n][f] = j => home'.conf[n] = home.conf[n]
      BY <2>0, <2>4, AbsentAssumption DEF Empty
    <3>2. \A j \in Ids, n \in PixNames : home.pix[n] = j => home'.pix[n] = j
      BY <2>4, AbsentAssumption
    <3>. QED
      BY <3>1, <3>2 DEF HomeHolds
  <2>6. ASSUME NEW k \in known'
        PROVE  /\ k[1] # "migrated-from" /\ PlaceOf[k[1]] \in Places
               /\ \A d \in Left(PlaceOf[k[1]]) : HomeHolds(home', k[1], k[2]) \/ NetsHold(d, k[1], k[2])
    <3>1. CASE k \in known
      <4>1. k[1] \in Files /\ k[2] \in Ids /\ PlaceOf[k[1]] \in Places
        BY <2>0, <3>1, KnownTyped
      <4>. QED
        BY <2>5, <3>1, <4>1 DEF SafetyInv, KnownHeld
    <3>2. CASE k \in {<<"id", i>>, <<"pass", i>>}
      <4>1. PlaceOf[k[1]] \in Places /\ k[1] \in {"id", "pass"} /\ k[2] = i
        BY <3>2 DEF PlaceOf, Files, Places
      <4>2. NewData(i)[k[1]] = i
        BY <4>1 DEF NewData, Empty, Files
      <4>. QED
        BY <2>4, <4>1, <4>2, NamesTyped DEF HomeHolds
    <3>3. CASE k = <<"redb", i>> /\ home.pix[Pix] = Absent
      <4>1. PlaceOf[k[1]] \in Places /\ k[1] = "redb" /\ k[2] = i
        BY <3>3 DEF PlaceOf, Files, Places
      <4>. QED
        BY <2>4, <3>3, <4>1, NamesTyped DEF HomeHolds
    <3>. QED
      BY <1>4, <3>1, <3>2, <3>3 DEF LegacyStart
  <2>7. KnownHeld'
    BY <2>6, <2>9 DEF KnownHeld
  <2>8. RunInv'
    BY <1>4, RunOver DEF LegacyStart
  <2>. QED
    BY <2>3, <2>7, <2>8
<1>. QED
  BY <1>1, <1>2, <1>3, <1>4 DEF Environment

LEMMA InitSafe ==
    ASSUME Init
    PROVE  SafetyInv
<1>1. TypeInv
  BY InitTyped
<1>2. run.pc = "idle" /\ run.plan = Empty
  BY DEF Init, Exited
<1>3. RunInv
  BY <1>2, AbsentAssumption DEF RunInv, PlanHeld, StagedFromPlan, DataStaged, LiveFromPlan, Empty
<1>4. DiskInv
  BY DEF Init, DiskInv
<1>5. \A conf, redb, e :
         /\ LegacyHome(conf, redb, e).conf[Config] = conf
         /\ LegacyHome(conf, redb, e).pix[Pix] = redb
  BY NamesTyped DEF LegacyHome
<1>6. KnownHeld
  <2>1. ASSUME NEW i \in Ids, NEW opt \in SUBSET {"pass", "safe"}, NEW redb \in BOOLEAN,
               NEW owner \in {{}, {Config}},
               home = LegacyHome([f \in Files |-> IF f \in {"id"} \cup opt THEN i ELSE Absent],
                                 IF redb THEN i ELSE Absent,
                                 owner \cup (IF redb THEN {Pix} ELSE {})),
               known = {<<f, i>> : f \in {"id"} \cup opt \cup (IF redb THEN {"redb"} ELSE {})},
               NEW k \in known
        PROVE  k[1] # "migrated-from" /\ HomeHolds(home, k[1], k[2])
    <3> DEFINE conf == [f \in Files |-> IF f \in {"id"} \cup opt THEN i ELSE Absent]
    <3>1. conf \in Dirs
      BY DEF Dirs, Contents
    <3>2. conf # Absent
      BY <3>1, NotADirAssumption
    <3>3. home.conf[Config] = conf /\ home.pix[Pix] = IF redb THEN i ELSE Absent
      BY <1>5, <2>1
    <3>4. PICK f \in {"id"} \cup opt \cup (IF redb THEN {"redb"} ELSE {}) : k = <<f, i>>
      BY <2>1
    <3>5. CASE f \in {"id"} \cup opt
      <4>1. f \in Files /\ f # "migrated-from"
        BY <3>5 DEF Files
      <4>2. conf[f] = i
        BY <3>5, <4>1
      <4>. QED
        BY <3>2, <3>3, <3>4, <4>1, <4>2, NamesTyped DEF HomeHolds
    <3>6. CASE f = "redb" /\ redb
      BY <3>3, <3>4, <3>6, NamesTyped DEF HomeHolds
    <3>. QED
      BY <3>4, <3>5, <3>6
  <2>. QED
    BY <2>1 DEF Init, KnownHeld
<1>. QED
  BY <1>1, <1>3, <1>4, <1>6, SyncInit DEF SafetyInv

LEMMA StepSafe == SafetyInv /\ [Next]_vars => SafetyInv'
<1>. SUFFICES ASSUME SafetyInv, [Next]_vars PROVE SafetyInv'
  OBVIOUS
<1>1. TypeInv' /\ SyncInv'
  BY StepTyped, SyncStep DEF SafetyInv
<1>2. CASE BeginRun
  BY <1>1, <1>2, BeginSafe DEF SafetyInv
<1>3. CASE RunStep
  <2>1. RunInv' /\ DiskInv' /\ KnownHeld'
    BY <1>3, InstallSafe, UndoSafe, LegacySafe DEF RunStep
  <2>. QED
    BY <1>1, <2>1 DEF SafetyInv
<1>4. CASE Environment
  BY <1>1, <1>4, EnvironmentSafe DEF SafetyInv
<1>5. CASE UNCHANGED vars
  <2>1. run' = run /\ nets' = nets /\ home' = home /\ SameEntries
    BY <1>5 DEF vars, SameEntries
  <2>2. RunInv'
    BY <2>1 DEF SafetyInv, RunInv, PlanHeld, StagedFromPlan, DataStaged, LiveFromPlan, FromPlan
  <2>. QED
    BY <1>1, <2>1, <2>2, SameFiles DEF SafetyInv
<1>. QED
  BY <1>2, <1>3, <1>4, <1>5 DEF Next

\* README: `identity` and `start-clean` never delete anything.  For every set of identities
\* and timestamps, and any number of failing calls, kills and power cuts, each file that any
\* identity ever had stays readable under .config, an aside name or a live name.
THEOREM NothingIsLost == Spec => []NothingLost
<1>1. Init => SafetyInv
  BY InitSafe
<1>2. SafetyInv /\ [Next]_vars => SafetyInv'
  BY StepSafe
<1>3. SafetyInv => NothingLost
  <2>. SUFFICES ASSUME SafetyInv, NEW k \in known
                PROVE  \/ HomeHolds(home, k[1], k[2])
                       \/ \E p \in Places : NetsHold(nets[p], k[1], k[2])
    BY DEF NothingLost
  <2>1. PlaceOf[k[1]] \in Places
    BY KnownTyped DEF SafetyInv, TypeInv
  <2>. QED
    BY <2>1 DEF SafetyInv, DiskInv, KnownHeld, Left
<1>. QED
  BY <1>1, <1>2, <1>3, PTL DEF Spec
=============================================================================
