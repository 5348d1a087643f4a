--------------------------- MODULE MigrateProofs ---------------------------
(* Theorems about Migrate for every set of identities, every set of         *)
(* timestamps and any number of faults.                                     *)
EXTENDS Migrate, TLAPS

LEMMA EmptyIsDir == Empty \in Dirs
  BY DEF Empty, Dirs, Contents

LEMMA NamesTyped ==
    /\ Live \in NetNames /\ Config \in ConfNames /\ Pix \in PixNames
    /\ \A t \in Stamps : Staging(t) \in NetNames
    /\ AsideNets \subseteq NetNames
  BY DEF NetNames, ConfNames, PixNames

LEMMA ExitedTyped ==
    ASSUME NEW r \in Results, NEW at \in Steps \cup {"none"}
    PROVE  Exited(r, at) \in Runs
  BY EmptyIsDir, NamesTyped DEF Exited, Runs, Places, Steps, Commands

LEMMA PlanTyped ==
    ASSUME home \in Homes, FoundLegacy
    PROVE  Plan \in Dirs
  BY NamesTyped DEF Plan, FoundLegacy, Homes, Dirs, Contents, Files

LEMMA RenameTyped ==
    ASSUME NEW d \in NetDirs, NEW from \in NetNames, NEW to \in NetNames
    PROVE  Rename(d, from, to) \in NetDirs
  BY DEF Rename, NetDirs

LEMMA StartedTyped ==
    ASSUME TypeOK, NEW cmd \in Commands,
           cmd = "identity" => FoundLegacy,
           NEW pc \in {"networks", "cfgaside", "reset"},
           NEW t \in Stamps, NEW r \in Results
    PROVE  Started(cmd, pc, t, r) \in Runs
<1> DEFINE x == Exited(r, "none")
           plan == IF cmd = "identity" THEN Plan ELSE Empty
           uid == IF Config \in home.exposed THEN "service" ELSE "root"
           live == [p \in Places |-> nets[p][Live]]
<1>1. x \in Runs
  BY ExitedTyped
<1>2. plan \in Dirs
  BY PlanTyped, EmptyIsDir DEF TypeOK
<1>3. live \in [Places -> Dirs \cup {Absent}]
  BY NamesTyped DEF TypeOK, NetDirs
<1>4. uid \in {"service", "root"}
  OBVIOUS
<1>5. pc \in Steps
  BY DEF Steps, Installing, MovingLegacy
<1>6. Started(cmd, pc, t, r) = [x EXCEPT !.pc = pc, !.cmd = cmd, !.ts = t, !.plan = plan,
                                         !.uid = uid, !.before = live]
  BY DEF Started
<1> HIDE DEF x, plan, uid, live
<1>. QED
  BY <1>1, <1>2, <1>3, <1>4, <1>5, <1>6 DEF Runs

-----------------------------------------------------------------------------
(* Type correctness.                                                       *)

FilesOK ==
    /\ nets \in [Places -> NetDirs]
    /\ disk \in [Places -> SUBSET NetDirs]
    /\ unsynced \in [Places -> SUBSET ({"data", "entry"} \X Files)]
    /\ anchored \subseteq Places
    /\ home \in Homes
    /\ homeDisk \subseteq Homes

LEMMA FilesUnchanged ==
    ASSUME TypeOK, UNCHANGED files
    PROVE  FilesOK'
  BY DEF TypeOK, files, FilesOK

LEMMA EnteredTyped ==
    ASSUME TypeOK, NEW p \in Places, NEW d \in NetDirs, NEW leaves \in SUBSET NetDirs,
           Entered(p, d, leaves),
           unsynced' \in [Places -> SUBSET ({"data", "entry"} \X Files)]
    PROVE  FilesOK'
  BY DEF TypeOK, Entered, FilesOK

LEMMA SetNetsTyped ==
    ASSUME TypeOK, NEW p \in Places, NEW d \in NetDirs, SetNets(p, d)
    PROVE  FilesOK'
  BY EnteredTyped DEF TypeOK, SetNets

LEMMA SyncedTyped ==
    ASSUME TypeOK, NEW u, Synced(u)
    PROVE  FilesOK' /\ nets' = nets
  BY DEF TypeOK, Synced, FilesOK, Runs

\* What of a dir may be on disk is a dir.
LEMMA PartlyTyped ==
    ASSUME NEW dir \in Dirs \cup {Absent}, NEW u, NEW x \in Partly(dir, u)
    PROVE  x \in Dirs \cup {Absent} /\ (dir \in Dirs => x \in Dirs)
<1>1. CASE dir = Absent
  BY <1>1, NotADirAssumption DEF Partly
<1>2. CASE dir # Absent
  <2> DEFINE left(gone, torn) ==
               [f \in Files |-> IF f \in gone THEN Absent ELSE IF f \in torn THEN Torn ELSE dir[f]]
  <2>0. x \in {left(gone, torn) : gone \in SUBSET {f \in Files : <<"entry", f>> \in u},
                                 torn \in SUBSET {f \in Files : <<"data", f>> \in u}}
    BY <1>2 DEF Partly
  <2>1. PICK gone, torn : x = left(gone, torn)
    BY <2>0
  <2>. QED
    BY <1>2, <2>1 DEF Dirs, Contents
<1>. QED
  BY <1>1, <1>2

LEMMA PartlyLiveTyped ==
    ASSUME NEW p, NEW d \in NetDirs
    PROVE  PartlyLive(p, d) \in SUBSET NetDirs
<1>1. d[Live] \in Dirs \cup {Absent}
  BY NamesTyped DEF NetDirs
<1>2. ASSUME NEW x \in Partly(d[Live], unsynced[p])
      PROVE  [d EXCEPT ![Live] = x] \in NetDirs
  BY <1>1, <1>2, PartlyTyped DEF NetDirs
<1>. QED
  BY <1>2 DEF PartlyLive

LEMMA SetHomeTyped ==
    ASSUME TypeOK, NEW h \in Homes, NEW leaves \in SUBSET Homes, SetHome(h, leaves)
    PROVE  FilesOK'
  BY DEF TypeOK, SetHome, FilesOK, netFiles

LEMMA FaultTyped ==
    ASSUME TypeOK, Fault \/ NoFault
    PROVE  faults' \in 0 .. MaxFaults
  BY BoundsAssumption DEF TypeOK, Fault, NoFault

LEMMA EndsTyped ==
    ASSUME TypeOK, NEW r \in Results, NEW at \in Steps \cup {"none"}, Ends(r, at),
           Fault \/ NoFault
    PROVE  TypeOK'
<1>1. FilesOK'
  BY FilesUnchanged DEF Ends
<1>2. run' \in Runs
  BY ExitedTyped DEF Ends
<1>. QED
  BY <1>1, <1>2, FaultTyped DEF TypeOK, FilesOK, Ends

LEMMA FailedTyped ==
    ASSUME TypeOK, NEW pc \in Undoing, NEW stage \in Stages, Failed(pc, stage)
    PROVE  run' \in Runs
<1>1. pc \in Steps /\ run.pc \in Steps /\ stage \in Results /\ {} \in SUBSET Files
  BY DEF Steps, TypeOK, Runs, Results
<1>. QED
  BY <1>1 DEF Failed, TypeOK, Runs, Places

LEMMA StageFileTyped ==
    ASSUME TypeOK, run.ts \in Stamps, NEW f \in Files, NEW c \in Contents,
           nets[run.place][Staging(run.ts)] # Absent,
           NEW u \in SUBSET ({"data", "entry"} \X Files), StageFile(f, c, u)
    PROVE  FilesOK'
<1> DEFINE p == run.place
           n == Staging(run.ts)
<1>1. p \in Places /\ n \in NetNames
  BY NamesTyped DEF TypeOK, Runs
<1>2. nets[p] \in NetDirs
  BY <1>1 DEF TypeOK
<1>3. nets[p][n] \in Dirs
  BY <1>1, <1>2 DEF NetDirs
<1>4. [nets[p][n] EXCEPT ![f] = c] \in Dirs
  BY <1>3 DEF Dirs
<1>5. [nets[p] EXCEPT ![n][f] = c] = [nets[p] EXCEPT ![n] = [nets[p][n] EXCEPT ![f] = c]]
  BY <1>1, <1>2 DEF NetDirs
<1>6. [nets[p] EXCEPT ![n][f] = c] \in NetDirs
  BY <1>1, <1>2, <1>4, <1>5 DEF NetDirs
<1> DEFINE d == [nets[p] EXCEPT ![n][f] = c]
<1>7. Entered(p, d, {d}) /\ unsynced' \in [Places -> SUBSET ({"data", "entry"} \X Files)]
  BY <1>1 DEF StageFile, TypeOK
<1> HIDE DEF d
<1>8. d \in NetDirs /\ {d} \in SUBSET NetDirs
  BY <1>6 DEF d
<1>. QED
  BY <1>1, <1>7, <1>8, EnteredTyped

\* A running command has a timestamp, and while it fills a staging dir that dir exists.
RunShape ==
    /\ run.pc # "idle" => run.ts \in Stamps
    /\ run.pc \in {"copy", "verify", "marker", "seal"} =>
          nets[run.place][Staging(run.ts)] # Absent

TypeInv == TypeOK /\ RunShape

LEMMA EndsShape ==
    ASSUME NEW r, NEW at, run' = Exited(r, at)
    PROVE  RunShape'
  BY DEF Exited, RunShape

LEMMA StartShape ==
    ASSUME NEW cmd, NEW pc \in {"networks", "cfgaside", "reset"}, NEW t \in Stamps, NEW r,
           run' = Started(cmd, pc, t, r)
    PROVE  RunShape'
  BY DEF Started, Exited, RunShape

\* Every way to begin a command, or to end one at once.
LEMMA BeginTyped ==
    ASSUME TypeInv, BeginRun
    PROVE  TypeInv'
<1>. USE DEF TypeInv
<1>1. CASE IdentityNothing
  BY <1>1, EndsTyped, EndsShape DEF IdentityNothing, Ends, Results, Steps
<1>2. CASE IdentityRefused
  BY <1>2, EndsTyped, EndsShape DEF IdentityRefused, Ends, Results, Stages, Steps
<1>3. CASE IdentityUnreadable
  BY <1>3, EndsTyped, EndsShape DEF IdentityUnreadable, Ends, Results, Stages, Steps
<1>4. ASSUME NEW dry \in BOOLEAN, NEW t \in Stamps, IdentityAlready(dry, t)
      PROVE  TypeInv'
  <2>1. run' \in Runs
    BY <1>4, ExitedTyped, StartedTyped DEF IdentityAlready, Results, Steps, Commands
  <2>2. RunShape'
    BY <1>4, EndsShape, StartShape DEF IdentityAlready
  <2>. QED
    BY <1>4, <2>1, <2>2, FilesUnchanged, FaultTyped
       DEF IdentityAlready, TypeOK, FilesOK
<1>5. CASE IdentityConflict
  BY <1>5, EndsTyped, EndsShape DEF IdentityConflict, Ends, Results, Steps
<1>6. CASE IdentityDryRun
  BY <1>6, EndsTyped, EndsShape DEF IdentityDryRun, Ends, Results, Steps
<1>7. ASSUME NEW replace \in BOOLEAN, NEW t \in Stamps, IdentityInstall(replace, t)
      PROVE  TypeInv'
  <2>1. run' \in Runs
    BY <1>7, StartedTyped DEF IdentityInstall, Results, Commands
  <2>2. RunShape'
    BY <1>7, StartShape DEF IdentityInstall
  <2>. QED
    BY <1>7, <2>1, <2>2, FilesUnchanged, FaultTyped
       DEF IdentityInstall, TypeOK, FilesOK
<1>8. ASSUME NEW cmd \in Commands \ {"identity"}, NEW t \in Stamps, StartClean(cmd, t)
      PROVE  TypeInv'
  <2>1. run' \in Runs
    BY <1>8, ExitedTyped, StartedTyped DEF StartClean, Results, Steps, Commands
  <2>2. RunShape'
    BY <1>8, EndsShape, StartShape DEF StartClean
  <2>. QED
    BY <1>8, <2>1, <2>2, FilesUnchanged, FaultTyped DEF StartClean, TypeOK, FilesOK
<1>9. CASE StartCleanRefused
  BY <1>9, EndsTyped, EndsShape DEF StartCleanRefused, Ends, Results, Stages, Steps
<1>10. CASE StartCleanUnreadable
  BY <1>10, EndsTyped, EndsShape DEF StartCleanUnreadable, Ends, Results, Stages, Steps
<1>. QED
  BY <1>1, <1>2, <1>3, <1>4, <1>5, <1>6, <1>7, <1>8, <1>9, <1>10 DEF BeginRun

LEMMA AfterAsideTyped ==
    ASSUME NEW r \in Runs, r.pc = "aside"
    PROVE  /\ AfterAside(r) \in Runs /\ AfterAside(r).ts = r.ts
           /\ AfterAside(r).pc \in {"aside", "mkdir"}
<1>1. CASE r.place = "data"
  BY <1>1 DEF AfterAside, Runs, Places
<1>2. CASE r.place # "data"
  BY <1>2 DEF AfterAside, Runs, Places, Steps, Installing
<1>. QED
  BY <1>1, <1>2

\* The steps of a run up to the last rename of publish.
LEMMA InstallTyped ==
    ASSUME TypeInv,
           \/ CreateNetworks \/ CreateNetworksFails \/ MoveAside \/ MoveAsideFails
           \/ CreateStaging \/ (\E f \in Files : CopyFile(f) \/ VerifyCopy(f))
           \/ CopiesDone \/ WriteMarker \/ SealStaging \/ StageFails
           \/ PublishData \/ PublishCache
    PROVE  TypeInv'
<1>. USE DEF TypeInv, At
<1> DEFINE p == run.place
           n == Staging(run.ts)
<1>0. /\ p \in Places /\ nets[p] \in NetDirs /\ run.plan \in Dirs
      /\ nets["data"] \in NetDirs /\ nets["cache"] \in NetDirs
      /\ run.pc \in Steps
  BY DEF TypeOK, Runs, Places
<1>1. CASE CreateNetworks
  BY <1>1, FilesUnchanged, FaultTyped
     DEF CreateNetworks, TypeOK, FilesOK, RunShape, Runs, Steps, Installing, files
<1>2. CASE CreateNetworksFails
  BY <1>2, EndsTyped, EndsShape
     DEF CreateNetworksFails, Ends, Results, Stages, Steps, Installing
<1>3. CASE MoveAside
  <2>1. CASE nets[p][Live] = Absent /\ run' = AfterAside(run) /\ UNCHANGED files
    BY <1>3, <2>1, AfterAsideTyped, FilesUnchanged, FaultTyped
       DEF MoveAside, TypeOK, FilesOK, RunShape
  <2>2. ASSUME NEW name \in AsideNets,
               SetNets(p, Rename(nets[p], Live, name)),
               run' = AfterAside([run EXCEPT !.replaced[p] = name])
        PROVE  TypeInv'
    <3>1. FilesOK'
      BY <1>0, <2>2, NamesTyped, RenameTyped, SetNetsTyped
    <3>2. [run EXCEPT !.replaced[p] = name] \in Runs
      BY <1>0, <2>2 DEF TypeOK, Runs
    <3>3. run' \in Runs /\ run'.ts = run.ts /\ run'.pc \in {"aside", "mkdir"}
      <4> DEFINE r == [run EXCEPT !.replaced[p] = name]
      <4>1. r.pc = "aside" /\ r.ts = run.ts
        BY <1>3 DEF MoveAside, TypeOK, Runs
      <4> HIDE DEF r
      <4>. QED
        BY <2>2, <3>2, <4>1, AfterAsideTyped DEF r
    <3>. QED
      BY <1>3, <3>1, <3>3, FaultTyped DEF MoveAside, TypeOK, FilesOK, RunShape
  <2>. QED
    BY <1>3, <2>1, <2>2 DEF MoveAside
<1>4. CASE MoveAsideFails
  BY <1>4, FilesUnchanged, FailedTyped, FaultTyped
     DEF MoveAsideFails, Failed, TypeOK, FilesOK, RunShape, Runs, Undoing, Stages
<1>5. CASE CreateStaging
  <2> DEFINE d == [nets[p] EXCEPT ![n] = Empty]
  <2>1. CASE /\ Entered(p, d, {d}) /\ unsynced' = [unsynced EXCEPT ![p] = {}]
             /\ run' = [run EXCEPT !.pc = "copy", !.todo = Planned(run.plan, p)]
    <3>1. n \in NetNames
      BY <1>5, NamesTyped DEF CreateStaging, RunShape
    <3>2. d \in NetDirs /\ {d} \in SUBSET NetDirs
      BY <1>0, EmptyIsDir DEF NetDirs
    <3>3. FilesOK'
      <4>1. unsynced' \in [Places -> SUBSET ({"data", "entry"} \X Files)]
        BY <2>1 DEF TypeOK
      <4> HIDE DEF d
      <4>. QED
        BY <1>0, <2>1, <3>2, <4>1, EnteredTyped
    <3>4. "copy" \in Steps /\ Planned(run.plan, p) \in SUBSET Files
      BY DEF Steps, Installing, Planned
    <3>5. run' \in Runs /\ run'.ts = run.ts /\ run'.place = p
      BY <2>1, <3>4 DEF TypeOK, Runs
    <3>6. nets'[p][n] = Empty
      BY <1>0, <2>1, <3>1 DEF Entered, TypeOK, NetDirs
    <3>. QED
      BY <1>5, <3>3, <3>5, <3>6, EmptyIsDir, NotADirAssumption, FaultTyped
         DEF CreateStaging, TypeOK, FilesOK, RunShape
  <2>2. CASE Failed("remove", "Destination") /\ UNCHANGED files
    BY <1>5, <2>2, FilesUnchanged, FailedTyped, FaultTyped
       DEF CreateStaging, Failed, TypeOK, FilesOK, RunShape, Runs, Undoing, Stages
  <2>. QED
    BY <1>5, <2>1, <2>2 DEF CreateStaging
<1>6. ASSUME NEW f \in Files, NEW c \in Contents,
             NEW u \in SUBSET ({"data", "entry"} \X Files), StageFile(f, c, u),
             run.pc \in {"copy", "marker"}, NEW pc \in {"verify", "seal"},
             run' = [run EXCEPT !.pc = pc], Fault \/ NoFault, UNCHANGED known
      PROVE  TypeInv'
  <2>1. run.ts \in Stamps /\ n \in NetNames /\ nets[p][n] # Absent
    BY <1>6, NamesTyped DEF RunShape
  <2>2. FilesOK'
    BY <1>6, <2>1, StageFileTyped
  <2>3. pc \in Steps
    BY DEF Steps, Installing
  <2>4. run' \in Runs /\ run'.ts = run.ts /\ run'.place = p
    BY <1>6, <2>3 DEF TypeOK, Runs
  <2>5. nets[p][n] \in Dirs
    BY <1>0, <2>1 DEF NetDirs
  <2>6. nets'[p][n] = [nets[p][n] EXCEPT ![f] = c]
    BY <1>0, <1>6, <2>1 DEF StageFile, Entered, TypeOK, NetDirs
  <2>7. nets'[p][n] \in Dirs
    BY <2>5, <2>6 DEF Dirs
  <2>. QED
    BY <1>6, <2>1, <2>2, <2>4, <2>7, NotADirAssumption, FaultTyped
       DEF TypeOK, FilesOK, RunShape
<1>7. ASSUME NEW f \in Files, CopyFile(f)
      PROVE  TypeInv'
  <2>1. run.plan[f] \in Contents /\ Torn \in Contents
    BY <1>0 DEF Dirs, Contents
  <2>2. PICK c \in {run.plan[f], Torn} :
           (Fault \/ NoFault) /\ StageFile(f, c, {"data", "entry"} \X {f})
    BY <1>7 DEF CopyFile
  <2>. QED
    BY <1>6, <1>7, <2>1, <2>2 DEF CopyFile
<1>8. ASSUME NEW f \in Files, VerifyCopy(f)
      PROVE  TypeInv'
  <2>1. run' \in Runs
    <3>1. CASE run' = [run EXCEPT !.pc = "copy", !.todo = @ \ {f}]
      BY <3>1 DEF TypeOK, Runs, Steps, Installing
    <3>2. CASE Failed("remove", "Destination")
      BY <3>2, FailedTyped DEF Undoing, Stages
    <3>. QED
      BY <1>8, <3>1, <3>2 DEF VerifyCopy
  <2>2. RunShape'
    BY <1>8, SyncedTyped DEF VerifyCopy, Failed, RunShape, TypeOK, Runs
  <2>. QED
    BY <1>8, <2>1, <2>2, SyncedTyped, FaultTyped DEF VerifyCopy, TypeOK, FilesOK
<1>9. CASE CopiesDone
  <2>1. run' \in Runs
    BY <1>9 DEF CopiesDone, TypeOK, Runs, Steps, Installing
  <2>2. RunShape'
    BY <1>9 DEF CopiesDone, RunShape, TypeOK, Runs, files
  <2>. QED
    BY <1>9, <2>1, <2>2, FilesUnchanged, FaultTyped DEF CopiesDone, TypeOK, FilesOK
<1>10. CASE WriteMarker
  <2>1. run.plan["id"] \in Contents /\ "migrated-from" \in Files
    BY <1>0 DEF Dirs, Files
  <2>. QED
    BY <1>6, <1>10, <2>1 DEF WriteMarker, Files
<1>11. CASE SealStaging
  <2>1. run' \in Runs
    BY <1>11 DEF SealStaging, AfterSeal, TypeOK, Runs, Steps, Installing, Places
  <2>2. RunShape'
    BY <1>11 DEF SealStaging, AfterSeal, RunShape, TypeOK, Runs
  <2>. QED
    BY <1>11, <2>1, <2>2, SyncedTyped, FaultTyped DEF SealStaging, TypeOK, FilesOK
<1>12. CASE StageFails
  <2>1. PICK s \in {"Destination", "Legacy"} : Failed("remove", s)
    BY <1>12 DEF StageFails
  <2>2. run' \in Runs
    BY <2>1, FailedTyped DEF Undoing, Stages
  <2>3. RunShape'
    BY <1>12, <2>1 DEF StageFails, Failed, RunShape, TypeOK, Runs
  <2>. QED
    BY <1>12, <2>2, <2>3, FilesUnchanged, FaultTyped DEF StageFails, TypeOK, FilesOK
<1>13. ASSUME NEW q \in Places, NEW pc \in {"pubcache", "pubsync"}, run.pc # "idle",
              PublishIn(q), run' = [run EXCEPT !.pc = pc],
              NoFault, UNCHANGED known
       PROVE  TypeInv'
  <2>1. n \in NetNames /\ nets[q] \in NetDirs
    BY <1>13, NamesTyped DEF RunShape, TypeOK
  <2>2. FilesOK'
    <3> DEFINE d == Rename(nets[q], n, Live)
    <3>1. d \in NetDirs
      BY <2>1, NamesTyped, RenameTyped
    <3>2. Entered(q, d, PartlyLive(q, d)) /\ unsynced' = unsynced
      BY <1>13 DEF PublishIn
    <3> HIDE DEF d
    <3>. QED
      BY <3>1, <3>2, PartlyLiveTyped, EnteredTyped DEF TypeOK
  <2>3. run' \in Runs /\ RunShape'
    BY <1>13 DEF TypeOK, Runs, RunShape, Steps, Installing
  <2>. QED
    BY <1>13, <2>2, <2>3, FaultTyped DEF TypeOK, FilesOK
<1>14. ASSUME NEW pc \in Undoing, Failed(pc, "Destination"), UNCHANGED files, Fault,
              UNCHANGED known, run.pc # "idle"
       PROVE  TypeInv'
  <2>1. run' \in Runs
    BY <1>14, FailedTyped DEF Stages
  <2>2. RunShape'
    BY <1>14 DEF Failed, RunShape, TypeOK, Runs, Undoing
  <2>. QED
    BY <1>14, <2>1, <2>2, FilesUnchanged, FaultTyped DEF TypeOK, FilesOK
<1>15. CASE PublishData
  BY <1>13, <1>14, <1>15 DEF PublishData, Undoing, Places
<1>16. CASE PublishCache
  BY <1>13, <1>14, <1>16 DEF PublishCache, Undoing, Places
<1>. QED
  BY <1>1, <1>2, <1>3, <1>4, <1>5, <1>7, <1>8, <1>9, <1>10, <1>11, <1>12, <1>15, <1>16

LEMMA AfterUndoTyped ==
    ASSUME NEW r \in Runs, NEW next \in Runs
    PROVE  AfterUndo(r, next) \in Runs
  BY DEF AfterUndo, Runs, Places

LEMMA UndoTyped ==
    ASSUME TypeInv,
           UndoPublish \/ PublishSync \/ PublishSyncFails \/ RemoveStaging \/ Restore
    PROVE  TypeInv'
<1>. USE DEF TypeInv, At
<1> DEFINE p == run.place
           n == Staging(run.ts)
<1>0. /\ p \in Places /\ nets[p] \in NetDirs /\ nets["data"] \in NetDirs
      /\ run \in Runs /\ run.pc \in Steps /\ run.result \in Results
      /\ run.failedAt \in Steps \cup {"none"}
  BY DEF TypeOK, Runs, Places
<1>1. run.pc # "idle" => n \in NetNames /\ run.ts \in Stamps
  BY NamesTyped DEF RunShape
<1>2. CASE UndoPublish
  <2>1. FilesOK'
    <3>1. CASE SetNets("data", Rename(nets["data"], Live, n))
      BY <1>0, <1>1, <1>2, <3>1, NamesTyped, RenameTyped, SetNetsTyped
         DEF UndoPublish, Places
    <3>. QED
      BY <1>2, <3>1, FilesUnchanged DEF UndoPublish
  <2>2. run' \in Runs
    <3>1. CASE run' = [run EXCEPT !.pc = "remove"]
      BY <3>1, <1>0 DEF Runs, Steps, Undoing
    <3>2. CASE run' = [run EXCEPT !.pc = "remove", !.effort = "missed"]
      BY <3>2, <1>0 DEF Runs, Steps, Undoing
    <3>. QED
      BY <1>2, <3>1, <3>2 DEF UndoPublish
  <2>3. RunShape'
    BY <1>0, <1>1, <1>2 DEF UndoPublish, RunShape, Runs
  <2>. QED
    BY <1>2, <2>1, <2>2, <2>3, FaultTyped DEF UndoPublish, TypeOK, FilesOK
<1>3. CASE PublishSync
  <2>1. disk' \in [Places -> SUBSET NetDirs]
    BY <1>0, <1>3, PartlyLiveTyped DEF PublishSync, TypeOK
  <2>2. run' \in Runs
    <3>1. CASE run' = [run EXCEPT !.place = "cache"]
      BY <3>1, <1>0 DEF Runs, Places
    <3>2. CASE run' = [run EXCEPT !.pc = "cfgaside", !.place = "data"]
      BY <3>2, <1>0 DEF Runs, Places, Steps, MovingLegacy
    <3>. QED
      BY <1>3, <3>1, <3>2 DEF PublishSync
  <2>3. RunShape'
    BY <1>0, <1>1, <1>3 DEF PublishSync, RunShape, Runs
  <2>. QED
    BY <1>3, <2>1, <2>2, <2>3, FaultTyped DEF PublishSync, TypeOK
<1>4. CASE PublishSyncFails
  <2>1. run' \in Runs
    BY <1>4, FailedTyped DEF PublishSyncFails, Undoing, Stages
  <2>2. RunShape'
    BY <1>0, <1>1, <1>4 DEF PublishSyncFails, Failed, RunShape, Runs
  <2>. QED
    BY <1>4, <2>1, <2>2, FilesUnchanged, FaultTyped DEF PublishSyncFails, TypeOK, FilesOK
<1>5. CASE RemoveStaging
  <2>1. FilesOK'
    <3>1. [nets[p] EXCEPT ![n] = Absent] \in NetDirs
      BY <1>0 DEF NetDirs
    <3>. QED
      BY <1>0, <1>5, <3>1, FilesUnchanged, SetNetsTyped DEF RemoveStaging
  <2>2. [run EXCEPT !.pc = "restore", !.place = "data"] \in Runs
    BY <1>0 DEF Runs, Places, Steps, Undoing
  <2>3. run' \in Runs
    BY <1>0, <1>5, <2>2, AfterUndoTyped DEF RemoveStaging
  <2>4. RunShape'
    BY <1>0, <1>1, <1>5 DEF RemoveStaging, AfterUndo, RunShape, Runs
  <2>. QED
    BY <1>5, <2>1, <2>3, <2>4, FaultTyped DEF RemoveStaging, TypeOK, FilesOK
<1>6. CASE Restore
  <2> DEFINE done == Exited(run.result, run.failedAt)
             missed == [run EXCEPT !.effort = "missed"]
  <2>1. FilesOK'
    <3>1. CASE /\ run.replaced[p] # Absent
               /\ SetNets(p, Rename(nets[p], run.replaced[p], Live))
      <4>1. run.replaced[p] \in NetNames
        BY <1>0, <3>1, NamesTyped DEF Runs
      <4>. QED
        BY <1>0, <3>1, <4>1, NamesTyped, RenameTyped, SetNetsTyped
    <3>. QED
      BY <1>6, <3>1, FilesUnchanged DEF Restore
  <2>2. done \in Runs
    BY <1>0, ExitedTyped
  <2>3. missed \in Runs
    BY <1>0 DEF Runs
  <2>4. run' \in {AfterUndo(run, done), AfterUndo(missed, done)}
    BY <1>6 DEF Restore
  <2>5. run' \in Runs
    BY <1>0, <2>2, <2>3, <2>4, AfterUndoTyped
  <2>6. RunShape'
    <3>1. CASE run' = done
      BY <3>1, EndsShape
    <3>2. CASE run' = [run EXCEPT !.place = "cache"]
      BY <1>0, <1>1, <1>6, <3>2 DEF Restore, RunShape, Runs
    <3>3. CASE run' = [missed EXCEPT !.place = "cache"]
      BY <1>0, <1>1, <1>6, <3>3 DEF Restore, RunShape, Runs
    <3>. QED
      BY <2>4, <3>1, <3>2, <3>3 DEF AfterUndo
  <2>. QED
    BY <1>6, <2>1, <2>5, <2>6, FaultTyped DEF Restore, TypeOK, FilesOK
<1>. QED
  BY <1>2, <1>3, <1>4, <1>5, <1>6

LEMMA MoveExposedTyped ==
    ASSUME NEW S, NEW e \in SUBSET S, NEW from \in S, NEW to \in S
    PROVE  MoveExposed(e, from, to) \in SUBSET S
  BY DEF MoveExposed

LEMMA HomeConfTyped ==
    ASSUME NEW h \in Homes, NEW c \in [ConfNames -> Dirs \cup {Absent}],
           NEW e \in SUBSET (ConfNames \cup PixNames)
    PROVE  [h EXCEPT !.conf = c, !.exposed = e] \in Homes
  BY DEF Homes

LEMMA HomePixTyped ==
    ASSUME NEW h \in Homes, NEW x \in [PixNames -> Contents],
           NEW e \in SUBSET (ConfNames \cup PixNames)
    PROVE  [h EXCEPT !.pix = x, !.exposed = e] \in Homes
  BY DEF Homes

LEMMA HomeExposedTyped ==
    ASSUME NEW h \in Homes, NEW e \in SUBSET (ConfNames \cup PixNames)
    PROVE  [h EXCEPT !.exposed = e] \in Homes
  BY DEF Homes

\* The entries of the legacy home that a run moves or locks.
LEMMA HomeMovesTyped ==
    ASSUME NEW h \in Homes
    PROVE  /\ \A name \in ConfNames : ConfigMoved(h, name) \in Homes
           /\ \A name \in PixNames : PixMoved(h, name) \in Homes
           /\ \A names : Locked(h, names) \in Homes
<1>0. /\ h.conf \in [ConfNames -> Dirs \cup {Absent}]
      /\ h.pix \in [PixNames -> Contents]
      /\ h.exposed \in SUBSET (ConfNames \cup PixNames)
  BY DEF Homes
<1>1. ASSUME NEW name \in ConfNames
      PROVE  ConfigMoved(h, name) \in Homes
  <2>1. Rename(h.conf, Config, name) \in [ConfNames -> Dirs \cup {Absent}]
    BY <1>0, NamesTyped DEF Rename
  <2>2. MoveExposed(h.exposed, Config, name) \in SUBSET (ConfNames \cup PixNames)
    BY <1>0, NamesTyped, MoveExposedTyped
  <2>. QED
    BY <2>1, <2>2, HomeConfTyped DEF ConfigMoved
<1>2. ASSUME NEW name \in PixNames
      PROVE  PixMoved(h, name) \in Homes
  <2>1. Rename(h.pix, Pix, name) \in [PixNames -> Contents]
    BY <1>0, NamesTyped DEF Rename, Contents
  <2>2. MoveExposed(h.exposed, Pix, name) \in SUBSET (ConfNames \cup PixNames)
    BY <1>0, NamesTyped, MoveExposedTyped
  <2>. QED
    BY <2>1, <2>2, HomePixTyped DEF PixMoved
<1>3. ASSUME NEW names
      PROVE  Locked(h, names) \in Homes
  <2>1. h.exposed \ names \in SUBSET (ConfNames \cup PixNames)
    BY <1>0
  <2>. QED
    BY <2>1, HomeExposedTyped DEF Locked
<1>. QED
  BY <1>1, <1>2, <1>3

LEMMA AllRenamedTyped == TypeOK => AllRenamed \subseteq Homes
  BY DEF TypeOK, AllRenamed

LEMMA LegacyTyped ==
    ASSUME TypeInv,
           \/ ConfigAside \/ LockDown \/ RedbAside \/ SecureLeftovers \/ HomeSync \/ LegacyFails
           \/ ResetDir \/ ResetFails
    PROVE  TypeInv'
<1>. USE DEF TypeInv, At
<1> DEFINE p == run.place
<1>0. /\ p \in Places /\ nets[p] \in NetDirs /\ home \in Homes
      /\ run \in Runs /\ run.pc \in Steps /\ run.result \in Results
      /\ home.conf \in [ConfNames -> Dirs \cup {Absent}]
      /\ home.pix \in [PixNames -> Contents]
      /\ home.exposed \in SUBSET (ConfNames \cup PixNames)
  BY DEF TypeOK, Runs, Homes
<1>1. run.pc # "idle" => run.ts \in Stamps
  BY DEF RunShape
<1>2. CASE ConfigAside
  <2>1. PICK name \in ConfNames :
           /\ SetHome(ConfigMoved(home, name), {ConfigMoved(h, name) : h \in AllRenamed})
           /\ run' = [run EXCEPT !.pc = "lockdown", !.aside = name]
    BY <1>2 DEF ConfigAside
  <2>2. {ConfigMoved(h, name) : h \in AllRenamed} \in SUBSET Homes
    BY AllRenamedTyped, HomeMovesTyped
  <2>4. FilesOK'
    BY <1>0, <2>1, <2>2, HomeMovesTyped, SetHomeTyped
  <2>5. run' \in Runs /\ RunShape'
    BY <1>0, <1>1, <1>2, <2>1 DEF ConfigAside, Runs, RunShape, Steps, MovingLegacy
  <2>. QED
    BY <1>2, <2>4, <2>5, FaultTyped DEF ConfigAside, TypeOK, FilesOK
<1>3. CASE LockDown
  <2>1. FilesOK'
    <3> DEFINE names(h) == {IF h.conf[Config] # Absent THEN Config ELSE run.aside}
               leaves == {Locked(h, names(h)) : h \in homeDisk}
    <3>1. Locked(home, {run.aside}) \in Homes /\ leaves \in SUBSET Homes
      <4>1. ASSUME NEW h \in homeDisk
            PROVE  Locked(h, names(h)) \in Homes
        <5>1. h \in Homes
          BY DEF TypeOK
        <5> HIDE DEF names
        <5>. QED
          BY <5>1, HomeMovesTyped
      <4>. QED
        BY <1>0, <4>1, HomeMovesTyped
    <3>2. SetHome(Locked(home, {run.aside}), leaves)
      BY <1>3 DEF LockDown
    <3> HIDE DEF leaves
    <3>. QED
      BY <3>1, <3>2, SetHomeTyped
  <2>2. PICK pc \in {"homesync", "redbaside", "sweep"}, r \in {"StartedClean", run.result} :
           run' = [run EXCEPT !.pc = pc, !.result = r]
    <3>1. run.result = run.result /\ [run EXCEPT !.result = run.result] = run
      BY <1>0 DEF Runs
    <3>2. \A pc \in Steps : [run EXCEPT !.pc = pc] = [run EXCEPT !.pc = pc, !.result = run.result]
      BY <1>0 DEF Runs
    <3>3. {"homesync", "redbaside", "sweep"} \subseteq Steps
      BY DEF Steps, MovingLegacy
    <3>. QED
      BY <1>3, <3>2, <3>3 DEF LockDown
  <2>3. pc \in Steps /\ r \in Results
    BY <1>0 DEF Steps, MovingLegacy, Results
  <2>4. run' \in Runs /\ RunShape'
    BY <1>0, <1>1, <1>3, <2>2, <2>3 DEF LockDown, Runs, RunShape
  <2>. QED
    BY <1>3, <2>1, <2>4, FaultTyped DEF LockDown, TypeOK, FilesOK
<1>4. CASE RedbAside
  <2>1. PICK name \in PixNames :
           SetHome(PixMoved(home, name), {PixMoved(h, name) : h \in AllRenamed})
    BY <1>4 DEF RedbAside
  <2>2. {PixMoved(h, name) : h \in AllRenamed} \in SUBSET Homes
    BY AllRenamedTyped, HomeMovesTyped
  <2>4. FilesOK'
    BY <1>0, <2>1, <2>2, HomeMovesTyped, SetHomeTyped
  <2>5. run' \in Runs /\ RunShape'
    BY <1>0, <1>1, <1>4 DEF RedbAside, Runs, RunShape, Steps, MovingLegacy
  <2>. QED
    BY <1>4, <2>4, <2>5, FaultTyped DEF RedbAside, TypeOK, FilesOK
<1>5. CASE SecureLeftovers
  <2>1. PICK missed \in SUBSET (home.exposed \cap Securable) :
           /\ IF missed = {} THEN NoFault ELSE Fault
           /\ SetHome(Locked(home, Securable \ missed), SweepLeaves(missed))
           /\ run' = [run EXCEPT !.pc = "homesync",
                                 !.effort = IF missed = {} THEN run.effort ELSE "missed"]
    BY <1>5 DEF SecureLeftovers
  <2>2. FilesOK'
    <3>1. SweepLeaves(missed) \in SUBSET Homes
      BY AllRenamedTyped, HomeMovesTyped DEF SweepLeaves
    <3>. QED
      BY <1>0, <2>1, <3>1, HomeMovesTyped, SetHomeTyped
  <2>3. run' \in Runs /\ RunShape'
    <3>1. "homesync" \in Steps /\ (IF missed = {} THEN run.effort ELSE "missed") \in {"ok", "missed"}
      BY <1>0 DEF Steps, MovingLegacy, Runs
    <3>. QED
      BY <1>0, <1>1, <1>5, <2>1, <3>1 DEF SecureLeftovers, Runs, RunShape
  <2>4. Fault \/ NoFault
    BY <2>1
  <2>. QED
    BY <1>5, <2>2, <2>3, <2>4, FaultTyped DEF SecureLeftovers, TypeOK, FilesOK
<1>6. CASE HomeSync
  <2>0. FilesOK'
    BY <1>6, AllRenamedTyped DEF HomeSync, TypeOK, FilesOK, netFiles
  <2>1. CASE run' = [run EXCEPT !.pc = "reset"]
    BY <1>0, <1>1, <1>6, <2>0, <2>1, FaultTyped DEF HomeSync, TypeOK, FilesOK, Runs, RunShape, Steps
  <2>2. CASE run' = Exited(run.result, "none")
    <3>1. run' \in Runs /\ RunShape'
      BY <1>0, <2>2, ExitedTyped, EndsShape
    <3>. QED
      BY <1>0, <1>6, <2>0, <3>1, FaultTyped DEF HomeSync, TypeOK, FilesOK
  <2>. QED
    BY <1>6, <2>1, <2>2 DEF HomeSync
<1>7. CASE LegacyFails
  BY <1>0, <1>7, EndsTyped, EndsShape DEF LegacyFails, Ends, Results, Stages
<1>8. CASE ResetDir
  <2> DEFINE clean == [run EXCEPT !.result = "StartedClean"]
  <2>1. FilesOK'
    <3>1. ASSUME NEW name \in AsideNets, SetNets(p, Rename(nets[p], Live, name))
          PROVE  FilesOK'
      BY <1>0, <3>1, NamesTyped, RenameTyped, SetNetsTyped
    <3>. QED
      BY <1>8, <3>1, FilesUnchanged DEF ResetDir
  <2>2. clean \in Runs /\ clean.pc = run.pc /\ clean.ts = run.ts
    BY <1>0 DEF Runs, Results
  <2>3. PICK r \in {run, clean}, res \in {run.result, "StartedClean"} :
           run' = AfterUndo(r, Exited(res, "none"))
    BY <1>8 DEF ResetDir
  <2>4. r \in Runs /\ r.pc = run.pc /\ r.ts = run.ts /\ res \in Results
    BY <1>0, <2>2 DEF Results
  <2>5. run' \in Runs
    BY <2>3, <2>4, ExitedTyped, AfterUndoTyped
  <2>6. RunShape'
    <3>1. CASE run' = Exited(res, "none")
      BY <3>1, EndsShape
    <3>2. CASE run' = [r EXCEPT !.place = "cache"]
      BY <1>1, <1>8, <2>4, <3>2 DEF ResetDir, RunShape, Runs
    <3>. QED
      BY <2>3, <3>1, <3>2 DEF AfterUndo
  <2>. QED
    BY <1>8, <2>1, <2>5, <2>6, FaultTyped DEF ResetDir, TypeOK, FilesOK
<1>9. CASE ResetFails
  BY <1>9, EndsTyped, EndsShape DEF ResetFails, Ends, Results, Stages, Steps
<1>. QED
  BY <1>2, <1>3, <1>4, <1>5, <1>6, <1>7, <1>8, <1>9

NewData(i) == [Empty EXCEPT !["id"] = i, !["pass"] = i]

NewCache(c, i, safe) ==
    IF c \in {Absent, Empty} /\ safe THEN [Empty EXCEPT !["safe"] = i]
    ELSE IF c = Absent THEN Empty ELSE c

LEMMA NewDirsTyped ==
    ASSUME NEW i \in Ids, NEW safe \in BOOLEAN, NEW c \in Dirs \cup {Absent}
    PROVE  NewData(i) \in Dirs /\ NewCache(c, i, safe) \in Dirs
<1>1. NewData(i) \in Dirs /\ [Empty EXCEPT !["safe"] = i] \in Dirs
  BY EmptyIsDir DEF NewData, Dirs, Contents
<1>. QED
  BY <1>1, EmptyIsDir DEF NewCache

\* What ClientStart makes of the two networks/ dirs.
LEMMA ClientStartNets ==
    ASSUME TypeOK, NEW i \in Ids, NEW safe \in BOOLEAN, ClientStart(i, safe)
    PROVE  /\ nets' \in [Places -> NetDirs]
           /\ nets'["data"] = [nets["data"] EXCEPT ![Live] = NewData(i)]
           /\ nets'["cache"] = [nets["cache"] EXCEPT ![Live] = NewCache(nets["cache"][Live], i, safe)]
<1> DEFINE d == [nets["data"] EXCEPT ![Live] = NewData(i)]
           c == [nets["cache"] EXCEPT ![Live] = NewCache(nets["cache"][Live], i, safe)]
<1>1. nets["data"] \in NetDirs /\ nets["cache"] \in NetDirs
      /\ nets["cache"][Live] \in Dirs \cup {Absent}
  BY NamesTyped DEF TypeOK, NetDirs, Places
<1>2. d \in NetDirs /\ c \in NetDirs
  BY <1>1, NewDirsTyped DEF NetDirs
<1>3. nets' = [nets EXCEPT !["data"] = d, !["cache"] = c]
  BY DEF ClientStart, NewData, NewCache, TypeOK, Places
<1> HIDE DEF d, c
<1>4. nets'["data"] = d /\ nets'["cache"] = c
  BY <1>3 DEF TypeOK, Places
<1>5. nets' \in [Places -> NetDirs]
  BY <1>2, <1>3 DEF TypeOK, Places
<1>. QED
  BY <1>4, <1>5 DEF d, c

\* What LegacyStart makes of the legacy home.
LEMMA LegacyStartHome ==
    ASSUME TypeOK, NEW i \in Ids, LegacyStart(i)
    PROVE  /\ home' \in Homes
           /\ home'.conf = [home.conf EXCEPT ![Config] = NewData(i)]
           /\ home'.pix = [home.pix EXCEPT ![Pix] = IF home.pix[Pix] = Absent THEN i ELSE home.pix[Pix]]
<1> DEFINE c == [home.conf EXCEPT ![Config] = NewData(i)]
           x == [home.pix EXCEPT ![Pix] = IF home.pix[Pix] = Absent THEN i ELSE home.pix[Pix]]
           e == home.exposed \cup {Config, Pix}
<1>1. /\ home.conf \in [ConfNames -> Dirs \cup {Absent}]
      /\ home.pix \in [PixNames -> Contents]
      /\ home.exposed \in SUBSET (ConfNames \cup PixNames)
  BY DEF TypeOK, Homes
<1>2. c \in [ConfNames -> Dirs \cup {Absent}]
  BY <1>1, NewDirsTyped, NamesTyped
<1>3. x \in [PixNames -> Contents] /\ e \in SUBSET (ConfNames \cup PixNames)
  BY <1>1, NamesTyped DEF Contents
<1>4. home' = [home EXCEPT !.conf = c, !.pix = x, !.exposed = e]
  BY DEF LegacyStart, NewData, TypeOK, Homes
<1> HIDE DEF c, x, e
<1>5. home' \in Homes /\ home'.conf = c /\ home'.pix = x
  BY <1>2, <1>3, <1>4 DEF TypeOK, Homes
<1>. QED
  BY <1>5 DEF c, x

LEMMA LeftTyped ==
    ASSUME TypeOK, NEW p \in Places
    PROVE  Left(p) \in SUBSET NetDirs
<1>1. Nothing \in NetDirs
  BY DEF Nothing, NetDirs
<1>. QED
  BY <1>1 DEF Left, TypeOK

LEMMA EnvironmentTyped ==
    ASSUME TypeInv, Environment
    PROVE  TypeInv'
<1>. USE DEF TypeInv
<1>0. run.pc \in Steps
  BY DEF TypeOK, Runs
<1>1. CASE Killed
  BY <1>0, <1>1, EndsTyped, EndsShape DEF Killed, Ends, Results
<1>2. CASE PowerCut
  <2>1. PICK n \in [Places -> UNION {Left(p) : p \in Places}] :
           /\ \A p \in Places : n[p] \in Left(p)
           /\ nets' = n /\ disk' = [p \in Places |-> {n[p]}]
           /\ anchored' = anchored \cup {p \in Places : n[p] # Nothing}
    BY <1>2 DEF PowerCut
  <2>2. /\ nets' \in [Places -> NetDirs] /\ disk' \in [Places -> SUBSET NetDirs]
        /\ anchored' \subseteq Places
        /\ unsynced' \in [Places -> SUBSET ({"data", "entry"} \X Files)]
    <3>1. \A p \in Places : Left(p) \in SUBSET NetDirs
      BY LeftTyped
    <3>2. unsynced' = [p \in Places |-> {}]
      BY <1>2 DEF PowerCut
    <3>. QED
      BY <2>1, <3>1, <3>2 DEF TypeOK
  <2>3. home' \in Homes /\ homeDisk' \subseteq Homes
    BY <1>2 DEF PowerCut, TypeOK
  <2>4. run' \in Runs /\ RunShape'
    BY <1>0, <1>2, ExitedTyped, EndsShape DEF PowerCut, Results
  <2>. QED
    BY <1>2, <2>2, <2>3, <2>4, FaultTyped DEF PowerCut, TypeOK
<1>3. ASSUME NEW i \in Ids, NEW safe \in BOOLEAN, ClientStart(i, safe)
      PROVE  TypeInv'
  <2>0. nets' \in [Places -> NetDirs] /\ disk' = [p \in Places |-> {nets'[p]}]
    <3>1. nets' \in [Places -> NetDirs]
      BY <1>3, ClientStartNets
    <3>. QED
      BY <1>3, <3>1 DEF ClientStart
  <2>1. nets' \in [Places -> NetDirs] /\ disk' \in [Places -> SUBSET NetDirs]
    BY <2>0
  <2>2. home' \in Homes /\ homeDisk' \subseteq Homes
    BY <1>3 DEF ClientStart, TypeOK
  <2>3. run' \in Runs /\ RunShape'
    BY <1>3, ExitedTyped, EndsShape DEF ClientStart, Results
  <2>4. known' \subseteq Files \X Ids
    BY <1>3 DEF ClientStart, TypeOK, Files
  <2>. QED
    BY <1>3, <2>1, <2>2, <2>3, <2>4, FaultTyped DEF ClientStart, TypeOK
<1>4. ASSUME NEW i \in Ids, LegacyStart(i)
      PROVE  TypeInv'
  <2>1. home' \in Homes /\ homeDisk' \subseteq Homes
    BY <1>4, LegacyStartHome DEF LegacyStart
  <2>2. UNCHANGED netFiles
    BY <1>4 DEF LegacyStart
  <2>3. run' \in Runs /\ RunShape'
    BY <1>4, ExitedTyped, EndsShape DEF LegacyStart, Results
  <2>4. known' \subseteq Files \X Ids
    BY <1>4 DEF LegacyStart, TypeOK, Files
  <2>. QED
    BY <1>4, <2>1, <2>2, <2>3, <2>4, FaultTyped DEF LegacyStart, TypeOK, netFiles
<1>. QED
  BY <1>1, <1>2, <1>3, <1>4 DEF Environment

LEMMA InitTyped ==
    ASSUME Init
    PROVE  TypeInv
<1>1. /\ nets \in [Places -> NetDirs] /\ disk \in [Places -> SUBSET NetDirs]
      /\ unsynced \in [Places -> SUBSET ({"data", "entry"} \X Files)]
  BY DEF Init, NetDirs
<1>2. \A conf \in Dirs \cup {Absent}, redb \in Contents, e \in SUBSET {Config, Pix} :
         LegacyHome(conf, redb, e) \in Homes
  BY NamesTyped DEF LegacyHome, Homes, Contents
<1>3. home \in Homes /\ known \subseteq Files \X Ids
  <2>1. ASSUME NEW i \in Ids, NEW opt \in SUBSET {"pass", "safe"}, NEW redb \in BOOLEAN,
               NEW owner \in {{}, {Config}},
               home = LegacyHome([f \in Files |-> IF f \in {"id"} \cup opt THEN i ELSE Absent],
                                 IF redb THEN i ELSE Absent,
                                 owner \cup (IF redb THEN {Pix} ELSE {})),
               known = {<<f, i>> : f \in {"id"} \cup opt \cup (IF redb THEN {"redb"} ELSE {})}
        PROVE  home \in Homes /\ known \subseteq Files \X Ids
    <3>1. [f \in Files |-> IF f \in {"id"} \cup opt THEN i ELSE Absent] \in Dirs
      BY DEF Dirs, Contents
    <3>2. (IF redb THEN i ELSE Absent) \in Contents
      BY DEF Contents
    <3>3. owner \cup (IF redb THEN {Pix} ELSE {}) \in SUBSET {Config, Pix}
      OBVIOUS
    <3>4. \A f \in {"id"} \cup opt \cup (IF redb THEN {"redb"} ELSE {}) : f \in Files
      BY DEF Files
    <3>5. known \subseteq Files \X Ids
      BY <2>1, <3>4
    <3>. QED
      BY <1>2, <2>1, <3>1, <3>2, <3>3, <3>5
  <2>2. ASSUME NEW conf \in {Absent, Empty},
               home = LegacyHome(conf, Absent, IF conf = Empty THEN {Config} ELSE {}),
               known = {}
        PROVE  home \in Homes /\ known \subseteq Files \X Ids
    BY <1>2, <2>2, EmptyIsDir DEF Contents
  <2>. QED
    BY <2>1, <2>2 DEF Init
<1>4. run \in Runs /\ RunShape
  BY ExitedTyped DEF Init, Exited, Results, RunShape
<1>. QED
  BY <1>1, <1>3, <1>4, BoundsAssumption DEF Init, TypeInv, TypeOK

LEMMA StepTyped == TypeInv /\ [Next]_vars => TypeInv'
<1>. SUFFICES ASSUME TypeInv, [Next]_vars PROVE TypeInv'
  OBVIOUS
<1>1. CASE BeginRun
  BY <1>1, BeginTyped
<1>2. CASE RunStep
  BY <1>2, InstallTyped, UndoTyped, LegacyTyped DEF RunStep
<1>3. CASE Environment
  BY <1>3, EnvironmentTyped
<1>4. CASE UNCHANGED vars
  BY <1>4 DEF vars, TypeInv, TypeOK, RunShape
<1>. QED
  BY <1>1, <1>2, <1>3, <1>4 DEF Next

\* No step of either command, failing or not, leaves the state space the model describes:
\* the files of a staging dir are only written while that dir exists, and what restore
\* later renames is the aside name of a dir, never the live one.
THEOREM TypeCorrect == Spec => []TypeOK
<1>1. Init => TypeInv
  BY InitTyped
<1>2. TypeInv /\ [Next]_vars => TypeInv'
  BY StepTyped
<1>3. TypeInv => TypeOK
  BY DEF TypeInv
<1>. QED
  BY <1>1, <1>2, <1>3, PTL DEF Spec

-----------------------------------------------------------------------------
(* What the fsyncs of stage have put on disk by the time publish begins.    *)

SyncInv ==
    /\ run.pc \in {"copy", "marker", "seal"} =>
          \A f \in Files : <<"data", f>> \notin unsynced[run.place]
    /\ run.pc = "verify" =>
          \A f \in Files : <<"data", f>> \in unsynced[run.place] => NextCopy(f)
    /\ run.pc \in {"mkdir", "copy", "verify", "marker", "seal"} /\ run.place = "cache" =>
          unsynced["data"] = {}
    /\ \/ run.pc \in {"pubdata", "pubcache", "pubsync"}
       \/ run.result = "Migrated" /\ run.pc \in MovingLegacy
       => unsynced["data"] = {} /\ unsynced["cache"] = {}

\* The steps at which SyncInv says nothing.
LEMMA SyncElsewhere ==
    ASSUME \/ run'.pc \in {"idle", "reset", "networks", "aside", "undo", "remove", "restore"}
           \/ run'.pc \in {"cfgaside", "homesync"} /\ run'.result # "Migrated"
    PROVE  SyncInv'
  BY DEF SyncInv, MovingLegacy

LEMMA SyncBegins ==
    ASSUME BeginRun \/ Environment
    PROVE  SyncInv'
<1>1. ASSUME NEW r, NEW at, run' = Exited(r, at)
      PROVE  SyncInv'
  BY <1>1, SyncElsewhere DEF Exited
<1>2. ASSUME NEW cmd, NEW t, NEW pc \in {"networks", "reset", "cfgaside"}, NEW r,
             run' = Started(cmd, pc, t, r), pc = "cfgaside" => r # "Migrated"
      PROVE  SyncInv'
  <2>1. run'.pc = pc /\ run'.result = r
    BY <1>2 DEF Started, Exited
  <2>. QED
    BY <1>2, <2>1, SyncElsewhere
<1>3. CASE BeginRun
  <2>1. ASSUME \/ IdentityNothing \/ IdentityRefused \/ IdentityUnreadable \/ IdentityConflict
               \/ IdentityDryRun \/ StartCleanRefused \/ StartCleanUnreadable
        PROVE  SyncInv'
    <3>1. \E r, at : run' = Exited(r, at)
      BY <2>1 DEF IdentityNothing, IdentityRefused, IdentityUnreadable, IdentityConflict,
                  IdentityDryRun, StartCleanRefused, StartCleanUnreadable, Ends
    <3>. QED
      BY <1>1, <3>1
  <2>2. ASSUME NEW dry \in BOOLEAN, NEW t \in Stamps, IdentityAlready(dry, t)
        PROVE  SyncInv'
    <3>1. \/ run' = Exited("AlreadyMigrated", "none")
          \/ run' = Started("identity", "cfgaside", t, "AlreadyMigrated")
      BY <2>2 DEF IdentityAlready
    <3>. QED
      BY <1>1, <1>2, <3>1
  <2>3. ASSUME NEW replace \in BOOLEAN, NEW t \in Stamps, IdentityInstall(replace, t)
        PROVE  SyncInv'
    <3>1. run' = Started("identity", "networks", t, "Migrated")
      BY <2>3 DEF IdentityInstall
    <3>2. "networks" \in {"networks", "reset", "cfgaside"} /\ "networks" # "cfgaside"
      OBVIOUS
    <3>. QED
      BY <1>2, <3>1, <3>2
  <2>4. ASSUME NEW cmd, NEW t \in Stamps, StartClean(cmd, t)
        PROVE  SyncInv'
    <3>1. \/ run' = Exited("NothingToDo", "none")
          \/ run' = Started(cmd, "cfgaside", t, "NothingToDo")
          \/ run' = Started(cmd, "reset", t, "NothingToDo")
      BY <2>4 DEF StartClean
    <3>. QED
      BY <1>1, <1>2, <3>1
  <2>. QED
    BY <1>3, <2>1, <2>2, <2>3, <2>4 DEF BeginRun
<1>4. CASE Environment
  BY <1>1, <1>4 DEF Environment, Killed, PowerCut, ClientStart, LegacyStart, Ends
<1>. QED
  BY <1>3, <1>4

LEMMA RankDistinct ==
    ASSUME NEW f \in Files, NEW g \in Files, Rank[f] <= Rank[g], Rank[g] <= Rank[f]
    PROVE  f = g
<1>1. /\ Rank["id"] = 1 /\ Rank["pass"] = 2 /\ Rank["safe"] = 3 /\ Rank["redb"] = 4
      /\ Rank["migrated-from"] = 5
  BY DEF Rank, Files
<1>. QED
  BY <1>1 DEF Files

LEMMA SyncStages ==
    ASSUME TypeInv, SyncInv,
           \/ CreateStaging \/ (\E f \in Files : CopyFile(f) \/ VerifyCopy(f))
           \/ CopiesDone \/ WriteMarker \/ SealStaging
    PROVE  SyncInv'
<1>. USE DEF At
<1> DEFINE p == run.place
<1>0. /\ run \in Runs /\ p \in Places /\ unsynced[p] \subseteq {"data", "entry"} \X Files
      /\ unsynced \in [Places -> SUBSET ({"data", "entry"} \X Files)]
      /\ "data" \in Places
  BY DEF TypeInv, TypeOK, Runs, Places
<1>1. CASE CreateStaging
  <2>1. CASE Failed("remove", "Destination")
    BY <1>0, <2>1, SyncElsewhere DEF Failed, Runs
  <2>2. CASE /\ unsynced' = [unsynced EXCEPT ![p] = {}]
             /\ run' = [run EXCEPT !.pc = "copy", !.todo = Planned(run.plan, p)]
    BY <1>0, <1>1, <2>2 DEF CreateStaging, SyncInv, Runs, MovingLegacy, Places
  <2>. QED
    BY <1>1, <2>1, <2>2 DEF CreateStaging
<1>2. ASSUME NEW f \in Files, CopyFile(f)
      PROVE  SyncInv'
  <2>1. /\ run.pc = "copy" /\ NextCopy(f) /\ run' = [run EXCEPT !.pc = "verify"]
        /\ unsynced' = [unsynced EXCEPT ![p] = @ \cup {"data", "entry"} \X {f}]
    BY <1>2 DEF CopyFile, StageFile
  <2>2. \A g \in Files : NextCopy(g)' <=> NextCopy(g)
    BY <1>0, <2>1 DEF NextCopy, Runs
  <2>3. \A g \in Files : <<"data", g>> \in unsynced'[p] => g = f
    BY <1>0, <2>1 DEF SyncInv
  <2>4. p = "cache" => unsynced'["data"] = unsynced["data"]
    BY <1>0, <2>1
  <2>. QED
    BY <1>0, <2>1, <2>2, <2>3, <2>4 DEF SyncInv, Runs, MovingLegacy
<1>3. ASSUME NEW f \in Files, VerifyCopy(f)
      PROVE  SyncInv'
  <2>1. CASE Failed("remove", "Destination")
    BY <1>0, <2>1, SyncElsewhere DEF Failed, Runs
  <2>2. CASE run' = [run EXCEPT !.pc = "copy", !.todo = @ \ {f}]
    <3>1. /\ run.pc = "verify" /\ NextCopy(f)
          /\ unsynced' = [unsynced EXCEPT ![p] = @ \ ({<<"data", f>>} \cup
                               (IF f = "redb" THEN {} ELSE {"entry"} \X Files))]
      BY <1>3 DEF VerifyCopy, Synced
    <3>2. \A g \in Files : NextCopy(g) => g = f
      BY <3>1, RankDistinct DEF NextCopy
    <3>3. \A g \in Files : <<"data", g>> \notin unsynced'[p]
      BY <1>0, <3>1, <3>2 DEF SyncInv
    <3>4. p = "cache" => unsynced'["data"] = unsynced["data"]
      BY <1>0, <3>1
    <3>. QED
      BY <1>0, <2>2, <3>1, <3>3, <3>4 DEF SyncInv, Runs, MovingLegacy
  <2>. QED
    BY <1>3, <2>1, <2>2 DEF VerifyCopy
<1>4. CASE CopiesDone
  BY <1>0, <1>4 DEF CopiesDone, SyncInv, Runs, MovingLegacy, files
<1>5. CASE WriteMarker
  <2>1. /\ run.pc = "marker" /\ run' = [run EXCEPT !.pc = "seal"]
        /\ unsynced' = [unsynced EXCEPT ![p] = @ \cup {<<"entry", "migrated-from">>}]
    BY <1>5 DEF WriteMarker, StageFile
  <2>2. \A g \in Files : <<"data", g>> \notin unsynced'[p]
    BY <1>0, <2>1 DEF SyncInv
  <2>3. p = "cache" => unsynced'["data"] = unsynced["data"]
    BY <1>0, <2>1
  <2>. QED
    BY <1>0, <2>1, <2>2, <2>3 DEF SyncInv, Runs, MovingLegacy
<1>6. CASE SealStaging
  <2>1. /\ run.pc = "seal" /\ run' = AfterSeal(run)
        /\ unsynced' = [unsynced EXCEPT ![p] = @ \ ({"entry"} \X Files)]
    BY <1>6 DEF SealStaging, Synced
  <2>2. unsynced'[p] = {}
    <3>1. ASSUME NEW x \in unsynced'[p]
          PROVE  FALSE
      <4>1. x \in unsynced[p] /\ x \notin {"entry"} \X Files
        BY <1>0, <2>1
      <4>2. PICK g \in Files : x = <<"data", g>>
        BY <1>0, <4>1
      <4>. QED
        BY <2>1, <4>1, <4>2 DEF SyncInv
    <3>. QED
      BY <3>1
  <2>3. CASE p = "data"
    <3>1. run'.pc = "mkdir" /\ run'.place = "cache"
      BY <1>0, <2>1, <2>3 DEF AfterSeal, Runs
    <3>. QED
      BY <2>2, <2>3, <3>1 DEF SyncInv, MovingLegacy
  <2>4. CASE p = "cache"
    <3>1. run'.pc = "pubdata" /\ unsynced'["data"] = unsynced["data"]
      BY <1>0, <2>1, <2>4 DEF AfterSeal, Runs
    <3>. QED
      BY <2>1, <2>2, <2>4, <3>1 DEF SyncInv, MovingLegacy
  <2>. QED
    BY <1>0, <2>3, <2>4 DEF Places
<1>. QED
  BY <1>1, <1>2, <1>3, <1>4, <1>5, <1>6

\* From publish on no step of a run stages anything.
LEMMA SyncPublishes ==
    ASSUME TypeInv, SyncInv,
           \/ CreateNetworks \/ CreateNetworksFails \/ MoveAside \/ MoveAsideFails \/ StageFails
           \/ PublishData \/ PublishCache \/ UndoPublish \/ PublishSync \/ PublishSyncFails
           \/ RemoveStaging \/ Restore
    PROVE  SyncInv'
<1>. USE DEF At
<1>0. run \in Runs /\ run.place \in Places
  BY DEF TypeInv, TypeOK, Runs
<1>1. ASSUME NEW r, NEW at, run' = Exited(r, at)
      PROVE  SyncInv'
  BY <1>1, SyncElsewhere DEF Exited
<1>2. ASSUME NEW pc \in Undoing, NEW stage, Failed(pc, stage)
      PROVE  SyncInv'
  BY <1>0, <1>2, SyncElsewhere DEF Failed, Runs, Undoing
<1>3. CASE CreateNetworks \/ CreateNetworksFails
  BY <1>0, <1>1, <1>3, SyncElsewhere DEF CreateNetworks, CreateNetworksFails, Ends, Runs
<1>4. CASE MoveAside
  <2>1. ASSUME NEW r \in Runs, run' = AfterAside(r), r.place = run.place, r.pc = "aside"
        PROVE  SyncInv'
    <3>1. CASE r.place = "data"
      BY <2>1, <3>1, SyncElsewhere DEF AfterAside, Runs
    <3>2. CASE r.place # "data"
      <4>1. run'.pc = "mkdir" /\ run'.place = "data"
        BY <2>1, <3>2 DEF AfterAside, Runs
      <4>. QED
        BY <4>1 DEF SyncInv, MovingLegacy
    <3>. QED
      BY <3>1, <3>2
  <2>2. \A name \in AsideNets :
           LET r == [run EXCEPT !.replaced[run.place] = name]
           IN r \in Runs /\ r.place = run.place /\ r.pc = run.pc
    BY <1>0 DEF Runs
  <2>. QED
    BY <1>0, <1>4, <2>1, <2>2 DEF MoveAside
<1>5. CASE MoveAsideFails \/ StageFails \/ PublishSyncFails
  BY <1>2, <1>5 DEF MoveAsideFails, StageFails, PublishSyncFails, Undoing
<1>6. CASE PublishData \/ PublishCache
  <2>1. ASSUME NEW pc \in {"pubcache", "pubsync"}, run' = [run EXCEPT !.pc = pc],
               run.pc \in {"pubdata", "pubcache"}, unsynced' = unsynced
        PROVE  SyncInv'
    BY <1>0, <2>1 DEF SyncInv, Runs, MovingLegacy
  <2>. QED
    BY <1>2, <1>6, <2>1 DEF PublishData, PublishCache, PublishIn, Undoing
<1>7. CASE UndoPublish
  BY <1>0, <1>7, SyncElsewhere DEF UndoPublish, Runs
<1>8. CASE PublishSync
  BY <1>0, <1>8 DEF PublishSync, SyncInv, Runs, MovingLegacy
<1>9. CASE RemoveStaging
  BY <1>0, <1>9, SyncElsewhere DEF RemoveStaging, AfterUndo, Runs
<1>10. CASE Restore
  <2>1. run.pc = "restore"
    BY <1>10 DEF Restore
  <2>2. \/ \E r, at : run' = Exited(r, at)
        \/ run' = [run EXCEPT !.place = "cache"]
        \/ run' = [[run EXCEPT !.effort = "missed"] EXCEPT !.place = "cache"]
    BY <1>10 DEF Restore, AfterUndo
  <2>3. CASE run' = [run EXCEPT !.place = "cache"]
    BY <1>0, <2>1, <2>3, SyncElsewhere DEF Runs
  <2>4. CASE run' = [[run EXCEPT !.effort = "missed"] EXCEPT !.place = "cache"]
    BY <1>0, <2>1, <2>4, SyncElsewhere DEF Runs
  <2>. QED
    BY <1>1, <2>2, <2>3, <2>4
<1>. QED
  BY <1>3, <1>4, <1>5, <1>6, <1>7, <1>8, <1>9, <1>10

LEMMA SyncRetires ==
    ASSUME TypeInv, SyncInv,
           \/ ConfigAside \/ LockDown \/ RedbAside \/ SecureLeftovers \/ HomeSync \/ LegacyFails
           \/ ResetDir \/ ResetFails
    PROVE  SyncInv'
<1>. USE DEF At
<1>0. run \in Runs
  BY DEF TypeInv, TypeOK
<1>1. ASSUME NEW r, NEW at, run' = Exited(r, at)
      PROVE  SyncInv'
  BY <1>1, SyncElsewhere DEF Exited
<1>2. ASSUME unsynced' = unsynced, run.pc \in MovingLegacy, run'.pc \in MovingLegacy,
             run'.result \in {run.result, "StartedClean"}
      PROVE  SyncInv'
  BY <1>2 DEF SyncInv, MovingLegacy
<1>3. CASE ConfigAside
  BY <1>0, <1>2, <1>3 DEF ConfigAside, SetHome, netFiles, Runs, MovingLegacy
<1>4. CASE LockDown
  BY <1>0, <1>2, <1>4 DEF LockDown, SetHome, netFiles, Runs, MovingLegacy
<1>5. CASE RedbAside
  BY <1>0, <1>2, <1>5 DEF RedbAside, SetHome, netFiles, Runs, MovingLegacy
<1>6. CASE SecureLeftovers
  BY <1>0, <1>2, <1>6 DEF SecureLeftovers, SetHome, netFiles, Runs, MovingLegacy
<1>7. CASE HomeSync
  BY <1>0, <1>1, <1>7, SyncElsewhere DEF HomeSync, Runs
<1>8. CASE LegacyFails \/ ResetFails
  BY <1>1, <1>8 DEF LegacyFails, ResetFails, Ends
<1>9. CASE ResetDir
  <2>1. run.pc = "reset"
    BY <1>9 DEF ResetDir
  <2>2. \/ \E r, at : run' = Exited(r, at)
        \/ run' = [run EXCEPT !.place = "cache"]
        \/ run' = [[run EXCEPT !.result = "StartedClean"] EXCEPT !.place = "cache"]
    BY <1>9 DEF ResetDir, AfterUndo
  <2>3. CASE run' = [run EXCEPT !.place = "cache"]
    BY <1>0, <2>1, <2>3, SyncElsewhere DEF Runs
  <2>4. CASE run' = [[run EXCEPT !.result = "StartedClean"] EXCEPT !.place = "cache"]
    BY <1>0, <2>1, <2>4, SyncElsewhere DEF Runs
  <2>. QED
    BY <1>1, <2>2, <2>3, <2>4
<1>. QED
  BY <1>3, <1>4, <1>5, <1>6, <1>7, <1>8, <1>9

LEMMA SyncStep == TypeInv /\ SyncInv /\ [Next]_vars => SyncInv'
<1>. SUFFICES ASSUME TypeInv, SyncInv, [Next]_vars PROVE SyncInv'
  OBVIOUS
<1>1. CASE BeginRun \/ Environment
  BY <1>1, SyncBegins
<1>2. CASE RunStep
  BY <1>2, SyncStages, SyncPublishes, SyncRetires DEF RunStep
<1>3. CASE UNCHANGED vars
  BY <1>3 DEF vars, SyncInv, NextCopy
<1>. QED
  BY <1>1, <1>2, <1>3 DEF Next

LEMMA SyncInit == Init => SyncInv
  BY DEF Init, SyncInv, Exited, MovingLegacy

\* What of a dir may be on disk, when none of it is missing there.
LEMMA PartlyAll ==
    ASSUME NEW dir \in Dirs \cup {Absent}
    PROVE  Partly(dir, {}) = {dir}
<1>1. CASE dir = Absent
  BY <1>1 DEF Partly
<1>2. CASE dir # Absent
  <2>1. [f \in Files |-> IF f \in {} THEN Absent ELSE IF f \in {} THEN Torn ELSE dir[f]] = dir
    BY <1>2 DEF Dirs
  <2> DEFINE left(gone, torn) ==
               [f \in Files |-> IF f \in gone THEN Absent ELSE IF f \in torn THEN Torn ELSE dir[f]]
  <2>2. Partly(dir, {}) = {left(gone, torn) : gone \in SUBSET {f \in Files : <<"entry", f>> \in {}},
                                            torn \in SUBSET {f \in Files : <<"data", f>> \in {}}}
    BY <1>2 DEF Partly
  <2>3. {f \in Files : <<"entry", f>> \in {}} = {} /\ {f \in Files : <<"data", f>> \in {}} = {}
    OBVIOUS
  <2>4. left({}, {}) = dir
    BY <2>1
  <2> HIDE DEF left
  <2>5. ASSUME NEW x \in Partly(dir, {})
        PROVE  x = dir
    <3>1. PICK gone \in SUBSET {}, torn \in SUBSET {} : x = left(gone, torn)
      BY <2>2, <2>3
    <3>2. gone = {} /\ torn = {}
      OBVIOUS
    <3>. QED
      BY <2>4, <3>1, <3>2
  <2>6. dir \in Partly(dir, {})
    BY <2>2, <2>3, <2>4
  <2>. QED
    BY <2>5, <2>6
<1>. QED
  BY <1>1, <1>2

LEMMA PartlyLiveAll ==
    ASSUME NEW p, NEW d \in NetDirs, unsynced[p] = {}
    PROVE  PartlyLive(p, d) = {d}
<1>1. d[Live] \in Dirs \cup {Absent}
  BY NamesTyped DEF NetDirs
<1>2. Partly(d[Live], unsynced[p]) = {d[Live]}
  BY <1>1, PartlyAll
<1>3. [d EXCEPT ![Live] = d[Live]] = d
  BY DEF NetDirs
<1>. QED
  BY <1>2, <1>3 DEF PartlyLive

\* So the rename of publish is one like any other, and so is the fsync after it.
LEMMA PublishesAll ==
    ASSUME TypeInv, SyncInv, NEW p \in Places, run.pc \in {"pubdata", "pubcache"}, PublishIn(p)
    PROVE  /\ CanRename(nets[p], Staging(run.ts), Live)
           /\ SetNets(p, Rename(nets[p], Staging(run.ts), Live))
<1> DEFINE d == Rename(nets[p], Staging(run.ts), Live)
<1>1. d \in NetDirs
  BY NamesTyped, RenameTyped DEF TypeInv, TypeOK, RunShape
<1>2. unsynced[p] = {}
  BY DEF SyncInv, Places
<1>3. Entered(p, d, PartlyLive(p, d)) /\ unsynced' = unsynced
  BY DEF PublishIn
<1> HIDE DEF d
<1>4. SetNets(p, d)
  BY <1>1, <1>2, <1>3, PartlyLiveAll DEF SetNets
<1>. QED
  BY <1>4 DEF d, PublishIn

LEMMA SyncsAll ==
    ASSUME TypeInv, SyncInv, PublishSync
    PROVE  disk' = [disk EXCEPT ![run.place] = {nets[run.place]}]
<1>1. run.place \in Places /\ nets[run.place] \in NetDirs
  BY DEF TypeInv, TypeOK, Runs
<1>2. unsynced[run.place] = {}
  BY <1>1 DEF PublishSync, At, SyncInv, Places
<1>. QED
  BY <1>1, <1>2, PartlyLiveAll DEF PublishSync
=============================================================================
