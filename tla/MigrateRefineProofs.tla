------------------------- MODULE MigrateRefineProofs -------------------------
(***************************************************************************)
(* Migrate implements IdentityMove for every instance.  The step mapping    *)
(* needs what the identities of dirs have to do with one another: a data    *)
(* dir always has one and a cache dir none, the plan's is that of .config   *)
(* until the run puts it aside, and whatever part of its unsynced renames   *)
(* a directory loses, the same identities are there.                        *)
(***************************************************************************)
EXTENDS MigrateInstallProofs, MigrateRefines

NetIds(d) == {IdIn(d[n]) : n \in Kept} \ {Absent}
HomeIds(h) == {IdIn(h.conf[n]) : n \in ConfNames} \ {Absent}
KnownIds == {i \in Ids : <<"id", i>> \in known}

\* The identities that are kept, when d is the data networks/ dir.
HeldWith(d) == NetIds(d) \cup HomeIds(home)

WithId(d) == \A n \in Kept : d[n] # Absent => d[n]["id"] \in Ids
WithoutId(d) == \A n \in Kept : d[n] # Absent => d[n]["id"] = Absent

HeldInv ==
    /\ \A d \in Left("data") : WithId(d) /\ HeldWith(d) = HeldWith(nets["data"])
    /\ \A d \in Left("cache") : WithoutId(d)
    /\ \A h \in homeDisk : HomeIds(h) = HomeIds(home)
    /\ HeldWith(nets["data"]) \subseteq KnownIds

\* Until Legacy::move_aside the identity that a run is about is the legacy one, and by then it
\* is live.
FromConfig ==
    LET before == run.pc = "cfgaside" /\ run.cmd = "identity" IN
    /\ run.pc \in Installing \cup Undoing \/ before =>
          FoundLegacy /\ run.plan["id"] = home.conf[Config]["id"]
    /\ run.pc = "undo" => InPlace("data")
    /\ before => nets["data"][Live] # Absent /\ nets["data"][Live]["id"] = run.plan["id"]

IdentityInv == HeldInv /\ FromConfig

LiveId == IdIn(nets["data"][Live])
LegacyId == IdIn(home.conf[Config])
ParkedIds == Parked \ {Absent}

\* The identities under aside names.
Aside(d, h) ==
    ({IdIn(h.conf[n]) : n \in ConfNames \ {Config}} \cup {IdIn(d[n]) : n \in AsideNets}) \ {Absent}

Same == LiveId' = LiveId /\ LegacyId' = LegacyId /\ ParkedIds' = ParkedIds
Moves == Move!MoveNext \/ UNCHANGED Move!idVars

-----------------------------------------------------------------------------
(* The identities of dirs.                                                  *)

LEMMA IdOfKept ==
    ASSUME NEW d, WithoutId(d), NEW n \in Kept PROVE IdIn(d[n]) = Absent
  BY DEF WithoutId, IdIn

LEMMA ParkedIs ==
    /\ WithoutId(nets["cache"]) => ParkedIds = Aside(nets["data"], home)
    /\ WithoutId(nets'["cache"]) => ParkedIds' = Aside(nets'["data"], home')
<1>1. ASSUME NEW nn, NEW hh, WithoutId(nn["cache"])
      PROVE  ({IdIn(hh.conf[n]) : n \in ConfNames \ {Config}}
                \cup UNION {{IdIn(nn[p][n]) : n \in AsideNets} : p \in Places}) \ {Absent}
             = Aside(nn["data"], hh)
  <2>1. \A n \in AsideNets : IdIn(nn["cache"][n]) = Absent
    BY <1>1, IdOfKept DEF Kept
  <2>2. \A x : x \in UNION {{IdIn(nn[p][n]) : n \in AsideNets} : p \in Places}
               <=> (\E n \in AsideNets : x = IdIn(nn["data"][n]) \/ x = IdIn(nn["cache"][n]))
    BY DEF Places
  <2>. QED
    BY <2>1, <2>2 DEF Aside
<1>. QED
  BY <1>1 DEF ParkedIds, Parked

LEMMA HeldSplit ==
    ASSUME NEW d, NEW h
    PROVE  NetIds(d) \cup HomeIds(h)
           = ({IdIn(d[Live]), IdIn(h.conf[Config])} \cup Aside(d, h)) \ {Absent}
  BY NamesTyped DEF NetIds, HomeIds, Aside, Kept

LEMMA SameKept ==
    ASSUME NEW d, NEW e, \A n \in Kept : e[n] = d[n]
    PROVE  /\ NetIds(e) = NetIds(d) /\ IdIn(e[Live]) = IdIn(d[Live])
           /\ \A h : Aside(e, h) = Aside(d, h)
           /\ WithId(d) => WithId(e)
           /\ WithoutId(d) => WithoutId(e)
<1>1. NetIds(e) = NetIds(d)
  BY DEF NetIds
<1>2. \A h : Aside(e, h) = Aside(d, h)
  BY DEF Aside, Kept
<1>. QED
  BY <1>1, <1>2, NamesApart DEF WithId, WithoutId

\* A dir that moves to a name that holds no identity takes its own there.
LEMMA RenameIds ==
    ASSUME NEW d \in NetDirs, NEW from \in Kept, NEW to \in Kept, from # to,
           d[from] # Absent, IdIn(d[to]) = Absent
    PROVE  /\ NetIds(Rename(d, from, to)) = NetIds(d)
           /\ WithId(d) => WithId(Rename(d, from, to))
           /\ WithoutId(d) => WithoutId(Rename(d, from, to))
<1>. DEFINE e == Rename(d, from, to)
<1>1. /\ e[to] = d[from] /\ e[from] = Absent
      /\ \A n \in Kept : n \notin {from, to} => e[n] = d[n]
  BY KeptNames, RenameMoves
<1>. HIDE DEF e
<1>2. IdIn(e[to]) = IdIn(d[from]) /\ IdIn(e[from]) = Absent
  BY <1>1 DEF IdIn
<1>3. NetIds(e) = NetIds(d)
  <2>1. ASSUME NEW n \in Kept PROVE IdIn(e[n]) \in NetIds(d) \cup {Absent}
    BY <1>1, <1>2 DEF NetIds
  <2>2. ASSUME NEW n \in Kept PROVE IdIn(d[n]) \in NetIds(e) \cup {Absent}
    BY <1>1, <1>2 DEF NetIds
  <2>. QED
    BY <2>1, <2>2 DEF NetIds
<1>4. WithId(d) => WithId(e)
  BY <1>1 DEF WithId
<1>5. WithoutId(d) => WithoutId(e)
  BY <1>1 DEF WithoutId
<1>. QED
  BY <1>3, <1>4, <1>5 DEF e

-----------------------------------------------------------------------------
(* How a step of Migrate is one of IdentityMove.                            *)

LEMMA DoingIs ==
    /\ run.pc = "idle" => Doing \in {"nothing", "crashed"}
    /\ run.pc # "idle" => Doing = IF run.cmd = "identity" THEN "identity" ELSE "start-clean"
    /\ run'.pc = "idle" => Doing' \in {"nothing", "crashed"}
    /\ run'.pc # "idle" => Doing' = IF run'.cmd = "identity" THEN "identity" ELSE "start-clean"
    /\ run'.pc = "idle" => Doing' = IF run'.result = "Crashed" THEN "crashed" ELSE "nothing"
  BY DEF Doing

LEMMA SameMoves ==
    ASSUME Same, run.pc = "idle" \/ run'.pc = "idle" \/ run'.cmd = run.cmd
    PROVE  Moves
<1>1. CASE run.pc = "idle" \/ run'.pc = "idle"
  BY <1>1, DoingIs
     DEF Moves, Same, LiveId, LegacyId, ParkedIds, Move!MoveNext, Move!BeginOrEnd, Move!Stopped
<1>2. CASE run.pc # "idle" /\ run'.pc # "idle" /\ run'.cmd = run.cmd
  BY <1>2, DoingIs DEF Moves, Same, LiveId, LegacyId, ParkedIds, Move!idVars
<1>. QED
  BY <1>1, <1>2

LEMMA Parks ==
    ASSUME run.pc # "idle", LiveId # Absent, LiveId' = Absent,
           ParkedIds' = ParkedIds \cup {LiveId}, LegacyId' = LegacyId,
           run'.pc # "idle" /\ run'.cmd = run.cmd
    PROVE  Moves
  BY DoingIs
     DEF Moves, LiveId, LegacyId, ParkedIds, Move!MoveNext, Move!Park, Move!Stopped

LEMMA PutsBack ==
    ASSUME run.pc # "idle", run.cmd = "identity", LiveId = Absent,
           NEW i \in ParkedIds, LiveId' = i, ParkedIds' \in {ParkedIds, ParkedIds \ {i}},
           LegacyId' = LegacyId, run'.pc # "idle" /\ run'.cmd = run.cmd
    PROVE  Moves
  BY DoingIs DEF Moves, LiveId, LegacyId, ParkedIds, Move!MoveNext, Move!PutBack

LEMMA Adopts ==
    ASSUME run.pc # "idle", run.cmd = "identity", LiveId = Absent, LegacyId # Absent,
           LiveId' = LegacyId, ParkedIds' = ParkedIds,
           LegacyId' = LegacyId, run'.pc # "idle" /\ run'.cmd = run.cmd
    PROVE  Moves
  BY DoingIs DEF Moves, LiveId, LegacyId, ParkedIds, Move!MoveNext, Move!Adopt

LEMMA Withdraws ==
    ASSUME run.pc # "idle", run.cmd = "identity", LiveId # Absent, LegacyId = LiveId,
           LiveId' = Absent, ParkedIds' = ParkedIds,
           LegacyId' = LegacyId, run'.pc # "idle" /\ run'.cmd = run.cmd
    PROVE  Moves
  BY DoingIs DEF Moves, LiveId, LegacyId, ParkedIds, Move!MoveNext, Move!Withdraw

LEMMA Retires ==
    ASSUME run.pc # "idle", run.cmd = "identity" => LiveId = LegacyId, LegacyId # Absent,
           LegacyId' = Absent, ParkedIds' = ParkedIds \cup {LegacyId},
           LiveId' = LiveId, run'.pc # "idle" /\ run'.cmd = run.cmd
    PROVE  Moves
  BY DoingIs DEF Moves, LiveId, LegacyId, ParkedIds, Move!MoveNext, Move!Retire

-----------------------------------------------------------------------------
(* What a change of the files keeps of the identities.                      *)

RefineInv == MigrateInv /\ IdentityInv

LEMMA Facts ==
    ASSUME RefineInv
    PROVE  /\ MigrateInv /\ HeldInv /\ FromConfig
           /\ nets["data"] \in Left("data") /\ nets["cache"] \in Left("cache")
           /\ nets["data"] \in NetDirs /\ nets["cache"] \in NetDirs
           /\ WithId(nets["data"]) /\ WithoutId(nets["cache"])
           /\ run \in Runs /\ run.place \in Places /\ home \in Homes
<1>1. nets["data"] \in Left("data") /\ nets["cache"] \in Left("cache")
  BY Typed DEF RefineInv, Left, Places
<1>. QED
  BY <1>1, Typed DEF RefineInv, IdentityInv, HeldInv, Places

LEMMA QuietHeld ==
    ASSUME RefineInv, Quiet, UNCHANGED known
    PROVE  HeldInv' /\ Same
<1>1. /\ nets' = nets /\ disk' = disk /\ anchored' = anchored
      /\ home' = home /\ homeDisk' = homeDisk /\ known' = known
  BY DEF Quiet, Synced, files
<1>2. \A p : Left(p)' = Left(p)
  BY <1>1 DEF Left
<1>. QED
  BY <1>1, <1>2, Facts DEF HeldInv, HeldWith, KnownIds, Same, LiveId, LegacyId, ParkedIds, Parked

\* What a change of one place leaves of both.
LEMMA LeftAfter ==
    ASSUME RefineInv, NEW p \in Places, NEW d, Entered(p, d, {d})
    PROVE  /\ nets'[p] = d /\ Left(p)' = Left(p) \cup {d}
           /\ \A q \in Places : q # p => nets'[q] = nets[q] /\ Left(q)' = Left(q)
           /\ home' = home /\ homeDisk' = homeDisk
  BY Facts, Typed DEF Entered, Left

LEMMA DataSet ==
    ASSUME RefineInv, UNCHANGED known, NEW d, Entered("data", d, {d}), WithId(d),
           HeldWith(d) = HeldWith(nets["data"])
    PROVE  /\ HeldInv' /\ LegacyId' = LegacyId
           /\ LiveId' = IdIn(d[Live])
           /\ ParkedIds = Aside(nets["data"], home) /\ ParkedIds' = Aside(d, home)
<1>1. /\ nets'["data"] = d /\ nets'["cache"] = nets["cache"] /\ home' = home
      /\ homeDisk' = homeDisk /\ Left("data")' = Left("data") \cup {d}
      /\ Left("cache")' = Left("cache") /\ known' = known
  BY LeftAfter DEF Places
<1>2. \A e : HeldWith(e)' = HeldWith(e)
  BY <1>1 DEF HeldWith
<1>3. KnownIds' = KnownIds /\ HeldWith(nets["data"])' = HeldWith(d)
  BY <1>1 DEF KnownIds, HeldWith
<1>4. HeldInv'
  BY <1>1, <1>2, <1>3, Facts DEF HeldInv
<1>. QED
  BY <1>1, <1>4, Facts, ParkedIs DEF LegacyId, LiveId

LEMMA CacheSet ==
    ASSUME RefineInv, UNCHANGED known, NEW d, Entered("cache", d, {d}), WithoutId(d)
    PROVE  HeldInv' /\ Same
<1>1. /\ nets'["cache"] = d /\ nets'["data"] = nets["data"] /\ home' = home
      /\ homeDisk' = homeDisk /\ Left("cache")' = Left("cache") \cup {d}
      /\ Left("data")' = Left("data") /\ known' = known
  BY LeftAfter DEF Places
<1>2. \A e : HeldWith(e)' = HeldWith(e)
  BY <1>1 DEF HeldWith
<1>3. KnownIds' = KnownIds /\ HeldWith(nets["data"])' = HeldWith(nets["data"])
  BY <1>1 DEF KnownIds, HeldWith
<1>4. HeldInv'
  BY <1>1, <1>2, <1>3, Facts DEF HeldInv
<1>. QED
  BY <1>1, <1>4, Facts, ParkedIs DEF Same, LegacyId, LiveId

\* Staging dirs hold copies.
LEMMA StagingHeld ==
    ASSUME RefineInv, UNCHANGED known, NEW p \in Places, NEW d, Entered(p, d, {d}),
           \A n \in Kept : d[n] = nets[p][n]
    PROVE  HeldInv' /\ Same
<1>1. CASE p = "data"
  <2>1. /\ WithId(d) /\ HeldWith(d) = HeldWith(nets["data"]) /\ IdIn(d[Live]) = LiveId
        /\ Aside(d, home) = Aside(nets["data"], home)
    BY <1>1, Facts, SameKept DEF HeldWith, LiveId
  <2>. QED
    BY <1>1, <2>1, DataSet DEF Same
<1>2. CASE p = "cache"
  <2>1. WithoutId(d)
    BY <1>2, Facts, SameKept
  <2>. QED
    BY <1>2, <2>1, CacheSet
<1>. QED
  BY <1>1, <1>2 DEF Places

\* Changes of the legacy home that leave the .config dirs where they are.
LEMMA HomeHeld ==
    ASSUME RefineInv, UNCHANGED known, NEW h, NEW leaves, SetHome(h, leaves),
           HomeIds(h) = HomeIds(home), \A x \in leaves : HomeIds(x) = HomeIds(home)
    PROVE  /\ HeldInv' /\ LiveId' = LiveId
           /\ LegacyId' = IdIn(h.conf[Config])
           /\ ParkedIds = Aside(nets["data"], home) /\ ParkedIds' = Aside(nets["data"], h)
<1>1. /\ nets' = nets /\ home' = h /\ homeDisk' = homeDisk \cup leaves
      /\ known' = known /\ disk' = disk /\ anchored' = anchored
  BY DEF SetHome, netFiles
<1>2. \A e : HeldWith(e)' = HeldWith(e)
  BY <1>1 DEF HeldWith
<1>3. KnownIds' = KnownIds /\ HeldWith(nets["data"])' = HeldWith(nets["data"])
  BY <1>1 DEF KnownIds, HeldWith
<1>5. \A p : Left(p)' = Left(p)
  BY <1>1 DEF Left
<1>4. HeldInv'
  BY <1>1, <1>2, <1>3, <1>5, Facts DEF HeldInv
<1>. QED
  BY <1>1, <1>4, Facts, ParkedIs DEF LegacyId, LiveId

LEMMA SameConfHeld ==
    ASSUME RefineInv, UNCHANGED known, NEW h, NEW leaves, SetHome(h, leaves), h.conf = home.conf,
           \A x \in leaves : \E g \in homeDisk : x.conf = g.conf
    PROVE  HeldInv' /\ Same
<1>1. HomeIds(h) = HomeIds(home) /\ Aside(nets["data"], h) = Aside(nets["data"], home)
  BY DEF HomeIds, Aside
<1>2. ASSUME NEW x \in leaves PROVE HomeIds(x) = HomeIds(home)
  <2>1. PICK g \in homeDisk : x.conf = g.conf
    BY DEF HomeIds
  <2>2. HomeIds(x) = HomeIds(g)
    BY <2>1 DEF HomeIds
  <2>. QED
    BY <2>2, Facts DEF HeldInv
<1>. QED
  BY <1>1, <1>2, HomeHeld DEF Same, LegacyId

-----------------------------------------------------------------------------
(* The command goes on, ends or begins.                                     *)

LEMMA SameCommand ==
    ASSUME run \in Runs, Next
    PROVE  run.pc = "idle" \/ run'.pc = "idle" \/ run'.cmd = run.cmd
<1>. USE DEF At
<1>. SUFFICES ASSUME run.pc # "idle", run'.pc # "idle" PROVE run'.cmd = run.cmd
  OBVIOUS
<1>1. \A r, at : run' # Exited(r, at)
  BY DEF Exited
<1>2. ~BeginRun
  <2>1. /\ ~\E dry \in BOOLEAN, t \in Stamps : IdentityAlready(dry, t)
        /\ ~\E replace \in BOOLEAN, t \in Stamps : IdentityInstall(replace, t)
        /\ ~\E cmd \in Commands \ {"identity"}, t \in Stamps : StartClean(cmd, t)
    BY DEF IdentityAlready, IdentityInstall, StartClean
  <2>2. ~(IdentityNothing \/ IdentityRefused \/ IdentityUnreadable \/ IdentityConflict
          \/ IdentityDryRun \/ StartCleanRefused \/ StartCleanUnreadable)
    BY DEF IdentityNothing, IdentityRefused, IdentityUnreadable, IdentityConflict,
           IdentityDryRun, StartCleanRefused, StartCleanUnreadable
  <2>. QED
    BY <2>1, <2>2 DEF BeginRun
<1>3. ~Environment
  <2>1. \A i, safe : ~ClientStart(i, safe) /\ ~LegacyStart(i)
    BY DEF ClientStart, LegacyStart
  <2>2. ~(Killed \/ PowerCut)
    BY <1>1 DEF Killed, PowerCut, Ends
  <2>. QED
    BY <2>1, <2>2 DEF Environment
<1>4. ~(CreateNetworksFails \/ LegacyFails \/ ResetFails)
  BY <1>1 DEF CreateNetworksFails, LegacyFails, ResetFails, Ends
<1>5. CASE CreateNetworks \/ MoveAsideFails \/ CreateStaging
           \/ (\E f \in Files : CopyFile(f) \/ VerifyCopy(f))
           \/ CopiesDone \/ WriteMarker \/ SealStaging \/ StageFails
  BY <1>5 DEF CreateNetworks, MoveAsideFails, CreateStaging, CopyFile, VerifyCopy, CopiesDone,
              WriteMarker, SealStaging, AfterSeal, StageFails, Failed, Runs
<1>6. CASE PublishData \/ PublishCache \/ UndoPublish \/ PublishSync \/ PublishSyncFails
  BY <1>6 DEF PublishData, PublishCache, UndoPublish, PublishSync, PublishSyncFails, Failed, Runs
<1>7. CASE RemoveStaging
  BY <1>7 DEF RemoveStaging, AfterUndo, Runs
<1>8. CASE ConfigAside \/ LockDown \/ RedbAside \/ SecureLeftovers
  BY <1>8 DEF ConfigAside, LockDown, RedbAside, SecureLeftovers, Runs
<1>9. CASE HomeSync
  BY <1>1, <1>9 DEF HomeSync, Runs
<1>10. CASE MoveAside
  <2>1. \A name \in AsideNets : /\ [run EXCEPT !.replaced[run.place] = name] \in Runs
                                /\ [run EXCEPT !.replaced[run.place] = name].cmd = run.cmd
    BY Typed DEF Runs
  <2>2. \E r \in Runs : r.cmd = run.cmd /\ run' = AfterAside(r)
    BY <1>10, <2>1 DEF MoveAside
  <2>. QED
    BY <2>2 DEF AfterAside, Runs
<1>11. CASE Restore \/ ResetDir
  <2>. DEFINE m == [run EXCEPT !.effort = "missed"]
              n == [run EXCEPT !.result = "StartedClean"]
  <2>1. m \in Runs /\ n \in Runs /\ m.cmd = run.cmd /\ n.cmd = run.cmd
    BY DEF Runs, Results
  <2>. HIDE DEF m, n
  <2>2. \E x \in {run, m, n} : \E y, at : run' = AfterUndo(x, Exited(y, at))
    BY <1>11 DEF Restore, ResetDir, m, n
  <2>3. \A x \in {run, m, n} : [x EXCEPT !.place = "cache"].cmd = run.cmd
    BY <2>1 DEF Runs
  <2>. QED
    BY <1>1, <2>2, <2>3 DEF AfterUndo
<1>. QED
  BY <1>2, <1>3, <1>4, <1>5, <1>6, <1>7, <1>8, <1>9, <1>10, <1>11 DEF Next, RunStep

-----------------------------------------------------------------------------
(* The plan is that of .config until the run puts it aside.                 *)

LEMMA Elsewhere ==
    ASSUME run'.pc \notin Installing \cup Undoing \cup {"cfgaside"}
    PROVE  FromConfig'
  BY DEF FromConfig, Installing, Undoing

LEMMA StillFromConfig ==
    ASSUME RefineInv, run.pc \in Installing \cup Undoing, home' = home, run'.plan = run.plan,
           run'.pc \notin {"cfgaside", "undo"}
    PROVE  FromConfig'
<1>1. FoundLegacy /\ run.plan["id"] = home.conf[Config]["id"]
  BY Facts DEF FromConfig
<1>. QED
  BY <1>1 DEF FromConfig, FoundLegacy

LEMMA BeginFromConfig ==
    ASSUME RefineInv, BeginRun
    PROVE  FromConfig'
<1>1. ASSUME NEW r, NEW at, run' = Exited(r, at) PROVE FromConfig'
  BY <1>1, Elsewhere DEF Exited, Installing, Undoing
<1>2. FoundLegacy => Plan["id"] = home.conf[Config]["id"]
  BY DEF Plan, Files
<1>3. ASSUME NEW dry \in BOOLEAN, NEW t \in Stamps, IdentityAlready(dry, t)
      PROVE  FromConfig'
  <2>1. CASE run' = Started("identity", "cfgaside", t, "AlreadyMigrated")
    <3>1. /\ FoundLegacy /\ home' = home /\ nets' = nets
          /\ run'.pc = "cfgaside" /\ run'.plan = Plan
      BY <1>3, <2>1 DEF IdentityAlready, Started, Exited, files
    <3>2. "id" \in Files /\ "id" \notin Mismatches(Plan) /\ Plan["id"] # Absent
      BY <1>2, <1>3, <3>1 DEF IdentityAlready, FoundLegacy, Files
    <3>3. nets["data"][Live] # Absent /\ nets["data"][Live]["id"] = Plan["id"]
      BY <3>2 DEF Mismatches, PlaceOf, Files
    <3>. QED
      BY <1>2, <3>1, <3>3 DEF FromConfig, FoundLegacy, Undoing
  <2>. QED
    BY <1>1, <1>3, <2>1 DEF IdentityAlready
<1>4. ASSUME NEW replace \in BOOLEAN, NEW t \in Stamps, IdentityInstall(replace, t)
      PROVE  FromConfig'
  <2>1. /\ FoundLegacy /\ home' = home /\ run'.pc = "networks" /\ run'.plan = Plan
    BY <1>4 DEF IdentityInstall, Started, Exited, files
  <2>. QED
    BY <1>2, <2>1 DEF FromConfig, FoundLegacy
<1>5. ASSUME NEW cmd \in Commands \ {"identity"}, NEW t \in Stamps, StartClean(cmd, t)
      PROVE  FromConfig'
  <2>1. CASE \E pc \in {"cfgaside", "reset"} : \E r : run' = Started(cmd, pc, t, r)
    <3>1. run'.pc \in {"cfgaside", "reset"} /\ run'.cmd # "identity"
      BY <2>1 DEF Started, Exited
    <3>. QED
      BY <3>1 DEF FromConfig, Installing, Undoing
  <2>. QED
    BY <1>1, <1>5, <2>1 DEF StartClean
<1>6. \A r, at : Ends(r, at) => FromConfig'
  BY <1>1 DEF Ends
<1>. QED
  BY <1>3, <1>4, <1>5, <1>6
     DEF BeginRun, IdentityNothing, IdentityRefused, IdentityUnreadable, IdentityConflict,
         IdentityDryRun, StartCleanRefused, StartCleanUnreadable

LEMMA StepFromConfig ==
    ASSUME RefineInv, Next
    PROVE  FromConfig'
<1>. USE DEF At
<1>0. run \in Runs /\ MigrateInv /\ MigrateInv'
  BY Facts, StepWhole
<1>1. ASSUME NEW r, NEW at, run' = Exited(r, at) PROVE FromConfig'
  BY <1>1, Elsewhere DEF Exited, Installing, Undoing
<1>2. CASE CreateNetworks \/ MoveAsideFails \/ CreateStaging
           \/ (\E f \in Files : CopyFile(f) \/ VerifyCopy(f))
           \/ CopiesDone \/ WriteMarker \/ SealStaging \/ StageFails
  <2>1. run.pc \in Installing
    BY <1>2 DEF CreateNetworks, MoveAsideFails, CreateStaging, CopyFile, VerifyCopy, CopiesDone,
                WriteMarker, SealStaging, StageFails, Installing
  <2>2. home' = home
    BY <1>2 DEF CreateNetworks, MoveAsideFails, CreateStaging, CopyFile, VerifyCopy, CopiesDone,
                WriteMarker, SealStaging, StageFails, StageFile, Entered, Synced, files
  <2>3. run'.plan = run.plan /\ run'.pc \notin {"cfgaside", "undo"}
    BY <1>0, <1>2, ZenonT(30)
       DEF CreateNetworks, MoveAsideFails, CreateStaging, CopyFile, VerifyCopy, CopiesDone,
           WriteMarker, SealStaging, AfterSeal, StageFails, Failed, Runs
  <2>. QED
    BY <2>1, <2>2, <2>3, StillFromConfig
<1>3. CASE MoveAside
  <2>1. \A name \in AsideNets : LET r == [run EXCEPT !.replaced[run.place] = name] IN
           r \in Runs /\ r.plan = run.plan /\ r.pc = run.pc
    BY <1>0, Typed DEF Runs
  <2>2. \E r \in Runs : r.plan = run.plan /\ r.pc = "aside" /\ run' = AfterAside(r)
    BY <1>0, <1>3, <2>1 DEF MoveAside
  <2>3. run'.plan = run.plan /\ run'.pc \notin {"cfgaside", "undo"}
    BY <2>2 DEF AfterAside, Runs
  <2>4. run.pc \in Installing /\ home' = home
    BY <1>3 DEF MoveAside, SetNets, Entered, files, Installing
  <2>. QED
    BY <2>3, <2>4, StillFromConfig
<1>4. CASE PublishData \/ UndoPublish \/ PublishSyncFails
  <2>1. /\ run.pc \in Installing \cup Undoing /\ home' = home /\ run'.plan = run.plan
        /\ run'.pc \notin {"cfgaside", "undo"}
    BY <1>0, <1>4 DEF PublishData, UndoPublish, PublishSyncFails, Failed, Runs, SetNets, PublishIn,
                      Entered, files, Installing, Undoing
  <2>. QED
    BY <2>1, StillFromConfig
<1>5. CASE PublishCache
  <2>1. /\ run.pc = "pubcache" /\ run.pc \in Installing /\ home' = home /\ run'.plan = run.plan
        /\ nets'["data"] = nets["data"] /\ run'.pc # "cfgaside"
    BY <1>0, <1>5, Typed DEF PublishCache, Failed, Runs, PublishIn, Entered, files, Installing, Places
  <2>2. FoundLegacy /\ run.plan["id"] = home.conf[Config]["id"] /\ InPlace("data")
    BY <2>1, Facts DEF FromConfig, MigrateInv, StepInv, InstallInv
  <2>3. InPlace("data")'
    BY <1>0, <2>1, <2>2, MoveOnPlan DEF InPlace
  <2>. QED
    BY <2>1, <2>2, <2>3 DEF FromConfig, FoundLegacy
<1>6. CASE PublishSync
  <2>1. /\ run.pc \in Installing /\ run.pc = "pubsync" /\ home' = home /\ run'.plan = run.plan
        /\ nets' = nets /\ run'.pc # "undo"
    BY <1>0, <1>6 DEF PublishSync, Runs, Installing
  <2>2. /\ FoundLegacy /\ run.plan["id"] = home.conf[Config]["id"]
        /\ nets["data"][Live] = Full(run.plan, "data")
    BY <2>1, Facts DEF FromConfig, MigrateInv, StepInv, InstallInv, InPlace
  <2>3. Full(run.plan, "data") # Absent /\ Full(run.plan, "data")["id"] = run.plan["id"]
    BY <1>0, FullWhole DEF Full, Planned, PlaceOf, Files
  <2>. QED
    BY <2>1, <2>2, <2>3 DEF FromConfig, FoundLegacy
<1>7. CASE RemoveStaging
  <2>1. /\ run.pc \in Undoing /\ home' = home /\ run'.plan = run.plan
        /\ run'.pc \notin {"cfgaside", "undo"}
    BY <1>0, <1>7 DEF RemoveStaging, AfterUndo, Runs, SetNets, Entered, files, Undoing
  <2>. QED
    BY <2>1, StillFromConfig
<1>8. CASE Restore
  <2>. DEFINE m == [run EXCEPT !.effort = "missed"]
  <2>1. m \in Runs /\ m.plan = run.plan /\ m.pc = run.pc
    BY <1>0 DEF Runs
  <2>. HIDE DEF m
  <2>2. \E x \in {run, m} : run' = AfterUndo(x, Exited(run.result, run.failedAt))
    BY <1>8 DEF Restore, m
  <2>3. run.pc = "restore" /\ home' = home
    BY <1>8 DEF Restore, SetNets, Entered, files
  <2>4. \A x \in {run, m} : LET y == [x EXCEPT !.place = "cache"] IN
           y.plan = run.plan /\ y.pc = run.pc
    BY <1>0, <2>1 DEF Runs
  <2>. QED
    BY <1>1, <2>2, <2>3, <2>4, StillFromConfig DEF AfterUndo, Undoing
<1>9. CASE ConfigAside \/ LockDown \/ RedbAside \/ SecureLeftovers
  <2>1. run'.pc \in MovingLegacy \ {"cfgaside"}
    BY <1>0, <1>9 DEF ConfigAside, LockDown, RedbAside, SecureLeftovers, MovingLegacy, Runs
  <2>. QED
    BY <2>1, Elsewhere DEF MovingLegacy, Installing, Undoing
<1>10. CASE HomeSync
  <2>1. [run EXCEPT !.pc = "reset"].pc = "reset"
    BY <1>0 DEF Runs
  <2>. QED
    BY <1>1, <1>10, <2>1, Elsewhere DEF HomeSync, Installing, Undoing
<1>11. CASE ResetDir
  <2>. DEFINE m == [run EXCEPT !.result = "StartedClean"]
  <2>1. m \in Runs /\ m.pc = "reset" /\ run.pc = "reset"
    BY <1>0, <1>11 DEF ResetDir, Runs, Results
  <2>. HIDE DEF m
  <2>2. \E x \in {run, m} : \E y : run' = AfterUndo(x, Exited(y, "none"))
    BY <1>11 DEF ResetDir, m
  <2>3. \A x \in {run, m} : [x EXCEPT !.place = "cache"].pc = "reset"
    BY <1>0, <2>1 DEF Runs
  <2>. QED
    BY <1>1, <2>2, <2>3, Elsewhere DEF AfterUndo, Installing, Undoing
<1>12. CASE CreateNetworksFails \/ LegacyFails \/ ResetFails
  BY <1>1, <1>12 DEF CreateNetworksFails, LegacyFails, ResetFails, Ends
<1>13. CASE Environment
  <2>1. \E r, at : run' = Exited(r, at)
    BY <1>13 DEF Environment, Killed, PowerCut, ClientStart, LegacyStart, Ends
  <2>. QED
    BY <1>1, <2>1
<1>. QED
  BY <1>2, <1>3, <1>4, <1>5, <1>6, <1>7, <1>8, <1>9, <1>10, <1>11, <1>12, <1>13, BeginFromConfig
     DEF Next, RunStep

-----------------------------------------------------------------------------
(* One step of Migrate is one of IdentityMove, or none.                     *)

LEMMA QuietMoves ==
    ASSUME RefineInv, Next, Quiet, UNCHANGED known
    PROVE  HeldInv' /\ Moves
  BY Facts, QuietHeld, SameMoves, SameCommand

\* The identities that are held are the same with either dir in its place.
LEMMA HeldSame ==
    ASSUME NEW d, NEW e, NetIds(e) = NetIds(d) PROVE HeldWith(e) = HeldWith(d)
  BY DEF HeldWith

\* Moving the live data dir aside.
LEMMA ParkMoves ==
    ASSUME RefineInv, Next, run.pc # "idle", run'.pc # "idle", UNCHANGED known,
           NEW name \in AsideNets, nets["data"][Live] # Absent, nets["data"][name] = Absent,
           Entered("data", Rename(nets["data"], Live, name), {Rename(nets["data"], Live, name)})
    PROVE  HeldInv' /\ Moves
<1>. DEFINE d == nets["data"]
            e == Rename(d, Live, name)
<1>1. name \in Kept /\ name # Live /\ Live \in Kept /\ name \in NetNames /\ Live \in NetNames
  BY NamesApart, NamesTyped DEF Kept
<1>2. IdIn(d[name]) = Absent /\ d \in NetDirs /\ WithId(d)
  BY Facts DEF IdIn
<1>3. /\ e[Live] = Absent /\ e[name] = d[Live]
      /\ \A n \in AsideNets : n # name => e[n] = d[n]
  BY <1>1, <1>2, RenameMoves, NamesTyped, NamesApart
<1>4. NetIds(e) = NetIds(d) /\ WithId(e)
  BY <1>1, <1>2, RenameIds
<1>. HIDE DEF e
<1>5. Entered("data", e, {e})
  BY DEF e
<1>6. /\ HeldInv' /\ LegacyId' = LegacyId /\ LiveId' = IdIn(e[Live])
      /\ ParkedIds = Aside(d, home) /\ ParkedIds' = Aside(e, home)
  BY <1>4, <1>5, DataSet, HeldSame
<1>7. LiveId # Absent /\ LiveId' = Absent
  BY <1>1, <1>2, <1>3, <1>6, AbsentAssumption DEF LiveId, IdIn, WithId
<1>8. IdIn(e[name]) = LiveId /\ \A n \in AsideNets : n # name => IdIn(e[n]) = IdIn(d[n])
  BY <1>3 DEF LiveId
<1>9. Aside(e, home) = Aside(d, home) \cup {LiveId}
  <2>1. {IdIn(e[n]) : n \in AsideNets} \ {Absent}
        = ({IdIn(d[n]) : n \in AsideNets} \ {Absent}) \cup {LiveId}
    BY <1>2, <1>7, <1>8
  <2>. QED
    BY <1>7, <2>1 DEF Aside
<1>. QED
  BY <1>6, <1>7, <1>9, Parks, SameCommand, Facts

\* Moving a cache dir between its live and aside names.
LEMMA CacheMoves ==
    ASSUME RefineInv, Next, UNCHANGED known,
           NEW from \in Kept, NEW to \in Kept, from # to, nets["cache"][from] # Absent,
           Entered("cache", Rename(nets["cache"], from, to), {Rename(nets["cache"], from, to)})
    PROVE  HeldInv' /\ Moves
<1>1. IdIn(nets["cache"][to]) = Absent
  BY Facts, IdOfKept
<1>2. WithoutId(Rename(nets["cache"], from, to))
  BY <1>1, Facts, RenameIds
<1>. QED
  BY <1>2, CacheSet, SameMoves, SameCommand, Facts

LEMMA MoveAsideMoves ==
    ASSUME RefineInv, Next, MoveAside
    PROVE  HeldInv' /\ Moves
<1>. DEFINE p == run.place
<1>0. run.pc = "aside" /\ p \in Places /\ run \in Runs /\ UNCHANGED known
  BY Facts DEF MoveAside, At
<1>1. CASE UNCHANGED files
  BY <1>0, <1>1, QuietMoves DEF Quiet
<1>2. ASSUME NEW name \in AsideNets, nets[p][Live] # Absent,
             UniqueName(nets[p], "replaced", run.ts, name),
             SetNets(p, Rename(nets[p], Live, name)),
             run' = AfterAside([run EXCEPT !.replaced[p] = name])
      PROVE  HeldInv' /\ Moves
  <2>1. nets[p][name] = Absent /\ name \in Kept /\ Live \in Kept /\ name # Live
    BY <1>2, NamesApart DEF UniqueName, Kept
  <2>2. CASE p = "cache"
    BY <1>0, <1>2, <2>1, <2>2, CacheMoves DEF SetNets
  <2>3. CASE p = "data"
    <3>1. /\ [run EXCEPT !.replaced[p] = name] \in Runs
          /\ [run EXCEPT !.replaced[p] = name].pc = "aside"
      BY <1>0 DEF Runs
    <3>2. run'.pc # "idle"
      BY <1>2, <3>1 DEF AfterAside, Runs
    <3>. QED
      BY <1>0, <1>2, <2>1, <2>3, <3>2, ParkMoves DEF SetNets
  <2>. QED
    BY <1>0, <2>2, <2>3 DEF Places
<1>. QED
  BY <1>0, <1>1, <1>2 DEF MoveAside

LEMMA ResetDirMoves ==
    ASSUME RefineInv, Next, ResetDir
    PROVE  HeldInv' /\ Moves
<1>. DEFINE p == run.place
<1>0. run.pc = "reset" /\ p \in Places /\ run \in Runs /\ UNCHANGED known
  BY Facts DEF ResetDir, At
<1>1. CASE UNCHANGED files
  BY <1>0, <1>1, QuietMoves DEF Quiet
<1>2. ASSUME NEW name \in AsideNets, nets[p][Live] # Absent,
             UniqueName(nets[p], "reset", run.ts, name),
             SetNets(p, Rename(nets[p], Live, name)),
             run' = AfterUndo([run EXCEPT !.result = "StartedClean"],
                              Exited("StartedClean", "none"))
      PROVE  HeldInv' /\ Moves
  <2>1. nets[p][name] = Absent /\ name \in Kept /\ Live \in Kept /\ name # Live
    BY <1>2, NamesApart DEF UniqueName, Kept
  <2>2. CASE p = "cache"
    BY <1>0, <1>2, <2>1, <2>2, CacheMoves DEF SetNets
  <2>3. CASE p = "data"
    <3>. DEFINE m == [run EXCEPT !.result = "StartedClean"]
    <3>1. m \in Runs /\ m.pc = "reset" /\ m.place = "data"
      BY <1>0, <2>3 DEF Runs, Results
    <3>. HIDE DEF m
    <3>2. run'.pc # "idle"
      BY <1>2, <3>1 DEF AfterUndo, Runs, m
    <3>. QED
      BY <1>0, <1>2, <2>1, <2>3, <3>2, ParkMoves DEF SetNets
  <2>. QED
    BY <1>0, <2>2, <2>3 DEF Places
<1>. QED
  BY <1>0, <1>1, <1>2 DEF ResetDir

\* What is staged is no identity of its own.
LEMMA StagingMoves ==
    ASSUME RefineInv, Next, run.pc # "idle",
           \/ CreateStaging \/ (\E f \in Files : CopyFile(f)) \/ WriteMarker \/ RemoveStaging
    PROVE  HeldInv' /\ Moves
<1>. DEFINE p == run.place
            n == Staging(run.ts)
<1>0. p \in Places /\ nets[p] \in NetDirs /\ n \notin Kept /\ UNCHANGED known
  BY Facts, Typed, NamesApart DEF CreateStaging, CopyFile, WriteMarker, RemoveStaging
<1>1. CASE UNCHANGED files
  BY <1>0, <1>1, QuietMoves DEF Quiet
<1>2. ASSUME NEW d, Entered(p, d, {d}), \A m \in Kept : d[m] = nets[p][m]
      PROVE  HeldInv' /\ Moves
  BY <1>0, <1>2, StagingHeld, SameMoves, SameCommand, Facts
<1>3. ASSUME NEW x, Entered(p, [nets[p] EXCEPT ![n] = x], {[nets[p] EXCEPT ![n] = x]})
      PROVE  HeldInv' /\ Moves
  <2>. DEFINE d == [nets[p] EXCEPT ![n] = x]
  <2>1. \A m \in Kept : d[m] = nets[p][m]
    BY <1>0, KeptNames DEF NetDirs
  <2>. HIDE DEF d
  <2>2. Entered(p, d, {d})
    BY <1>3 DEF d
  <2>. QED
    BY <1>2, <2>1, <2>2
<1>4. ASSUME NEW f, NEW x, NEW u, StageFile(f, x, u)
      PROVE  HeldInv' /\ Moves
  <2>. DEFINE d == [nets[p] EXCEPT ![n][f] = x]
  <2>1. \A m \in Kept : d[m] = nets[p][m]
    BY <1>0, KeptNames DEF NetDirs
  <2>. HIDE DEF d
  <2>2. Entered(p, d, {d})
    BY <1>4 DEF d, StageFile
  <2>. QED
    BY <1>2, <2>1, <2>2
<1>5. CASE CreateStaging
  BY <1>1, <1>3, <1>5 DEF CreateStaging
<1>6. CASE RemoveStaging
  BY <1>1, <1>3, <1>6 DEF RemoveStaging, SetNets
<1>. QED
  BY <1>4, <1>5, <1>6 DEF CopyFile, WriteMarker

LEMMA ConfigId ==
    ASSUME RefineInv, FoundLegacy
    PROVE  /\ LegacyId = home.conf[Config]["id"] /\ LegacyId \in Ids /\ LegacyId # Absent
           /\ LegacyId \in HomeIds(home)
<1>1. /\ home.conf[Config] # Absent /\ home.conf[Config]["id"] # Absent
      /\ home.conf[Config]["id"] # Torn /\ home.conf[Config] \in Dirs
  BY Facts, Typed, NamesTyped DEF FoundLegacy, HomeWhole, Whole, Homes, Files
<1>2. home.conf[Config]["id"] \in Contents
  BY <1>1 DEF Dirs, Files
<1>. QED
  BY <1>1, <1>2, NamesTyped DEF LegacyId, IdIn, HomeIds, Contents

\* Between its staging and its live name the plan's data dir is the legacy identity.
LEMMA PublishDataMoves ==
    ASSUME RefineInv, Next, PublishData
    PROVE  HeldInv' /\ Moves
<1>. DEFINE d == nets["data"]
            s == Staging(run.ts)
            e == Rename(d, s, Live)
<1>0. /\ run.pc = "pubdata" /\ UNCHANGED known /\ run \in Runs /\ run.ts \in Stamps
      /\ run.cmd = "identity" /\ FoundLegacy /\ run.plan["id"] = home.conf[Config]["id"]
      /\ d[Live] = Absent /\ d[s] = Full(run.plan, "data")
  BY Facts, Typed DEF PublishData, At, MigrateInv, StepInv, CommandInv, InstallInv, RestoreInv,
                      FromConfig, Installing, DataReady, Cleared, Staged, Places
<1>1. CASE UNCHANGED files
  BY <1>0, <1>1, QuietMoves DEF Quiet
<1>2. CASE Entered("data", e, {e}) /\ run' = [run EXCEPT !.pc = "pubcache"]
  <2>1. /\ e[Live] = Full(run.plan, "data") /\ \A n \in AsideNets : e[n] = d[n]
    <3>1. s # Live /\ s \in NetNames /\ Live \in NetNames /\ d \in NetDirs
          /\ \A n \in AsideNets : n \in NetNames /\ n \notin {s, Live}
      BY <1>0, NamesApart, NamesTyped, Facts
    <3>. QED
      BY <1>0, <3>1, RenameMoves
  <2>. HIDE DEF e
  <2>2. LegacyId = run.plan["id"] /\ LegacyId \in Ids /\ LegacyId # Absent
        /\ LegacyId \in HomeIds(home)
    BY <1>0, ConfigId
  <2>3. Full(run.plan, "data")["id"] = run.plan["id"] /\ Full(run.plan, "data") # Absent
    BY <2>2, Facts, FullWhole DEF Full, Planned, PlaceOf, Files
  <2>4. IdIn(e[Live]) = LegacyId /\ IdIn(d[Live]) = Absent
    BY <1>0, <2>1, <2>2, <2>3 DEF IdIn
  <2>5. WithId(e)
    BY <2>1, <2>2, <2>3, Facts DEF WithId, Kept
  <2>6. HeldWith(e) = HeldWith(d)
    BY <2>1, <2>2, <2>4 DEF HeldWith, NetIds, Kept
  <2>7. Aside(e, home) = Aside(d, home)
    BY <2>1 DEF Aside
  <2>8. /\ HeldInv' /\ LegacyId' = LegacyId /\ LiveId' = LegacyId /\ ParkedIds' = ParkedIds
        /\ LiveId = Absent
    BY <1>0, <1>2, <2>4, <2>5, <2>6, <2>7, DataSet DEF LiveId
  <2>9. run'.pc # "idle" /\ run'.cmd = run.cmd
    BY <1>0, <1>2 DEF Runs
  <2>. QED
    BY <1>0, <2>2, <2>8, <2>9, Adopts
<1>. QED
  BY <1>0, <1>1, <1>2, PublishesAll
     DEF PublishData, SetNets, RefineInv, MigrateInv, SafetyInv, Places

LEMMA UndoPublishMoves ==
    ASSUME RefineInv, Next, UndoPublish
    PROVE  HeldInv' /\ Moves
<1>. DEFINE d == nets["data"]
            s == Staging(run.ts)
            e == Rename(d, Live, s)
<1>0. /\ run.pc = "undo" /\ UNCHANGED known /\ run \in Runs /\ run.ts \in Stamps
      /\ run.cmd = "identity" /\ FoundLegacy /\ run.plan["id"] = home.conf[Config]["id"]
      /\ d[Live] = Full(run.plan, "data")
  BY Facts, Typed DEF UndoPublish, At, MigrateInv, CommandInv, FromConfig, Undoing, InPlace
<1>1. CASE UNCHANGED files
  BY <1>0, <1>1, QuietMoves DEF Quiet
<1>2. CASE Entered("data", e, {e}) /\ run' = [run EXCEPT !.pc = "remove"]
  <2>1. /\ e[Live] = Absent /\ \A n \in AsideNets : e[n] = d[n]
    <3>1. s # Live /\ s \in NetNames /\ Live \in NetNames /\ d \in NetDirs
          /\ \A n \in AsideNets : n \in NetNames /\ n \notin {s, Live}
      BY <1>0, NamesApart, NamesTyped, Facts
    <3>. QED
      BY <3>1, RenameMoves
  <2>. HIDE DEF e
  <2>2. LegacyId = run.plan["id"] /\ LegacyId # Absent /\ LegacyId \in HomeIds(home)
    BY <1>0, ConfigId
  <2>3. Full(run.plan, "data")["id"] = run.plan["id"] /\ Full(run.plan, "data") # Absent
    BY <2>2, Facts, FullWhole DEF Full, Planned, PlaceOf, Files
  <2>4. IdIn(d[Live]) = LegacyId /\ IdIn(e[Live]) = Absent
    BY <1>0, <2>1, <2>2, <2>3 DEF IdIn
  <2>5. WithId(e)
    BY <2>1, Facts DEF WithId, Kept
  <2>6. HeldWith(e) = HeldWith(d)
    BY <2>1, <2>2, <2>4 DEF HeldWith, NetIds, Kept
  <2>7. Aside(e, home) = Aside(d, home)
    BY <2>1 DEF Aside
  <2>8. /\ HeldInv' /\ LegacyId' = LegacyId /\ LiveId' = Absent /\ ParkedIds' = ParkedIds
        /\ LiveId = LegacyId
    BY <1>0, <1>2, <2>4, <2>5, <2>6, <2>7, DataSet DEF LiveId
  <2>9. run'.pc # "idle" /\ run'.cmd = run.cmd
    BY <1>0, <1>2 DEF Runs
  <2>. QED
    BY <1>0, <2>2, <2>8, <2>9, Withdraws
<1>. QED
  BY <1>1, <1>2 DEF UndoPublish, SetNets

LEMMA PublishCacheMoves ==
    ASSUME RefineInv, Next, PublishCache
    PROVE  HeldInv' /\ Moves
<1>. DEFINE d == nets["cache"]
            s == Staging(run.ts)
            e == Rename(d, s, Live)
<1>0. /\ run.pc = "pubcache" /\ UNCHANGED known /\ run.ts \in Stamps
      /\ d[s] = Full(run.plan, "cache")
  BY Facts, Typed DEF PublishCache, At, MigrateInv, StepInv, InstallInv, CacheReady, Staged
<1>1. CASE UNCHANGED files
  BY <1>0, <1>1, QuietMoves DEF Quiet
<1>2. CASE Entered("cache", e, {e})
  <2>1. /\ e[Live] = Full(run.plan, "cache") /\ \A n \in AsideNets : e[n] = d[n]
    <3>1. s # Live /\ s \in NetNames /\ Live \in NetNames /\ d \in NetDirs
          /\ \A n \in AsideNets : n \in NetNames /\ n \notin {s, Live}
      BY <1>0, NamesApart, NamesTyped, Facts
    <3>. QED
      BY <1>0, <3>1, RenameMoves
  <2>2. Full(run.plan, "cache")["id"] = Absent
    BY DEF Full, Planned, PlaceOf, Files
  <2>. HIDE DEF e
  <2>3. WithoutId(e)
    BY <2>1, <2>2, Facts DEF WithoutId, Kept
  <2>. QED
    BY <1>0, <1>2, <2>3, CacheSet, SameMoves, SameCommand, Facts
<1>. QED
  BY <1>0, <1>1, <1>2, PublishesAll
     DEF PublishCache, SetNets, RefineInv, MigrateInv, SafetyInv, Places

LEMMA PublishSyncMoves ==
    ASSUME RefineInv, Next, PublishSync
    PROVE  HeldInv' /\ Moves
<1>0. disk' = [disk EXCEPT ![run.place] = {nets[run.place]}]
  BY SyncsAll DEF RefineInv, MigrateInv, SafetyInv
<1>1. /\ nets' = nets /\ home' = home /\ homeDisk' = homeDisk /\ known' = known
      /\ \A p \in Places : Left(p)' \subseteq Left(p)
  BY <1>0, Facts, Typed DEF PublishSync, Left
<1>2. HeldInv'
  BY <1>1, Facts DEF HeldInv, HeldWith, KnownIds, Places
<1>3. Same
  BY <1>1 DEF Same, LiveId, LegacyId, ParkedIds, Parked
<1>. QED
  BY <1>2, <1>3, SameMoves, SameCommand, Facts

LEMMA RestoreMoves ==
    ASSUME RefineInv, Next, Restore
    PROVE  HeldInv' /\ Moves
<1>. DEFINE p == run.place
            d == nets["data"]
            aside == run.replaced[p]
            e == Rename(d, aside, Live)
<1>0. /\ run.pc = "restore" /\ UNCHANGED known /\ run \in Runs /\ p \in Places
      /\ aside # Absent => aside \in AsideNets /\ aside \in Kept /\ aside # Live
      /\ Live \in Kept /\ run.cmd = "identity"
  BY Facts, NamesApart DEF Restore, At, MigrateInv, CommandInv, Undoing, Runs, Kept
<1>1. CASE UNCHANGED files
  BY <1>0, <1>1, QuietMoves DEF Quiet
<1>2. CASE /\ p = "cache" /\ aside # Absent /\ CanRename(nets[p], aside, Live)
           /\ SetNets(p, Rename(nets[p], aside, Live))
  BY <1>0, <1>2, CacheMoves DEF CanRename, SetNets
<1>3. CASE /\ p = "data" /\ aside # Absent /\ CanRename(d, aside, Live) /\ Entered("data", e, {e})
           /\ run' = AfterUndo(run, Exited(run.result, run.failedAt))
  <2>1. d[aside] # Absent /\ IdIn(d[Live]) = Absent /\ d \in NetDirs /\ WithId(d)
    <3>1. d[Live] \in {Absent, Empty} /\ Empty["id"] = Absent
      BY <1>3 DEF CanRename, Empty, Files
    <3>. QED
      BY <1>3, <3>1, Facts DEF CanRename, IdIn
  <2>2. /\ e[Live] = d[aside] /\ e[aside] = Absent
        /\ \A n \in AsideNets : n # aside => e[n] = d[n]
    <3>1. aside \in NetNames /\ Live \in NetNames
          /\ \A n \in AsideNets : n \in NetNames /\ n # Live
      BY <1>0, <1>3, NamesApart, NamesTyped
    <3>. QED
      BY <1>0, <1>3, <2>1, <3>1, RenameMoves
  <2>3. NetIds(e) = NetIds(d) /\ WithId(e)
    BY <1>0, <1>3, <2>1, RenameIds
  <2>. HIDE DEF e
  <2>. DEFINE i == IdIn(d[aside])
  <2>4. i # Absent
    BY <1>0, <1>3, <2>1, AbsentAssumption DEF WithId, IdIn
  <2>5. /\ HeldInv' /\ LegacyId' = LegacyId /\ LiveId' = i /\ LiveId = Absent
        /\ ParkedIds = Aside(d, home) /\ ParkedIds' = Aside(e, home)
    BY <1>0, <1>3, <2>1, <2>2, <2>3, DataSet, HeldSame DEF LiveId
  <2>6. Aside(d, home) = Aside(e, home) \cup {i}
    <3>1. IdIn(e[aside]) = Absent /\ \A n \in AsideNets : n # aside => IdIn(e[n]) = IdIn(d[n])
      BY <2>2 DEF IdIn
    <3>2. {IdIn(d[n]) : n \in AsideNets} \ {Absent}
          = ({IdIn(e[n]) : n \in AsideNets} \ {Absent}) \cup {i}
      BY <1>0, <1>3, <2>4, <3>1
    <3>. QED
      BY <2>4, <3>2 DEF Aside
  <2>7. i \in ParkedIds /\ ParkedIds' \in {ParkedIds, ParkedIds \ {i}}
    BY <2>5, <2>6
  <2>8. run'.pc # "idle"
    BY <1>0, <1>3 DEF AfterUndo, Runs
  <2>. HIDE DEF i
  <2>. QED
    BY <1>0, <2>5, <2>7, <2>8, PutsBack, SameCommand
<1>. QED
  BY <1>0, <1>1, <1>2, <1>3 DEF Restore, SetNets, Places

-----------------------------------------------------------------------------
LEMMA ConfigAsideMoves ==
    ASSUME RefineInv, Next, ConfigAside
    PROVE  HeldInv' /\ Moves
<1>0. run.pc = "cfgaside" /\ UNCHANGED known /\ run \in Runs /\ home \in Homes
  BY Facts DEF ConfigAside, At
<1>. PICK name \in ConfNames :
        /\ UniqueName(home.conf, AsideKind, run.ts, name)
        /\ CanRename(home.conf, Config, name)
        /\ SetHome(ConfigMoved(home, name), {ConfigMoved(g, name) : g \in AllRenamed})
        /\ run' = [run EXCEPT !.pc = "lockdown", !.aside = name]
  BY DEF ConfigAside
<1>. DEFINE h == ConfigMoved(home, name)
<1>1. /\ name # Config /\ home.conf[Config] # Absent /\ home.conf[name] = Absent
      /\ Config \in ConfNames
  BY HomeNamesApart DEF UniqueName, CanRename
<1>2. /\ h.conf[Config] = Absent /\ h.conf[name] = home.conf[Config]
      /\ \A n \in ConfNames : n \notin {Config, name} => h.conf[n] = home.conf[n]
  BY <1>0, <1>1 DEF Homes, Rename, ConfigMoved
<1>11. ASSUME NEW g \in AllRenamed PROVE ConfigMoved(g, name).conf = h.conf
  BY <1>0, <1>11, Typed DEF AllRenamed, ConfigMoved, Homes, RefineInv
<1>. HIDE DEF h
<1>3. SetHome(h, {ConfigMoved(g, name) : g \in AllRenamed})
  BY DEF h
<1>4. /\ IdIn(h.conf[Config]) = Absent /\ IdIn(h.conf[name]) = LegacyId
      /\ IdIn(home.conf[name]) = Absent
      /\ \A n \in ConfNames : n \notin {Config, name} => IdIn(h.conf[n]) = IdIn(home.conf[n])
  BY <1>1, <1>2 DEF IdIn, LegacyId
<1>5. HomeIds(h) = HomeIds(home)
  <2>1. ASSUME NEW n \in ConfNames PROVE IdIn(h.conf[n]) \in HomeIds(home) \cup {Absent}
    BY <1>1, <1>4 DEF HomeIds, LegacyId
  <2>2. ASSUME NEW n \in ConfNames PROVE IdIn(home.conf[n]) \in HomeIds(h) \cup {Absent}
    BY <1>1, <1>4 DEF HomeIds, LegacyId
  <2>. QED
    BY <2>1, <2>2 DEF HomeIds
<1>12. \A x \in {ConfigMoved(g, name) : g \in AllRenamed} : HomeIds(x) = HomeIds(h)
  BY <1>11 DEF HomeIds
<1>6. /\ HeldInv' /\ LiveId' = LiveId /\ LegacyId' = Absent
      /\ ParkedIds = Aside(nets["data"], home) /\ ParkedIds' = Aside(nets["data"], h)
  BY <1>0, <1>3, <1>4, <1>5, <1>12, HomeHeld
<1>7. Aside(nets["data"], h) = Aside(nets["data"], home) \cup ({LegacyId} \ {Absent})
  <2>1. {IdIn(h.conf[n]) : n \in ConfNames \ {Config}} \ {Absent}
        = ({IdIn(home.conf[n]) : n \in ConfNames \ {Config}} \ {Absent})
             \cup ({LegacyId} \ {Absent})
    BY <1>1, <1>4
  <2>. QED
    BY <2>1 DEF Aside
<1>8. run'.pc # "idle" /\ run'.cmd = run.cmd
  BY <1>0 DEF Runs
<1>9. CASE LegacyId = Absent
  BY <1>6, <1>7, <1>8, <1>9, SameMoves DEF Same
<1>10. CASE LegacyId # Absent
  <2>1. run.cmd = "identity" => LiveId = LegacyId
    BY <1>0, <1>1, Facts DEF FromConfig, LiveId, LegacyId, IdIn
  <2>. QED
    BY <1>0, <1>6, <1>7, <1>8, <1>10, <2>1, Retires
<1>. QED
  BY <1>9, <1>10

LEMMA SecuringMoves ==
    ASSUME RefineInv, Next, LockDown \/ RedbAside \/ SecureLeftovers
    PROVE  HeldInv' /\ Moves
<1>1. UNCHANGED known /\ home \in Homes
  BY Facts DEF LockDown, RedbAside, SecureLeftovers
<1>2. ASSUME NEW h, NEW leaves, SetHome(h, leaves), h.conf = home.conf,
             \A x \in leaves : \E g \in homeDisk : x.conf = g.conf
      PROVE  HeldInv' /\ Moves
  BY <1>1, <1>2, SameConfHeld, SameMoves, SameCommand, Facts
<1>3. ASSUME NEW g \in Homes
      PROVE  /\ \A names : Locked(g, names).conf = g.conf
             /\ \A name : PixMoved(g, name).conf = g.conf
  BY DEF Homes, Locked, PixMoved
<1>4. homeDisk \subseteq Homes /\ AllRenamed \subseteq homeDisk
  BY Typed DEF RefineInv, AllRenamed
<1>5. CASE LockDown
  <2>. DEFINE lock(g) == Locked(g, {IF g.conf[Config] # Absent THEN Config ELSE run.aside})
  <2>1. SetHome(Locked(home, {run.aside}), {lock(g) : g \in homeDisk})
    BY <1>5 DEF LockDown
  <2>2. ASSUME NEW g \in homeDisk PROVE lock(g).conf = g.conf
    BY <1>3, <1>4
  <2>3. Locked(home, {run.aside}).conf = home.conf
    BY <1>1, <1>3
  <2>. HIDE DEF lock
  <2>. QED
    BY <1>2, <2>1, <2>2, <2>3
<1>6. CASE RedbAside
  <2>1. PICK name \in PixNames :
           SetHome(PixMoved(home, name), {PixMoved(h, name) : h \in AllRenamed})
    BY <1>6 DEF RedbAside
  <2>. QED
    BY <1>1, <1>2, <1>3, <1>4, <2>1
<1>7. CASE SecureLeftovers
  <2>1. PICK missed \in SUBSET (home.exposed \cap Securable) :
           SetHome(Locked(home, Securable \ missed), SweepLeaves(missed))
    BY <1>7 DEF SecureLeftovers
  <2>2. \A x \in SweepLeaves(missed) : \E g \in AllRenamed : \E taken : x = Locked(g, taken)
    BY DEF SweepLeaves
  <2>3. \A x \in SweepLeaves(missed) : \E g \in homeDisk : x.conf = g.conf
    BY <1>3, <1>4, <2>2
  <2>4. Locked(home, Securable \ missed).conf = home.conf
    BY <1>1, <1>3
  <2>. QED
    BY <1>2, <2>1, <2>3, <2>4
<1>. QED
  BY <1>5, <1>6, <1>7

LEMMA HomeSyncMoves ==
    ASSUME RefineInv, Next, HomeSync
    PROVE  HeldInv' /\ Moves
<1>1. /\ nets' = nets /\ home' = home /\ homeDisk' \subseteq homeDisk /\ known' = known
      /\ disk' = disk /\ anchored' = anchored
  BY DEF HomeSync, netFiles, AllRenamed
<1>4. \A p : Left(p)' = Left(p)
  BY <1>1 DEF Left
<1>2. HeldInv'
  BY <1>1, <1>4, Facts DEF HeldInv, HeldWith, KnownIds
<1>3. Same
  BY <1>1 DEF Same, LiveId, LegacyId, ParkedIds, Parked
<1>. QED
  BY <1>2, <1>3, SameMoves, SameCommand, Facts

-----------------------------------------------------------------------------
(* The world around a run.                                                 *)

LEMMA HeldIs ==
    /\ WithoutId(nets["cache"]) => Move!Held = HeldWith(nets["data"])
    /\ WithoutId(nets'["cache"]) =>
          /\ Move!Held' = HeldWith(nets["data"])'
          /\ ParkedIds' \subseteq Move!Held'
<1>1. /\ Move!Held = ({LiveId, LegacyId} \cup ParkedIds) \ {Absent}
      /\ Move!Held' = ({LiveId', LegacyId'} \cup ParkedIds') \ {Absent}
      /\ Absent \notin ParkedIds'
  BY DEF Move!Held, LiveId, LegacyId, ParkedIds
<1>2. /\ HeldWith(nets["data"]) = NetIds(nets["data"]) \cup HomeIds(home)
      /\ HeldWith(nets["data"])' = NetIds(nets'["data"]) \cup HomeIds(home')
  BY DEF HeldWith, NetIds, HomeIds
<1>3. /\ NetIds(nets["data"]) \cup HomeIds(home)
             = ({LiveId, LegacyId} \cup Aside(nets["data"], home)) \ {Absent}
      /\ NetIds(nets'["data"]) \cup HomeIds(home')
             = ({LiveId', LegacyId'} \cup Aside(nets'["data"], home')) \ {Absent}
  BY HeldSplit DEF LiveId, LegacyId
<1>. QED
  BY <1>1, <1>2, <1>3, ParkedIs

LEMMA PowerCutMoves ==
    ASSUME RefineInv, Next, PowerCut
    PROVE  HeldInv' /\ Moves
<1>. PICK n \in {m \in [Places -> UNION {Left(p) : p \in Places}] :
                  \A p \in Places : m[p] \in Left(p)} :
        /\ nets' = n /\ disk' = [p \in Places |-> {n[p]}]
        /\ anchored' = anchored \cup {p \in Places : n[p] # Nothing}
  BY DEF PowerCut
<1>. PICK h \in homeDisk : home' = h /\ homeDisk' = {h}
  BY DEF PowerCut
<1>0. \A p \in Places : Left(p)' \subseteq {n[p]}
  BY DEF Left
<1>1. /\ n["data"] \in Left("data") /\ n["cache"] \in Left("cache")
      /\ Left("data")' \subseteq {n["data"]} /\ Left("cache")' \subseteq {n["cache"]}
      /\ known' = known /\ run'.pc = "idle" /\ run'.result = "Crashed"
  BY <1>0 DEF PowerCut, Places, Exited
<1>2. /\ WithId(n["data"]) /\ WithoutId(n["cache"]) /\ HomeIds(h) = HomeIds(home)
      /\ HeldWith(n["data"]) = HeldWith(nets["data"])
      /\ HeldWith(nets["data"]) \subseteq KnownIds
  BY <1>1, Facts DEF HeldInv
<1>3. HeldWith(nets["data"])' = HeldWith(nets["data"]) /\ KnownIds' = KnownIds
  BY <1>1, <1>2 DEF HeldWith, KnownIds
<1>4. HeldInv'
  BY <1>1, <1>2, <1>3 DEF HeldInv
<1>5. /\ Move!Held' = Move!Held /\ ParkedIds' \subseteq Move!Held
      /\ LiveId' \in Move!Held' \cup {Absent} /\ LegacyId' \in Move!Held' \cup {Absent}
  <2>1. LiveId' \in Move!Held' \cup {Absent} /\ LegacyId' \in Move!Held' \cup {Absent}
    BY DEF Move!Held, LiveId, LegacyId
  <2>. QED
    BY <1>2, <1>3, <2>1, Facts, HeldIs
<1>6. Doing' = "crashed"
  BY <1>1, DoingIs
<1>. QED
  BY <1>4, <1>5, <1>6 DEF Moves, Move!MoveNext, Move!Scatter, LiveId, LegacyId, ParkedIds

\* A new identity is one that nothing holds.
LEMMA Unheard ==
    ASSUME RefineInv, NEW i \in Ids, \A f \in Files : <<f, i>> \notin known
    PROVE  i \notin Move!Held /\ i \notin HeldWith(nets["data"])
<1>1. i \notin KnownIds
  BY DEF KnownIds, Files
<1>. QED
  BY <1>1, Facts, HeldIs DEF HeldInv

LEMMA NewIds ==
    ASSUME NEW i \in Ids, NEW safe \in BOOLEAN, NEW c \in Dirs \cup {Absent},
           IdIn(c) = Absent
    PROVE  /\ NewData(i) # Absent /\ IdIn(NewData(i)) = i /\ NewData(i)["id"] = i
           /\ NewCache(c, i, safe) # Absent /\ NewCache(c, i, safe)["id"] = Absent
<1>1. NewData(i) # Absent /\ NewCache(c, i, safe) # Absent
  BY NewDirsTyped, NotADirAssumption
<1>2. NewData(i)["id"] = i
  BY DEF NewData, Empty, Files
<1>3. Empty["id"] = Absent /\ [Empty EXCEPT !["safe"] = i]["id"] = Absent
  BY DEF Empty, Files
<1>4. NewCache(c, i, safe)["id"] = Absent
  BY <1>3 DEF NewCache, IdIn
<1>. QED
  BY <1>1, <1>2, <1>4 DEF IdIn

LEMMA ClientStartMoves ==
    ASSUME RefineInv, Next, NEW i \in Ids, NEW safe \in BOOLEAN, ClientStart(i, safe)
    PROVE  HeldInv' /\ Moves
<1>. DEFINE d == nets["data"]
            c == nets["cache"]
            e == [d EXCEPT ![Live] = NewData(i)]
            g == [c EXCEPT ![Live] = NewCache(c[Live], i, safe)]
<1>1. /\ d \in NetDirs /\ c \in NetDirs /\ WithId(d) /\ WithoutId(c) /\ TypeOK
      /\ Live \in NetNames /\ Live \in Kept /\ c[Live] \in Dirs \cup {Absent}
  BY Facts, NamesTyped DEF MigrateInv, SafetyInv, TypeInv, Kept, NetDirs
<1>2. nets'["data"] = e /\ nets'["cache"] = g
  BY <1>1, ClientStartNets
<1>3. /\ run.pc = "idle" /\ d[Live] = Absent /\ home' = home
      /\ disk' = [p \in Places |-> {nets'[p]}] /\ anchored' = Places /\ homeDisk' = homeDisk
      /\ run'.pc = "idle" /\ run'.result = "none"
      /\ known \cup {<<"id", i>>} \subseteq known'
      /\ \A f \in Files : <<f, i>> \notin known
  BY DEF ClientStart, At, Exited
<1>4. IdIn(c[Live]) = Absent
  BY <1>1, IdOfKept
<1>5. /\ NewData(i) # Absent /\ IdIn(NewData(i)) = i /\ NewData(i)["id"] = i
      /\ NewCache(c[Live], i, safe)["id"] = Absent
  BY <1>1, <1>4, NewIds
<1>6. /\ e[Live] = NewData(i) /\ g[Live] = NewCache(c[Live], i, safe)
      /\ \A n \in Kept : n # Live => e[n] = d[n] /\ g[n] = c[n]
  BY <1>1, KeptNames DEF NetDirs
<1>. HIDE DEF e, g
<1>7. WithId(e) /\ WithoutId(g)
  BY <1>1, <1>5, <1>6 DEF WithId, WithoutId
<1>8. NetIds(e) = NetIds(d) \cup {i}
  <2>1. IdIn(e[Live]) = i /\ IdIn(d[Live]) = Absent /\ i # Absent
    BY <1>3, <1>5, <1>6, AbsentAssumption DEF IdIn
  <2>2. \A n \in Kept : n # Live => IdIn(e[n]) = IdIn(d[n])
    BY <1>6
  <2>3. \A x : x \in NetIds(e) <=> x \in NetIds(d) \cup {i}
    BY <1>1, <2>1, <2>2 DEF NetIds
  <2>. QED
    BY <2>3
<1>9. Aside(e, home) = Aside(d, home)
  <2>1. \A n \in AsideNets : e[n] = d[n]
    BY <1>6, NamesApart DEF Kept
  <2>. QED
    BY <2>1 DEF Aside
<1>10. HeldInv'
  <2>1. Left("data")' = {e} /\ Left("cache")' = {g}
    BY <1>2, <1>3 DEF Left, Places
  <2>2. HeldWith(nets["data"])' = HeldWith(d) \cup {i}
    BY <1>2, <1>3, <1>8 DEF HeldWith
  <2>3. KnownIds \cup {i} \subseteq KnownIds'
    BY <1>3 DEF KnownIds
  <2>4. \A x : HeldWith(x)' = NetIds(x) \cup HomeIds(home')
    BY DEF HeldWith, HomeIds
  <2>. QED
    BY <1>2, <1>3, <1>7, <2>1, <2>2, <2>3, <2>4, Facts DEF HeldInv
<1>11. LiveId = Absent /\ LiveId' = i /\ LegacyId' = LegacyId
  BY <1>2, <1>3, <1>5, <1>6 DEF LiveId, LegacyId, IdIn
<1>12. ParkedIds' = ParkedIds
  BY <1>1, <1>2, <1>3, <1>7, <1>9, ParkedIs
<1>13. Move!Generate(i)
  <2>1. Move!Stopped /\ Doing' = "nothing" /\ i \notin Move!Held
    BY <1>3, DoingIs, Unheard DEF Move!Stopped
  <2>. QED
    BY <1>11, <1>12, <2>1 DEF Move!Generate, LiveId, LegacyId, ParkedIds
<1>. QED
  BY <1>10, <1>13 DEF Moves, Move!MoveNext

LEMMA LegacyStartMoves ==
    ASSUME RefineInv, Next, NEW i \in Ids, LegacyStart(i)
    PROVE  HeldInv' /\ Moves
<1>. DEFINE d == nets["data"]
<1>1. /\ WithId(d) /\ WithoutId(nets["cache"]) /\ TypeOK /\ home \in Homes
      /\ Config \in ConfNames
  BY Facts, NamesTyped DEF MigrateInv, SafetyInv, TypeInv
<1>2. home'.conf = [home.conf EXCEPT ![Config] = NewData(i)]
  BY <1>1, LegacyStartHome
<1>3. /\ run.pc = "idle" /\ home.conf[Config] \in {Absent, Empty} /\ nets' = nets
      /\ disk' = disk /\ anchored' = anchored /\ homeDisk' = {home'}
      /\ run'.pc = "idle" /\ run'.result = "none"
      /\ known \cup {<<"id", i>>} \subseteq known'
      /\ \A f \in Files : <<f, i>> \notin known
  BY DEF LegacyStart, netFiles, At, Exited
<1>4. IdIn(NewData(i)) = i /\ IdIn(home.conf[Config]) = Absent /\ i # Absent
  <2>1. IdIn(NewData(i)) = i
    BY NewIds DEF IdIn
  <2>. QED
    BY <1>3, <2>1, AbsentAssumption DEF IdIn, Empty, Files
<1>5. /\ home'.conf[Config] = NewData(i)
      /\ \A n \in ConfNames : n # Config => home'.conf[n] = home.conf[n]
  BY <1>1, <1>2 DEF Homes
<1>6. HomeIds(home') = HomeIds(home) \cup {i}
  <2>1. \A n \in ConfNames : n # Config => IdIn(home'.conf[n]) = IdIn(home.conf[n])
    BY <1>5
  <2>2. IdIn(home'.conf[Config]) = i
    BY <1>4, <1>5
  <2>3. \A x : x \in HomeIds(home') <=> x \in HomeIds(home) \cup {i}
    BY <1>1, <1>4, <2>1, <2>2 DEF HomeIds
  <2>. QED
    BY <2>3
<1>7. Aside(d, home') = Aside(d, home)
  BY <1>5 DEF Aside
<1>8. HeldInv'
  <2>1. \A p : Left(p)' = Left(p)
    BY <1>3 DEF Left
  <2>2. \A x : HeldWith(x)' = HeldWith(x) \cup {i}
    BY <1>6 DEF HeldWith
  <2>3. KnownIds \cup {i} \subseteq KnownIds'
    BY <1>3 DEF KnownIds
  <2>4. HeldWith(nets["data"])' = HeldWith(d) \cup {i}
    BY <1>3, <1>6 DEF HeldWith
  <2>. QED
    BY <1>1, <1>3, <2>1, <2>2, <2>3, <2>4, Facts DEF HeldInv
<1>9. LegacyId = Absent /\ LegacyId' = i /\ LiveId' = LiveId
  BY <1>3, <1>4, <1>5 DEF LiveId, LegacyId
<1>10. ParkedIds' = ParkedIds
  BY <1>1, <1>3, <1>7, ParkedIs
<1>11. Move!Generate(i)
  <2>1. Move!Stopped /\ Doing' = "nothing" /\ i \notin Move!Held
    BY <1>3, DoingIs, Unheard DEF Move!Stopped
  <2>. QED
    BY <1>9, <1>10, <2>1 DEF Move!Generate, LiveId, LegacyId, ParkedIds
<1>. QED
  BY <1>8, <1>11 DEF Moves, Move!MoveNext

-----------------------------------------------------------------------------
(* The refinement.                                                          *)

LEMMA BeginKeeps ==
    ASSUME BeginRun PROVE UNCHANGED <<files, known>>
<1>1. \A r, at : Ends(r, at) => UNCHANGED <<files, known>>
  BY DEF Ends
<1>2. CASE IdentityNothing \/ IdentityRefused \/ IdentityUnreadable \/ IdentityConflict
           \/ IdentityDryRun \/ StartCleanRefused \/ StartCleanUnreadable
  BY <1>1, <1>2 DEF IdentityNothing, IdentityRefused, IdentityUnreadable, IdentityConflict,
                    IdentityDryRun, StartCleanRefused, StartCleanUnreadable
<1>3. ASSUME NEW dry \in BOOLEAN, NEW t \in Stamps, IdentityAlready(dry, t)
      PROVE  UNCHANGED <<files, known>>
  BY <1>3 DEF IdentityAlready
<1>4. ASSUME NEW replace \in BOOLEAN, NEW t \in Stamps, IdentityInstall(replace, t)
      PROVE  UNCHANGED <<files, known>>
  BY <1>4 DEF IdentityInstall
<1>5. ASSUME NEW cmd \in Commands \ {"identity"}, NEW t \in Stamps, StartClean(cmd, t)
      PROVE  UNCHANGED <<files, known>>
  BY <1>5 DEF StartClean
<1>. QED
  BY <1>2, <1>3, <1>4, <1>5 DEF BeginRun

LEMMA StepMoves ==
    ASSUME RefineInv, Next
    PROVE  HeldInv' /\ Moves
<1>. USE DEF At
<1>1. CASE BeginRun
  BY <1>1, BeginKeeps, QuietMoves DEF Quiet
<1>2. CASE CreateNetworks \/ CreateNetworksFails \/ MoveAsideFails
           \/ (\E f \in Files : VerifyCopy(f)) \/ CopiesDone \/ SealStaging \/ StageFails
           \/ PublishSyncFails \/ LegacyFails \/ ResetFails \/ Killed
  <2>1. Quiet /\ UNCHANGED known
    BY <1>2 DEF CreateNetworks, CreateNetworksFails, MoveAsideFails, VerifyCopy, CopiesDone,
                SealStaging, StageFails, PublishSyncFails, LegacyFails, ResetFails, Killed, Ends,
                Quiet
  <2>. QED
    BY <2>1, QuietMoves
<1>3. CASE CreateStaging \/ (\E f \in Files : CopyFile(f)) \/ WriteMarker \/ RemoveStaging
  <2>1. run.pc # "idle"
    BY <1>3 DEF CreateStaging, CopyFile, WriteMarker, RemoveStaging
  <2>. QED
    BY <1>3, <2>1, StagingMoves
<1>4. CASE MoveAside \/ ResetDir
  BY <1>4, MoveAsideMoves, ResetDirMoves
<1>5. CASE PublishData \/ PublishCache \/ UndoPublish \/ PublishSync \/ Restore
  BY <1>5, PublishDataMoves, PublishCacheMoves, UndoPublishMoves, PublishSyncMoves, RestoreMoves
<1>6. CASE ConfigAside \/ LockDown \/ RedbAside \/ SecureLeftovers \/ HomeSync
  BY <1>6, ConfigAsideMoves, SecuringMoves, HomeSyncMoves
<1>7. CASE PowerCut
  BY <1>7, PowerCutMoves
<1>8. ASSUME NEW i \in Ids, NEW safe \in BOOLEAN, ClientStart(i, safe)
      PROVE  HeldInv' /\ Moves
  BY <1>8, ClientStartMoves
<1>9. ASSUME NEW i \in Ids, LegacyStart(i)
      PROVE  HeldInv' /\ Moves
  BY <1>9, LegacyStartMoves
<1>10. CASE RunStep
  BY <1>2, <1>3, <1>4, <1>5, <1>6, <1>10 DEF RunStep
<1>11. CASE Environment
  BY <1>2, <1>7, <1>8, <1>9, <1>11 DEF Environment
<1>. QED
  BY <1>1, <1>10, <1>11 DEF Next

LEMMA Stuttering ==
    ASSUME UNCHANGED vars
    PROVE  Moves /\ (RefineInv => RefineInv')
<1>1. /\ nets' = nets /\ disk' = disk /\ home' = home /\ homeDisk' = homeDisk /\ run' = run
      /\ known' = known /\ anchored' = anchored
  BY DEF vars
<1>2. UNCHANGED Move!idVars
  BY <1>1 DEF Move!idVars, Parked, Doing
<1>3. HeldInv => HeldInv'
  BY <1>1 DEF HeldInv, HeldWith, KnownIds, Left
<1>4. FromConfig => FromConfig'
  BY <1>1 DEF FromConfig, FoundLegacy, InPlace
<1>5. MigrateInv => MigrateInv'
  BY StepWhole DEF vars
<1>. QED
  BY <1>2, <1>3, <1>4, <1>5 DEF Moves, RefineInv, IdentityInv

LEMMA InitMoves ==
    ASSUME Init
    PROVE  IdentityInv /\ Move!MoveInit
<1>. DEFINE OnlyConfig == \A n \in ConfNames \ {Config} : home.conf[n] = Absent
            KnownOrNone ==
                \/ \E i \in Ids : /\ home.conf[Config] # Absent /\ home.conf[Config]["id"] = i
                                 /\ <<"id", i>> \in known
                \/ IdIn(home.conf[Config]) = Absent
<1>1. /\ nets = [p \in Places |-> [n \in NetNames |-> Absent]]
      /\ disk = [p \in Places |-> {nets[p]}] /\ homeDisk = {home}
      /\ run.pc = "idle" /\ run.result = "none"
  BY DEF Init, Exited
<1>2. /\ nets["data"] = [n \in NetNames |-> Absent] /\ nets["cache"] = [n \in NetNames |-> Absent]
      /\ disk["data"] = {nets["data"]} /\ disk["cache"] = {nets["cache"]}
  BY <1>1 DEF Places
<1>3. OnlyConfig /\ KnownOrNone
  <2>0. Config \in ConfNames
    BY NamesTyped
  <2>1. ASSUME NEW i \in Ids, NEW opt \in SUBSET {"pass", "safe"}, NEW redb \in BOOLEAN, NEW o,
               home = LegacyHome([f \in Files |-> IF f \in {"id"} \cup opt THEN i ELSE Absent],
                                 IF redb THEN i ELSE Absent, o),
               known = {<<f, i>> : f \in {"id"} \cup opt \cup (IF redb THEN {"redb"} ELSE {})}
        PROVE  OnlyConfig /\ KnownOrNone
    <3>. DEFINE l == [f \in Files |-> IF f \in {"id"} \cup opt THEN i ELSE Absent]
    <3>1. l \in Dirs /\ l["id"] = i
      BY DEF Dirs, Contents, Files
    <3>2. l # Absent
      BY <3>1, NotADirAssumption
    <3>3. <<"id", i>> \in known
      BY <2>1
    <3>. HIDE DEF l
    <3>. QED
      BY <2>0, <2>1, <3>1, <3>2, <3>3 DEF LegacyHome, l
  <2>2. ASSUME NEW conf \in {Absent, Empty}, NEW o, home = LegacyHome(conf, Absent, o)
        PROVE  OnlyConfig /\ KnownOrNone
    BY <2>0, <2>2 DEF LegacyHome, IdIn, Empty, Files
  <2>. QED
    BY <2>1, <2>2 DEF Init
<1>4. /\ NetIds(nets["data"]) = {}
      /\ \A n \in Kept : nets["data"][n] = Absent /\ nets["cache"][n] = Absent
  BY <1>2, KeptNames DEF NetIds, IdIn
<1>5. LegacyId \in Ids \cup {Absent} /\ HomeIds(home) \subseteq KnownIds
  BY <1>3, NamesTyped DEF LegacyId, HomeIds, IdIn, KnownIds
<1>9. /\ NetIds(Nothing) = {} /\ \A n \in Kept : Nothing[n] = Absent
      /\ nets["data"] = Nothing /\ Left("data") = {Nothing} /\ Left("cache") = {Nothing}
  BY <1>2, KeptNames DEF NetIds, IdIn, Nothing, Left
<1>10. WithId(Nothing) /\ WithoutId(Nothing)
  BY <1>9 DEF WithId, WithoutId
<1>6. HeldInv
  BY <1>1, <1>5, <1>9, <1>10 DEF HeldInv, HeldWith
<1>7. FromConfig
  BY <1>1 DEF FromConfig, Installing, Undoing
<1>8. LiveId = Absent /\ ParkedIds = {} /\ Doing = "nothing"
  <2>1. WithoutId(nets["cache"]) /\ Aside(nets["data"], home) = {}
    BY <1>3, <1>4 DEF WithoutId, Aside, Kept, IdIn
  <2>2. Live \in Kept
    BY DEF Kept
  <2>. QED
    BY <1>1, <1>4, <2>1, <2>2, ParkedIs DEF Doing, LiveId, IdIn
<1>. QED
  BY <1>5, <1>6, <1>7, <1>8 DEF IdentityInv, Move!MoveInit, LiveId, LegacyId, ParkedIds

\* Whatever fails, is killed or loses power, for any number of identities, timestamps and
\* failures: every step of the two commands, of the services and of a power cut does to the
\* identities what IdentityMove allows, or nothing.  So none is overwritten or dropped, and
\* the legacy one is put away only when it is live, or for a clean start.
THEOREM MigrateMovesIdentities == Spec => MovesIdentities
<1>1. Init => RefineInv /\ Move!MoveInit
  BY InitMoves, InitWhole DEF RefineInv
<1>2. RefineInv /\ [Next]_vars => RefineInv' /\ [Move!MoveNext]_(Move!idVars)
  <2>1. ASSUME RefineInv, Next PROVE RefineInv' /\ Moves
    BY <2>1, StepMoves, StepFromConfig, StepWhole, Facts DEF RefineInv, IdentityInv
  <2>. QED
    BY <2>1, Stuttering DEF Moves
<1>. QED
  BY <1>1, <1>2, PTL DEF Spec, MovesIdentities, Move!MoveSpec
=============================================================================
