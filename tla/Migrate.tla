------------------------------ MODULE Migrate ------------------------------
(***************************************************************************)
(* gnosis_vpn-migrate's `identity` and `start-clean` commands: the one      *)
(* legacy identity is copied from the service account's home into a user's *)
(* per-network data and cache dirs, and what was in the way is renamed      *)
(* aside.  One action per step that the file system sees, so a failing     *)
(* call, a killed process or a power cut may fall between any two.  The     *)
(* code modelled is src/gnosis_vpn-migrate/src/{migrate,main,nofollow}.rs.  *)
(*                                                                         *)
(* Content is abstracted to the identity a file belongs to.  A networks/    *)
(* dir maps entry names to dirs, a dir maps file names to contents; the     *)
(* timestamped names are triples <<kind, timestamp, suffix>>.               *)
(***************************************************************************)
EXTENDS Naturals, FiniteSets

CONSTANTS
    Ids,        \* the identities that exist, legacy and generated ones
    Absent,     \* no such file or directory
    Torn,       \* a file whose bytes are not those of its source
    Stamps,     \* the one-second timestamps a run may read off the clock
    MaxSuffix,  \* bound: the largest .n that unique_name tries
    MaxFaults   \* bound: failing calls, kills and power cuts

ASSUME StampsAssumption == Stamps \subseteq Nat \ {0}
ASSUME BoundsAssumption == MaxSuffix \in Nat /\ MaxFaults \in Nat

-----------------------------------------------------------------------------
Files == {"id", "pass", "safe", "redb", "migrated-from"}
Contents == Ids \cup {Absent, Torn}
Dirs == [Files -> Contents]
Empty == [f \in Files |-> Absent]

ASSUME AbsentAssumption == Absent \notin Ids /\ Torn \notin Ids /\ Absent # Torn
ASSUME NotADirAssumption == Absent \notin Dirs

Places == {"data", "cache"}

\* Place of each planned file; the marker is a data file too.
PlaceOf == [f \in Files |-> IF f = "safe" THEN "cache" ELSE "data"]

\* The order in which Legacy::find lists the sources, and so that of the copies.
Rank == [f \in Files |-> CASE f = "id" -> 1 [] f = "pass" -> 2 [] f = "safe" -> 3
                           [] f = "redb" -> 4 [] OTHER -> 5]

Suffixes == 0 .. MaxSuffix

\* networks/<network>, its staging and its two kinds of aside names.
Live == <<"live", 0, 0>>
Staging(t) == <<"migrating", t, 0>>
AsideNets == {"replaced", "reset"} \X Stamps \X Suffixes
NetNames == {Live} \cup {Staging(t) : t \in Stamps} \cup AsideNets

ASSUME NotANameAssumption == Absent \notin AsideNets

\* .config and the PIX db in the legacy home, and their aside names.
Config == <<".config", 0, 0>>
Pix == <<"curvy-pix.redb", 0, 0>>
ConfNames == {Config} \cup ({"migrated", "bak"} \X Stamps \X Suffixes)
PixNames == {Pix} \cup ({"pix-migrated"} \X Stamps \X Suffixes)

NetDirs == [NetNames -> Dirs \cup {Absent}]
Homes == [conf : [ConfNames -> Dirs \cup {Absent}],
          pix : [PixNames -> Contents],
          exposed : SUBSET (ConfNames \cup PixNames)]

VARIABLES
    nets,      \* the data and the cache networks/ dir
    disk,      \* per place, what may be on disk of it
    unsynced,  \* what is not on disk of the last dir staged there
    anchored,  \* places whose networks/ dir itself is on disk, with all its parents
    home,      \* the legacy home; exposed: entries the service account can read
    homeDisk,  \* what a power cut may leave of the legacy home
    run,       \* the one running command, or how the last one ended
    known,     \* history: <<file, identity>> pairs ever stored
    faults     \* failures so far

vars == <<nets, disk, unsynced, anchored, home, homeDisk, run, known, faults>>
netFiles == <<nets, disk, unsynced, anchored>>
files == <<nets, disk, unsynced, anchored, home, homeDisk>>

Installing == {"networks", "aside", "mkdir", "copy", "verify", "marker", "seal",
               "pubdata", "pubcache", "pubsync"}
Undoing == {"undo", "remove", "restore"}
MovingLegacy == {"cfgaside", "lockdown", "redbaside", "sweep", "homesync"}
Steps == {"idle", "reset"} \cup Installing \cup Undoing \cup MovingLegacy
Stages == {"User", "Network", "Legacy", "Destination"}
Results == Stages \cup {"none", "Migrated", "AlreadyMigrated", "Conflict",
                        "WouldMigrate", "NothingToMigrate", "StartedClean",
                        "NothingToDo", "Crashed"}

\* "start-clean user" is a start-clean that has an account and a network as well.
Commands == {"identity", "start-clean", "start-clean user"}

Runs == [pc : Steps,
         place : Places,                   \* the for loops over Data, Cache
         cmd : Commands,
         ts : Stamps \cup {0},
         plan : Dirs,                      \* the sources with their hashes
         todo : SUBSET Files,              \* planned files of this place not yet copied
         replaced : [Places -> AsideNets \cup {Absent}],
         uid : {"service", "root"},        \* owner of .config when it was found
         aside : ConfNames,                \* where the open .config handle now lives
         result : Results,
         failedAt : Steps \cup {"none"},    \* the step that failed or was cut off
         effort : {"ok", "missed"},        \* whether a best-effort step of this run failed
         before : [Places -> Dirs \cup {Absent}]]  \* history: live dirs at the start

\* The process has exited with result r.
Exited(r, at) ==
    [pc |-> "idle", place |-> "data", cmd |-> "identity", ts |-> 0,
     plan |-> Empty, todo |-> {}, replaced |-> [p \in Places |-> Absent],
     uid |-> "root", aside |-> Config, result |-> r, failedAt |-> at,
     effort |-> "ok", before |-> [p \in Places |-> Absent]]

-----------------------------------------------------------------------------
(* File system primitives (nofollow.rs and unique_name).                   *)

\* renameat on directories: the target is absent or an empty dir.
CanRename(d, from, to) == d[from] # Absent /\ d[to] \in {Absent, Empty}
Rename(d, from, to) == [d EXCEPT ![to] = d[from], ![from] = Absent]

\* unique_name: the candidate itself, else the first free .n after it.
UniqueName(d, kind, t, name) ==
    \E n \in Suffixes :
        /\ name = <<kind, t, n>>
        /\ d[name] = Absent
        /\ \A m \in 0 .. (n - 1) : d[<<kind, t, m>>] # Absent

\* A change of the entries of a networks/ dir reaches the disk in order, but at some later time:
\* disk has the dir as each change since the last fsync left it.  That fsync says nothing of
\* the files in a dir it lists: the data of a file, and the entry of a file in its dir, have
\* an fsync each, and until then they may be missing.
Entered(p, d, leaves) ==
    /\ nets' = [nets EXCEPT ![p] = d]
    /\ disk' = [disk EXCEPT ![p] = @ \cup leaves]
    /\ UNCHANGED <<anchored, home, homeDisk>>

SetNets(p, d) == Entered(p, d, {d}) /\ UNCHANGED unsynced

\* The forms in which a dir may be on disk of which u is not.
Partly(dir, u) ==
    IF dir = Absent THEN {Absent}
    ELSE {[f \in Files |-> IF f \in gone THEN Absent ELSE IF f \in torn THEN Torn ELSE dir[f]] :
             gone \in SUBSET {f \in Files : <<"entry", f>> \in u},
             torn \in SUBSET {f \in Files : <<"data", f>> \in u}}

\* The same of the staged dir, which is now the live one of d.
PartlyLive(p, d) == {[d EXCEPT ![Live] = x] : x \in Partly(d[Live], unsynced[p])}

Nothing == [n \in NetNames |-> Absent]

\* What a power cut may leave of place p: not even networks/ when a parent was never synced.
Left(p) == disk[p] \cup (IF p \in anchored THEN {} ELSE {Nothing})

\* The renames in the legacy home reach the disk in order too; the owner and mode of an entry
\* belong to the entry, so fsync of the home leaves open which of them are there.
SetHome(h, leaves) ==
    /\ home' = h
    /\ homeDisk' = homeDisk \cup leaves
    /\ UNCHANGED netFiles

AllRenamed == {h \in homeDisk : h.conf = home.conf /\ h.pix = home.pix}

\* An entry keeps its owner and mode when it is renamed.
MoveExposed(exposed, from, to) ==
    IF from \in exposed THEN (exposed \ {from}) \cup {to} ELSE exposed \ {to}

At(pc) == run.pc = pc

\* One call fails, a process is killed, or the power goes: within the bound.
Fault == faults < MaxFaults /\ faults' = faults + 1
NoFault == faults' = faults

-----------------------------------------------------------------------------
(* What a run reads before it changes anything.                            *)

\* Legacy::find: a .config dir that holds the identity file.
FoundLegacy ==
    /\ home.conf[Config] # Absent
    /\ home.conf[Config]["id"] # Absent

\* Legacy::plan: every source that exists, with its content.
Plan == [f \in Files |-> CASE f = "redb" -> home.pix[Pix]
                           [] f = "migrated-from" -> Absent
                           [] OTHER -> home.conf[Config][f]]

Planned(plan, p) == {f \in Files : PlaceOf[f] = p /\ plan[f] # Absent}

\* What a published dir of place p holds: the planned files, in data the marker.
Full(plan, p) ==
    [f \in Files |-> IF f = "migrated-from" /\ p = "data" THEN plan["id"]
                     ELSE IF f \in Planned(plan, p) THEN plan[f] ELSE Absent]

\* Target::exists and Target::compare.
TargetExists == \E p \in Places : nets[p][Live] # Absent
Mismatches(plan) ==
    {f \in Files : /\ plan[f] # Absent
                   /\ \/ nets[PlaceOf[f]][Live] = Absent
                      \/ nets[PlaceOf[f]][Live][f] # plan[f]}

\* A run that goes on past its checks, at step pc.
Started(cmd, pc, t, r) ==
    [Exited(r, "none") EXCEPT
        !.pc = pc, !.cmd = cmd, !.ts = t,
        !.plan = IF cmd = "identity" THEN Plan ELSE Empty,
        !.uid = IF Config \in home.exposed THEN "service" ELSE "root",
        !.before = [p \in Places |-> nets[p][Live]]]

-----------------------------------------------------------------------------
(* identity: the checks (run_identity and the first half of migrate_identity). *)

Ends(r, at) == run' = Exited(r, at) /\ UNCHANGED <<files, known>>

IdentityNothing == At("idle") /\ ~FoundLegacy /\ NoFault /\ Ends("NothingToMigrate", "none")

\* --user or the config link is unusable.
IdentityRefused ==
    /\ At("idle") /\ FoundLegacy /\ NoFault
    /\ \E r \in {"User", "Network"} : Ends(r, "none")

\* A legacy file or the destination cannot be read.
IdentityUnreadable ==
    /\ At("idle") /\ FoundLegacy /\ Fault
    /\ \E r \in {"Legacy", "Destination"} : Ends(r, "idle")

\* Mutant of IdentityAlready: any destination will do.
IdentityAlreadyAnything(dry, t) ==
    /\ At("idle") /\ FoundLegacy /\ TargetExists /\ NoFault
    /\ run' = IF dry THEN Exited("AlreadyMigrated", "none")
              ELSE Started("identity", "cfgaside", t, "AlreadyMigrated")
    /\ UNCHANGED <<files, known>>

IdentityAlready(dry, t) ==
    /\ At("idle") /\ FoundLegacy /\ TargetExists /\ Mismatches(Plan) = {} /\ NoFault
    /\ run' = IF dry THEN Exited("AlreadyMigrated", "none")
              ELSE Started("identity", "cfgaside", t, "AlreadyMigrated")
    /\ UNCHANGED <<files, known>>

IdentityConflict ==
    /\ At("idle") /\ FoundLegacy /\ TargetExists /\ Mismatches(Plan) # {} /\ NoFault
    /\ Ends("Conflict", "none")

\* --dry-run; --replace is what gets past a differing destination.
IdentityDryRun ==
    /\ At("idle") /\ FoundLegacy /\ NoFault
    /\ ~TargetExists \/ Mismatches(Plan) # {}
    /\ Ends("WouldMigrate", "none")

IdentityInstall(replace, t) ==
    /\ At("idle") /\ FoundLegacy /\ NoFault
    /\ ~TargetExists \/ (replace /\ Mismatches(Plan) # {})
    /\ run' = Started("identity", "networks", t, "Migrated")
    /\ UNCHANGED <<files, known>>

-----------------------------------------------------------------------------
(* identity: the installation.                                             *)

\* Networks::create only ensures dirs, which hold nothing yet.  It syncs none of the dirs it
\* makes them in: anchored stays as it is.
CreateNetworks ==
    /\ At("networks") /\ NoFault
    /\ run' = [run EXCEPT !.pc = "aside"]
    /\ UNCHANGED <<files, known>>

CreateNetworksFails == At("networks") /\ Fault /\ Ends("Destination", "networks")

AfterAside(r) ==
    IF r.place = "data" THEN [r EXCEPT !.place = "cache"]
    ELSE [r EXCEPT !.pc = "mkdir", !.place = "data"]

\* Mutant of MoveAside: remembers the name it moved from.
MoveAsideForgetsName ==
    /\ At("aside") /\ NoFault /\ UNCHANGED known
    /\ \E name \in AsideNets :
          /\ nets[run.place][Live] # Absent
          /\ UniqueName(nets[run.place], "replaced", run.ts, name)
          /\ SetNets(run.place, Rename(nets[run.place], Live, name))
          /\ run' = AfterAside([run EXCEPT !.replaced[run.place] = Live])

\* Mutant of MoveAside: clears the candidate instead of asking unique_name for a free one.
MoveAsideClears ==
    /\ At("aside") /\ NoFault /\ UNCHANGED known
    /\ LET p == run.place
           name == <<"replaced", run.ts, 0>>
       IN \/ /\ nets[p][Live] = Absent
             /\ run' = AfterAside(run)
             /\ UNCHANGED files
          \/ /\ nets[p][Live] # Absent
             /\ SetNets(p, Rename(nets[p], Live, name))
             /\ run' = AfterAside([run EXCEPT !.replaced[p] = name])

\* Networks::move_aside, one place; what is not there is skipped.
MoveAside ==
    /\ At("aside") /\ NoFault /\ UNCHANGED known
    /\ LET p == run.place IN
       \/ /\ nets[p][Live] = Absent
          /\ run' = AfterAside(run)
          /\ UNCHANGED files
       \/ \E name \in AsideNets :
             /\ nets[p][Live] # Absent
             /\ UniqueName(nets[p], "replaced", run.ts, name)
             /\ CanRename(nets[p], Live, name)
             /\ SetNets(p, Rename(nets[p], Live, name))
             /\ run' = AfterAside([run EXCEPT !.replaced[p] = name])

\* The error path of move_aside, stage and publish: from here on, undo step pc.
Failed(pc, stage) ==
    run' = [run EXCEPT !.pc = pc, !.place = "data", !.todo = {},
                       !.result = stage, !.failedAt = run.pc]

\* Mutant of MoveAsideFails: returns the error with the data dir still aside.
MoveAsideFailsHalfway == At("aside") /\ Fault /\ Ends("Destination", "aside")

MoveAsideFails ==
    At("aside") /\ Fault /\ Failed("restore", "Destination") /\ UNCHANGED <<files, known>>

\* stage: create_dir fails on a name that exists, a leftover of the same second.
CreateStaging ==
    /\ At("mkdir") /\ NoFault /\ UNCHANGED known
    /\ LET p == run.place IN
       \/ /\ nets[p][Staging(run.ts)] = Absent
          /\ LET d == [nets[p] EXCEPT ![Staging(run.ts)] = Empty] IN Entered(p, d, {d})
          /\ unsynced' = [unsynced EXCEPT ![p] = {}]
          /\ run' = [run EXCEPT !.pc = "copy", !.todo = Planned(run.plan, p)]
       \/ /\ nets[p][Staging(run.ts)] # Absent
          /\ Failed("remove", "Destination")
          /\ UNCHANGED files

NextCopy(f) == f \in run.todo /\ \A g \in run.todo : Rank[f] <= Rank[g]

\* A file made in the staging dir, of which u is not on disk yet.
StageFile(f, content, u) ==
    LET d == [nets[run.place] EXCEPT ![Staging(run.ts)][f] = content] IN
    /\ Entered(run.place, d, {d})
    /\ unsynced' = [unsynced EXCEPT ![run.place] = @ \cup u]

\* An fsync of the file or dir that these parts of the staging dir belong to.
Synced(u) ==
    /\ unsynced' = [unsynced EXCEPT ![run.place] = @ \ u]
    /\ UNCHANGED <<nets, disk, anchored, home, homeDisk>>

\* copy_verified: the copy, which may go wrong without an error.
CopyFile(f) ==
    /\ At("copy") /\ NextCopy(f) /\ UNCHANGED known
    /\ \E c \in {run.plan[f], Torn} :
          /\ IF c = Torn THEN Fault ELSE NoFault
          /\ StageFile(f, c, {"data", "entry"} \X {f})
    /\ run' = [run EXCEPT !.pc = "verify"]

\* Mutant of VerifyCopy: does not sync the copy.
VerifyCopyUnsynced(f) ==
    /\ At("verify") /\ NextCopy(f) /\ NoFault
    /\ IF nets[run.place][Staging(run.ts)][f] = run.plan[f]
       THEN run' = [run EXCEPT !.pc = "copy", !.todo = @ \ {f}]
       ELSE Failed("remove", "Destination")
    /\ UNCHANGED <<files, known>>

\* copy_verified: fsync of the copy and of the dir it is in, then hash what was written.  The
\* PIX db is in a dir of its own, whose entry is synced with the staging dir.
VerifyCopy(f) ==
    /\ At("verify") /\ NextCopy(f) /\ NoFault
    /\ Synced({<<"data", f>>} \cup (IF f = "redb" THEN {} ELSE {"entry"} \X Files))
    /\ IF nets[run.place][Staging(run.ts)][f] = run.plan[f]
       THEN run' = [run EXCEPT !.pc = "copy", !.todo = @ \ {f}]
       ELSE Failed("remove", "Destination")
    /\ UNCHANGED known

CopiesDone ==
    /\ At("copy") /\ run.todo = {} /\ NoFault
    /\ run' = [run EXCEPT !.pc = IF run.place = "data" THEN "marker" ELSE "seal"]
    /\ UNCHANGED <<files, known>>

\* write_marker syncs the file that it made, not the dir.
WriteMarker ==
    /\ At("marker") /\ NoFault /\ UNCHANGED known
    /\ StageFile("migrated-from", run.plan["id"], {<<"entry", "migrated-from">>})
    /\ run' = [run EXCEPT !.pc = "seal"]

\* The other place, or publish.
AfterSeal(r) ==
    IF r.place = "data" THEN [r EXCEPT !.pc = "mkdir", !.place = "cache"]
    ELSE [r EXCEPT !.pc = "pubdata", !.place = "data"]

\* chown and fsync of the staging dir.
SealStaging ==
    /\ At("seal") /\ NoFault
    /\ Synced({"entry"} \X Files)
    /\ run' = AfterSeal(run)
    /\ UNCHANGED known

\* Any call of stage fails; rewinding the source is the one on the legacy side.
StageFails ==
    /\ run.pc \in {"mkdir", "copy", "verify", "marker", "seal"} /\ Fault
    /\ \E s \in {"Destination"} \cup (IF At("copy") THEN {"Legacy"} ELSE {}) :
          Failed("remove", s)
    /\ UNCHANGED <<files, known>>

\* The rename into place, which may reach the disk before what the dir lacks there.
PublishIn(p) ==
    LET d == Rename(nets[p], Staging(run.ts), Live) IN
    /\ CanRename(nets[p], Staging(run.ts), Live)
    /\ Entered(p, d, PartlyLive(p, d))
    /\ UNCHANGED unsynced

\* publish, data first.
PublishData ==
    /\ At("pubdata") /\ UNCHANGED known
    /\ \/ NoFault /\ PublishIn("data") /\ run' = [run EXCEPT !.pc = "pubcache"]
       \/ Fault /\ Failed("remove", "Destination") /\ UNCHANGED files

PublishCache ==
    /\ At("pubcache") /\ UNCHANGED known
    /\ \/ NoFault /\ PublishIn("cache") /\ run' = [run EXCEPT !.pc = "pubsync"]
       \/ Fault /\ Failed("undo", "Destination") /\ UNCHANGED files

\* publish takes the data dir back; a failed undo is only logged.
UndoPublish ==
    /\ At("undo") /\ UNCHANGED known
    /\ \/ /\ NoFault /\ CanRename(nets["data"], Live, Staging(run.ts))
          /\ SetNets("data", Rename(nets["data"], Live, Staging(run.ts)))
          /\ run' = [run EXCEPT !.pc = "remove"]
       \/ /\ Fault
          /\ run' = [run EXCEPT !.pc = "remove", !.effort = "missed"]
          /\ UNCHANGED files

\* Mutant of PublishSync: syncs the data side only.
PublishSyncDataOnly ==
    /\ At("pubsync") /\ NoFault
    /\ disk' = [disk EXCEPT !["data"] = PartlyLive("data", nets["data"])]
    /\ run' = [run EXCEPT !.pc = "cfgaside", !.place = "data"]
    /\ UNCHANGED <<nets, unsynced, anchored, home, homeDisk, known>>

\* publish makes the renames durable, data before cache: the entries of networks/, not what is
\* below and not what is above.
PublishSync ==
    /\ At("pubsync") /\ NoFault
    /\ disk' = [disk EXCEPT ![run.place] = PartlyLive(run.place, nets[run.place])]
    /\ run' = IF run.place = "data" THEN [run EXCEPT !.place = "cache"]
              ELSE [run EXCEPT !.pc = "cfgaside", !.place = "data"]
    /\ UNCHANGED <<nets, unsynced, anchored, home, homeDisk, known>>

PublishSyncFails ==
    At("pubsync") /\ Fault /\ Failed("remove", "Destination") /\ UNCHANGED <<files, known>>

AfterUndo(r, next) ==
    IF r.place = "data" THEN [r EXCEPT !.place = "cache"] ELSE next

\* Mutant of RemoveStaging: leaves the staging dirs behind.
RemoveStagingSkipped ==
    /\ At("remove") /\ NoFault /\ UNCHANGED <<files, known>>
    /\ run' = AfterUndo(run, [run EXCEPT !.pc = "restore", !.place = "data"])

\* Networks::remove: best effort, a missing staging dir is fine.
RemoveStaging ==
    /\ At("remove") /\ UNCHANGED known
    /\ \/ NoFault /\ SetNets(run.place, [nets[run.place] EXCEPT ![Staging(run.ts)] = Absent])
       \/ Fault /\ UNCHANGED files
    /\ run' = AfterUndo(run, [run EXCEPT !.pc = "restore", !.place = "data"])

\* Networks::restore: best effort; a rename onto a dir in use is refused.
Restore ==
    /\ At("restore") /\ UNCHANGED known
    /\ LET p == run.place
           aside == run.replaced[p]
           done == Exited(run.result, run.failedAt)
       IN
       \/ /\ NoFault /\ aside = Absent
          /\ run' = AfterUndo(run, done) /\ UNCHANGED files
       \/ /\ NoFault /\ aside # Absent /\ CanRename(nets[p], aside, Live)
          /\ SetNets(p, Rename(nets[p], aside, Live))
          /\ run' = AfterUndo(run, done)
       \/ /\ NoFault /\ aside # Absent /\ ~CanRename(nets[p], aside, Live)
          /\ run' = AfterUndo(run, done) /\ UNCHANGED files
       \/ /\ Fault /\ aside # Absent
          /\ run' = AfterUndo([run EXCEPT !.effort = "missed"], done) /\ UNCHANGED files

-----------------------------------------------------------------------------
(* Legacy::move_aside, and start-clean's move_legacy_config_aside.          *)

AsideKind == IF run.cmd = "identity" THEN "migrated" ELSE "bak"

ConfigMoved(h, name) ==
    [h EXCEPT !.conf = Rename(@, Config, name), !.exposed = MoveExposed(@, Config, name)]

ConfigAside ==
    /\ At("cfgaside") /\ NoFault /\ UNCHANGED known
    /\ \E name \in ConfNames :
          /\ UniqueName(home.conf, AsideKind, run.ts, name)
          /\ CanRename(home.conf, Config, name)
          /\ SetHome(ConfigMoved(home, name), {ConfigMoved(h, name) : h \in AllRenamed})
          /\ run' = [run EXCEPT !.pc = "lockdown", !.aside = name]

\* Mutant of LockDown: leaves it to the sweep.
LockDownSkipped ==
    /\ At("lockdown") /\ NoFault /\ UNCHANGED <<files, known>>
    /\ run' = IF run.cmd # "identity"
              THEN [run EXCEPT !.pc = "homesync", !.result = "StartedClean"]
              ELSE [run EXCEPT !.pc = IF run.plan["redb"] # Absent THEN "redbaside" ELSE "sweep"]

Locked(h, names) == [h EXCEPT !.exposed = @ \ names]

\* lock_down through the handle that was opened before the rename; it may be on disk before it.
LockDown ==
    /\ At("lockdown") /\ NoFault /\ UNCHANGED known
    /\ SetHome(Locked(home, {run.aside}),
               {Locked(h, {IF h.conf[Config] # Absent THEN Config ELSE run.aside}) : h \in homeDisk})
    /\ run' = IF run.cmd # "identity"
              THEN [run EXCEPT !.pc = "homesync", !.result = "StartedClean"]
              ELSE [run EXCEPT !.pc = IF run.plan["redb"] # Absent THEN "redbaside" ELSE "sweep"]

PixMoved(h, name) ==
    [h EXCEPT !.pix = Rename(@, Pix, name), !.exposed = MoveExposed(@, Pix, name)]

\* A file rename would overwrite its target: only unique_name prevents that.
RedbAside ==
    /\ At("redbaside") /\ NoFault /\ UNCHANGED known
    /\ \E name \in PixNames :
          /\ UniqueName(home.pix, "pix-migrated", run.ts, name)
          /\ SetHome(PixMoved(home, name), {PixMoved(h, name) : h \in AllRenamed})
    /\ run' = [run EXCEPT !.pc = "sweep"]

\* What secure_entry takes from the service account: every .config* dir, and the rest
\* of its files unless .config was root's when it was found.  (A file with a second hard link
\* is passed over; nothing makes one in the legacy home.)
Securable ==
    {n \in ConfNames : home.conf[n] # Absent}
        \cup (IF run.uid = "root" THEN {} ELSE PixNames)

\* Each entry that a sweep takes is on disk at its own time.
SweepLeaves(missed) ==
    {Locked(h, taken) : h \in AllRenamed, taken \in SUBSET ((home.exposed \cap Securable) \ missed)}

\* secure_leftovers: each entry is best effort.
SecureLeftovers ==
    /\ At("sweep") /\ UNCHANGED known
    /\ \E missed \in SUBSET (home.exposed \cap Securable) :
          /\ IF missed = {} THEN NoFault ELSE Fault
          /\ SetHome(Locked(home, Securable \ missed), SweepLeaves(missed))
          /\ run' = [run EXCEPT !.pc = "homesync",
                                !.effort = IF missed = {} THEN @ ELSE "missed"]

HomeSync ==
    /\ At("homesync") /\ NoFault
    /\ homeDisk' = AllRenamed
    /\ run' = IF run.cmd = "start-clean user" THEN [run EXCEPT !.pc = "reset"] ELSE Exited(run.result, "none")
    /\ UNCHANGED <<netFiles, home, known>>

\* Any of those calls fails: nothing is undone.  The sweep itself never fails.
LegacyFails ==
    /\ run.pc \in {"cfgaside", "lockdown", "redbaside", "homesync"}
    /\ Fault /\ Ends("Legacy", run.pc)

-----------------------------------------------------------------------------
(* start-clean.  Without --user, or without a network, only the legacy part runs. *)

StartClean(cmd, t) ==
    /\ At("idle") /\ NoFault
    /\ run' = IF home.conf[Config] # Absent THEN Started(cmd, "cfgaside", t, "NothingToDo")
              ELSE IF cmd = "start-clean user" THEN Started(cmd, "reset", t, "NothingToDo")
              ELSE Exited("NothingToDo", "none")
    /\ UNCHANGED <<files, known>>

StartCleanRefused == At("idle") /\ NoFault /\ Ends("User", "none")

StartCleanUnreadable == At("idle") /\ Fault /\ Ends("Legacy", "idle")

\* Mutant of ResetDir: ends after the data dir.
ResetDirDataOnly ==
    /\ At("reset") /\ NoFault /\ UNCHANGED known
    /\ \/ nets["data"][Live] = Absent /\ UNCHANGED files
       \/ \E name \in AsideNets :
             /\ nets["data"][Live] # Absent
             /\ UniqueName(nets["data"], "reset", run.ts, name)
             /\ SetNets("data", Rename(nets["data"], Live, name))
    /\ run' = Exited("StartedClean", "none")

\* move_user_dirs_aside, one place: data, then cache, with no undo and no fsync.
ResetDir ==
    /\ At("reset") /\ NoFault /\ UNCHANGED known
    /\ LET p == run.place IN
       \/ /\ nets[p][Live] = Absent
          /\ run' = AfterUndo(run, Exited(run.result, "none"))
          /\ UNCHANGED files
       \/ \E name \in AsideNets :
             /\ nets[p][Live] # Absent
             /\ UniqueName(nets[p], "reset", run.ts, name)
             /\ CanRename(nets[p], Live, name)
             /\ SetNets(p, Rename(nets[p], Live, name))
             /\ run' = AfterUndo([run EXCEPT !.result = "StartedClean"],
                                 Exited("StartedClean", "none"))

ResetFails == At("reset") /\ Fault /\ Ends("Destination", "reset")

-----------------------------------------------------------------------------
(* The world around a run.                                                 *)

\* The process is killed: the files stay as they are, synced or not.
Killed == ~At("idle") /\ Fault /\ Ends("Crashed", run.pc)

\* The machine loses power: of each directory, a prefix of the unsynced changes is left.  Of a
\* staging dir it is not said what is left in it, as no run looks into one it has not made.
PowerCut ==
    /\ Fault
    /\ \E n \in {m \in [Places -> UNION {Left(p) : p \in Places}] :
                    \A p \in Places : m[p] \in Left(p)} :
          /\ nets' = n /\ disk' = [p \in Places |-> {n[p]}]
          /\ anchored' = anchored \cup {p \in Places : n[p] # Nothing}
    /\ unsynced' = [p \in Places |-> {}]
    /\ \E h \in homeDisk : home' = h /\ homeDisk' = {h}
    /\ run' = Exited("Crashed", run.pc)
    /\ UNCHANGED known

\* Between runs services run; what they write, and the dirs above, are on disk after a while.
\* The client starts with no identity on the network and generates one.
ClientStart(i, safe) ==
    /\ At("idle") /\ NoFault
    /\ nets["data"][Live] = Absent
    /\ \A f \in Files : <<f, i>> \notin known
    /\ nets' = [nets EXCEPT
           !["data"][Live] = [Empty EXCEPT !["id"] = i, !["pass"] = i],
           !["cache"][Live] = IF @ \in {Absent, Empty} /\ safe
                              THEN [Empty EXCEPT !["safe"] = i]
                              ELSE IF @ = Absent THEN Empty ELSE @]
    /\ disk' = [p \in Places |-> {nets'[p]}]
    /\ anchored' = Places
    /\ UNCHANGED <<unsynced, home, homeDisk>>
    /\ known' = known \cup {<<"id", i>>, <<"pass", i>>}
                      \cup (IF nets'["cache"][Live]["safe"] = i THEN {<<"safe", i>>} ELSE {})
    /\ run' = Exited("none", "none")

\* A downgraded client's old service starts with no legacy identity and generates one.
LegacyStart(i) ==
    /\ At("idle") /\ NoFault
    /\ home.conf[Config] \in {Absent, Empty}
    /\ \A f \in Files : <<f, i>> \notin known
    /\ home' = [home EXCEPT !.conf[Config] = [Empty EXCEPT !["id"] = i, !["pass"] = i],
                            !.pix[Pix] = IF @ = Absent THEN i ELSE @,
                            !.exposed = @ \cup {Config, Pix}]
    /\ homeDisk' = {home'}
    /\ UNCHANGED netFiles
    /\ known' = known \cup {<<"id", i>>, <<"pass", i>>}
                      \cup (IF home.pix[Pix] = Absent THEN {<<"redb", i>>} ELSE {})
    /\ run' = Exited("none", "none")

-----------------------------------------------------------------------------
\* The home of an install that is upgraded: the files of one identity, or none of it.
LegacyHome(conf, redb, exposed) ==
    [conf |-> [n \in ConfNames |-> IF n = Config THEN conf ELSE Absent],
     pix |-> [n \in PixNames |-> IF n = Pix THEN redb ELSE Absent],
     exposed |-> exposed]

Init ==
    /\ nets = [p \in Places |-> [n \in NetNames |-> Absent]]
    /\ disk = [p \in Places |-> {nets[p]}]
    /\ unsynced = [p \in Places |-> {}]
    /\ anchored \in SUBSET Places
    /\ \/ \E i \in Ids, opt \in SUBSET {"pass", "safe"}, redb \in BOOLEAN,
              owner \in {{}, {Config}} :
             /\ home = LegacyHome([f \in Files |-> IF f \in {"id"} \cup opt THEN i ELSE Absent],
                                  IF redb THEN i ELSE Absent,
                                  owner \cup (IF redb THEN {Pix} ELSE {}))
             /\ known = {<<f, i>> : f \in {"id"} \cup opt \cup (IF redb THEN {"redb"} ELSE {})}
       \/ \E conf \in {Absent, Empty} :
             /\ home = LegacyHome(conf, Absent, IF conf = Empty THEN {Config} ELSE {})
             /\ known = {}
    /\ homeDisk = {home}
    /\ run = Exited("none", "none")
    /\ faults = 0

BeginRun ==
    \/ IdentityNothing \/ IdentityRefused \/ IdentityUnreadable
    \/ \E dry \in BOOLEAN, t \in Stamps : IdentityAlready(dry, t)
    \/ IdentityConflict \/ IdentityDryRun
    \/ \E replace \in BOOLEAN, t \in Stamps : IdentityInstall(replace, t)
    \/ \E cmd \in Commands \ {"identity"}, t \in Stamps : StartClean(cmd, t)
    \/ StartCleanRefused \/ StartCleanUnreadable

RunStep ==
    \/ CreateNetworks \/ CreateNetworksFails \/ MoveAside \/ MoveAsideFails
    \/ CreateStaging \/ (\E f \in Files : CopyFile(f) \/ VerifyCopy(f))
    \/ CopiesDone \/ WriteMarker \/ SealStaging \/ StageFails
    \/ PublishData \/ PublishCache \/ UndoPublish \/ PublishSync \/ PublishSyncFails
    \/ RemoveStaging \/ Restore
    \/ ConfigAside \/ LockDown \/ RedbAside \/ SecureLeftovers \/ HomeSync \/ LegacyFails
    \/ ResetDir \/ ResetFails

Environment ==
    \/ Killed \/ PowerCut
    \/ \E i \in Ids, safe \in BOOLEAN : ClientStart(i, safe)
    \/ \E i \in Ids : LegacyStart(i)

Next == BeginRun \/ RunStep \/ Environment

Spec == Init /\ [][Next]_vars

-----------------------------------------------------------------------------
(* Fairness: a started run goes on, and whoever runs the installer repeats  *)
(* `identity --replace` while there is a legacy identity.  Nothing is said   *)
(* of failures, services or any other command.                              *)

Rerun ==
    \E t \in Stamps : IdentityInstall(TRUE, t) \/ IdentityAlready(FALSE, t)

FairSpec == Spec /\ WF_vars(RunStep) /\ WF_vars(Rerun)

-----------------------------------------------------------------------------
(* Properties.                                                             *)

\* Every variable has its type; a replaced dir is remembered by an aside name.
TypeOK ==
    /\ nets \in [Places -> NetDirs]
    /\ disk \in [Places -> SUBSET NetDirs]
    /\ unsynced \in [Places -> SUBSET ({"data", "entry"} \X Files)]
    /\ anchored \subseteq Places
    /\ home \in Homes
    /\ homeDisk \subseteq Homes
    /\ run \in Runs
    /\ known \subseteq Files \X Ids
    /\ faults \in 0 .. MaxFaults

\* Entries a run must not lose; staging dirs are copies.
Kept == {Live} \cup AsideNets

HomeHolds(h, f, i) ==
    \/ \E n \in ConfNames : h.conf[n] # Absent /\ h.conf[n][f] = i
    \/ f = "redb" /\ \E n \in PixNames : h.pix[n] = i

NetsHold(d, f, i) == \E n \in Kept : d[n] # Absent /\ d[n][f] = i

\* `identity` and `start-clean` never delete anything (README): whatever fails, is killed
\* or loses power, and however often it is repeated within one second, every file an
\* identity ever had is still in the legacy home or under a live or aside name.
NothingLost ==
    \A k \in known :
        \/ HomeHolds(home, k[1], k[2])
        \/ \E p \in Places : NetsHold(nets[p], k[1], k[2])

\* publish has renamed the staged dir of place p into place.
Published(p) ==
    /\ run.result = "Migrated"
    /\ run.pc \in {"pubsync"} \cup MovingLegacy \cup (IF p = "data" THEN {"pubcache"} ELSE {})

\* No networks/<network> dir is ever half-written: no file in one is torn, not even after a
\* power cut at any later time, and one that publish renamed into place is, whatever of the
\* staging has reached the disk by then, exactly the legacy identity with its marker.
PublishedWhole ==
    /\ \A p \in Places : \A d \in Left(p) :
          d[Live] # Absent => \A f \in Files : d[Live][f] # Torn
    /\ \A p \in Places :
          Published(p) => {nets[p][Live]} \cup Partly(nets[p][Live], unsynced[p]) = {Full(run.plan, p)}

\* A run that installed the identity touches the legacy home only when no power cut can take
\* the installed one away any more, if the networks/ dirs were on disk when it started.
InstalledIsDurable ==
    run.result = "Migrated" /\ run.pc \in MovingLegacy =>
        \A p \in anchored : \A d \in Left(p) : d[Live] = Full(run.plan, p)

\* "Only once the new identity is durable may the legacy one disappear" (migrate_identity), asked
\* of both ways that lead to Legacy::move_aside, where networks/ itself is durable.
LegacyGoesOnlyWhenDurable ==
    run.cmd = "identity" /\ run.pc \in MovingLegacy =>
        \A p \in anchored : \A d \in Left(p) :
            d[Live] # Absent /\ \A f \in Planned(run.plan, p) : d[Live][f] = run.plan[f]

RunFails ==
    /\ run.pc \in Installing \cup Undoing
    /\ run'.pc = "idle" /\ run'.result \in Stages
    /\ run.effort = "ok" /\ (run.pc = "restore" => faults' = faults)

AsBefore == \A p \in Places : nets'[p][Live] = run.before[p]

\* A failing installation puts back what it replaced, whatever step failed up to the last
\* rename, when its own undo steps succeed.
FailureRestores == [][RunFails /\ run.failedAt # "pubsync" => AsBefore]_vars

\* "removing the staging dirs and restoring replaced ones" (migrate_identity's error path):
\* whatever step fails, publish's fsync included, an identity that was live is live again.
EveryFailureRestores ==
    [][RunFails => \A p \in Places :
          run.before[p] # Absent => nets'[p][Live] = run.before[p]]_vars

\* A migration that ends well leaves the old key unreadable for the service account even
\* when the sweep fails, and otherwise leaves that account nothing at all.
LegacySecured ==
    [][/\ run.cmd = "identity" /\ run.pc = "homesync"
       /\ run'.pc = "idle" /\ run'.result \in {"Migrated", "AlreadyMigrated"}
       => /\ run.aside \notin home'.exposed
          /\ run.effort = "ok" => home'.exposed \cap ConfNames = {}
          /\ run.effort = "ok" /\ run.uid = "service" => home'.exposed = {}]_vars

\* README: after a migration every .config* dir is locked.  Asked of the run that reports
\* there is nothing left to migrate.
NothingLeftReadable ==
    run.result = "NothingToMigrate" =>
        \A n \in home.exposed \cap ConfNames : n[1] # "migrated"

\* After a successful start-clean --user the next start finds no identity to reuse.
StartsClean ==
    [][/\ run.cmd # "identity" /\ run.pc # "idle"
       /\ run'.pc = "idle" /\ run'.result \in {"StartedClean", "NothingToDo"}
       => /\ home'.conf[Config] = Absent
          /\ run.cmd = "start-clean user" => \A p \in Places : nets'[p][Live] = Absent]_vars

\* However runs fail or are cut off, repeating `identity --replace` gets the legacy identity
\* out of .config, and a dir left behind by an earlier run never blocks the next for good.
EventuallyMigrated == <>[]~FoundLegacy

=============================================================================
