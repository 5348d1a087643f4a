------------------------------ MODULE Relocate ------------------------------
(***************************************************************************)
(* gnosis_vpn-migrate's `layout` command: what the previous release kept    *)
(* elsewhere is renamed to where the current release looks for it, one step *)
(* after the other, while the current release may already run and the       *)
(* previous one may still do so.  The code modelled is relocate.rs and what *)
(* it calls of nofollow.rs and main.rs in src/gnosis_vpn-migrate/src.       *)
(*                                                                         *)
(* Every write gets the next number.  A file holds the number of the write  *)
(* it is from, a directory the numbers of its entries.                      *)
(***************************************************************************)
EXTENDS Naturals, Sequences

CONSTANTS
    Absent,     \* no such file or directory
    Choices,    \* the files of the installer dir: two choices and the update status
    MaxWrites,  \* bound: writes by the two releases
    MaxFaults   \* bound: failing calls, kills and power cuts

ASSUME ChoicesAssumption ==
    Choices \in Seq({"network_choice", "loglevel_choice", "update_status"})
ASSUME BoundsAssumption == MaxWrites \in Nat /\ MaxFaults \in Nat

ChoiceFiles == {Choices[n] : n \in DOMAIN Choices}
SystemFiles == ChoiceFiles \cup {"updates.log"}
UserItems == {"settings.json", "logs"}
Items == SystemFiles \cup UserItems

Stamps == 0 .. MaxWrites
Contents == {Absent} \cup SUBSET Stamps

ASSUME AbsentAssumption == Absent \notin Stamps /\ \A s \in SUBSET Stamps : Absent # s

\* The old log dir, and the old download dir of the updater.
OldDirs == {"gnosisvpn", "updates"}

FileSystems == [old : [Items -> Contents],   \* where the previous release keeps it
                new : [Items -> Contents],   \* where the current one does
                dirs : SUBSET OldDirs]

\* What a power cut may leave: the entries of two directories reach the disk in any order.
Disks == [old : [Items -> SUBSET Contents], new : [Items -> SUBSET Contents],
          dirs : SUBSET SUBSET OldDirs]

Move(item) == [op |-> "Move", path |-> item]

SystemSteps ==
    [n \in DOMAIN Choices |-> Move(Choices[n])]
        \o << Move("updates.log"), [op |-> "RemoveEmptyDir", path |-> "gnosisvpn"],
              [op |-> "RemoveTree", path |-> "updates"] >>

UserSteps == << Move("settings.json"), Move("logs") >>

VARIABLES
    platform,
    blocked,   \* an item with a symlink planted in its path
    fs,
    disk,      \* what a power cut may leave of each entry
    anchored,  \* items whose new directory is on the disk, with all its parents
    pc,        \* inside the step
    step,      \* the index of the step
    failed,    \* Report.failed
    clock,     \* the number of the last write
    written,   \* history: the last write of each item, Absent when there was none
    stray,     \* history: items whose last write is not in the copy that is to stay
    late,      \* history: items the previous release wrote during the run
    loose,     \* history: items renamed and not yet synced into an anchored directory
    faults

report == <<failed, late>>
history == <<clock, written, stray>>
system == <<platform, blocked>>
files == <<fs, disk, anchored, loose>>
vars == <<system, files, pc, step, report, history, faults>>

\* One of the two lists is empty on each platform.
Steps == IF platform = "macos" THEN SystemSteps ELSE UserSteps
Platforms == [macos |-> SystemFiles, linux |-> UserItems]
Here == Platforms[platform]

Current == Steps[step]
At(here, op) == pc = here /\ Current.op = op
Item == Current.path

Fault == faults < MaxFaults /\ faults' = faults + 1
NoFault == faults' = faults

\* A directory that was made and whose parent was not synced may be gone, and all in it.
LeftNew(item) == disk.new[item] \cup (IF item \in anchored THEN {} ELSE {Absent})

\* The old copy becomes what is left of it; a power cut may leave any of `left`.
OldBecomes(item, content, left) ==
    /\ fs' = [fs EXCEPT !.old[item] = content]
    /\ disk' = [disk EXCEPT !.old[item] = @ \cup left]
    /\ UNCHANGED <<anchored, loose>>

DirsBecome(ds) ==
    /\ fs' = [fs EXCEPT !.dirs = ds]
    /\ disk' = [disk EXCEPT !.dirs = @ \cup {ds}]
    /\ UNCHANGED <<anchored, loose>>

\* A release writes to the new place and syncs, the directories it needed included.
NewSettles(item, content) ==
    /\ fs' = [fs EXCEPT !.new[item] = content]
    /\ disk' = [disk EXCEPT !.new[item] = {content}]
    /\ anchored' = anchored \cup {item} /\ loose' = loose \ {item}

\* Mutant of Done: goes on after the last step.
DonePastEnd(problems) ==
    /\ failed' = failed \cup problems
    /\ IF step <= Len(Steps) THEN pc' = "step" /\ step' = step + 1
       ELSE pc' = "idle" /\ step' = 1
    /\ UNCHANGED late

\* The step is over and the next one begins, whatever it returned.
Done(problems) ==
    /\ failed' = failed \cup problems
    /\ IF step < Len(Steps) THEN pc' = "step" /\ step' = step + 1
       ELSE pc' = "idle" /\ step' = 1
    /\ UNCHANGED late

Inside(there) == pc' = there /\ UNCHANGED <<step, report>>

-----------------------------------------------------------------------------
(* run and move_step.                                                       *)

Running == pc \notin {"idle", "killed"}

Begin ==
    /\ ~Running /\ pc' = "step" /\ failed' = {} /\ late' = {} /\ NoFault
    /\ UNCHANGED <<system, files, step, history>>

\* Nothing at the old place.
FindNothing ==
    /\ At("step", "Move") /\ Item \notin blocked /\ fs.old[Item] = Absent /\ NoFault
    /\ Done({})
    /\ UNCHANGED <<system, files, history>>

\* Mutant of FindBlocked: the error fails the whole run.
FindBlockedEnds ==
    /\ At("step", "Move") /\ Item \in blocked /\ NoFault
    /\ failed' = Here /\ pc' = "idle" /\ step' = 1
    /\ UNCHANGED <<system, files, history, late>>

\* Mutant of FindBlocked: takes the error for a missing file.
FindBlockedSilent ==
    /\ At("step", "Move") /\ Item \in blocked /\ NoFault
    /\ Done({})
    /\ UNCHANGED <<system, files, history>>

\* A component that is a symlink fails the step; the run goes on.
FindBlocked ==
    /\ At("step", "Move") /\ Item \in blocked /\ NoFault
    /\ Done({Item})
    /\ UNCHANGED <<system, files, history>>

\* The parents are created, and no directory is synced: none is anchored by it.
FindSource ==
    /\ At("step", "Move") /\ Item \notin blocked /\ fs.old[Item] # Absent /\ NoFault
    /\ Inside("check")
    /\ UNCHANGED <<system, files, history>>

\* Mutant of CheckDestination: the old copy wins.
CheckDestinationForced ==
    /\ At("check", "Move") /\ NoFault
    /\ Inside("rename")
    /\ UNCHANGED <<system, files, history>>

CheckDestination ==
    /\ At("check", "Move") /\ NoFault
    /\ Inside(IF fs.new[Item] # Absent THEN "remove" ELSE "rename")
    /\ UNCHANGED <<system, files, history>>

\* A tree is removed entry by entry, in any order on the disk.
Rests == IF Item = "logs" THEN SUBSET fs.old[Item] ELSE {}

\* nofollow::remove: a file or a whole tree.
RemoveStale ==
    /\ At("remove", "Move") /\ NoFault
    /\ OldBecomes(Item, Absent, Rests \cup {Absent})
    /\ Done({})
    /\ UNCHANGED <<system, history>>

\* A failing or killed removal leaves part of a tree.
RemoveHalf ==
    /\ At("remove", "Move") /\ Item = "logs" /\ Fault
    /\ \E rest \in Rests : OldBecomes(Item, rest, Rests)
    /\ Done({Item})
    /\ UNCHANGED <<system, history>>

\* renameat replaces a file, but no directory with entries.
Replaceable == Item # "logs" \/ fs.new[Item] \in {Absent, {}}

RenameAcross ==
    /\ At("rename", "Move") /\ Replaceable /\ NoFault
    /\ fs' = [fs EXCEPT !.new[Item] = fs.old[Item], !.old[Item] = Absent]
    /\ disk' = [disk EXCEPT !.new[Item] = @ \cup {fs.old[Item]}, !.old[Item] = @ \cup {Absent}]
    /\ loose' = loose \cup {Item} /\ UNCHANGED anchored
    /\ Inside("sync")
    /\ UNCHANGED <<system, history>>

RenameRefused ==
    /\ At("rename", "Move") /\ ~Replaceable /\ NoFault
    /\ Done({Item})
    /\ UNCHANGED <<system, files, history>>

\* Mutant of SyncNew: the new directory is not synced.
SyncNewSkipped ==
    /\ At("sync", "Move") /\ NoFault
    /\ loose' = (IF Item \in anchored THEN loose \ {Item} ELSE loose)
    /\ UNCHANGED <<fs, disk, anchored>>
    /\ Inside("syncold")
    /\ UNCHANGED <<system, history>>

\* The new directory first; its own entry in its parent is not synced.
SyncNew ==
    /\ At("sync", "Move") /\ NoFault
    /\ disk' = [disk EXCEPT !.new[Item] = {fs.new[Item]}]
    /\ loose' = (IF Item \in anchored THEN loose \ {Item} ELSE loose)
    /\ UNCHANGED <<fs, anchored>>
    /\ Inside("syncold")
    /\ UNCHANGED <<system, history>>

SyncOld ==
    /\ At("syncold", "Move") /\ NoFault
    /\ disk' = [disk EXCEPT !.old[Item] = {fs.old[Item]}]
    /\ UNCHANGED <<fs, anchored, loose>>
    /\ Done({})
    /\ UNCHANGED <<system, history>>

\* Any call of a step fails, the syncs after the rename included.
StepFails ==
    /\ Running /\ Fault
    /\ Done({Item})
    /\ UNCHANGED <<system, files, history>>

-----------------------------------------------------------------------------
(* remove_tree_step and remove_empty_dir_step.                              *)

RemoveTree ==
    /\ At("step", "RemoveTree") /\ NoFault
    /\ DirsBecome(fs.dirs \ {Item})
    /\ Done({})
    /\ UNCHANGED <<system, history>>

\* rmdir, which other files of the dir than updates.log may prevent as well.
RemoveEmptyDir ==
    /\ At("step", "RemoveEmptyDir") /\ NoFault
    /\ \/ fs.old["updates.log"] = Absent /\ DirsBecome(fs.dirs \ {Item})
       \/ Item \in fs.dirs /\ UNCHANGED files
    /\ Done({})
    /\ UNCHANGED <<system, history>>

-----------------------------------------------------------------------------
(* The world around a run: services sync what they write.                   *)

\* A write replaces a file and adds an entry to a directory.
Written(content, item, n) ==
    IF item = "logs" /\ content # Absent THEN content \cup {n} ELSE {n}

Write(item) ==
    /\ item \in Here /\ clock < MaxWrites /\ NoFault
    /\ clock' = clock + 1
    /\ written' = [written EXCEPT ![item] = clock']
    /\ UNCHANGED <<system, pc, step, failed>>

\* The check has been made and the rename has not.
Between(item) == pc = "rename" /\ Item = item

\* The current release writes; a log is only safe from the rename if that is refused.
CurrentWrites(item) ==
    /\ Write(item)
    /\ NewSettles(item, Written(fs.new[item], item, clock'))
    /\ stray' = IF Between(item) /\ item # "logs" THEN stray \cup {item} ELSE stray \ {item}
    /\ UNCHANGED late

\* It creates its log directory before it has something to log.
CurrentMakesLogs ==
    /\ "logs" \in Here /\ fs.new["logs"] = Absent /\ NoFault
    /\ NewSettles("logs", {})
    /\ stray' = IF fs.old["logs"] = Absent THEN stray ELSE stray \cup {"logs"}
    /\ UNCHANGED <<system, pc, step, report, clock, written>>

\* The previous release still runs, or is back after a downgrade.
PreviousWrites(item) ==
    /\ Write(item) /\ item \notin blocked
    /\ fs' = [fs EXCEPT !.old[item] = Written(@, item, clock'),
                        !.dirs = IF item = "updates.log" THEN @ \cup {"gnosisvpn"} ELSE @]
    /\ disk' = [disk EXCEPT !.old[item] = {fs'.old[item]}, !.dirs = {fs'.dirs}]
    /\ UNCHANGED <<anchored, loose>>
    /\ stray' = IF fs.new[item] = Absent THEN stray \ {item} ELSE stray \cup {item}
    /\ late' = IF Running THEN late \cup {item} ELSE late

Killed ==
    /\ Running /\ Fault
    /\ pc' = "killed" /\ step' = 1 /\ UNCHANGED report
    /\ UNCHANGED <<system, files, history>>

There(old, new) == old # Absent \/ new # Absent

\* What there may be of one entry each, together.
Choice(left(_)) ==
    {f \in [Items -> UNION {left(i) : i \in Items}] : \A i \in Items : f[i] \in left(i)}
LeftOld(item) == disk.old[item]

\* A cut that takes what was renamed and is still loose takes its writes.
PowerCut ==
    /\ Fault
    /\ \E old \in Choice(LeftOld), new \in Choice(LeftNew), dirs \in disk.dirs :
          /\ old["updates.log"] # Absent => "gnosisvpn" \in dirs
          /\ fs' = [old |-> old, new |-> new, dirs |-> dirs]
          /\ disk' = [old |-> [i \in Items |-> {old[i]}], new |-> [i \in Items |-> {new[i]}],
                      dirs |-> {dirs}]
          /\ anchored' = anchored \cup {i \in Items : new[i] # Absent}
          /\ written' = [i \in Items |->
                IF i \in loose /\ ~There(old[i], new[i]) THEN Absent ELSE written[i]]
    /\ loose' = {} /\ UNCHANGED <<clock, stray>>
    /\ pc' = "killed" /\ step' = 1 /\ UNCHANGED report
    /\ UNCHANGED system

-----------------------------------------------------------------------------
\* An upgraded install: some of what the previous release keeps is there.
Init ==
    /\ platform \in DOMAIN Platforms
    /\ blocked \in {{}, {Steps[1].path}}
    /\ \E there \in SUBSET Here :
          fs = [old |-> [i \in Items |-> IF i \in there THEN {0} ELSE Absent],
                new |-> [i \in Items |-> Absent],
                dirs |-> IF platform = "macos" THEN OldDirs ELSE {}]
    /\ disk = [old |-> [i \in Items |-> {fs.old[i]}], new |-> [i \in Items |-> {fs.new[i]}],
               dirs |-> {fs.dirs}]
    /\ anchored \in SUBSET Here /\ loose = {}
    /\ pc = "idle" /\ step = 1 /\ failed = {} /\ late = {}
    /\ clock = 0 /\ written = [i \in Items |-> IF fs.old[i] = Absent THEN Absent ELSE 0]
    /\ stray = {} /\ faults = 0

LayoutStep ==
    \/ FindNothing \/ FindBlocked \/ FindSource \/ CheckDestination
    \/ RemoveStale \/ RemoveHalf \/ RenameAcross \/ RenameRefused \/ SyncNew \/ SyncOld
    \/ StepFails \/ RemoveTree \/ RemoveEmptyDir

Environment ==
    \/ \E i \in Items : CurrentWrites(i) \/ PreviousWrites(i)
    \/ CurrentMakesLogs \/ Killed \/ PowerCut

Next == Begin \/ LayoutStep \/ Environment

Spec == Init /\ [][Next]_vars

-----------------------------------------------------------------------------
(* Properties.                                                             *)

TypeOK ==
    /\ platform \in DOMAIN Platforms
    /\ blocked \subseteq Items
    /\ fs \in FileSystems
    /\ disk \in Disks
    /\ anchored \subseteq Items /\ loose \subseteq Items
    /\ pc \in {"idle", "killed", "step", "check", "remove", "rename", "sync", "syncold"}
    /\ step \in 1 .. Len(Steps)
    /\ failed \subseteq Items \cup OldDirs
    /\ late \subseteq Items
    /\ clock \in Stamps
    /\ written \in [Items -> Stamps \cup {Absent}]
    /\ stray \subseteq Items
    /\ faults \in 0 .. MaxFaults

\* The one command that deletes never deletes the only copy: whatever fails or is killed and
\* whoever writes meanwhile, each item that was ever written is at its old or at its new place;
\* and so it is after any power cut, unless its rename is not synced, or only into a directory
\* whose own entry is not (move_step syncs the two directories and no parent of theirs).
ItemKept ==
    \A i \in Items : written[i] # Absent =>
        /\ There(fs.old[i], fs.new[i])
        /\ i \notin loose => \A old \in disk.old[i], new \in LeftNew(i) : There(old, new)

\* What `layout` removes is the stale copy: unless the previous release wrote where the
\* current one was already there, or the current one between the check and the rename, the
\* last write of an item is in one of its two places.
LastWriteKept ==
    \A i \in Items : written[i] # Absent /\ i \notin stray =>
        \E content \in {fs.old[i], fs.new[i]} : content # Absent /\ written[i] \in content

\* The report is complete: an item that a run ends without listing as failed is gone from its
\* old place and its last write is where the current release reads it.
FailuresListed ==
    [][Running /\ pc' = "idle" => \A i \in Here \ (failed' \cup late') :
          /\ fs'.old[i] = Absent
          /\ written[i] # Absent /\ i \notin stray =>
                fs'.new[i] # Absent /\ written[i] \in fs'.new[i]]_vars

\* One item that can never be moved does not keep the others at their old place for good.
OthersRelocated == \A i \in Items : <>[](i \in blocked \/ fs.old[i] = Absent)
=============================================================================
