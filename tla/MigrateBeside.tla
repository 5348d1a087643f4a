--------------------------- MODULE MigrateBeside ---------------------------
(***************************************************************************)
(* A run of gnosis_vpn-migrate beside another one.  There is no lock: the   *)
(* two share the networks/ dirs and the legacy home, and two runs of one    *)
(* second share the name of their staging dirs as well.  Module Migrate has *)
(* the steps of a run that is alone; here are the ones that the other run   *)
(* makes different: a call that finds its file gone or its target taken     *)
(* fails although nothing is wrong with the disk, and a staging dir that is *)
(* held open may be removed, or removed from, under another name.           *)
(***************************************************************************)
EXTENDS Migrate

VARIABLES
    other,   \* the run beside this one
    mine,    \* dirs that this run holds open
    theirs   \* dirs that the other run holds open

\* staging: the dir stage fills; removing: the one remove_tree works on, and seen: the
\* entries it has read there.  Both are names in the networks/ dir of the run's place.
NoHandles == [staging |-> Absent, removing |-> Absent, seen |-> {}]

\* A dir that is open and in no networks/ dir any more.
Unlinked == <<"unlinked", 0, 0>>

\* Where the dir that was open as name is after a step in nets[p]: a rename takes it along, or
\* puts another dir in its place.
Follow(p, name) ==
    LET gone == {n \in NetNames : nets[p][n] # Absent /\ nets'[p][n] = Absent}
        new == {n \in NetNames \ gone : nets'[p][n] # nets[p][n]}
    IN CASE name \in gone -> IF new = {} THEN Unlinked ELSE CHOOSE n \in new : TRUE
         [] name \in new /\ gone # {} -> Unlinked
         [] OTHER -> name

Followed(r, h) == [h EXCEPT !.staging = Follow(r.place, @), !.removing = Follow(r.place, @)]

Beside == UNCHANGED other /\ theirs' = Followed(other, theirs)

\* The handles of stage live for one place.
StagingOpen == [mine EXCEPT !.staging = IF run'.pc \in {"copy", "verify", "marker", "seal"}
                                     THEN Staging(run.ts) ELSE Absent]

-----------------------------------------------------------------------------
StagingGone == mine.staging = Unlinked

\* create_file in a dir that was removed.
StageIntoRemoved ==
    /\ run.pc \in {"copy", "marker"} /\ StagingGone /\ NoFault
    /\ At("copy") => run.todo # {}
    /\ Failed("remove", "Destination") /\ UNCHANGED <<files, known>>
    /\ mine' = NoHandles

\* The copy is read back through its own handle, and fchown and fsync need no name.
VerifyRemoved ==
    /\ StagingGone
    /\ \/ \E f \in Files : /\ At("verify") /\ NextCopy(f) /\ NoFault
                            /\ run' = [run EXCEPT !.pc = "copy", !.todo = @ \ {f}]
                            /\ UNCHANGED <<files, known, mine>>
       \/ CopiesDone /\ UNCHANGED mine
       \/ /\ At("seal") /\ NoFault
          /\ run' = AfterSeal(run) /\ mine' = StagingOpen
          /\ UNCHANGED <<files, known>>

\* What the other run published, or took away, stops publish.
PublishRefused ==
    /\ NoFault /\ UNCHANGED <<files, known, mine>>
    /\ \/ At("pubdata") /\ ~CanRename(nets["data"], Staging(run.ts), Live)
             /\ Failed("remove", "Destination")
       \/ At("pubcache") /\ ~CanRename(nets["cache"], Staging(run.ts), Live)
             /\ Failed("undo", "Destination")

UndoRefused ==
    /\ At("undo") /\ NoFault /\ ~CanRename(nets["data"], Live, Staging(run.ts))
    /\ run' = [run EXCEPT !.pc = "remove", !.effort = "missed"]
    /\ UNCHANGED <<files, known, mine>>

\* The other run has moved the legacy files aside.
LegacyGone ==
    /\ \/ At("cfgaside") /\ home.conf[Config] = Absent
       \/ At("redbaside") /\ home.pix[Pix] = Absent
    /\ NoFault /\ Ends("Legacy", run.pc) /\ UNCHANGED mine

-----------------------------------------------------------------------------
(* remove_tree, while the other run may be filling or renaming the dir.     *)

Contended == other.pc # "idle" /\ other.ts = run.ts

OpenStaging ==
    /\ At("remove") /\ Contended /\ mine.removing = Absent
    /\ nets[run.place][Staging(run.ts)] # Absent
    /\ mine' = [mine EXCEPT !.removing = Staging(run.ts),
                            !.seen = {f \in Files : nets[run.place][Staging(run.ts)][f] # Absent}]
    /\ NoFault /\ UNCHANGED <<run, files, known>>

UnlinkSeen ==
    /\ At("remove") /\ mine.removing # Absent /\ mine.seen # {} /\ NoFault
    /\ IF mine.removing = Unlinked THEN UNCHANGED files
       ELSE SetNets(run.place,
                    [nets[run.place] EXCEPT
                        ![mine.removing] = [f \in Files |-> IF f \in mine.seen THEN Absent
                                                            ELSE @[f]]])
    /\ mine' = [mine EXCEPT !.seen = {}]
    /\ UNCHANGED <<run, known>>

\* By name, and only when nothing was added; a dir that is gone is as good.
RemoveDir ==
    /\ At("remove") /\ NoFault /\ UNCHANGED known
    /\ mine.removing # Absent /\ mine.seen = {}
    /\ IF nets[run.place][Staging(run.ts)] = Empty
       THEN SetNets(run.place, [nets[run.place] EXCEPT ![Staging(run.ts)] = Absent])
       ELSE UNCHANGED files
    /\ run' = AfterUndo(run, [run EXCEPT !.pc = "restore", !.place = "data"])
    /\ mine' = NoHandles

-----------------------------------------------------------------------------
\* The steps of module Migrate that the other run does not disturb.
Staged == run.pc \in {"copy", "verify", "marker", "seal"} => ~StagingGone
Alone ==
    /\ Staged
    /\ At("remove") =>
          mine.removing = Absent
          /\ (~Contended \/ nets[run.place][Staging(run.ts)] = Absent)
    /\ At("cfgaside") => home.conf[Config] # Absent
    /\ At("redbaside") => home.pix[Pix] # Absent

OwnStep == Alone /\ RunStep /\ mine' = StagingOpen

BesideBegin == run.result = "none" /\ BeginRun /\ mine' = NoHandles /\ Beside

BesideStep ==
    /\ \/ OwnStep
       \/ StageIntoRemoved \/ VerifyRemoved \/ PublishRefused \/ UndoRefused \/ LegacyGone
       \/ OpenStaging \/ UnlinkSeen \/ RemoveDir
    /\ Beside

BesideKilled == Killed /\ mine' = NoHandles /\ Beside
=============================================================================
