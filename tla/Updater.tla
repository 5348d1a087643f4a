------------------------------ MODULE Updater ------------------------------
(***************************************************************************)
(* One `gnosis_vpn-update update` after the other on macOS: the engine task *)
(* (run_engine, drive_engine in update/mod.rs), the task that prints its    *)
(* statuses and picks the exit code (run_update in main.rs), the            *)
(* rename-aside of the running binary (update/self_update.rs), the loader   *)
(* window and its applet (update/loader.rs, assets/update-loader.applescript)*)
(* and the installer(8) child, which outlives a killed updater.             *)
(*                                                                         *)
(* What the artifact download does is module Download's; here it succeeds   *)
(* or fails.  A status is its name, that of a failure its stage.            *)
(***************************************************************************)
EXTENDS Naturals, Sequences

CONSTANTS
    None,        \* no file, no status
    MaxRuns,     \* bound: how often the updater is started
    MaxMisses    \* polls without a status file after which the applet quits

ASSUME BoundsAssumption == MaxRuns \in Nat /\ MaxMisses \in Nat \ {0}

Stages == {"Check", "Download", "Verify", "Install"}
Terminal == {"Completed"} \cup Stages
Statuses == {"Checking", "Downloading", "Installing"} \cup Terminal
Exits == {"running", "OK", "SOFTWARE", "Killed", "Terminated"}
Binaries == {"cur", "new"}

ASSUME NoneAssumption == None \notin Statuses \cup Exits \cup Binaries \cup {"succeeded", "failed"}

VARIABLES
    pc,         \* the engine task
    verdict,    \* its terminal status, once it has one
    install,    \* what installer(8) returned
    renamed,    \* RenameAside.renamed
    engaged,    \* Loader.engaged
    shield,     \* the termination signals are ignored
    chan,       \* the mpsc channel to the printing task
    exit,       \* how the process ended, or that it runs
    path,       \* the binary at INSTALLED_BINARY_PATH
    old,        \* the one at its .old name
    attempt,    \* the run whose status last_update_attempt.json has, 0 if it has none
    audit,      \* the run whose status the last line of updates.log has
    line,       \* this run's line of it
    slips,      \* best-effort steps of this run that failed
    installer,  \* the installer(8) process
    pipes,      \* whether somebody still has its stdout and stderr once it is gone
    landed,     \* history: this run's payload has replaced the binary
    status,     \* the loader's status file
    pid,        \* the run that the file names
    applet,     \* the loader applet of each run
    app,        \* the client app
    runs        \* runs so far

engine == <<pc, verdict, install, renamed, engaged, shield, slips>>
binaries == <<path, old, landed>>
records == <<attempt, audit, line>>
window == <<status, pid, applet>>
world == <<installer, pipes, app>>
vars == <<engine, chan, exit, binaries, records, window, world, runs>>

EngineSteps == {"idle", "checking", "check", "downloading", "download", "verify", "choices",
                "shield", "show", "launch", "opening", "installing", "aside", "spawn", "wait",
                "drain", "done", "kill", "settle", "probe", "cleanup", "persist", "audit", "send",
                "end"}

Runs == 1 .. MaxRuns

\* The applet's local variables; updaterPid 0 is a pid not read yet.
Applets == [at : {"off", "launching", "open"}, updaterPid : {0} \cup Runs,
            misses : 0 .. (MaxMisses - 1), strikes : {0, 1}, sawAppGone : {"no", "yes"}]
Closed == [at |-> "off", updaterPid |-> 0, misses |-> 0, strikes |-> 0, sawAppGone |-> "no"]

Running == exit = "running"
At(here) == Running /\ pc = here
Goto(there) == pc' = there
Send(s) == chan' = Append(chan, s)
Slip(what) == slips' = slips \cup {what}

\* The `?` of drive_engine: run_engine turns the error into the terminal status.
Fails(stage) == verdict' = stage /\ Goto("persist")

-----------------------------------------------------------------------------
(* drive_engine up to the install.                                         *)

SendChecking ==
    /\ At("checking") /\ Send("Checking") /\ Goto("check")
    /\ UNCHANGED <<verdict, install, renamed, engaged, shield, slips, exit, binaries,
                   records, window, world, runs>>

\* manifest::download, pick and ensure_installable; then the artifact and its hash.
Resolve(here, there, stage) ==
    /\ At(here)
    /\ \/ Goto(there) /\ UNCHANGED verdict
       \/ Fails(stage)
    /\ UNCHANGED <<install, renamed, engaged, shield, slips, chan, exit, binaries, records,
                   window, world, runs>>

Check == Resolve("check", "downloading", "Check")
DownloadArtifact == Resolve("download", "verify", "Download")
VerifySha256 == Resolve("verify", "choices", "Verify")
WriteChoiceChanges == Resolve("choices", "shield", "Install")

SendDownloading ==
    /\ At("downloading") /\ Send("Downloading") /\ Goto("download")
    /\ UNCHANGED <<verdict, install, renamed, engaged, shield, slips, exit, binaries,
                   records, window, world, runs>>

\* Mutant of ShieldFromTermination: leaves the signals alone.
ShieldForgotten ==
    /\ At("shield") /\ Goto("show")
    /\ UNCHANGED <<verdict, install, renamed, engaged, shield, slips, chan, exit, binaries,
                   records, window, world, runs>>

ShieldFromTermination ==
    /\ At("shield") /\ shield' = "on" /\ Goto("show")
    /\ UNCHANGED <<verdict, install, renamed, engaged, slips, chan, exit, binaries,
                   records, window, world, runs>>

-----------------------------------------------------------------------------
(* The span from loader::show to loader::dismiss.                           *)

\* Not root, no console user or no status file: no window.  A file that could be written but not
\* made readable stays, and nobody will remove it.
SkipLoader ==
    /\ At("show") /\ Goto("installing")
    /\ \/ UNCHANGED <<status, pid>>
       \/ status' = "updating" /\ pid' = runs
    /\ UNCHANGED <<verdict, install, renamed, engaged, shield, slips, chan, exit, binaries,
                   records, applet, world, runs>>

WriteStatus ==
    /\ At("show") /\ Goto("launch")
    /\ engaged' = "yes" /\ status' = "updating" /\ pid' = runs
    /\ UNCHANGED <<verdict, install, renamed, shield, slips, chan, exit, binaries, records,
                   applet, world, runs>>

\* launch: the applet is on its way up while `su` and `open` still run.
LaunchLoader ==
    /\ At("launch") /\ Goto("opening")
    /\ applet' = [applet EXCEPT ![runs].at = "launching"]
    /\ UNCHANGED <<verdict, install, renamed, engaged, shield, slips, chan, exit, binaries,
                   records, status, pid, world, runs>>

\* They have ended, or no applet could be extracted or opened.
LoaderLaunched ==
    /\ pc \in {"launch", "opening"} /\ Running /\ Goto("installing")
    /\ UNCHANGED <<verdict, install, renamed, engaged, shield, slips, chan, exit, binaries,
                   records, window, world, runs>>

SendInstalling ==
    /\ At("installing") /\ Send("Installing") /\ Goto("aside")
    /\ UNCHANGED <<verdict, install, renamed, engaged, shield, slips, exit, binaries,
                   records, window, world, runs>>

\* RenameAside::engage: an .old left by a killed run is overwritten.
Engage ==
    /\ At("aside") /\ Goto("spawn")
    /\ \/ path # None /\ old' = path /\ path' = None /\ renamed' = "yes"
       \/ UNCHANGED <<path, old, renamed>>
    /\ UNCHANGED <<verdict, install, engaged, shield, slips, chan, exit, landed, records,
                   window, world, runs>>

SpawnInstaller ==
    /\ At("spawn")
    /\ \/ installer' = "preinstall" /\ Goto("wait") /\ UNCHANGED install
       \/ install' = "failed" /\ Goto("done") /\ UNCHANGED installer
    /\ pipes' = "closed"
    /\ UNCHANGED <<verdict, renamed, engaged, shield, slips, chan, exit, binaries, records,
                   window, app, runs>>

\* Mutant of InstallerReturned: gives up on a slow installer.
InstallerGivenUp ==
    /\ At("wait") /\ install' = "failed" /\ Goto("drain")
    /\ UNCHANGED <<verdict, renamed, engaged, shield, slips, chan, exit, binaries, records,
                   window, world, runs>>

\* child.wait() returns, while what the install scripts have left behind may hold the pipes.
InstallerReturned ==
    /\ At("wait") /\ installer \in {"succeeded", "failed"}
    /\ install' = installer /\ installer' = "off" /\ Goto("drain")
    /\ pipes' \in {"closed", "held"}
    /\ UNCHANGED <<verdict, renamed, engaged, shield, slips, chan, exit, binaries, records,
                   window, app, runs>>

DrainWhen(over) ==
    /\ At("drain") /\ over /\ pipes' = "closed" /\ Goto("done")
    /\ UNCHANGED <<verdict, install, renamed, engaged, shield, slips, chan, exit, binaries,
                   records, window, installer, app, runs>>

\* Mutant of Drain: no DRAIN_CAP.
DrainToEnd == DrainWhen(pipes = "closed")

\* The end of both pipes, or DRAIN_CAP for each, after which they are abandoned.
Drain == DrainWhen(TRUE)

\* dismiss: `done` for the applet to see, unless the file cannot be written.
SignalDone ==
    /\ At("done")
    /\ IF engaged = "no" THEN Goto("settle") /\ UNCHANGED status
       ELSE Goto("kill") /\ status' \in {"done", status}
    /\ UNCHANGED <<verdict, install, renamed, engaged, shield, slips, chan, exit, binaries,
                   records, pid, applet, world, runs>>

\* dismiss after the grace period: pkill, which takes the applets of all runs, misses one that
\* is still coming up and may itself fail, and cleanup, best effort.
KillLoader ==
    /\ At("kill") /\ Goto("settle")
    /\ applet' \in {applet, [r \in Runs |-> IF applet[r].at = "open" THEN Closed ELSE applet[r]]}
    /\ status' \in {None, status}
    /\ UNCHANGED <<verdict, install, renamed, engaged, shield, slips, chan, exit, binaries,
                   records, pid, world, runs>>

-----------------------------------------------------------------------------
(* self_update::finish and the end of the engine.                           *)

FinishSuccess == UNCHANGED path /\ old' \in {None, old} /\ UNCHANGED slips

\* A new binary is kept, else the old one is put back.
FinishFailure ==
    IF path # None
    THEN UNCHANGED path /\ old' \in {None, old} /\ UNCHANGED slips
    ELSE \/ path' = old /\ old' = None /\ UNCHANGED slips
         \/ Slip("restore") /\ UNCHANGED <<path, old>>

SettleWith(success, failure) ==
    /\ At("settle")
    /\ IF renamed = "no" THEN UNCHANGED <<path, old, slips>>
       ELSE IF install = "succeeded" THEN success ELSE failure
    /\ verdict' = IF install = "succeeded" THEN verdict ELSE "Install"
    /\ Goto(IF install = "succeeded" THEN "probe" ELSE "persist")
    /\ UNCHANGED <<install, renamed, engaged, shield, chan, exit, landed, records, window,
                   world, runs>>

\* Mutant of Settle: puts the old binary back over a new one.
SettleClobbers ==
    SettleWith(FinishSuccess, path' = old /\ old' = None /\ UNCHANGED slips)

\* Mutant of Settle: drops the old copy on both outcomes.
SettleDropsOld == SettleWith(FinishSuccess, FinishSuccess)

\* Both outcomes are settled before the install's error is returned.
Settle == SettleWith(FinishSuccess, FinishFailure)

\* The new binary has said its version, or has not.
Probe ==
    /\ At("probe") /\ Goto("cleanup")
    /\ UNCHANGED <<verdict, install, renamed, engaged, shield, slips, chan, exit, binaries,
                   records, window, world, runs>>

\* The artifact and the choices file are removed, best effort.
RemoveLeftovers ==
    /\ At("cleanup") /\ verdict' = "Completed" /\ Goto("persist")
    /\ UNCHANGED <<install, renamed, engaged, shield, slips, chan, exit, binaries, records,
                   window, world, runs>>

\* Mutant of PersistAttempt: reports first.
PersistAfterSend ==
    \/ /\ At("persist") /\ verdict \notin {chan[i] : i \in 1 .. Len(chan)}
       /\ Send(verdict)
       /\ UNCHANGED <<engine, exit, binaries, records, window, world, runs>>
    \/ /\ At("persist") /\ verdict \in {chan[i] : i \in 1 .. Len(chan)}
       /\ attempt' = runs /\ Goto("audit")
       /\ UNCHANGED <<verdict, install, renamed, engaged, shield, slips, chan, exit, binaries,
                      audit, line, window, world, runs>>

\* A write that fails may have emptied the file before.
PersistAttempt ==
    /\ At("persist") /\ Goto("audit")
    /\ \/ attempt' = runs /\ UNCHANGED slips
       \/ attempt' \in {attempt, 0} /\ Slip("attempt")
    /\ UNCHANGED <<verdict, install, renamed, engaged, shield, chan, exit, binaries, audit,
                   line, window, world, runs>>

\* write_all only hands the line to a thread of tokio's; nothing flushes the file.
AuditLog ==
    /\ At("audit") /\ Goto("send")
    /\ \/ line' = "pending" /\ UNCHANGED slips
       \/ UNCHANGED line /\ Slip("audit")
    /\ UNCHANGED <<verdict, install, renamed, engaged, shield, chan, exit, binaries, attempt,
                   audit, window, world, runs>>

\* The thread appends it, if the process still runs.
LineWritten ==
    /\ Running /\ line = "pending" /\ line' = "none"
    /\ \/ audit' = runs /\ UNCHANGED slips
       \/ UNCHANGED audit /\ Slip("audit")
    /\ UNCHANGED <<pc, verdict, install, renamed, engaged, shield, chan, exit, binaries,
                   attempt, window, world, runs>>

SendTerminal ==
    /\ At("send") /\ Send(verdict) /\ Goto("end")
    /\ UNCHANGED <<verdict, install, renamed, engaged, shield, slips, exit, binaries,
                   records, window, world, runs>>

-----------------------------------------------------------------------------
(* run_update, the process and its signals.                                 *)

\* The engine is spawned; a copy of the binary has to be there to run.
Start ==
    /\ ~Running /\ runs < MaxRuns /\ runs' = runs + 1
    /\ installer = "off" /\ (path # None \/ old # None)
    /\ exit' = "running" /\ pc' = "checking" /\ verdict' = None /\ install' = None
    /\ renamed' = "no" /\ engaged' = "no" /\ shield' = "off" /\ slips' = {} /\ chan' = << >>
    /\ landed' = "no" /\ line' = "none"
    /\ UNCHANGED <<path, old, attempt, audit, window, world>>

\* No installed version or no HTTP client: a failed check without an engine and its records.
CannotStart ==
    /\ ~Running /\ runs < MaxRuns /\ runs' = runs + 1
    /\ exit' = "SOFTWARE" /\ pc' = "idle" /\ verdict' = "Check"
    /\ renamed' = "no" /\ landed' = "no" /\ slips' = {}
    /\ UNCHANGED <<install, engaged, shield, chan, path, old, records, window, world>>

\* Print the next status; a terminal one ends the process, whatever its tasks are at.
Receive ==
    /\ Running /\ chan # << >>
    /\ chan' = Tail(chan)
    /\ exit' = CASE Head(chan) \notin Terminal -> "running"
                 [] Head(chan) = "Completed" -> "OK"
                 [] OTHER -> "SOFTWARE"
    /\ UNCHANGED <<engine, binaries, records, window, world, runs>>

\* In the middle of PersistAttempt it leaves an empty file.
Dies(how) ==
    /\ Running /\ exit' = how /\ chan' = << >>
    /\ attempt' \in IF pc = "persist" THEN {attempt, 0} ELSE {attempt}
    /\ UNCHANGED <<engine, binaries, audit, line, window, world, runs>>

\* SIGTERM, SIGINT or SIGHUP, such as the preinstall's collateral ones.
Terminate == shield = "off" /\ Dies("Terminated")

\* SIGKILL, or the panic of a println! whose reader is gone.
Kill == Dies("Killed")

-----------------------------------------------------------------------------
(* installer(8) and the app: external.                                      *)

Install(here, there) ==
    /\ installer = here /\ installer' = there
    /\ UNCHANGED <<engine, chan, exit, records, window, pipes, runs>>

\* preinstall kills the app.
Preinstall == Install("preinstall", "payload") /\ app' = "gone" /\ UNCHANGED binaries

\* The payload lands, but for a binary that is being run from this path.
Payload ==
    /\ Install("payload", "postinstall")
    /\ \/ path' = "new" /\ landed' = "yes"
       \/ path # None /\ UNCHANGED <<path, landed>>
    /\ UNCHANGED <<old, app>>

\* postinstall relaunches the app; nobody waits for the exit code of an orphan.
Postinstall ==
    /\ Install("postinstall", IF Running THEN "succeeded" ELSE "off")
    /\ app' = "running"
    /\ UNCHANGED binaries

InstallerFails ==
    /\ \E here \in {"preinstall", "payload", "postinstall"} :
          Install(here, IF Running THEN "failed" ELSE "off")
    /\ UNCHANGED <<binaries, app>>

\* The one who waited is gone.
Reaped ==
    /\ ~Running /\ installer \in {"succeeded", "failed"} /\ installer' = "off"
    /\ UNCHANGED <<engine, chan, exit, binaries, records, window, pipes, app, runs>>

\* The user opens or quits the app.
UserApp ==
    /\ app' = IF app = "gone" THEN "running" ELSE "gone"
    /\ UNCHANGED <<engine, chan, exit, binaries, records, window, installer, pipes, runs>>

-----------------------------------------------------------------------------
(* The applet.  Its 600-poll cap is its last resort and left out: it has to  *)
(* close without it.                                                         *)

AppletUp(r) ==
    /\ applet[r].at = "launching" /\ applet' = [applet EXCEPT ![r].at = "open"]
    /\ UNCHANGED <<engine, chan, exit, binaries, records, status, pid, world, runs>>

\* Mutant of Orphaned: leaves it to the updater to say done.
OrphanedNever(p) == FALSE

\* Neither the updater that the applet knows nor any installer is left.
Orphaned(p) == ~(Running /\ runs = p) /\ installer = "off"

PollWith(r, tenth, missesEnough) ==
    LET a == applet[r]
        known == IF a.updaterPid = 0 /\ status = "updating" THEN pid ELSE a.updaterPid
        misses == IF status = None THEN a.misses + 1 ELSE 0
        back == app = "running" /\ a.sawAppGone = "yes"
        strikes == IF ~tenth \/ known = 0 THEN a.strikes
                   ELSE IF Orphaned(known) THEN a.strikes + 1 ELSE 0
    IN
    /\ a.at = "open"
    /\ applet' = [applet EXCEPT ![r] =
          IF status = "done" \/ misses >= missesEnough \/ back \/ strikes >= 2 THEN Closed
          ELSE [a EXCEPT !.updaterPid = known, !.misses = misses, !.strikes = strikes,
                         !.sawAppGone = IF app = "gone" THEN "yes" ELSE @]]
    /\ UNCHANGED <<engine, chan, exit, binaries, records, status, pid, world, runs>>

\* Mutant of Poll: one poll too many without a status file.
PollOneMore(r, tenth) == PollWith(r, tenth, MaxMisses + 1)

\* One poll; the orphan check is made on every tenth.
Poll(r, tenth) == PollWith(r, tenth, MaxMisses)

-----------------------------------------------------------------------------
Init ==
    /\ pc = "idle" /\ verdict = None /\ install = None /\ renamed = "no" /\ engaged = "no"
    /\ shield = "off" /\ slips = {} /\ chan = << >> /\ exit = None
    /\ path = "cur" /\ old = None /\ landed = "no"
    /\ attempt = 0 /\ audit = 0 /\ line = "none"
    /\ status = None /\ pid = 0 /\ applet = [r \in Runs |-> Closed]
    /\ installer = "off" /\ pipes = "closed" /\ app \in {"running", "gone"}
    /\ runs = 0

\* What the engine awaits from others and without a deadline: the artifact from a server that
\* may ignore every Range, and stat, su, pgrep, pkill and the new binary.
Awaiting == Running /\ pc \in {"download", "show", "launch", "opening", "kill", "probe"}

Engine ==
    \/ SendChecking \/ Check \/ SendDownloading \/ DownloadArtifact \/ VerifySha256
    \/ WriteChoiceChanges \/ ShieldFromTermination \/ SkipLoader \/ WriteStatus
    \/ LaunchLoader \/ LoaderLaunched \/ SendInstalling \/ Engage \/ SpawnInstaller
    \/ InstallerReturned \/ Drain \/ SignalDone \/ KillLoader \/ Settle \/ Probe
    \/ RemoveLeftovers \/ PersistAttempt \/ AuditLog \/ SendTerminal

Installer8 == Preinstall \/ Payload \/ Postinstall \/ InstallerFails \/ Reaped

Applet == \E r \in Runs : AppletUp(r) \/ \E tenth \in BOOLEAN : Poll(r, tenth)

Next ==
    \/ Engine \/ LineWritten \/ Start \/ CannotStart \/ Receive \/ Terminate \/ Kill
    \/ Installer8 \/ UserApp \/ Applet

Spec == Init /\ [][Next]_vars

\* Both tasks are scheduled, the installer ends, and the applet polls and makes its tenth.  Nothing
\* is fair about what the engine awaits.
FairSpec ==
    /\ Spec
    /\ WF_vars(Engine /\ ~Awaiting) /\ WF_vars(Receive) /\ WF_vars(Installer8)
    /\ \A r \in Runs : WF_vars(AppletUp(r) \/ Poll(r, TRUE))

-----------------------------------------------------------------------------
(* Properties.                                                             *)

Exited == exit \in {"OK", "SOFTWARE"}

\* Every variable has its type: the channel is far from its capacity of 32, and an applet that
\* has missed the status file too often or been orphaned twice is gone.
TypeOK ==
    /\ pc \in EngineSteps
    /\ verdict \in Terminal \cup {None}
    /\ install \in {None, "succeeded", "failed"}
    /\ renamed \in {"no", "yes"} /\ engaged \in {"no", "yes"} /\ landed \in {"no", "yes"}
    /\ shield \in {"off", "on"}
    /\ chan \in Seq(Statuses) /\ Len(chan) <= 4
    /\ exit \in Exits \cup {None}
    /\ path \in Binaries \cup {None} /\ old \in Binaries \cup {None}
    /\ attempt \in {0} \cup Runs /\ audit \in {0} \cup Runs /\ line \in {"none", "pending"}
    /\ slips \subseteq {"restore", "attempt", "audit"}
    /\ installer \in {"off", "preinstall", "payload", "postinstall", "succeeded", "failed"}
    /\ pipes \in {"closed", "held"}
    /\ status \in {None, "updating", "done"}
    /\ pid \in {0} \cup Runs
    /\ applet \in [Runs -> Applets]
    /\ app \in {"running", "gone"}
    /\ runs \in 0 .. MaxRuns

\* There is always an updater on disk, at its path or at .old: not even a SIGKILL between the
\* rename and the installer, and a run after it, leaves the machine without one.
UpdaterKept == path # None \/ old # None

\* A run that ends by itself leaves an updater at the path if it found one there, and the new
\* one whenever the payload got that far, even when the install failed after it.
NewBinaryKept ==
    Exited /\ "restore" \notin slips =>
        (renamed = "yes" => path # None) /\ (landed = "yes" => path = "new")

\* Whoever reads a terminal status finds it in the attempt file, though the process exits as soon
\* as it has printed it, and the exit code agrees with it.  The line for the audit log was handed
\* over before that, which is all: the process can exit before the thread has written it.
RecordedFirst ==
    Exited /\ pc # "idle" =>
        /\ "attempt" \notin slips => attempt = runs
        /\ "audit" \notin slips => audit = runs \/ line = "pending"
        /\ exit = "OK" <=> verdict = "Completed"

\* No termination signal ends the updater between loader::show and the records: it leaves no
\* window, no renamed binary and no installer behind.
TerminatedEarly ==
    exit = "Terminated" => engaged = "no" /\ renamed = "no" /\ installer = "off"

\* The loader window closes: when it is dismissed, when it comes up after that, and when the
\* updater is killed; unless the engine awaits one of the others for ever.
WindowCloses ==
    []<>~Awaiting => \A r \in Runs : applet[r].at = "open" ~> applet[r].at = "off"

\* A run that does not await one of the others for ever prints a terminal status and exits,
\* whatever the install scripts leave behind with the installer's pipes.
RunEnds == []<>~Awaiting => (Running ~> ~Running)

=============================================================================
