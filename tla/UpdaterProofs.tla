--------------------------- MODULE UpdaterProofs ---------------------------
(***************************************************************************)
(* The invariants of Updater for every number of runs and every number of   *)
(* polls: `update` is never lost, and what it reports is what it did.       *)
(***************************************************************************)
EXTENDS UpdaterRefines, SequenceTheorems, TLAPS

Unshielded == {"checking", "check", "downloading", "download", "verify", "choices", "shield"}
BeforeInstall == Unshielded \cup {"show", "launch", "opening", "installing", "aside", "spawn"}
Reporting == {"persist", "audit", "send", "end"}

\* How many statuses a run has sent at most.
Sent ==
    CASE pc = "checking" -> 0
      [] pc \in {"check", "downloading"} -> 1
      [] pc \in {"idle", "end"} -> 4
      [] OTHER -> 3

TypeInv ==
    /\ TypeOK
    /\ Len(chan) <= Sent
    /\ pc \in {"download", "verify", "choices", "shield", "show", "launch", "opening",
              "installing"} => Len(chan) <= 2
    /\ Running => runs \in Runs

\* Nothing is installed before the installer runs, and it runs while somebody waits for it.
InstallInTurn ==
    /\ pc \in BeforeInstall => installer = "off" /\ install = None /\ landed = "no"
    /\ Running => installer = "off" \/ pc = "wait"

\* An installer that got past the payload has left a binary at the path.
PayloadStays ==
    /\ installer \in {"postinstall", "succeeded"} \/ install = "succeeded" => path # None
    /\ landed = "yes" => path = "new"

\* From loader::show to the records a run is shielded.
ShieldInTime ==
    /\ pc \in Unshielded => engaged = "no" /\ renamed = "no"
    /\ pc = "idle" => renamed = "no"
    /\ Running /\ shield = "off" =>
          engaged = "no" /\ renamed = "no" /\ pc \in Unshielded \cup Reporting

\* finish has been called by the time the run cleans up or records.
Finished ==
    pc \in {"probe", "cleanup"} \cup Reporting /\ renamed = "yes" /\ "restore" \notin slips => path # None

\* Only the engine's last status is terminal, and it is the recorded verdict.
ReportInOrder ==
    /\ pc \in Reporting => verdict \in Terminal
    /\ pc \in {"audit", "send", "end"} /\ "attempt" \notin slips => attempt = runs
    /\ pc \in {"send", "end"} /\ "audit" \notin slips => audit = runs \/ line = "pending"
    /\ Running => \A i \in 1 .. Len(chan) :
          chan[i] \in Terminal => pc = "end" /\ chan[i] = verdict
    /\ Exited /\ pc # "idle" => pc = "end" /\ (exit = "OK" <=> verdict = "Completed")

BinariesInv ==
    InstallInTurn /\ PayloadStays /\ UpdaterKept /\ ShieldInTime /\ TerminatedEarly /\ Finished

-----------------------------------------------------------------------------
(* Type correctness.                                                       *)

LEMMA Appended ==
    ASSUME TypeInv, NEW s \in Statuses, Send(s)
    PROVE  /\ chan' \in Seq(Statuses) /\ Len(chan') = Len(chan) + 1
           /\ \A i \in 1 .. Len(chan') : chan'[i] = IF i = Len(chan) + 1 THEN s ELSE chan[i]
  BY DEF Send, TypeInv, TypeOK

LEMMA ClosedTyped == Closed \in Applets
  BY BoundsAssumption DEF Closed, Applets

LEMMA InitTyped == Init => TypeInv
<1>. SUFFICES ASSUME Init PROVE TypeInv
  OBVIOUS
<1>1. applet \in [Runs -> Applets]
  BY ClosedTyped DEF Init
<1>2. chan \in Seq(Statuses) /\ Len(chan) = 0
  BY EmptySeq DEF Init
<1>. QED
  BY <1>1, <1>2, BoundsAssumption, NoneAssumption
     DEF Init, TypeInv, TypeOK, Sent, EngineSteps, Running, Exits, Binaries

\* The engine's steps that neither send nor open or close a window.
QuietStep ==
    \/ Check \/ DownloadArtifact \/ VerifySha256 \/ WriteChoiceChanges
    \/ ShieldFromTermination \/ SkipLoader \/ LoaderLaunched \/ Engage \/ SpawnInstaller
    \/ InstallerReturned \/ Drain \/ SignalDone \/ Settle \/ Probe \/ RemoveLeftovers \/ PersistAttempt \/ AuditLog

LEMMA QuietTyped == ASSUME TypeInv, QuietStep PROVE TypeInv'
<1>. USE DEF TypeInv, TypeOK, Sent, At, Goto, Running, records, window, world, binaries
<1>1. CASE Check \/ DownloadArtifact \/ VerifySha256 \/ WriteChoiceChanges
  BY <1>1 DEF Check, DownloadArtifact, VerifySha256, WriteChoiceChanges, Resolve, Fails,
     EngineSteps, Stages, Terminal
<1>2. CASE ShieldFromTermination \/ SkipLoader \/ LoaderLaunched \/ Probe
  BY <1>2 DEF ShieldFromTermination, SkipLoader, LoaderLaunched, Probe, EngineSteps
<1>3. CASE Engage
  BY <1>3 DEF Engage, EngineSteps
<1>4. CASE SpawnInstaller \/ InstallerReturned \/ Drain
  BY <1>4 DEF SpawnInstaller, InstallerReturned, Drain, DrainWhen, EngineSteps
<1>5. CASE SignalDone
  BY <1>5 DEF SignalDone, EngineSteps
<1>6. CASE Settle
  BY <1>6 DEF Settle, SettleWith, FinishSuccess, FinishFailure, Slip, EngineSteps, Terminal, Stages
<1>7. CASE RemoveLeftovers
  BY <1>7 DEF RemoveLeftovers, EngineSteps, Terminal
<1>8. CASE PersistAttempt \/ AuditLog
  BY <1>8 DEF PersistAttempt, AuditLog, Slip, EngineSteps
<1>. QED
  BY <1>1, <1>2, <1>3, <1>4, <1>5, <1>6, <1>7, <1>8 DEF QuietStep

LEMMA SendTyped ==
    ASSUME TypeInv, SendChecking \/ SendDownloading \/ SendInstalling \/ SendTerminal,
           pc = "send" => verdict \in Terminal
    PROVE  TypeInv'
<1>. DEFINE s == CASE pc = "checking" -> "Checking" [] pc = "downloading" -> "Downloading"
                   [] pc = "installing" -> "Installing" [] OTHER -> verdict
<1>1. s \in Statuses /\ Send(s) /\ Len(chan) <= 3
  BY DEF SendChecking, SendDownloading, SendInstalling, SendTerminal, At, Statuses, TypeInv, Sent
<1>2. chan' \in Seq(Statuses) /\ Len(chan') = Len(chan) + 1
  BY <1>1, Appended
<1>. QED
  BY <1>2 DEF SendChecking, SendDownloading, SendInstalling, SendTerminal, At, Goto, TypeInv,
     TypeOK, Sent, Running, records, window, world, binaries, EngineSteps

LEMMA PolledTyped ==
    ASSUME NEW a \in Applets, NEW known \in {0} \cup Runs, NEW misses \in 0 .. (MaxMisses - 1),
           NEW strikes \in {0, 1}, NEW gone \in {"no", "yes"}
    PROVE  [a EXCEPT !.updaterPid = known, !.misses = misses, !.strikes = strikes,
                     !.sawAppGone = gone] \in Applets
  BY DEF Applets

\* An applet that polls on has not missed too often and not been orphaned twice.
LEMMA PollTyped ==
    ASSUME applet \in [Runs -> Applets], pid \in {0} \cup Runs,
           NEW r \in Runs, NEW tenth \in BOOLEAN, Poll(r, tenth)
    PROVE  applet' \in [Runs -> Applets]
<1>. DEFINE a == applet[r]
<1>. DEFINE known == IF a.updaterPid = 0 /\ status = "updating" THEN pid ELSE a.updaterPid
<1>. DEFINE misses == IF status = None THEN a.misses + 1 ELSE 0
<1>. DEFINE strikes == IF ~tenth \/ known = 0 THEN a.strikes
                       ELSE IF Orphaned(known) THEN a.strikes + 1 ELSE 0
<1>. DEFINE gone == IF app = "gone" THEN "yes" ELSE a.sawAppGone
<1>. DEFINE next == [a EXCEPT !.updaterPid = known, !.misses = misses, !.strikes = strikes,
                              !.sawAppGone = gone]
<1>1. a \in Applets
  OBVIOUS
<1>2. known \in {0} \cup Runs /\ misses \in Nat /\ strikes \in Nat
      /\ gone \in {"no", "yes"}
  BY <1>1, BoundsAssumption DEF Applets
<1>. DEFINE close == \/ status = "done" \/ misses >= MaxMisses
                     \/ app = "running" /\ a.sawAppGone = "yes"
                     \/ strikes >= 2
<1>3. applet' = [applet EXCEPT ![r] = IF close THEN Closed ELSE next]
  BY DEF Poll, PollWith
<1>5. ~close => ~(misses >= MaxMisses) /\ ~(strikes >= 2)
  OBVIOUS
<1>. HIDE DEF a, known, misses, strikes, gone, close
<1>4. ~(misses >= MaxMisses) /\ ~(strikes >= 2) => next \in Applets
  <2>. SUFFICES ASSUME ~(misses >= MaxMisses), ~(strikes >= 2) PROVE next \in Applets
    OBVIOUS
  <2>1. misses \in 0 .. (MaxMisses - 1) /\ strikes \in {0, 1}
    BY <1>2, BoundsAssumption
  <2>. QED
    BY <1>1, <1>2, <2>1, PolledTyped, Zenon
<1>. QED
  BY <1>3, <1>4, <1>5, ClosedTyped

LEMMA WindowTyped ==
    ASSUME TypeInv, WriteStatus \/ LaunchLoader \/ KillLoader \/ Applet
    PROVE  TypeInv'
<1>. USE DEF TypeInv, TypeOK, Sent, Running
<1>1. CASE WriteStatus \/ LaunchLoader
  <2>1. applet' \in [Runs -> Applets]
    BY <1>1 DEF WriteStatus, LaunchLoader, Applets
  <2>. QED
    BY <1>1, <2>1 DEF WriteStatus, LaunchLoader, At, Goto, records, world, binaries, EngineSteps
<1>2. CASE KillLoader
  <2>1. applet' \in [Runs -> Applets]
    BY <1>2, ClosedTyped DEF KillLoader
  <2>. QED
    BY <1>2, <2>1 DEF KillLoader, At, Goto, records, world, binaries, EngineSteps
<1>3. CASE Applet
  <2>. PICK r \in Runs : AppletUp(r) \/ \E tenth \in BOOLEAN : Poll(r, tenth)
    BY <1>3 DEF Applet
  <2>1. applet' \in [Runs -> Applets]
    <3>1. CASE AppletUp(r)
      BY <3>1 DEF AppletUp, Applets
    <3>2. ASSUME NEW tenth \in BOOLEAN, Poll(r, tenth)
          PROVE  applet' \in [Runs -> Applets]
      BY <3>2, PollTyped
    <3>. QED
      BY <3>1, <3>2
  <2>2. UNCHANGED <<engine, chan, exit, binaries, records, status, pid, world, runs>>
    BY DEF AppletUp, Poll, PollWith
  <2>. QED
    BY <2>1, <2>2 DEF engine, binaries, records, world
<1>. QED
  BY <1>1, <1>2, <1>3

LEMMA ProcessTyped ==
    ASSUME TypeInv, Start \/ CannotStart \/ Receive \/ Terminate \/ Kill
    PROVE  TypeInv'
<1>. USE DEF TypeInv, TypeOK, Sent, Running
<1>1. CASE Start
  BY <1>1, EmptySeq, BoundsAssumption, NoneAssumption
     DEF Start, records, window, world, EngineSteps, Exits, Runs
<1>2. CASE CannotStart
  BY <1>2, BoundsAssumption
     DEF CannotStart, records, window, world, EngineSteps, Exits, Terminal, Stages, Runs
<1>3. CASE Receive
  <2>1. chan' \in Seq(Statuses) /\ Len(chan') = Len(chan) - 1
    BY <1>3, HeadTailProperties DEF Receive
  <2>. QED
    BY <1>3, <2>1 DEF Receive, engine, binaries, records, window, world, Exits
<1>4. CASE Terminate \/ Kill
  <2>1. chan' \in Seq(Statuses) /\ Len(chan') = 0
    BY <1>4, EmptySeq DEF Terminate, Kill, Dies
  <2>2. 0 <= Sent
    OBVIOUS
  <2>. QED
    BY <1>4, <2>1, <2>2
       DEF Terminate, Kill, Dies, engine, binaries, records, window, world, Exits
<1>. QED
  BY <1>1, <1>2, <1>3, <1>4

LEMMA WorldTyped == ASSUME TypeInv, Installer8 \/ UserApp \/ LineWritten PROVE TypeInv'
  BY DEF LineWritten, Slip, TypeInv, TypeOK, Sent, Running, Installer8, Preinstall, Payload, Postinstall,
     InstallerFails, Reaped, Install, UserApp, engine, binaries, records, window, world, Binaries

-----------------------------------------------------------------------------
(* The binaries.                                                           *)

LEMMA InitBinaries == Init => BinariesInv
  BY NoneAssumption DEF Init, BinariesInv, InstallInTurn, PayloadStays, UpdaterKept, ShieldInTime,
     TerminatedEarly, Finished, Unshielded, BeforeInstall, Reporting, Running, Exits, Binaries

LEMMA EngineKeepsBinaries == ASSUME TypeInv, BinariesInv, Engine PROVE BinariesInv'
<1>. USE DEF BinariesInv, InstallInTurn, PayloadStays, UpdaterKept, ShieldInTime, TerminatedEarly,
        Finished, Unshielded, BeforeInstall, Reporting, Running, At, Goto, binaries, records,
        window, world
<1>1. CASE SendChecking \/ SendDownloading \/ SendInstalling \/ SendTerminal
  BY <1>1 DEF SendChecking, SendDownloading, SendInstalling, SendTerminal
<1>2. CASE Check \/ DownloadArtifact \/ VerifySha256 \/ WriteChoiceChanges
  BY <1>2 DEF Check, DownloadArtifact, VerifySha256, WriteChoiceChanges, Resolve, Fails
<1>3. CASE ShieldFromTermination \/ SkipLoader \/ WriteStatus \/ LaunchLoader \/ LoaderLaunched
  BY <1>3 DEF ShieldFromTermination, SkipLoader, WriteStatus, LaunchLoader, LoaderLaunched
<1>4. CASE Engage
  BY <1>4, NoneAssumption DEF Engage
<1>5. CASE SpawnInstaller
  BY <1>5, NoneAssumption DEF SpawnInstaller
<1>6. CASE InstallerReturned \/ Drain
  BY <1>6 DEF InstallerReturned, Drain, DrainWhen
<1>7. CASE SignalDone \/ KillLoader
  BY <1>7 DEF SignalDone, KillLoader
<1>8. CASE Settle
  <2>1. pc = "settle" /\ Running /\ installer = "off" /\ pc' \in {"probe", "persist"}
        /\ UNCHANGED <<install, renamed, engaged, shield, exit, landed, installer>>
    BY <1>8 DEF Settle, SettleWith
  <2>2. path' # None \/ old' # None
    BY <1>8 DEF Settle, SettleWith, FinishSuccess, FinishFailure
  <2>3. path # None => path' = path
    BY <1>8 DEF Settle, SettleWith, FinishSuccess, FinishFailure
  <2>4. renamed = "yes" /\ "restore" \notin slips' => path' # None
    BY <1>8 DEF Settle, SettleWith, FinishSuccess, FinishFailure, Slip
  <2>. QED
    BY <2>1, <2>2, <2>3, <2>4, NoneAssumption DEF Binaries
<1>9. CASE Probe \/ RemoveLeftovers \/ PersistAttempt \/ AuditLog
  BY <1>9 DEF Probe, RemoveLeftovers, PersistAttempt, AuditLog, Slip
<1>. QED
  BY <1>1, <1>2, <1>3, <1>4, <1>5, <1>6, <1>7, <1>8, <1>9 DEF Engine

LEMMA OthersKeepBinaries ==
    ASSUME TypeInv, BinariesInv, Start \/ CannotStart \/ Receive \/ Terminate \/ Kill \/
           Installer8 \/ UserApp \/ LineWritten \/ Applet \/ UNCHANGED vars
    PROVE  BinariesInv'
<1>. USE DEF BinariesInv, InstallInTurn, PayloadStays, UpdaterKept, ShieldInTime, TerminatedEarly,
        Finished, Unshielded, BeforeInstall, Reporting, Running, binaries, records, window, world,
        engine
<1>1. CASE Start \/ CannotStart
  BY <1>1, NoneAssumption DEF Start, CannotStart
<1>2. CASE Receive
  BY <1>2 DEF Receive
<1>3. CASE Terminate \/ Kill
  BY <1>3 DEF Terminate, Kill, Dies
<1>4. CASE Preinstall
  BY <1>4 DEF Preinstall, Install
<1>5. CASE Payload
  BY <1>5, NoneAssumption DEF Payload, Install, Binaries
<1>6. CASE Postinstall
  BY <1>6 DEF Postinstall, Install
<1>7. CASE InstallerFails \/ Reaped
  BY <1>7 DEF InstallerFails, Reaped, Install
<1>8. CASE UserApp \/ LineWritten
  BY <1>8 DEF UserApp, LineWritten, Slip
<1>9. CASE Applet
  <2>1. UNCHANGED <<engine, exit, binaries, world>>
    BY <1>9 DEF Applet, AppletUp, Poll, PollWith
  <2>. QED
    BY <2>1
<1>10. CASE UNCHANGED vars
  BY <1>10 DEF vars
<1>. QED
  BY <1>1, <1>2, <1>3, <1>4, <1>5, <1>6, <1>7, <1>8, <1>9, <1>10 DEF Installer8

-----------------------------------------------------------------------------
(* The report.                                                             *)

\* What was in the channel is still there, or has moved up by one.
LEMMA EngineKeepsReport == ASSUME TypeInv, ReportInOrder, Engine PROVE ReportInOrder'
<1>. USE DEF ReportInOrder, Exited, Reporting, Running, At, Goto, records
<1>1. CASE SendChecking \/ SendDownloading \/ SendInstalling \/ SendTerminal
  <2>1. CASE SendTerminal
    <3>1. verdict \in Statuses /\ Send(verdict) /\ pc = "send"
      BY <2>1 DEF SendTerminal, Statuses
    <3>2. Len(chan) \in Nat /\ Len(chan') = Len(chan) + 1
          /\ \A i \in 1 .. Len(chan') : chan'[i] = IF i = Len(chan) + 1 THEN verdict ELSE chan[i]
      BY <3>1, Appended DEF TypeInv, TypeOK
    <3>. QED
      BY <2>1, <3>1, <3>2 DEF SendTerminal
  <2>2. ASSUME NEW s \in Statuses \ Terminal, Send(s), pc # "end", pc' \notin Reporting,
               UNCHANGED <<verdict, exit, runs>>
        PROVE  ReportInOrder'
    <3>1. Len(chan) \in Nat /\ Len(chan') = Len(chan) + 1
          /\ \A i \in 1 .. Len(chan') : chan'[i] = IF i = Len(chan) + 1 THEN s ELSE chan[i]
      BY <2>2, Appended DEF TypeInv, TypeOK
    <3>. QED
      BY <1>1, <2>2, <3>1 DEF SendChecking, SendDownloading, SendInstalling, SendTerminal
  <2>3. {"Checking", "Downloading", "Installing"} \subseteq Statuses \ Terminal
    BY DEF Statuses, Terminal, Stages
  <2>. QED
    BY <1>1, <2>1, <2>2, <2>3 DEF SendChecking, SendDownloading, SendInstalling
<1>2. CASE Check \/ DownloadArtifact \/ VerifySha256 \/ WriteChoiceChanges
  BY <1>2 DEF Check, DownloadArtifact, VerifySha256, WriteChoiceChanges, Resolve, Fails, Terminal,
     Stages
<1>3. CASE ShieldFromTermination \/ SkipLoader \/ WriteStatus \/ LaunchLoader \/ LoaderLaunched
           \/ Engage
  BY <1>3 DEF ShieldFromTermination, SkipLoader, WriteStatus, LaunchLoader, LoaderLaunched, Engage
<1>4. CASE SpawnInstaller \/ InstallerReturned \/ Drain \/ SignalDone \/ KillLoader
  BY <1>4 DEF SpawnInstaller, InstallerReturned, Drain, DrainWhen, SignalDone, KillLoader
<1>5. CASE Settle
  BY <1>5 DEF Settle, SettleWith, FinishSuccess, FinishFailure, Slip, Terminal, Stages
<1>6. CASE Probe \/ RemoveLeftovers
  BY <1>6 DEF Probe, RemoveLeftovers, Terminal
<1>7. CASE PersistAttempt \/ AuditLog
  BY <1>7 DEF PersistAttempt, AuditLog, Slip
<1>. QED
  BY <1>1, <1>2, <1>3, <1>4, <1>5, <1>6, <1>7 DEF Engine

LEMMA OthersKeepReport ==
    ASSUME TypeInv, ReportInOrder, Start \/ CannotStart \/ Receive \/ Terminate \/ Kill \/
           Installer8 \/ UserApp \/ LineWritten \/ Applet \/ UNCHANGED vars
    PROVE  ReportInOrder'
<1>. USE DEF ReportInOrder, Exited, Reporting, Running, records, engine
<1>1. CASE Start
  <2>1. Len(chan') = 0
    BY <1>1, EmptySeq DEF Start
  <2>. QED
    BY <1>1, <2>1 DEF Start
<1>2. CASE CannotStart
  BY <1>2 DEF CannotStart
<1>3. CASE Receive
  <2>1. Len(chan) \in Nat \ {0} /\ Head(chan) = chan[1]
    BY <1>3, EmptySeq DEF Receive, TypeInv, TypeOK
  <2>2. \A i \in 1 .. Len(chan') : i + 1 \in 1 .. Len(chan) /\ chan'[i] = chan[i + 1]
    BY <1>3, <2>1, HeadTailProperties DEF Receive, TypeInv, TypeOK
  <2>3. exit' \in {"OK", "SOFTWARE"} =>
           Head(chan) \in Terminal /\ (exit' = "OK" <=> Head(chan) = "Completed")
    BY <1>3 DEF Receive, Terminal, Stages
  <2>. QED
    BY <1>3, <2>1, <2>2, <2>3 DEF Receive
<1>4. CASE Terminate \/ Kill
  BY <1>4 DEF Terminate, Kill, Dies
<1>5. CASE Installer8 \/ UserApp
  BY <1>5 DEF Installer8, Preinstall, Payload, Postinstall, InstallerFails, Reaped, Install, UserApp
<1>6. CASE Applet
  BY <1>6 DEF Applet, AppletUp, Poll, PollWith
<1>7. CASE UNCHANGED vars
  BY <1>7 DEF vars
<1>8. CASE LineWritten
  BY <1>8 DEF LineWritten, Slip
<1>. QED
  BY <1>1, <1>2, <1>3, <1>4, <1>5, <1>6, <1>7, <1>8

-----------------------------------------------------------------------------
UpdaterInv == TypeInv /\ BinariesInv /\ ReportInOrder

LEMMA InitReport == Init => ReportInOrder
<1>. SUFFICES ASSUME Init PROVE ReportInOrder
  OBVIOUS
<1>1. Len(chan) = 0
  BY EmptySeq DEF Init
<1>. QED
  BY <1>1, NoneAssumption DEF Init, ReportInOrder, Reporting, Running, Exited, Exits

LEMMA StepKeeps == UpdaterInv /\ [Next]_vars => UpdaterInv'
<1>. SUFFICES ASSUME UpdaterInv, [Next]_vars PROVE UpdaterInv'
  OBVIOUS
<1>1. TypeInv /\ BinariesInv /\ ReportInOrder
  BY DEF UpdaterInv
<1>2. CASE Engine
  <2>1. pc = "send" => verdict \in Terminal
    BY <1>1 DEF ReportInOrder, Reporting
  <2>2. TypeInv'
    BY <1>1, <1>2, <2>1, QuietTyped, SendTyped, WindowTyped DEF Engine, QuietStep
  <2>. QED
    BY <1>1, <1>2, <2>2, EngineKeepsBinaries, EngineKeepsReport DEF UpdaterInv
<1>3. CASE ~Engine
  <2>1. Start \/ CannotStart \/ Receive \/ Terminate \/ Kill \/ Installer8 \/ UserApp
           \/ LineWritten \/ Applet \/ UNCHANGED vars
    BY <1>3 DEF Next
  <2>2. CASE UNCHANGED vars
    <3>1. TypeInv'
      BY <1>1, <2>2 DEF TypeInv, TypeOK, Sent, Running, vars, engine, binaries, records, window,
         world
    <3>. QED
      BY <1>1, <2>2, <3>1, OthersKeepBinaries, OthersKeepReport DEF UpdaterInv
  <2>3. CASE ~UNCHANGED vars
    <3>1. TypeInv'
      BY <1>1, <2>1, <2>3, ProcessTyped, WorldTyped, WindowTyped
    <3>. QED
      BY <1>1, <2>1, <3>1, OthersKeepBinaries, OthersKeepReport DEF UpdaterInv
  <2>. QED
    BY <2>2, <2>3
<1>. QED
  BY <1>2, <1>3

LEMMA UpdaterInvHolds == Spec => []UpdaterInv
<1>1. Init => UpdaterInv
  BY InitTyped, InitBinaries, InitReport DEF UpdaterInv
<1>. QED
  BY <1>1, StepKeeps, PTL DEF Spec

\* Every variable has its type: the channel never holds more than four statuses, and the
\* applet's counters stay below the limits at which it quits (run_update, the applet's loop).
THEOREM UpdaterTyped == Spec => []TypeOK
<1>1. UpdaterInv => TypeOK
  BY DEF UpdaterInv, TypeInv
<1>. QED
  BY <1>1, UpdaterInvHolds, PTL

\* engage, finish_success, finish_failure and an installer that outlives a killed updater never
\* leave the machine without an updater at its path or at .old, over any number of runs.
THEOREM UpdaterIsKept == Spec => []UpdaterKept
<1>1. UpdaterInv => UpdaterKept
  BY DEF UpdaterInv, BinariesInv
<1>. QED
  BY <1>1, UpdaterInvHolds, PTL

\* finish puts the old binary back where no new one has landed, and never over a new one.
THEOREM NewBinaryIsKept == Spec => []NewBinaryKept
<1>1. UpdaterInv => NewBinaryKept
  BY DEF UpdaterInv, BinariesInv, PayloadStays, Finished, ReportInOrder,
     ShieldInTime, NewBinaryKept, Reporting
<1>. QED
  BY <1>1, UpdaterInvHolds, PTL

\* run_engine has written the attempt file before it sends the terminal status that ends the
\* process, and the exit code says what the file says.  The line of the audit log is with the
\* thread that writes it by then, and may still be lost.
THEOREM RecordsComeFirst == Spec => []RecordedFirst
<1>1. UpdaterInv => RecordedFirst
  BY DEF UpdaterInv, ReportInOrder, RecordedFirst
<1>. QED
  BY <1>1, UpdaterInvHolds, PTL

\* shield_from_termination comes before the window, the rename and the installer, and so a run
\* that a signal ends has none of them.
THEOREM TerminatedRunsAreClean == Spec => []TerminatedEarly
<1>1. UpdaterInv => TerminatedEarly
  BY DEF UpdaterInv, BinariesInv
<1>. QED
  BY <1>1, UpdaterInvHolds, PTL
-----------------------------------------------------------------------------
(* Updater implements BinarySwap.                                          *)

\* A new binary that is aside has a new one at the path, if any.
NewOnTop == path # None /\ old = "new" => path = "new"

\* What a step is to the two names and to those who may touch them.
Swaps == [Swap!SwapNext]_(Swap!swapVars)

LEMMA Unmoved == ASSUME UNCHANGED <<installer, exit, path, old>> PROVE NewOnTop => NewOnTop' /\ Swaps
  BY DEF NewOnTop, Swaps, Swap!swapVars, Turn, Running

LEMMA PassedOn ==
    ASSUME UNCHANGED <<path, old>>,
           Turn = "nobody" => Turn' \in {"nobody", "update"}
    PROVE  NewOnTop => NewOnTop' /\ Swaps
<1>1. Turn' \in {"nobody", "update", "installer"}
  BY DEF Turn
<1>. QED
  BY <1>1 DEF NewOnTop, Swaps, Swap!swapVars, Swap!SwapNext, Swap!PassOn

\* At a step of the engine outside the installer's time the turn is the update's.
LEMMA UpdatesTurn ==
    ASSUME UpdaterInv, Running, pc # "wait", UNCHANGED <<installer, exit>>
    PROVE  Turn = "update" /\ Turn' = "update"
  BY DEF UpdaterInv, BinariesInv, InstallInTurn, Turn, Running

LEMMA EngineSwaps == ASSUME UpdaterInv, NewOnTop, Engine PROVE NewOnTop' /\ Swaps
<1>. USE DEF At, Goto, records, window, world, binaries
<1>1. CASE SendChecking \/ SendDownloading \/ SendInstalling \/ SendTerminal
  BY <1>1, Unmoved DEF SendChecking, SendDownloading, SendInstalling, SendTerminal
<1>2. CASE Check \/ DownloadArtifact \/ VerifySha256 \/ WriteChoiceChanges
  BY <1>2, Unmoved DEF Check, DownloadArtifact, VerifySha256, WriteChoiceChanges, Resolve
<1>3. CASE ShieldFromTermination \/ SkipLoader \/ WriteStatus \/ LaunchLoader \/ LoaderLaunched
  BY <1>3, Unmoved DEF ShieldFromTermination, SkipLoader, WriteStatus, LaunchLoader, LoaderLaunched
<1>4. CASE Engage
  <2>1. CASE UNCHANGED <<path, old>>
    BY <1>4, <2>1, Unmoved DEF Engage
  <2>2. CASE path # None /\ old' = path /\ path' = None
    <3>1. Turn = "update" /\ Turn' = "update"
      BY <1>4, UpdatesTurn DEF Engage
    <3>. QED
      BY <2>2, <3>1 DEF NewOnTop, Swaps, Swap!SwapNext, Swap!SetAside, Swap!Outdated
  <2>. QED
    BY <1>4, <2>1, <2>2 DEF Engage
<1>5. CASE SpawnInstaller \/ InstallerReturned
  <2>1. Turn # "nobody" /\ UNCHANGED <<path, old>>
    BY <1>5 DEF SpawnInstaller, InstallerReturned, Turn, UpdaterInv, TypeInv, TypeOK
  <2>. QED
    BY <2>1, PassedOn
<1>6. CASE Drain \/ SignalDone \/ KillLoader
  BY <1>6, Unmoved DEF Drain, DrainWhen, SignalDone, KillLoader
<1>7. CASE Settle
  <2>1. Turn = "update" /\ Turn' = "update" /\ UNCHANGED <<installer, exit>>
    BY <1>7, UpdatesTurn DEF Settle, SettleWith
  <2>2. UpdaterKept /\ (install = "succeeded" => path # None)
    BY DEF UpdaterInv, BinariesInv, PayloadStays
  <2>3. \/ UNCHANGED <<path, old>>
        \/ path # None /\ UNCHANGED path /\ old' = None
        \/ path = None /\ path' = old /\ old' = None
    BY <1>7, <2>2 DEF Settle, SettleWith, FinishSuccess, FinishFailure
  <2>4. CASE UNCHANGED <<path, old>>
    BY <2>1, <2>4, Unmoved
  <2>5. CASE path # None /\ UNCHANGED path /\ old' = None
    BY <2>1, <2>5, NoneAssumption
       DEF NewOnTop, Swaps, Swap!SwapNext, Swap!Discard, Swap!Outdated, Binaries
  <2>6. CASE path = None /\ path' = old /\ old' = None
    BY <2>1, <2>2, <2>6, NoneAssumption
       DEF NewOnTop, Swaps, Swap!SwapNext, Swap!PutBack, UpdaterKept, Binaries
  <2>. QED
    BY <2>3, <2>4, <2>5, <2>6
<1>8. CASE Probe \/ RemoveLeftovers \/ PersistAttempt \/ AuditLog
  BY <1>8, Unmoved DEF Probe, RemoveLeftovers, PersistAttempt, AuditLog
<1>. QED
  BY <1>1, <1>2, <1>3, <1>4, <1>5, <1>6, <1>7, <1>8 DEF Engine

LEMMA OthersSwap ==
    ASSUME UpdaterInv, NewOnTop, Start \/ CannotStart \/ Receive \/ Terminate \/ Kill \/
           Installer8 \/ UserApp \/ LineWritten \/ Applet \/ UNCHANGED vars
    PROVE  NewOnTop' /\ Swaps
<1>. USE DEF binaries, world
<1>1. CASE Start
  <2>1. UNCHANGED <<path, old, installer>> /\ installer = "off"
    BY <1>1 DEF Start
  <2>2. Turn' \in {"nobody", "update"}
    BY <2>1 DEF Turn
  <2>. QED
    BY <2>1, <2>2, PassedOn
<1>2. CASE CannotStart \/ Receive \/ Terminate \/ Kill \/ Reaped
  <2>1. UNCHANGED <<path, old>> /\ (Running' => Running) /\ installer' \in {installer, "off"}
    BY <1>2 DEF CannotStart, Receive, Terminate, Kill, Dies, Reaped, Running
  <2>2. Turn = "nobody" => Turn' \in {"nobody", "update"}
    BY <2>1 DEF Turn
  <2>. QED
    BY <2>1, <2>2, PassedOn
<1>3. CASE Preinstall \/ Postinstall \/ InstallerFails
  <2>1. UNCHANGED <<path, old>> /\ installer \in {"preinstall", "payload", "postinstall"}
    BY <1>3 DEF Preinstall, Postinstall, InstallerFails, Install
  <2>. QED
    BY <2>1, PassedOn DEF Turn
<1>4. CASE Payload
  <2>1. Turn = "installer" /\ Turn' = "installer" /\ UNCHANGED old
    BY <1>4 DEF Payload, Install, Turn
  <2>. QED
    BY <1>4, <2>1
       DEF Payload, Install, NewOnTop, Swaps, Swap!SwapNext, Swap!Land, Swap!swapVars
<1>5. CASE UserApp \/ LineWritten \/ Applet \/ UNCHANGED vars
  BY <1>5, Unmoved DEF UserApp, LineWritten, Applet, AppletUp, Poll, PollWith, vars
<1>. QED
  BY <1>1, <1>2, <1>3, <1>4, <1>5 DEF Installer8

\* Over any number of runs rename-aside is the swap it means to be: engage sets the binary
\* aside, finish_failure puts it back only where none has landed, finish_success, and finish_failure
\* where one has landed, only discard the copy, and none of them touches a name while an
\* installer(8) is at work, which may have outlived its updater.
THEOREM UpdaterSwapsBinary == Spec => SwapsBinary
<1>1. Init => NewOnTop /\ Swap!SwapInit
  BY NoneAssumption DEF Init, NewOnTop, Swap!SwapInit, Turn, Running, Exits, Binaries
<1>2. UpdaterInv /\ NewOnTop /\ [Next]_vars => NewOnTop' /\ [Swap!SwapNext]_(Swap!swapVars)
  BY EngineSwaps, OthersSwap DEF Next, Swaps
<1>. QED
  BY <1>1, <1>2, UpdaterInvHolds, PTL DEF Spec, SwapsBinary, Swap!SwapSpec
=============================================================================
