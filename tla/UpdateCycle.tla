---------------------------- MODULE UpdateCycle ----------------------------
(***************************************************************************)
(* One `check-update` or `update` after the other on a macOS install, while *)
(* releases are published: the version file is read, the manifest fetched   *)
(* from the channel's host, its release gated, and installer(8) run with    *)
(* the choices pinned (main.rs, update/mod.rs, manifest.rs and choices.rs   *)
(* of gnosis_vpn-update).  The artifact download is module Download's, the  *)
(* engine's records, binary and window are module Updater's.                *)
(***************************************************************************)
EXTENDS Naturals, Sequences, Versions

CONSTANTS
    Manifests,   \* what the publisher publishes over time, first to last
    FirstInstalls,  \* the versions that may be installed at first
    Durations, RequestTimeout, Delays, MaxTimes, Budget, AppTimeout,
    MaxManual    \* bound: installs by hand

ASSUME ManifestsAssumption ==
    /\ Manifests \in Seq([Channels -> Releases \cup {None}]) /\ Manifests # << >>
    /\ \A n \in DOMAIN Manifests : \A c \in Channels :
          Manifests[n][c] # None => ChannelOf(Manifests[n][c].version) = c
    /\ FirstInstalls \subseteq Versions /\ None \notin EndsOfLife
ASSUME TimesAssumption ==
    /\ RequestTimeout \in Nat /\ Durations \subseteq 0 .. RequestTimeout
ASSUME DelaysAssumption ==  \* factor 2; the last one is not used
    /\ MaxTimes \in Nat /\ Delays \in [1 .. (MaxTimes + 1) -> Nat]
    /\ \A n \in 1 .. MaxTimes : Delays[n + 1] = 2 * Delays[n]
ASSUME BudgetAssumption ==  \* BUDGET is 60 s and the app waits for 75 s
    Budget \in Nat /\ AppTimeout \in Nat /\ Budget < AppTimeout
ASSUME ManualAssumption == MaxManual \in Nat

VARIABLES
    origin,     \* the manifest that the publisher's own host serves
    gateway,    \* the one that the ENS gateway serves
    installed,  \* the version file
    job,        \* the running command
    fetch,      \* its manifest fetch
    outcome,    \* what the last command reported, history: of which version and manifest
    manual      \* installs by hand so far

vars == <<origin, gateway, installed, job, fetch, outcome, manual>>

F == INSTANCE ManifestFetch
C == INSTANCE Choices WITH Undetected <- None

ASSUME UndetectedAssumption ==  \* "nothing there" is nothing that may be on disk
    None \notin C!Members(C!NetworkIds) \cup C!Members(C!LoglevelIds) \cup {"custom", "file"}

\* given: whether --channel was; current: the version file when the command began.
Idle == [at |-> "idle", channel |-> "stable", given |-> FALSE, current |-> None, got |-> 0,
         allow |-> FALSE]

\* For a check also what it was about.
Nothing == [report |-> "none", end_of_life |-> None, current |-> None, got |-> 0]

At(here) == job.at = here

\* base_url
Served(channel) == IF channel = "stable" THEN gateway ELSE origin

Manifest == Manifests[job.got]
Release == Manifest[job.channel]

Report(result) == outcome' = result /\ job' = Idle /\ fetch' = F!Off

Ended(what) == Report([Nothing EXCEPT !.report = what])

-----------------------------------------------------------------------------
(* run_check and run_update up to the manifest.                             *)

\* Without a version file or a client the command fails at once.
CannotBegin ==
    /\ At("idle") /\ Ended("Failed")
    /\ UNCHANGED <<origin, gateway, installed, manual>>

\* Mutant of Begin: without --channel stable is taken.
BeginStable(channel, given) ==
    /\ At("idle") /\ (given \/ channel = "stable")
    /\ job' = [Idle EXCEPT !.at = "fetch", !.channel = channel, !.given = given,
                           !.current = installed]
    /\ fetch' = F!Start
    /\ outcome' = Nothing
    /\ UNCHANGED <<origin, gateway, installed, manual>>

\* Without --channel the installed version's own is taken.
Begin(channel, given) ==
    /\ At("idle") /\ (given \/ channel = ChannelOf(installed))
    /\ job' = [Idle EXCEPT !.at = "fetch", !.channel = channel, !.given = given,
                           !.current = installed]
    /\ fetch' = F!Start
    /\ outcome' = Nothing
    /\ UNCHANGED <<origin, gateway, installed, manual>>

\* The manifest is the one that is served when its file is fetched.
FetchStep ==
    /\ At("fetch") /\ ~F!At("off") /\ F!Step
    /\ job' = [job EXCEPT !.got = IF fetch.file = "manifest" /\ fetch'.file = "signature"
                                  THEN Served(job.channel) ELSE @]
    /\ UNCHANGED <<origin, gateway, installed, outcome, manual>>

NoManifest ==
    /\ At("fetch") /\ F!At("off") /\ fetch.outcome # "Fetched"
    /\ Ended(IF fetch.outcome = "Integrity" THEN "IntegrityError" ELSE "Error")
    /\ UNCHANGED <<origin, gateway, installed, manual>>

Fetched == At("fetch") /\ F!At("off") /\ fetch.outcome = "Fetched"

\* The rest of check.
Check ==
    /\ Fetched
    /\ Report([report |-> CheckOutcome(Manifest, job.current, job.channel),
               end_of_life |-> EndOfLifeFor(Manifest, job.current),
               current |-> job.current, got |-> job.got])
    /\ UNCHANGED <<origin, gateway, installed, manual>>

\* Mutant of Passes: --allow-downgrade has no effect on the gate.
PassesOlder(allow) ==
    /\ Release # None
    /\ Installable(EnsureInstallable(Release, job.current, job.channel, TRUE))

Passes(allow) ==
    /\ Release # None
    /\ Installable(EnsureInstallable(Release, job.current, job.channel, allow))

\* drive_engine: no release or a gate ends the update.
Refuse(allow) ==
    /\ Fetched
    /\ ~Passes(allow)
    /\ Ended("Failed")
    /\ UNCHANGED <<origin, gateway, installed, manual>>

Accept(allow) ==
    /\ Fetched /\ Passes(allow)
    /\ job' = [job EXCEPT !.at = "install", !.allow = allow]
    /\ UNCHANGED <<origin, gateway, installed, fetch, outcome, manual>>

-----------------------------------------------------------------------------
(* The download and installer(8).                                           *)

\* The choices that installer(8) is given are module Choices's.
Install ==
    /\ At("install")
    /\ installed' = Release.version
    /\ Ended("Completed")
    /\ UNCHANGED <<origin, gateway, manual>>

\* An installer that fails may have installed the payload before, and one whose updater is killed
\* goes on alone: it is as good as done with it.
PayloadLandsOrNot == installed' \in {installed, Release.version}

InstallFails ==
    /\ At("install") /\ PayloadLandsOrNot /\ Ended("Failed")
    /\ UNCHANGED <<origin, gateway, manual>>

Killed ==
    /\ ~At("idle") /\ Ended("Killed")
    /\ IF At("install") THEN PayloadLandsOrNot ELSE UNCHANGED installed
    /\ UNCHANGED <<origin, gateway, manual>>

-----------------------------------------------------------------------------
(* The publisher, the gateway and the user.                                 *)

Publish ==
    /\ origin < Len(Manifests) /\ origin' = origin + 1
    /\ UNCHANGED <<gateway, installed, job, fetch, outcome, manual>>

\* The gateway lags behind the origin.
GatewaySyncs ==
    /\ gateway < origin /\ gateway' = gateway + 1
    /\ UNCHANGED <<origin, installed, job, fetch, outcome, manual>>

Published == {Manifests[nc[1]][nc[2]].version : nc \in
                 {nc \in (1 .. origin) \X Channels : Manifests[nc[1]][nc[2]] # None}}

\* A package that was published at some time is installed by hand.
InstallByHand ==
    /\ manual < MaxManual /\ manual' = manual + 1
    /\ installed' \in Published
    /\ UNCHANGED <<origin, gateway, job, fetch, outcome>>

Init ==
    /\ origin = 1 /\ gateway = 1
    /\ installed \in FirstInstalls
    /\ job = Idle /\ fetch = F!Off /\ outcome = Nothing /\ manual = 0

Next ==
    \/ CannotBegin \/ \E c \in Channels : Begin(c, FALSE)
    \/ \E c \in Channels \ {ChannelOf(installed)} : Begin(c, TRUE)  \* else as without
    \/ FetchStep \/ NoManifest \/ Check
    \/ \E allow \in BOOLEAN : Refuse(allow) \/ Accept(allow)
    \/ Install \/ InstallFails \/ Killed
    \/ Publish \/ GatewaySyncs \/ InstallByHand

Spec == Init /\ [][Next]_vars

-----------------------------------------------------------------------------
(* Fairness: commands go on and the gateway catches up; whoever runs a      *)
(* plain `update` repeats it, and neither its fetch nor installer(8) fails  *)
(* every time.                                                              *)

FileFetched(file) ==
    /\ fetch.file = file /\ ~job.given /\ FetchStep
    /\ fetch'.file # file \/ fetch'.outcome = "Fetched"

FairSpec ==
    /\ Spec
    /\ WF_vars(FetchStep) /\ WF_vars(NoManifest)
    /\ WF_vars(Check \/ \E allow \in BOOLEAN : Refuse(allow) \/ Accept(allow))
    /\ WF_vars(GatewaySyncs)
    /\ SF_vars(\E c \in Channels : Begin(c, FALSE))
    /\ SF_vars(FileFetched("manifest")) /\ SF_vars(FileFetched("signature"))
    /\ SF_vars(Accept(FALSE)) /\ SF_vars(Install)

-----------------------------------------------------------------------------
(* Properties.                                                             *)

CycleTypeOK ==
    /\ gateway \in 1 .. origin /\ origin \in DOMAIN Manifests
    /\ installed \in FirstInstalls \cup Published
    /\ job.at \in {"idle", "fetch", "install"}
    /\ job.channel \in Channels /\ job.got \in 0 .. origin
    /\ F!TypeOK
    /\ manual \in 0 .. MaxManual

\* ManifestFetch's properties, whatever command the fetch is part of: the app, which gives a
\* check 75 s (manifest.rs BUDGET), gets an answer,
AnswersInTime == F!AnswersInTime

\* and quick failures never use up the budget.
TimedOutOnlySlow == F!TimedOutOnlySlow

ByUpdate == At("install") /\ manual' = manual

\* The gates hold for what is installed in the end, with a gateway that lags behind what the
\* origin or a user has installed before, and with an installer that fails or outlives the
\* command: within a channel and without --allow-downgrade an update only installs a version
\* newer than the one it found when it began, in the code's own order.
NeverOlder ==
    [][ByUpdate /\ installed' # installed /\ ~job.allow /\ ChannelOf(job.current) = job.channel
       => Less(job.current, installed')]_vars

\* An update without --channel leaves the install on the channel it came from (README).
StaysOnChannel ==
    [][ByUpdate /\ installed' # installed /\ ~job.given
       => ChannelOf(installed') = ChannelOf(job.current)]_vars

\* end_of_life_for is fair to every install: a version for which a check reports an end of
\* life is told the earliest one that names it, and no older one of its channel would be told
\* a later one or none.
EndOfLifeMonotone ==
    outcome.report \in {"Available", "UpToDate"} =>
        LET manifest == Manifests[outcome.got]
            current == outcome.current
            Ends(v) == EndOfLifeFor(manifest, v)
            own == manifest[ChannelOf(current)]
            EndsBy(v, ends) == Ends(v) # None /\ Ends(v).ends_at <= ends
        IN
        /\ \A e \in IF own = None THEN {} ELSE own.end_of_life :
              e.version = current => EndsBy(current, e.ends_at)
        /\ Ends(current) # None =>
              \A v \in FirstInstalls \cup Published :
                  ChannelOf(v) = ChannelOf(current) /\ ~Less(current, v)
                  => EndsBy(v, Ends(current).ends_at)

\* README: "a CLI-driven update never flips a rotsee install back to the package default":
\* whatever is on disk when an update runs installer(8), a config.toml that is the user's own
\* file or links to one of the package's networks is the same afterwards, with any other link or
\* none it is the network recorded, and the recorded log level survives as well.
ChoicesKept ==
    At("install") =>
        \A before \in C!Installs :
            LET after == C!Installed(before) IN
            /\ before.link \in C!Members(C!NetworkIds) \cup {"file"} => after.link = before.link
            /\ before.link \in {"custom", None} /\ C!DetectNetwork(before) # None =>
                  after.link = before.network_choice
            /\ C!DetectLoglevel(before) # None => after.loglevel_choice = before.loglevel_choice

Newest(v) ==
    LET release == Manifests[Served(ChannelOf(v))][ChannelOf(v)] IN
    release = None \/ ~Less(v, release.version) \/ Less(v, release.min_app_version)

\* Repeating `update` gets every install to the newest release of its channel that its
\* version is allowed, however the gateway lags and whatever else is installed meanwhile.
CatchesUp == <>[]Newest(installed)
=============================================================================
