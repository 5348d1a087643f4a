# A TLA+ model of the Gnosis VPN toolkit

The toolkit is two command line programs that an installer, a user or the client app runs as
root on a user's machine:

* `gnosis_vpn-migrate` moves the one identity of the old, service-owned layout into a user's
  per-network directories (`identity`), or moves what is in the way aside (`start-clean`),
  rearranges the service's files (`layout`) and uploads logs (`upload-log`);
* `gnosis_vpn-update` checks the manifest (`check-update`) and downloads, verifies and installs a
  macOS package (`update`), which contains the updater itself.

Each run of them is short, and what can go wrong is what happens *between* their steps: a call
that fails after others have succeeded, a process that is killed or a machine that loses power
half-way, a run that is repeated, a server or an installer that does something else meanwhile.
The modules here model those steps and everything that may come between them.

## 1. Inventory

| Component | State | Operations | Interacts with |
|---|---|---|---|
| `identity`, `start-clean` (`gnosis_vpn-migrate/src/{migrate,main,nofollow,layout,user,network}.rs`) | two `networks/` dirs of a user, the legacy home, the plan, replaced names | checks; move aside; stage, copy, read back, marker; publish; undo; move the legacy identity aside, lock down, sweep | the file system, the client and the old service that write the same dirs, the installer that repeats it |
| `layout` (`relocate.rs`, `nofollow.rs`, `main.rs`) | the old and the new place of each item, the report | independent best-effort steps: find, check the destination, remove or rename, sync; remove a tree, remove a dir if it is empty | the current and the previous release, which write meanwhile; the next postinstall |
| `upload-log` (`upload.rs`, `layout.rs`) | the bundle in memory | read the logs, announce, put | the log uploader, the storage, whatever writes the logs |
| artifact download (`gnosis_vpn-update/src/update/{download,mod}.rs`) | the partial file, bytes done, validator, the current outage | request, resume, restart, chunk, drop, give up; size and hash check | a server that may republish; the network |
| install engine (`update/mod.rs`, `main.rs`) | the engine task, the status channel, attempt file, audit log | check, download, verify, shield, install, record, report | the printing task, `installer(8)`, signals, the client app |
| rename-aside (`update/self_update.rs`) | the updater binary and its `.old` name | engage, finish after success, finish after failure | the package payload |
| loader window (`update/loader.rs`, `assets/update-loader.applescript`) | status file, pid, the applet's counters | show, dismiss; the applet's poll | the engine, process lookups, the client app |
| manifest fetch (`manifest.rs`) | attempts and time of the two files | request, retry after a pause, give up, time out | the origin and the gateway that follows it, the app that waits |
| version gates and commands (`update/mod.rs`, `main.rs`) | the version read, the channel | compare versions, infer a channel, end of life, gate, check | the manifest, what is installed |
| installer choices (`update/choices.rs`) | - | detect, render in order | link and choice files, `installer(8)`, the package's scripts |
| command lines, output, logging, paths, package version | - | parse, print | - |

Hard behaviours, and what correctness means there:

* *identity* - no identity file may be lost by any sequence of runs and failures; a failed
  installation puts back what it replaced; a published dir is whole; the legacy identity goes only
  when the new one would survive a power cut; after a success the old key is not readable by the
  service account; whatever a cut-off run leaves behind does not stop the next one for good.
* *download* - no two artifacts are spliced; the offline budget counts one outage and exactly it;
  only the release's bytes come through verification; the download ends where it can.
* *engine, rename-aside, loader* - there is always an updater binary; a newer one is not
  overwritten by the one that was put aside; records precede the report that ends the process; no
  termination signal tears an install apart; the run ends, whoever is left holding the installer's
  pipes, and the window closes.
* *layout* - no item loses its only copy; what is removed is the stale copy; the report is
  complete; one item that cannot be moved does not hold up the others.
* *upload* - a quoted reference names a stored bundle, which is the announced one; nothing travels
  over a weaker scheme of the command's own choice; the command ends.
* *manifest, gates, choices* - there is an answer before the app gives up, and quick failures do
  not use up the time; nothing older gets in unasked; channel, network and log level stay; an end
  of life is reported to everyone it covers; an install that repeats `update` catches up.

`PROJECT.json` lists the hazards line by line with the properties that watch them.

## 2. Modules

| Module | Models | Runs and proofs |
|---|---|---|
| `Migrate` | `identity` and `start-clean` | `MCMigrate*.cfg` |
| `MCMigrate` | the symmetry set, and `FreshSpec` | |
| `MigrateProofs` | | `TypeCorrect` |
| `MigrateSafetyProofs` | | `NothingIsLost` |
| `MigrateInstallProofs` | | `PublishedIsWhole`, `LegacyGoesDurably`, `FailedRunsRestore`, `MigratedIsSecured`, `CleanStart` |
| `IdentityMove` | what `Migrate` promises, without files | |
| `MigrateRefines` | `Migrate` with the mapping to `IdentityMove` | `MCMigrate.cfg` |
| `MigrateRefineProofs` | | `MigrateMovesIdentities` |
| `MigrateBeside`, `MigratePair` | a run beside another one, and two of them | `MCMigratePair.cfg` |
| `Download` | `download_artifact`, `fetch_with_resume`, `verify_sha256` | `MCDownload*.cfg` |
| `MCDownload` | three artifacts and their validators | |
| `ArtifactTransfer` | what `Download` promises the engine, without requests and clocks | |
| `DownloadRefines` | `Download` with the mapping to `ArtifactTransfer` | `MCDownload*.cfg` |
| `DownloadProofs` | | `DownloadTyped`, `GivesUpOnlyOffline`, `OvershootIsBounded`, `NoSplice`, `DownloadTransfers` |
| `Updater` | engine, printing task, rename-aside, loader, applet, `installer(8)` | `MCUpdater*.cfg` |
| `BinarySwap` | what rename-aside promises of the updater binary, without the steps of a run | |
| `UpdaterRefines` | `Updater` with the mapping to `BinarySwap` | `MCUpdater.cfg` |
| `UpdaterProofs` | | `UpdaterTyped`, `UpdaterIsKept`, `NewBinaryIsKept`, `RecordsComeFirst`, `TerminatedRunsAreClean`, `UpdaterSwapsBinary` |
| `Relocate` | `layout` | in `Support` |
| `Upload` | `upload-log` | in `Support` |
| `Support`, `MCSupport` | `Relocate` and `Upload` on one machine | `MCSupport.cfg` |
| `SupportProofs` | | `ItemIsKept`, `SupportTyped`, `LastWriteIsKept`, `FailuresAreListed`, `WholeBundleIsQuoted`, `AnnouncedIsStored`, `PlainIsRedirected` |
| `Versions` | version compare, channels, gates, end of life, the outcome of a check | in `UpdateCycle` |
| `Choices` | installer choices, and what the package does with them | in `UpdateCycle` |
| `ManifestFetch` | the two fetches and their budget | in `UpdateCycle` |
| `UpdateCycle` | `check-update` and `update` again and again, with the three above | `MCUpdateCycle.cfg` |
| `UpdateCycleProofs` | | `CycleTypeCorrect`, `AlwaysInTime`, `OnlySlowTimesOut`, `EndOfLifeFair`, `UpdatesForward`, `UpdatesOnChannel`, `ChoicesAreKept`, `VersionOrder` |

### Migrate

`nets` holds the data and the cache `networks/` dirs, each a function from entry names (the live
`<network>`, a staging name, aside names) to dirs; a dir maps the five file names to the identity
they belong to, to `Absent` or to `Torn`. A timestamped name is a triple of its kind, its
timestamp and the `.n` of `unique_name`. `home` is the legacy home: `.config*` dirs, the PIX
database files and `exposed`, the entries the service account can read. `run` is the one running
command: its step, the plan (`Legacy::plan`), the loop over data and cache, the replaced names
that undo needs, the ownership seen when `.config` was opened. `known`, `run.before` and
`run.failedAt` are history.

Each action is one step that the file system can see, so `Killed` and `PowerCut` fall between any
two. Every step that can fail has a failing twin that takes the code's error path: `MoveAside` and
`MoveAsideFails`, `PublishCache` and `UndoPublish`, and so on; the undo steps may fail as well.
`effort` records whether one of the best-effort steps did.

Durability: an fsync persists its own object and nothing else. `disk[p]` is the set of states that a
power cut may leave of the *entries* of a `networks/` dir: a change adds to it, an fsync of that dir
leaves only the current state. `unsynced[p]` names what is not yet on disk *inside* the dir staged
there: the data of a file until its own `sync_all`, its entry until its dir is synced. A power cut
chooses for each of them (`Partly`), also after the staging dir has been renamed and `networks/` has
been synced: without the fsyncs of `stage` what is published may be torn or empty. `anchored` are the
places whose `networks/` is itself on disk with all its parents. `ensure_dir` syncs no parent, so
a place that this run created stays outside `anchored`, and a power cut may take all of it
(`Left`). The renames of one directory reach the disk in order, the updates of different objects in
any order. `homeDisk` is the same for the legacy home; an fsync of it makes its renames durable, and
says nothing of the owner and mode of a child: those may be lost whenever a power cut comes. That
the staged dir's own owner is on disk is not modelled.

`ClientStart` and `LegacyStart` are the services that generate a new identity between two runs (a
downgrade included), which is how a `Conflict` and a second migration come about.

### IdentityMove and MigrateRefines

`IdentityMove` knows one live identity, one legacy identity and the parked ones. A step begins or
ends a command, generates, parks, puts back, adopts the legacy one, withdraws it again, retires it
or, after a power cut, puts what is held elsewhere. `MigrateRefines` reads these off the files (the
identity of a dir is that of its `hopr.id`), and `MovesIdentities` says that every behaviour of
`Migrate` is one of `IdentityMove`: whatever the file operations do in between, no identity is
dropped or overwritten, and the legacy one is retired only when it is live or for a clean start.

### MigrateBeside and MigratePair

There is no lock. `MigrateBeside` is a run that may find its files moved and its names taken by
another: its steps are those of `Migrate`, guarded with `Alone`, and the ones that only a second
run makes happen (`PublishRefused`, `UndoRefused`, `LegacyGone`, ...). A dir that is open stays
open when it is renamed or removed, so `mine` says what the open dirs of a run are called now; and
`remove_tree` of a dir that the other run is filling is opening, unlinking what was read and rmdir.
`MigratePair` instantiates it twice, with the two runs exchanged.

### Relocate, Upload and Support

Every write gets a number, so a file is the number of its last write, a log dir the set of the
numbers of its entries. `fs.old` and `fs.new` are the two places of each item. An action is one
system call that others can see: a `Move` step is `FindSource`, `CheckDestination`, then
`RemoveStale`, or `RenameAcross` with `SyncNew` and `SyncOld` after it; between them either release
may write. `blocked` is an item with a symlink planted in its path, which fails its step in every
run. The history `stray` is what the code gives up by design: an item that the previous release
wrote after the current one, or that the current one wrote between the check and the rename.
`late` are those that the previous release wrote back while the run was going.

`disk` has one set of states for each entry at each place, and a power cut chooses for each by
itself: a rename across two dirs is two updates, and the one that removes may come first.
`anchored` are the items whose new dir is on disk with its parents; a parent that `ensure_dir`
makes is never synced (`LeftNew`). `loose` (history) are the items that were renamed and not yet
synced into an anchored dir. Between the rename and the first sync, and after it in a dir that the
run has made, a power cut can take the item. `ItemKept` excepts these: no doc says otherwise, and
the order of the two syncs is what it does promise.

In `Upload` a log is the number of its lines and the bundle two of these. `upload` is one command:
bundle, announcement, signed URL, stored object. `headOn` and `bundleOn` are the schemes over which
the two bodies travelled. The client follows redirects (`RedirectPost`, `RedirectPut`), from https to
http too: on 307 and 308 (`keeps`) it sends the body again, else it goes on with a GET and `sends` is
"nothing". The model lets the head's multipart form be sent again as well; the client's library may
refuse that for a streamed body, so this is more than the code does and never less. `Support` puts
both commands beside each other: every step of `layout` and every other command may append to
`migrate.log`, and `updates.log` is bundled from the place to which `layout` moves it. The two
commands do not overlap there.

### Versions, Choices, ManifestFetch and UpdateCycle

`Versions` takes a version apart into numbers and words, as the code does; a number above `MaxU64`
parses to 0. `Choices` has the code's detection and the order of its choice changes, and,
external, what `installer(8)` and the package's scripts make of them. `ManifestFetch` counts
seconds: a request takes one of `Durations`, or `RequestTimeout` and fails; the pauses are the
sequence `Delays`, each twice the one before; the budget ends the fetch wherever it is.
`UpdateCycle` runs one command after the other: the version file is read (`job.current`), the
fetch is stepped, the manifest is the one its host serves when that file arrives, the release is
gated and installed, while the publisher publishes, the gateway lags and the user installs by
hand. An installer that fails, or whose updater is killed, may have installed the payload
(`PayloadLandsOrNot`). Download and installer bookkeeping are `Download`'s and `Updater`'s.

### Download

Byte `i` of artifact `v` is `<<v, i>>`, so a splice is visible. `served` is the artifact that the
URL serves; `Republish` changes it at any time, to a later one unless `Rollback`. Time is counted
in retry intervals: every await takes up to its timeout, `outage` is the time since the first
failure of this drop, `silent` (history) the time since the last body byte. `RangeHolds` is what a
server does with `Range` and `If-Range`.

### ArtifactTransfer and DownloadRefines

`ArtifactTransfer` is the download as the engine sees it: a stage, the file and how it ended. The
file grows by the next byte of the one artifact it is a beginning of, or starts over; it is handed to
the hash check when it is whole or as long as the release, and let through when it is the release.
`DownloadRefines` reads the stage off `pc` and the outcome off `result`; requests, waits, retries,
publications and the changes of the counters are stutters. `OneArtifact` is about
states; `TransfersArtifacts` adds what is about steps: a byte that is there is not overwritten, and
only a file that is whole, or as long as the release, is handed on.

### Updater

`pc` is the engine task, `chan` the channel to the task that prints the statuses and exits the
process as soon as it has printed a terminal one; `exit` is how the process ended. `path` and
`old` are the updater binaries on disk, `installer` the phases of `installer(8)`, which goes on
when the updater is killed. `applet[r]` are the local variables of the loader applet that run `r`
started; `status` and `pid` its file. The manifest check and the download succeed or fail here:
what the download does is `Download`'s.

`AuditLog` only hands its line to tokio's blocking thread (`line = "pending"`): `write_all` on a
tokio `File` returns before the write, and nothing flushes. `LineWritten` appends it if the
process still runs. When `installer(8)` has exited, processes of the install scripts may hold its
`pipes`; `Drain` waits for their end or for `DRAIN_CAP`. `Awaiting` are the steps at which the
engine waits for somebody without a deadline: the download, `stat`, `ditto`, `su`, `pgrep` and
`pkill` around the loader, and the version probe of the new binary.

### BinarySwap and UpdaterRefines

`BinarySwap` knows the two names of the updater binary and whose turn it is to touch them. An
update sets the running binary aside, puts it back where nothing has come, or discards it; an
installer lands a new one. `UpdaterRefines` gives the turn to `installer(8)` while its scripts and
its payload run, else to the update that runs. `SwapsBinary` says that nothing else ever happens
to the two names, over several runs: `engage` after a killed run overwrites an `.old` only when
there is a binary at the path no older than it, and `finish` does not run beside an installer.

## 3. Runs

| Run | Instance | Shows |
|---|---|---|
| `migrate_safety` | 3 identities, 1 failure, symmetry | `NothingLost`, `PublishedWhole`, `InstalledIsDurable`, `MovesIdentities`, `FailureRestores`, `LegacySecured`, `StartsClean`, `TypeOK` |
| `migrate_recovery` | 1 identity, 2 failures, fairness | `EventuallyMigrated` |
| `download` | 3 artifacts, fairness | `OneArtifact`, `GaveUpOnlyOffline`, `OvershootBounded`, `TransfersArtifacts`, `DownloadEnds` |
| `updater_safety` | 2 runs | `UpdaterKept`, `NewBinaryKept`, `RecordedFirst`, `TerminatedEarly`, `SwapsBinary`, `TypeOK` |
| `updater_live` | 1 run, fairness | `WindowCloses`, `RunEnds` |
| `support` | 1 write, 1 failure, 1 choice file, both platforms, fairness | `ItemKept`, `LastWriteKept`, `FailuresListed`, `OthersRelocated`, `QuotedIsStored`, `StoredAsAnnounced`, `PlainOnlyByRedirect`, `UploadEnds`, `SupportTypeOK` |
| `update_cycle` | 2 generations of manifests, 1 install by hand, fairness | `AnswersInTime`, `TimedOutOnlySlow`, `EndOfLifeMonotone`, `ChoicesKept`, `NeverOlder`, `StaysOnChannel`, `CatchesUp`, `CycleTypeOK` |

Five more runs look for a violation and find it: see Findings.

Deadlock is checked in every run but `migrate_pair`, where both processes run one command and
stop. For each property `PROJECT.json` names a mutant, a version of one action
with a plausible bug in it, that makes the property fail in the same run; the mutants stand before
the definition they mutate.

### Bounds, and why they are enough

* `Migrate`: one timestamp, which is the hard case: all runs fall into the same second, so that
  aside and staging names collide; with different timestamps they cannot. Each identity is
  generated once, so the four names of a kind (`MaxSuffix = 3`) are never all taken: the run would
  deadlock in `MoveAside`. Three identities are the legacy one, the client's own and that of a
  service brought back by a downgrade, so two can be replaced one after the other. With one
  identity two failures are possible, so that the undo of a failure fails, or the rerun after a
  crash is cut off as well; what is in the way there is what such a run has left of the same
  identity (`Conflict` after a crash between the renames). `migrate_safety` is too large for all
  of `Init` and starts from `FreshSpec`: no networks/ dir is there yet (they come, durably, with
  the first client, or with a run that does not sync the parents), and the legacy home has both
  the passphrase and the safe file or neither. `migrate_recovery` and the theorems have all of
  `Init`.
* `Download`: sizes 2, 3 and 3 give a shorter artifact, one of the same size as the release, a
  range past the end (416) and enough bytes for two drops. The budget of 3 with a send timeout of
  2 and a read timeout of 1 has an attempt that must be shortened to the remaining budget and a
  stalled body that overshoots it. All validators differ. Without any validator the code resumes
  without `If-Range`; two artifacts can then be spliced and only the hash check notices, which the
  code accepts and this run leaves out.
* `MigratePair`: each process runs one command, in the same second, with two identities and no
  failing call: what goes wrong there is due to the other run alone. A run's checks are one step.
  Two runs in different seconds are not among the runs: they share no staging name, but the
  instance is too large to finish.
* `Support`: one write and one failure are enough for a write at every step and a failure at every
  step; the second write that `LastWriteKept` needs is the one the upgrade starts with. The three
  files of the installer dir are handled alike, and one stands for them (`Choices`). A bundle may
  be shorter than, as long as, or longer than the head (`HeadSize = 1`). What became of an upload
  is forgotten when the next `layout` begins. The whole of `SupportSpec` is too large to finish,
  so the run takes `QuietUploads`: while there is an upload, or a result of one, nothing has
  failed in `layout`, nothing is planted and the power stays on, and the platform is the one with
  two logs. `layout` itself meets every failure on both platforms. The theorems are about
  `SupportSpec`.
* `UpdateCycle`: the timing constants are the code's own (30 s, pauses from 1 s doubled 4 times,
  60 s, the app's 75 s). A request takes 0 s or 30 s: five quick failures of each file, a fetch
  cut off by the budget in a request and in a pause, and one that ends exactly at the deadline are
  all in. `MaxU64 = 10` makes the 12 of a first install overflow. The two generations hold a
  stable release that needs the one before it, snapshot builds with `+build.`, an experimental
  channel that appears later and ends of life in several channels. One install by hand moves to
  any published version.
* `Updater`: two runs, so that the second meets a binary, a status file, an applet and records
  left by the first. `MaxMisses = 2` stands for the applet's 10. For liveness one run: `MaxRuns`
  bounds how often the updater is started, and the applets of different runs share the status file
  only.

### Fairness

* `Migrate`: a started run goes on (`WF(RunStep)`; it is sequential code that waits for nobody),
  and whoever runs the installer repeats `identity --replace` while there is a legacy identity
  (`WF(Rerun)`). Failing calls, kills and power cuts together are bounded by `MaxFaults`; other
  commands and the services come between at will.
* `Download`: `WF(Step)`: the task is scheduled, and each await ends at its timeout at the latest.
  `ranges`, chosen in `Init`, says whether the server honours `Range`. If it does, `DownloadEnds`
  asks for the end of every download; if it ignores it, each drop starts over and each first byte
  renews the budget, so the end is asked for unless the connection drops and comes back for ever.
* `Support`: a started `layout` goes on, and every postinstall starts it again; `upload-log` goes
  on, and its client ends a request after `TIMEOUT`. No server is assumed to answer.
* `UpdateCycle`: commands go on; the gateway catches up; whoever uses plain `update` repeats it,
  and neither the fetch of a file, nor the acceptance without `--allow-downgrade`, nor
  `installer(8)` fails every time (strong fairness, for `CatchesUp` only). Nothing is assumed of
  `--channel`.
* `Updater`: the engine and the printing task are scheduled, `installer(8)` ends, the applet polls
  and its tenth poll, which looks at the pid, comes. Nothing is fair about a step of `Awaiting`,
  nor about the end of the pipes or the thread that writes the audit line. `RunEnds` and
  `WindowCloses` are asked of behaviours in which the engine does not wait in `Awaiting` for ever.
  The check is not among these: the manifest fetch ends by its own budget (`ManifestFetch`). A run
  that is killed is not required to end by itself.

### What is assumed of the outside

`installer(8)` reports success only when the payload is in place; no second run starts while the
installer of a killed one is still going; what a service writes it syncs, with the directories it
had to make; the release profile has `panic = "abort"`, so the engine task cannot die alone and
leave the printing task waiting. The publisher puts versions of a channel into that channel's
entry (`ManifestsAssumption`); the code does not check it. The signature file is fetched and
ignored, as in the code (`verify_and_parse`). The applet's cap of 600 polls is left out:
`WindowCloses` shows that it is not what closes the window.

## 4. Proofs

Every theorem holds for all values of the constants that meet the named assumptions. Its last
step puts three facts together: the initial states satisfy an inductive invariant, each step keeps
it, and it implies what the run checks. The invariants were model-checked before they were proved.

### identity and start-clean

Four modules, each extending the one before, hold for every set of identities, every set of
timestamps, every number of suffixes and of failures. They use the assumptions in `Migrate`:
`StampsAssumption` (timestamps are positive), `BoundsAssumption` (the bounds are naturals),
`AbsentAssumption`, `NotADirAssumption` and `NotANameAssumption` (the markers for "no file" and for
a torn one are no identity, no dir and no name).

* `TypeCorrect`: `Spec => []TypeOK`. `TypeOK` is not inductive: a step that writes into the
  staging dir keeps the type only if that dir is there, and a name is built from the run's
  timestamp. `RunShape` adds both: a run past its checks has a timestamp, and from `copy` to
  `seal` the staging dir of this place exists. `TypeInv == TypeOK /\ RunShape` is inductive.
* `NothingIsLost`: `Spec => []NothingLost`. The inductive invariant is
  `SafetyInv == TypeInv /\ RunInv /\ DiskInv /\ KnownHeld`:
  * `KnownHeld` is `NothingLost` asked of *every* state a power cut may leave, since after one any
    of them may be the current one;
  * `DiskInv`: the current state is one of these, and no unsynced change of the legacy home holds
    fewer files than another, since `home` only ever renames to free names;
  * `PlanHeld`: the files of the plan are still in the legacy home, under some name;
  * `StagedFromPlan`, `LiveFromPlan`: when `UndoPublish` takes a data dir back to its staging name
    and `RemoveStaging` deletes it, everything in it is a copy of the plan, and so held by the
    legacy home. Without these two the undo of a publication could not be told from the deletion
    of the only copy.

  The lemmas say what one rename to a free or empty name keeps (`RenameKeeps`), what a change that
  leaves live and aside names alone keeps (`KeptAlone`), and the like; then there is one step per
  action.
* `PublishedIsWhole`, `LegacyGoesDurably`, `FailedRunsRestore`, `MigratedIsSecured`, `CleanStart`
  rest on `MigrateInv == SafetyInv /\ FilesWhole /\ StepInv /\ CommandInv`, which follows a run
  step by step. The last three are action properties: what the step that ends a run reports is
  true of the state that the earlier steps left, and that is what the invariant has to know.
  * `InstallInv`: what the staging dir of each place holds of the plan. The loop over data and
    cache passes the same steps twice, so it says which dir is complete while the other is being
    filled; after `verify` a file is the planned one whatever `copy` wrote. `PublishedWhole` and
    `InstalledIsDurable` need it back to the first copy.
  * `FilesWhole`: in every state that a power cut may leave, only staging dirs hold torn files. It
    rests on `SyncInv`, what of the staged dir is still in `unsynced` at each step: no data of a
    file once `verify` has passed it, nothing at all after `seal`. `PublishIn` puts every form of
    the staged dir that is possible then onto the disk, and there is one.
  * `InstalledIsDurable` is about the places in `anchored`: for these the fsyncs of this run leave
    no other state; for those the run has created it is false (see Findings).
  * `RestoreInv`: where the dirs are that the run replaced, at every step of the installation and
    of its undo, with `Cleared` for "aside, and nothing in its place". An undo whose own steps
    succeed then puts back `run.before`, whichever step failed. `failedAt = "pubsync"` is left
    out, as in the property: see the finding.
  * `LegacyInv`: which entries of the legacy home are already out of reach of the service account,
    and, for `start-clean`, which live dirs are gone.
* `MigrateMovesIdentities`: `Spec => MovesIdentities`. `Migrate` implements `IdentityMove`: each
  action maps to a step of it or to a stutter. Beyond `MigrateInv` the mapping needs
  `IdentityInv`:
  * `HeldInv`: every data dir has an identity and no cache dir has one, so that moving a cache dir
    is a stutter; the set of identities that are held is the same in every state a power cut may
    leave, so that losing unsynced renames is `Scatter`; and it is part of `known`, so that a
    service's new identity is held nowhere (`Generate`).
  * `FromConfig`: until `Legacy::move_aside` the identity the run is about is that of `.config`,
    so publishing is `Adopt` and its undo is `Withdraw`; and by then it is live, so moving
    `.config` aside is `Retire`. This also covers the `AlreadyMigrated` branch, which copies
    nothing.

### layout and upload-log

`SupportProofs` holds for every sequence of choice files, every number of
writes and of faults, and every size of a bundle. It uses `ChoicesAssumption` (the files of the
installer dir are choices or the status), `BoundsAssumption`, `AbsentAssumption` (the marker for "no
file" is not a set of writes), and in `Upload` and `Support` `SizesAssumption` and `NoneAssumption`
(the marker for "nothing yet" is neither `"https"` nor `"http"`).

* `ItemIsKept`: `SupportSpec => []ItemKept`. `move_step` looks before it acts, and others write
  between the two. The inductive invariant `KeptInv` says that what it saw still holds when it
  acts: from `check` on there is something at the old place (`SourceThere`), and at `remove` at
  the new one (`DestinationThere`), because the releases write and never remove. Without it,
  `remove` could not be told from the removal of the only copy. For the disk, `NewAnchored` says
  that what is at the new place and not `loose` cannot be missing there after a power cut, so that
  the old copy may go; a rename makes an item `loose`, and only `SyncNew` into an anchored dir
  ends that. `SupportStepsAreSteps` shows that `upload-log` is a stutter to all this.
* `LastWriteIsKept`, `FailuresAreListed`: `LayoutInv` adds `LastWriteInv`, the property asked of
  every state a power cut may leave, with the one case in which a rename replaces a newer file
  (`stray`), and `Handled`: what the steps so far were about is gone from its old place, or is in
  the report, or was written back while the run was going. `FailuresListed` is asked at the end
  only; `Handled` is what makes it inductive over the steps.
* `WholeBundleIsQuoted`, `AnnouncedIsStored`, `PlainIsRedirected`: `UploadInv` follows one
  command: what was announced is the size of the bundle read before, what a body travelled over is
  the URL in use or in `redirected`, and `layout` may meanwhile move or extend the logs without
  changing the bundle.
* `SupportTyped`: `SupportTypeOK`, from both.

### Download

`DownloadProofs` holds for every list of artifacts, every budget and every pair of client timeouts,
from `ArtifactsAssumption` (positive sizes, one validator or none per artifact) and
`TimesAssumption` (a positive budget).

* `DownloadTyped`: `Spec => []TypeOK` (no run checks it), with `ReadingOn`: a body is read from
  the byte after the last counted one.
* `GivesUpOnlyOffline`, `OvershootIsBounded`: `ClocksAgree` relates the code's clock of the outage
  with the time since the last byte: the outage runs no faster, and a request does not outlast the
  budget, which the overshoot of one read depends on.
* `NoSplice`: `OneArtifact`, with `Strong` as an explicit hypothesis: the server never goes back
  to an earlier artifact, and each has a validator of its own. Without it the property is false
  (see the finding `download_rollback`, and Bounds on weak validators). The invariant
  `SameArtifact` says that the validator kept is of an artifact served no later than the bytes
  counted.
* `DownloadTransfers`: `Strong => (Spec => TransfersArtifacts)`. Each action maps to a step of
  `ArtifactTransfer` or to a stutter. A `Chunk` is the next byte of the file's own artifact by
  `SameArtifact` and `ReadingOn`; that what is handed on is whole needs `FetchedWhole` besides: a
  body that ends without an expected size has ended with its artifact. `Strong` is needed as in
  `NoSplice`.

### Updater

`UpdaterProofs` holds for every number of runs and of polls, from `BoundsAssumption` and
`NoneAssumption` (the marker for "no binary" is no binary, no status and no exit).

* `UpdaterIsKept`, `NewBinaryIsKept`, `TerminatedRunsAreClean`: `BinariesInv` says that the
  installer runs only while somebody waits for it (`InstallInTurn`), that once past the payload
  there is a binary at the path (`PayloadStays`), that a run is shielded from before the rename
  until it has cleaned up (`ShieldInTime`), and that the old name is settled by then (`Finished`).
* `RecordsComeFirst`: `ReportInOrder`: only the last status in the channel is terminal, it is the
  verdict, and the attempt file was written before it was sent, unless writing it failed. The
  audit line is with its thread by then, and may be lost all the same (see Findings).
* `UpdaterSwapsBinary`: `Spec => SwapsBinary`. The invariant of the others and `NewOnTop`: when a
  new binary is at the `.old` name, which takes a second run, whatever is at the path is a new one
  as well. By it `engage` and the removal of the copy give up no newer binary; `InstallInTurn`
  makes both steps of an update's own turn, and `UpdaterKept` says that there is one to put back.
* `UpdaterTyped` needs a bound on the statuses a run has sent so far (`Sent`).

### The commands of an update

`UpdateCycleProofs` holds for every sequence of manifests and every first install, every set of
request durations, every number of retries, budget and number of installs by hand. The assumptions:
manifests are well-formed and list a version under its own channel (`ManifestsAssumption`; the
publisher's side), each pause is twice the one before (`DelaysAssumption`, `BACKOFF`'s factor),
the budget is less than what the app waits (`BudgetAssumption`), and the marker for "nothing there"
is nothing that a choice file may say (`UndetectedAssumption`).

* `AlwaysInTime`, `OnlySlowTimesOut`: `FetchInv` bounds the time a fetch has not spent on requests
  by `Paused`: `Delays[tries] - Delays[1]` for this file, as the pauses are a doubling sequence,
  and all of the pauses for the file before it. The bound on the pauses is not used by
  `AlwaysInTime`: the budget alone ends every fetch.
* `EndOfLifeFair`: `EndOfLifeMonotone`. That an older version is never told a later end rests on
  `LessSplits` (a version between two others is above the one or below the other), which holds of
  the code's comparison though versions it cannot tell apart exist, and on `Earliest` being a
  minimum of natural numbers (`Least`). `OutcomeInv` says that a report is about a version and a
  published manifest.
* `UpdatesForward`, `UpdatesOnChannel`: `NeverOlder` and `StaysOnChannel`. `JobInv` says that what
  `Accept` has checked still holds when `installer(8)` ends, whatever is published, synced or
  installed in between: the manifest that was read (`job.got`), the version found (`job.current`)
  and the channel do not change while a command runs.
* `VersionOrder`: `compare_components` is a strict order, and "neither is older" is an
  equivalence, though components that do not parse count as 0 and missing ones as well. The gates
  and the earliest end of life compare versions pairwise and rely on both.
* `ChoicesAreKept`: `ChoicesKept`. `installer(8)` applies the choice changes one after the other,
  and a change that is not enabled is lost, so it matters what is selected before each of them.
  `Pin` gives two changes to a group; `AppliedIs` says that the selection after change `n` is that
  after `n - 1` with `n` applied, and `PinSelects` that two changes in the order of
  `to_choice_changes_xml` leave the pinned member and no other of its group (`GroupPinned`: among
  all changes, and without touching the other group). `SelectionIs` puts the groups together.
  `AppliedIs` is about a function that is defined by recursion over the number of changes. It
  needs induction, which is done with the least number (`Least`) at which the claim fails
  (`StepByStep`), as the library's induction theorem cannot be used.
* `CycleTypeCorrect`: `CycleTypeOK`, from the same invariant.

### Only model-checked

* Liveness (`EventuallyMigrated`, `DownloadEnds`, `RunEnds`, `WindowCloses`, `OthersRelocated`,
  `UploadEnds`, `CatchesUp`): outside the prover's reach.
* `MigratePair`: its run is a violation, so there is nothing to prove of it.

Every invariant and every action property of a passing run has a theorem.

## 5. Findings

| Run | What happens | What is said of it |
|---|---|---|
| `migrate_fsync` | fsync fails after both renames of `publish`: the new identity stays live and the replaced one stays aside, though the run fails | "removing the staging dirs and restoring replaced ones" |
| `migrate_pair` | of two `identity --replace` in one second, one is refused the staging dir and removes the other's by its name; what is then published is empty, the replaced identity is renamed onto it, and the other run's undo deletes it | README: "`identity` and `start-clean` never delete anything" |
| `migrate_lock` | a run cut off between the rename of `.config` and its lock-down leaves the old key with the service account; no later run looks at it again | README: after a migration every `.config*` dir is locked |
| `migrate_durable` | the `AlreadyMigrated` branch moves the legacy identity aside without an fsync of `networks/`, whose renames the run that made them may not have synced | "Only once the new identity is durable may the legacy one disappear" |
| `download_rollback` | a validator that came with no bytes is kept for the next artifact; when the URL serves the first one again, two are spliced (the hash check then fails the update) | "instead of splicing two different artifacts" |

Only `migrate_pair` loses an identity: `NothingLost` holds in every behaviour of a single run.

More differences between code and words were met and have no run of their own:

* `Networks::create` syncs no parent of the `networks/` dirs it makes, so after a first migration
  a power cut may take them, though "Only once the new identity is durable may the legacy one
  disappear" (`migrate.rs:338`). `InstalledIsDurable` and `LegacyGoesOnlyWhenDurable` say where
  they do not apply.
* `audit_log` does not flush its file: the process may exit before the line "appended to on every
  terminal status" (`update/mod.rs:372`) is written. `RecordedFirst` promises that it was handed
  over.
* The client of `upload-log` follows redirects: a storage that answers the PUT with a 307 to plain
  http gets the bundle over it, though "a signed URL must not fall back to plain http"
  (`upload.rs:142`). `PlainOnlyByRedirect` says that there is no other way.
* `update` reads the version file before the fetch and not again: a newer release that the user
  installs meanwhile is replaced by the older one without `--allow-downgrade`, which is to "permit
  installing an older release than the current one" (`cli.rs:61`). `NeverOlder` is about the
  version that was read.
* A crash between the two renames of an identity without a `hopr.safe` is reported as
  `AlreadyMigrated` by the next run, because `compare` looks at planned files only; the README
  (176-177) says `Conflict`. Nothing is lost by it (`migrate_safety` has these behaviours).
* `last_update_attempt.json` is written with the terminal status only, so a run that is killed in
  the install leaves no record, though `update/mod.rs:730` speaks of a crash mid-install.

As its comment says, `compare_components` takes what is no number for 0, so two builds of one
version with different commit hashes count as the same, and a number above 64 bits counts as 0.
`NeverOlder`, `CatchesUp` and `EndOfLifeMonotone` are stated with the code's own order: they show that
the gates agree with it, not that a newer version never compares lower.

## 6. Not modelled, and the plan

Not modelled because there is no state or order in them: command line parsing, output formats,
logging, fixed paths, the reading of the package version. Symbolic links and file modes in a
user's tree appear as failing calls, as `blocked` and as `exposed` only. A hard-linked file in the
legacy home, which the sweep skips without an error (`nofollow.rs` 208-211), is not told apart
from one that it secures; the key is out of reach by the lock-down of its dir, not by the sweep.
Compression, multipart forms and the text of a bundle are sizes. `layout --user` runs the system's
steps and the user's; one of the two lists is empty on each platform, so `Relocate` has one. The
cap of 600 polls of the applet and two `update` runs at the same time are left out: the first is
shown not to be needed, the second is prevented by the app, which is another repository.

What is left:

1. `Updater` composed with `Download` and `UpdateCycle` in place of their succeed-or-fail steps.
2. `MigratePair` with failing calls, once the staging name is no longer shared.
