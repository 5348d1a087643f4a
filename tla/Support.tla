------------------------------ MODULE Support -------------------------------
(***************************************************************************)
(* A postinstall's `layout` and the `upload-log` that a user runs for the   *)
(* support, on one machine: both write to migrate.log, and updates.log is    *)
(* bundled from the place that `layout` moves it to.                         *)
(***************************************************************************)
EXTENDS Relocate

CONSTANTS None, HeadSize, MaxLines

ASSUME SizesAssumption == HeadSize \in Nat \ {0} /\ MaxLines \in Nat
ASSUME NoneAssumption == None \notin {"https", "http"}

VARIABLES migrateLog, upload

\* log_sources: updates.log only at the current place, and only on macOS.
UpdatesLog ==
    LET content == fs.new["updates.log"] IN
    IF platform = "macos" /\ content # Absent THEN 1 + CHOOSE n \in content : TRUE ELSE None

U == INSTANCE Upload WITH updatesLog <- UpdatesLog

all == <<vars, migrateLog, upload>>

SupportInit == Init /\ U!Init

Uploading == ~U!At("idle")

\* A run of layout logs what it did; what became of the last upload is forgotten.
LayoutBegins == ~Uploading /\ Begin /\ upload' = U!Idle("none") /\ UNCHANGED migrateLog

Layout ==
    \/ LayoutBegins
    \/ LayoutStep /\ U!LogGrows /\ UNCHANGED upload

\* Whoever else is there, another command of the tool included.
Others == Environment /\ UNCHANGED upload /\ (U!LogGrows \/ UNCHANGED migrateLog)

UploadLog == ~Running /\ UNCHANGED vars /\ U!Next

SupportNext == Layout \/ Others \/ UploadLog

\* Fairness: started commands go on, and every postinstall runs `layout` again.
SupportGoesOn ==
    /\ WF_all(LayoutStep /\ U!LogGrows /\ UNCHANGED upload)
    /\ SF_all(LayoutBegins)
    /\ WF_all(~Running /\ UNCHANGED vars /\ U!Client)

SupportSpec == SupportInit /\ [][SupportNext]_all /\ SupportGoesOn

-----------------------------------------------------------------------------
\* Every variable has its type.
SupportTypeOK == TypeOK /\ U!TypeOK

\* Upload's properties (write_bundle, send): the quoted reference names the whole bundle,
QuotedIsStored == U!QuotedIsStored

\* the stored bundle is the announced one although layout and services log meanwhile,
StoredAsAnnounced == U!StoredAsAnnounced

\* nothing goes over plain http but by a redirect, though the bundle may by one,
PlainOnlyByRedirect == U!PlainOnlyByRedirect

\* and the command ends although no server answers.
UploadEnds == U!UploadEnds
=============================================================================
