------------------------------- MODULE Upload -------------------------------
(***************************************************************************)
(* gnosis_vpn-migrate's `upload-log` command: the log sources are read into  *)
(* one compressed bundle, its first bytes and its size are announced to the *)
(* log uploader, and the whole bundle is put to the storage URL the          *)
(* uploader signed.  No request is retried.  The code modelled is upload.rs  *)
(* and run_upload of main.rs in src/gnosis_vpn-migrate/src.                  *)
(*                                                                         *)
(* A log is the number of its lines, None when it cannot be read; the other *)
(* commands of the tool append to migrate.log whenever they like.           *)
(***************************************************************************)
EXTENDS Naturals

CONSTANTS
    None,       \* no log, no bundle, no answer
    HeadSize,   \* HEAD_BYTES
    MaxLines    \* bound: the lines of migrate.log

VARIABLES
    migrateLog,  \* the lines of migrate.log
    updatesLog,  \* those of updates.log at its current place, or None
    upload       \* the last upload-log command and what the servers have of it

vars == <<migrateLog, updatesLog, upload>>

Schemes == {"https", "http"}
Logs == {None} \cup Nat

Lines(log) == IF log = None THEN 0 ELSE log

\* Two sections of one compressed text; the size stands for both contents.
Size(bundle) == Lines(bundle.migrate) + Lines(bundle.updates)
Head(bundle) == IF Size(bundle) < HeadSize THEN Size(bundle) ELSE HeadSize

Bundle == [migrate |-> migrateLog, updates |-> updatesLog]
Announce(bundle) == [head |-> Head(bundle), size |-> Size(bundle)]

Idle(result) ==
    [at |-> "idle", result |-> result, api |-> "https", url |-> None, began |-> None,
     bundle |-> None, announced |-> None, stored |-> None,
     sends |-> "nothing",               \* whether the request on its way has its body
     headOn |-> {}, bundleOn |-> {},    \* history: what the head and the bundle travelled over
     redirected |-> {}]                 \* history: where the servers redirected to

At(here) == upload.at = here
Set(u) == upload' = u /\ UNCHANGED <<migrateLog, updatesLog>>

\* What the servers have outlives the command.
Ends(result) == [upload EXCEPT !.at = "idle", !.result = result, !.sends = "nothing"]

-----------------------------------------------------------------------------
(* run_upload and write_bundle.                                             *)

\* The history of what there was to bundle is taken when the command begins.
Begin(api) ==
    /\ At("idle")
    /\ Set([Idle("none") EXCEPT !.at = "read", !.api = api, !.began = Bundle])

\* Sections that cannot be opened are left out, each for itself.
WriteBundle ==
    /\ At("read")
    /\ \E m \in {migrateLog, None}, u \in {updatesLog, None} :
          Set([upload EXCEPT !.at = "post", !.bundle = [migrate |-> m, updates |-> u]])

\* An opened source that cannot be read fails the command, as does the client's setup.
WriteBundleFails == At("read") /\ Set(Ends("Failed"))

-----------------------------------------------------------------------------
(* send: the announcement.                                                  *)

PostHead ==
    /\ At("post")
    /\ Set([upload EXCEPT !.at = "announcing", !.sends = "body", !.headOn = {upload.api}])

\* The default policy of the client follows redirects, from https to http as well.  A request
\* that becomes a GET goes on without its body, any other is sent again as it was (the head's
\* form may be, here; as a stream it rather fails).  The limit of ten is left to Timeout.
Redirected(url, keeps, over) ==
    IF upload.sends = "body" /\ keeps THEN over \cup {url} ELSE over

RedirectPost(url, keeps) ==
    /\ At("announcing") /\ upload.announced = None
    /\ Set([upload EXCEPT !.sends = IF keeps THEN @ ELSE "nothing", !.headOn = Redirected(url, keeps, @),
                          !.redirected = @ \cup {url}])

\* The uploader vets the head and signs a URL for a bundle of that size.
UploaderSigns(url) ==
    /\ At("announcing") /\ upload.announced = None /\ upload.sends = "body"
    /\ Set([upload EXCEPT !.announced = Announce(upload.bundle), !.url = url])

UploaderSigned == upload.announced # None

\* Mutant of AcceptSigned: takes whatever URL it is given.
AcceptAnySigned ==
    At("announcing") /\ UploaderSigned /\ Set([upload EXCEPT !.at = "put", !.sends = "nothing"])

\* parse_upload_response and reject_transport_downgrade.
AcceptSigned ==
    /\ At("announcing") /\ UploaderSigned
    /\ Set(IF upload.api = "https" /\ upload.url # "https" THEN Ends("Failed")
           ELSE [upload EXCEPT !.at = "put", !.sends = "nothing"])

\* An error status, an answer that does not parse, or no connection.
PostFails == At("announcing") /\ Set(Ends("Failed"))

-----------------------------------------------------------------------------
(* send: the bundle.                                                        *)

Put(bundle) ==
    /\ At("put")
    /\ Set([upload EXCEPT !.at = "storing", !.sends = "body", !.bundleOn = {upload.url},
                          !.bundle = bundle])

\* Mutant of PutBundle: reads the sources again.
PutBundleAnew == Put(Bundle)

PutBundle == Put(upload.bundle)

RedirectPut(url, keeps) ==
    /\ At("storing") /\ upload.stored = None
    /\ Set([upload EXCEPT !.sends = IF keeps THEN @ ELSE "nothing", !.bundleOn = Redirected(url, keeps, @),
                          !.redirected = @ \cup {url}])

\* The object is there when the last byte is, whether or not the answer arrives.
StorageStores ==
    /\ At("storing") /\ upload.stored = None /\ upload.sends = "body"
    /\ Set([upload EXCEPT !.stored = upload.bundle])

\* Mutant of PutSucceeds: quotes the reference without looking at the answer.
PutAssumed == At("storing") /\ Set(Ends("Uploaded"))

PutSucceeds == At("storing") /\ upload.stored # None /\ Set(Ends("Uploaded"))

\* The storage rejects it, or the connection is lost with or without the object stored.
PutFails == At("storing") /\ Set(Ends("Failed"))

\* Mutant of Timeout: only the announcement has one.
TimeoutPost == At("announcing") /\ Set(Ends("Failed"))

\* TIMEOUT of the client, which bounds each request as a whole.
Timeout == upload.at \in {"announcing", "storing"} /\ Set(Ends("Failed"))

Killed == ~At("idle") /\ Set(Ends("Killed"))

-----------------------------------------------------------------------------
\* Another command logs.
LogGrows == migrateLog' = IF migrateLog < MaxLines THEN migrateLog + 1 ELSE migrateLog

Init ==
    /\ migrateLog = 0
    /\ upload = Idle("none")

\* The process itself; what it is told by the servers and how they fail is not up to it.
Client == WriteBundle \/ PostHead \/ AcceptSigned \/ PutBundle \/ PutSucceeds \/ Timeout

Next ==
    \/ \E api \in Schemes : Begin(api)
    \/ Client \/ WriteBundleFails \/ PostFails \/ PutFails \/ Killed
    \/ \E url \in Schemes : UploaderSigns(url)
    \/ StorageStores
    \/ \E url \in Schemes, keeps \in BOOLEAN : RedirectPost(url, keeps) \/ RedirectPut(url, keeps)

-----------------------------------------------------------------------------
(* Properties.                                                             *)

Uploads == [at : {"idle", "read", "post", "announcing", "put", "storing"},
            result : {"none", "Failed", "Uploaded", "Killed"},
            api : Schemes, url : Schemes \cup {None}, sends : {"nothing", "body"},
            headOn : SUBSET Schemes, bundleOn : SUBSET Schemes, redirected : SUBSET Schemes]

TypeOK ==
    /\ migrateLog \in 0 .. MaxLines
    /\ updatesLog \in Logs
    /\ [k \in {"at", "result", "api", "url", "sends", "headOn", "bundleOn", "redirected"} |->
          upload[k]] \in Uploads

\* The reference that is printed names a stored object, and the object is the whole bundle,
\* with everything each log that could be opened held when the command began.
QuotedIsStored ==
    upload.result = "Uploaded" =>
        /\ upload.stored # None /\ upload.stored = upload.bundle
        /\ upload.stored.migrate \in {None} \/ upload.stored.migrate >= upload.began.migrate

\* What is put to the signed URL is what was announced, however much has been logged since.
StoredAsAnnounced ==
    upload.stored # None => upload.announced = Announce(upload.stored)

\* With an https uploader nothing of the logs travels over plain http, neither the head nor the
\* bundle, unless one of the two servers redirects there.
PlainOnlyByRedirect ==
    upload.api = "https" /\ "http" \in upload.headOn \cup upload.bundleOn => "http" \in upload.redirected

\* A server that never answers does not keep the command from ending.
UploadEnds == []<>At("idle")
=============================================================================
