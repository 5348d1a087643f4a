------------------------------ MODULE Download ------------------------------
(***************************************************************************)
(* The artifact download of gnosis_vpn-update: download_artifact and        *)
(* verify_sha256 (update/mod.rs) around fetch_with_resume                   *)
(* (update/download.rs), which reconnects after a drop and continues with   *)
(* Range requests until it has been offline for a whole budget.             *)
(*                                                                         *)
(* The server may publish another artifact at the same URL at any time.     *)
(* Byte i of artifact v is the pair <<v, i>>.  Time is counted in retry     *)
(* intervals; every await takes some of it.                                 *)
(***************************************************************************)
EXTENDS Naturals, Sequences

CONSTANTS
    Size,         \* the sizes of the artifacts 1, 2, ... published over time
    Tag,          \* their strong validators, None where the server sends none
    None,         \* no file, no validator, no outage, no response
    Release,      \* the artifact whose hash and size the manifest has
    Rollback,     \* whether the URL may serve an older artifact again
    Budget,       \* reconnect_budget
    SendTimeout,  \* the client's bound on getting the head of a response
    ReadTimeout   \* the client's bound on the gap between two chunks

Versions == DOMAIN Size

ASSUME ArtifactsAssumption ==
    /\ Size \in Seq(Nat \ {0})
    /\ DOMAIN Tag = Versions
    /\ Release \in Versions
ASSUME TimesAssumption == Budget \in Nat \ {0} /\ SendTimeout \in Nat /\ ReadTimeout \in Nat
ASSUME RollbackAssumption == Rollback \in BOOLEAN

Tags == {Tag[v] : v \in Versions} \cup {None}
Bytes == UNION {{v} \X (1 .. Size[v]) : v \in Versions}

VARIABLES
    served,     \* the artifact the URL serves now
    ranges,     \* whether this server honours Range or may answer in full
    file,       \* the bytes at the target path, or None
    expected,   \* size_bytes of the manifest; 0 is unknown
    bytesDone,
    validator,
    outage,     \* time since the first failure of this drop, or None
    response,   \* [ver, next]: the body that is being read, or None
    silent,     \* history: time since the last body byte, up to Budget
    pc,
    result

fetch == <<bytesDone, validator, outage, response>>
server == <<served, ranges>>
vars == <<server, file, expected, fetch, silent, pc, result>>

Results == {"none", "Refused", "InsufficientSpace", "Io", "Http", "ConnectionLost",
            "SizeMismatch", "Verify", "Verified", "Killed"}

Fetching == {"attempt", "send", "body"}

At(here) == pc = here
Goto(there) == pc' = there /\ UNCHANGED result
Return(r) == pc' = "idle" /\ result' = r

\* An await takes d.
Pass(d) == silent' = IF silent + d > Budget THEN Budget ELSE silent + d
Later(d) == IF outage = None THEN None ELSE outage + d

\* record_failure after an await of d: only the first failure of a drop starts the clock.
RecordFailure(d) == outage' = IF outage = None THEN 0 ELSE outage + d

-----------------------------------------------------------------------------
(* download_artifact before the request.                                   *)

\* An http:// URL, an unusable dir or file name, a symlink in the way.
Refuse ==
    /\ At("idle") /\ Return("Refused")
    /\ UNCHANGED <<server, file, expected, fetch, silent>>

\* The leftover of an earlier run is removed first, then the free space is checked.
NoSpace ==
    /\ At("idle") /\ Return("InsufficientSpace")
    /\ file' \in {None, file}
    /\ UNCHANGED <<server, expected, fetch, silent>>

\* create_new fails, always so when the leftover could not be removed.
CreateFails ==
    /\ At("idle") /\ Return("Io")
    /\ file' \in {None, file}
    /\ UNCHANGED <<server, expected, fetch, silent>>

Create(size) ==
    /\ At("idle") /\ Goto("attempt")
    /\ file' = << >>
    /\ expected' = size
    /\ bytesDone' = 0 /\ validator' = None /\ outage' = None /\ response' = None
    /\ silent' = 0
    /\ UNCHANGED server

-----------------------------------------------------------------------------
(* fetch_with_resume.                                                      *)

\* Any error it returns makes download_artifact drop the partial file, best effort.
FetchFails(r) ==
    /\ Return(r)
    /\ file' \in {None, file}
    /\ response' = None
    /\ UNCHANGED <<server, expected, bytesDone, validator>>

\* The clean EOF was lost but every byte is there.
AllBytesThere ==
    /\ At("attempt") /\ expected # 0 /\ bytesDone >= expected
    /\ Goto("fetched")
    /\ UNCHANGED <<server, file, expected, fetch, silent>>

Incomplete == expected = 0 \/ bytesDone < expected

GiveUp ==
    /\ At("attempt") /\ Incomplete
    /\ outage # None /\ outage >= Budget
    /\ FetchFails("ConnectionLost")
    /\ UNCHANGED <<outage, silent>>

\* Sleep one retry interval while offline, then send the request.
Attempt ==
    /\ At("attempt") /\ Incomplete
    /\ \/ outage = None /\ UNCHANGED <<outage, silent>>
       \/ outage # None /\ outage < Budget /\ outage' = outage + 1 /\ Pass(1)
    /\ Goto("send")
    /\ UNCHANGED <<server, file, expected, bytesDone, validator, response>>

\* Mutant of Remaining: an offline attempt has the client's timeouts only.
RemainingUnbounded == SendTimeout

\* How long this request may take: while offline no longer than the rest of the budget.
Remaining ==
    IF outage = None THEN SendTimeout
    ELSE IF outage >= Budget THEN 0
    ELSE IF Budget - outage < SendTimeout THEN Budget - outage ELSE SendTimeout

\* No connection, or none in time.
SendFails(d) ==
    /\ At("send") /\ d <= Remaining
    /\ RecordFailure(d) /\ Pass(d)
    /\ Goto("attempt")
    /\ UNCHANGED <<server, file, expected, bytesDone, validator, response>>

\* A builder or redirect error, an error status, a status that is neither 200 nor 206; or a
\* restart whose file cannot be truncated.
SendBroken(d) ==
    /\ At("send") /\ d <= Remaining
    /\ \E r \in {"Http", "Io"} : FetchFails(r)
    /\ outage' = Later(d) /\ Pass(d)

\* Mutant of IfRange: resumes without naming the artifact it has.
IfRangeUnsent == None

\* The validator a Range request carries.
IfRange == validator

\* The range may be continued on what is served now (external: RFC 9110).
RangeHolds == bytesDone > 0 /\ (IfRange = None \/ IfRange = Tag[served])

\* strong_validator is asked only while there is none.
KeepValidator(kept) == validator' = IF kept = None THEN Tag[served] ELSE kept

\* 206: the body goes on where the file ends.
PartialContent(d) ==
    /\ At("send") /\ d <= Remaining
    /\ RangeHolds /\ bytesDone < Size[served]
    /\ response' = [ver |-> served, next |-> bytesDone + 1]
    /\ KeepValidator(validator)
    /\ outage' = Later(d) /\ Pass(d)
    /\ Goto("body")
    /\ UNCHANGED <<server, file, expected, bytesDone>>

\* The range starts past the end of what is served: 416, an error status.
RangeNotSatisfiable(d) ==
    /\ RangeHolds /\ bytesDone >= Size[served]
    /\ SendBroken(d)

\* Mutant of Full: truncates the file but keeps counting.
FullKeepsCount(d) ==
    /\ At("send") /\ d <= Remaining
    /\ RangeHolds => ranges = "ignored"
    /\ file' = << >> /\ UNCHANGED bytesDone
    /\ KeepValidator(IF bytesDone = 0 THEN validator ELSE None)
    /\ response' = [ver |-> served, next |-> 1]
    /\ outage' = Later(d) /\ Pass(d)
    /\ Goto("body")
    /\ UNCHANGED <<server, expected>>

\* Mutant of Full: a reconnect alone ends the outage.
FullEndsOutage(d) ==
    /\ At("send") /\ d <= Remaining
    /\ RangeHolds => ranges = "ignored"
    /\ file' = << >> /\ bytesDone' = 0
    /\ KeepValidator(IF bytesDone = 0 THEN validator ELSE None)
    /\ response' = [ver |-> served, next |-> 1]
    /\ outage' = None /\ Pass(d)
    /\ Goto("body")
    /\ UNCHANGED <<server, expected>>

\* 200: the whole artifact.  Bytes of an earlier response are dropped with its validator; a
\* validator that came with no bytes stays.
Full(d) ==
    /\ At("send") /\ d <= Remaining
    /\ RangeHolds => ranges = "ignored"
    /\ file' = << >> /\ bytesDone' = 0
    /\ KeepValidator(IF bytesDone = 0 THEN validator ELSE None)
    /\ response' = [ver |-> served, next |-> 1]
    /\ outage' = Later(d) /\ Pass(d)
    /\ Goto("body")
    /\ UNCHANGED <<server, expected>>

\* Mutant of Chunk: data flows but the outage goes on.
ChunkKeepsOutage(d) ==
    /\ At("body") /\ response.next <= Size[response.ver] /\ d <= ReadTimeout
    /\ file' = Append(file, <<response.ver, response.next>>)
    /\ bytesDone' = bytesDone + 1
    /\ response' = [response EXCEPT !.next = @ + 1]
    /\ outage' = Later(d) /\ silent' = 0
    /\ UNCHANGED <<server, expected, validator, pc, result>>

\* A chunk: the outage is over.
Chunk(d) ==
    /\ At("body") /\ response.next <= Size[response.ver] /\ d <= ReadTimeout
    /\ file' = Append(file, <<response.ver, response.next>>)
    /\ bytesDone' = bytesDone + 1
    /\ response' = [response EXCEPT !.next = @ + 1]
    /\ outage' = None /\ silent' = 0
    /\ UNCHANGED <<server, expected, validator, pc, result>>

\* The connection drops or stalls in the body, whatever has arrived of it.
Drop(d) ==
    /\ At("body") /\ d <= ReadTimeout
    /\ RecordFailure(d) /\ Pass(d)
    /\ response' = None
    /\ Goto("attempt")
    /\ UNCHANGED <<server, file, expected, bytesDone, validator>>

EndOfBody ==
    /\ At("body") /\ response.next > Size[response.ver]
    /\ response' = None
    /\ Goto("fetched")
    /\ UNCHANGED <<server, file, expected, bytesDone, validator, outage, silent>>

\* Writing to the file fails, or the body cannot be decoded.
WriteFails ==
    /\ At("body") /\ \E r \in {"Http", "Io"} : FetchFails(r)
    /\ UNCHANGED <<outage, silent>>

-----------------------------------------------------------------------------
(* download_artifact after the request, and verify_sha256.                  *)

\* The buffered end of the file cannot be written; nothing is removed here.
FlushFails ==
    /\ At("fetched") /\ Return("Io")
    /\ UNCHANGED <<server, file, expected, fetch, silent>>

CheckSize ==
    /\ At("fetched")
    /\ IF expected # 0 /\ bytesDone # expected
       THEN Return("SizeMismatch") /\ file' \in {None, file}
       ELSE Goto("verify") /\ UNCHANGED file
    /\ UNCHANGED <<server, expected, fetch, silent>>

Artifact(v) == [i \in 1 .. Size[v] |-> <<v, i>>]

\* A mismatch, or a file that cannot be read, stays where it is.
VerifySha256 ==
    /\ At("verify")
    /\ \/ file = Artifact(Release) /\ Return("Verified")
       \/ Return("Verify")
    /\ UNCHANGED <<server, file, expected, fetch, silent>>

-----------------------------------------------------------------------------
(* The world around it.                                                    *)

Republish(v) ==
    /\ v # served /\ (Rollback \/ v > served)
    /\ served' = v
    /\ UNCHANGED <<ranges, file, expected, fetch, silent, pc, result>>

\* SIGTERM or SIGKILL: no signal is shielded yet.
Kill ==
    /\ ~At("idle") /\ Return("Killed")
    /\ response' = None
    /\ UNCHANGED <<server, file, expected, bytesDone, validator, outage, silent>>

-----------------------------------------------------------------------------
Init ==
    /\ served \in Versions /\ ranges \in {"honoured", "ignored"}
    /\ file = None /\ expected = 0
    /\ bytesDone = 0 /\ validator = None /\ outage = None /\ response = None
    /\ silent = 0 /\ pc = "idle" /\ result = "none"

Begin == Refuse \/ NoSpace \/ CreateFails \/ \E size \in {0, Size[Release]} : Create(size)

Request ==
    \E d \in 0 .. SendTimeout :
        \/ SendFails(d) \/ SendBroken(d) \/ PartialContent(d)
        \/ RangeNotSatisfiable(d) \/ Full(d)

Body ==
    \/ \E d \in 0 .. ReadTimeout : Chunk(d) \/ Drop(d)
    \/ EndOfBody \/ WriteFails

Step ==
    \/ AllBytesThere \/ GiveUp \/ Attempt \/ Request \/ Body
    \/ FlushFails \/ CheckSize \/ VerifySha256

Next == Begin \/ Step \/ (\E v \in Versions : Republish(v)) \/ Kill

Spec == Init /\ [][Next]_vars

\* The task is scheduled while it can run: each await ends, at its timeout at the latest.
FairSpec == Spec /\ WF_vars(Step)

-----------------------------------------------------------------------------
(* Properties.                                                             *)

\* The bytes counted never exceed one artifact, even after a restart.
TypeOK ==
    /\ served \in Versions /\ ranges \in {"honoured", "ignored"}
    /\ file \in Seq(Bytes) \cup {None}
    /\ expected \in {0, Size[Release]}
    /\ bytesDone \in UNION {0 .. Size[v] : v \in Versions}
    /\ validator \in Tags
    /\ outage \in Nat \cup {None}
    /\ response \in [ver : Versions, next : Nat] \cup {None}
    /\ silent \in 0 .. Budget
    /\ pc \in {"idle", "fetched", "verify"} \cup Fetching
    /\ result \in Results

\* "If-Range makes a mid-outage republish come back as a full 200 (restart) instead of
\* splicing two different artifacts" (fetch_with_resume): all bytes in the file are those of
\* one artifact, each in its place, and bytes_done counts them.
OneArtifact ==
    pc \in Fetching \cup {"fetched"} =>
        /\ bytesDone = Len(file)
        /\ \E v \in Versions : \A i \in 1 .. Len(file) : file[i] = <<v, i>>

\* The download is given up only when no byte has come for a whole budget: earlier drops that
\* were overcome do not count.
GaveUpOnlyOffline == result = "ConnectionLost" /\ pc = "idle" => silent >= Budget

\* A black-holing link overshoots the budget by at most one stalled body.
OvershootBounded == outage # None => outage <= Budget + ReadTimeout

\* The connection drops and comes back for ever.
DropsForEver == []<>(outage = None) /\ []<>(outage # None)

\* A download ends, however often the connection drops: a resumed one gets ahead, and a path
\* that completes the handshake but delivers no data runs out of budget.  With a server that
\* ignores Range, where each drop starts over and each first byte renews the budget, it ends
\* unless the connection comes back after every drop and drops again.
DownloadEnds ==
    [](ranges = "honoured") \/ ~DropsForEver => (pc \in Fetching ~> pc = "idle")

=============================================================================
