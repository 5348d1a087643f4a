-------------------------- MODULE ArtifactTransfer --------------------------
(***************************************************************************)
(* What the update engine takes for granted of its download and hash check, *)
(* without requests, validators and clocks: the file grows byte by byte and *)
(* is at all times a beginning of one artifact that was published, or       *)
(* starts over; it is handed on when it is whole or as long as the release, *)
(* and let through when it is the release.  The engine sees no more than    *)
(* the stage and how it ended (DownloadArtifact and VerifySha256 in module  *)
(* Updater).                                                                *)
(***************************************************************************)
EXTENDS Naturals, Sequences

CONSTANTS Size, Release, Absent

VARIABLES
    stage,     \* of the engine: off, download or verify
    content,   \* of the file, or Absent
    outcome    \* how the last transfer ended: the stage that failed, or not

transferVars == <<stage, content, outcome>>

\* The first n bytes of artifact v.
Beginning(v, n) == [i \in 1 .. n |-> <<v, i>>]
Whole(v) == Beginning(v, Size[v])

TransferInit == stage = "off" /\ content = Absent /\ outcome = "none"

Begin ==
    /\ stage = "off" /\ stage' = "download"
    /\ content' = << >>
    /\ UNCHANGED outcome

\* Before a request is made.
Refuse ==
    /\ stage = "off" /\ outcome' = "Download"
    /\ content' \in {Absent, content}
    /\ UNCHANGED stage

Receive ==
    /\ stage = "download"
    /\ \E v \in DOMAIN Size : \E n \in 1 .. Size[v] :
          content = Beginning(v, n - 1) /\ content' = Beginning(v, n)
    /\ UNCHANGED <<stage, outcome>>

StartOver ==
    /\ stage = "download" /\ content' = << >>
    /\ UNCHANGED <<stage, outcome>>

HandOn ==
    /\ stage = "download" /\ stage' = "verify"
    /\ \/ \E v \in DOMAIN Size : content = Whole(v)
       \/ Len(content) = Size[Release]
    /\ UNCHANGED <<content, outcome>>

\* The partial file is dropped, unless that fails too.
Fail ==
    /\ stage = "download" /\ stage' = "off" /\ outcome' = "Download"
    /\ content' \in {Absent, content}

LetThrough ==
    /\ stage = "verify" /\ stage' = "off" /\ outcome' = "Verified"
    /\ content = Whole(Release)
    /\ UNCHANGED content

Reject ==
    /\ stage = "verify" /\ stage' = "off" /\ outcome' = "Verify"
    /\ UNCHANGED content

Die ==
    /\ stage # "off" /\ stage' = "off" /\ outcome' = "Killed"
    /\ UNCHANGED content

TransferNext ==
    \/ Begin \/ Refuse \/ Receive \/ StartOver \/ HandOn \/ Fail
    \/ LetThrough \/ Reject \/ Die

TransferSpec == TransferInit /\ [][TransferNext]_transferVars
=============================================================================
