-------------------------- MODULE DownloadRefines --------------------------
(* Download with what its file and its end are to ArtifactTransfer.         *)
EXTENDS Download

Stage ==
    CASE pc = "idle" -> "off"
      [] pc = "verify" -> "verify"
      [] OTHER -> "download"

\* run_engine's stage of an error: all that download_artifact returns, and the hash check's.
Outcome ==
    CASE result \in {"none", "Verify", "Verified", "Killed"} -> result
      [] OTHER -> "Download"

Transfer == INSTANCE ArtifactTransfer WITH
                Absent <- None,
                stage <- Stage,
                content <- file,
                outcome <- Outcome

\* However the connection drops, is resumed, restarted or given up and whatever is published
\* meanwhile: the file only ever grows by the next byte of the artifact it is a beginning of, or
\* starts over, and only the whole release is let through.
TransfersArtifacts == Transfer!TransferSpec
=============================================================================
