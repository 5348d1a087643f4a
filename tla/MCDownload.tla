----------------------------- MODULE MCDownload -----------------------------
(* Three artifacts, two of one size, with an ETag each; the manifest has the second. *)
EXTENDS DownloadRefines

MCSize == <<2, 3, 3>>
MCTag == <<"e1", "e2", "e3">>

=============================================================================
