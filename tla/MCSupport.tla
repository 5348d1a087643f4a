---------------------------- MODULE MCSupport ----------------------------
(* Support on small instances.                                            *)
EXTENDS Support

\* The three files of the installer dir are interchangeable.
MCChoices == <<"network_choice">>

\* A command that uploads, and what is left of it, meets no failure of layout and no power cut.
\* Without updates.log, as on Linux, there would be less of it.
Quiet == platform = "macos" /\ blocked = {} /\ faults = 0

QuietUploads ==
    /\ SupportInit /\ SupportGoesOn
    /\ [][SupportNext /\ (upload' = U!Idle("none") \/ Quiet')]_all
=============================================================================
