--------------------------- MODULE MigrateRefines ---------------------------
(***************************************************************************)
(* Module Migrate implements module IdentityMove: the identity of a dir is  *)
(* that of its hopr.id file.                                                *)
(***************************************************************************)
EXTENDS Migrate

IdIn(dir) == IF dir = Absent THEN Absent ELSE dir["id"]

Parked == {IdIn(home.conf[n]) : n \in ConfNames \ {Config}}
             \cup UNION {{IdIn(nets[p][n]) : n \in AsideNets} : p \in Places}

Doing ==
    CASE run.pc = "idle" -> IF run.result = "Crashed" THEN "crashed" ELSE "nothing"
      [] run.pc # "idle" /\ run.cmd = "identity" -> "identity"
      [] OTHER -> "start-clean"

Move == INSTANCE IdentityMove WITH
            Nobody <- Absent,
            live <- IdIn(nets["data"][Live]),
            legacy <- IdIn(home.conf[Config]),
            parked <- Parked \ {Absent},
            doing <- Doing

\* What the file operations do to identities, with every failure, kill and power cut, is what
\* IdentityMove allows: none is overwritten or dropped, and the legacy one is put away only
\* once it is live or for a clean start.
MovesIdentities == Move!MoveSpec
=============================================================================
