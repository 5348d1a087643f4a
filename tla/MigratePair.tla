---------------------------- MODULE MigratePair ----------------------------
(***************************************************************************)
(* Two runs of gnosis_vpn-migrate at the same time: an installer that is    *)
(* retried while the first one still runs, or a user who runs a command by  *)
(* hand.  Each process runs one command; services start between commands.   *)
(***************************************************************************)
EXTENDS MigrateBeside

Second == INSTANCE MigrateBeside WITH run <- other, other <- run, mine <- theirs, theirs <- mine

pairVars == <<vars, other, mine, theirs>>

PairInit == Init /\ other = Exited("none", "none") /\ mine = NoHandles /\ theirs = NoHandles

PairPowerCut ==
    /\ PowerCut
    /\ other' = Exited("Crashed", other.pc)
    /\ mine' = NoHandles /\ theirs' = NoHandles

\* Services run while neither command does.
PairServices ==
    /\ other.pc = "idle"
    /\ \/ \E i \in Ids, safe \in BOOLEAN : ClientStart(i, safe)
       \/ \E i \in Ids : LegacyStart(i)
    /\ UNCHANGED <<other, mine, theirs>>

PairNext ==
    \/ BesideBegin \/ BesideStep \/ BesideKilled
    \/ Second!BesideBegin \/ Second!BesideStep \/ Second!BesideKilled
    \/ PairPowerCut \/ PairServices

PairSpec == PairInit /\ [][PairNext]_pairVars

=============================================================================
