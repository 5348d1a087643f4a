---------------------------- MODULE IdentityMove ----------------------------
(***************************************************************************)
(* What gnosis_vpn-migrate promises of identities, without files: one is    *)
(* live on the network, one is the legacy service's, the rest are parked    *)
(* under aside names.  An identity is replaced only by being parked, and    *)
(* the legacy one retires only into the place it has taken on the network,  *)
(* unless the user asked for a clean start.                                 *)
(***************************************************************************)
CONSTANTS Ids, Nobody

VARIABLES
    live,     \* the identity that the client runs with
    legacy,   \* the one that the old service runs with
    parked,   \* those that neither does, kept
    doing     \* what runs: nothing, a command, or nothing since a crash

idVars == <<live, legacy, parked, doing>>

Held == ({live, legacy} \cup parked) \ {Nobody}

MoveInit == live = Nobody /\ legacy \in Ids \cup {Nobody} /\ parked = {} /\ doing = "nothing"

Stopped == doing \in {"nothing", "crashed"}

BeginOrEnd ==
    /\ doing' \in IF Stopped THEN {"nothing", "identity", "start-clean", "crashed"}
                  ELSE {"nothing", "crashed"}
    /\ UNCHANGED <<live, legacy, parked>>

\* A service that finds no identity makes one up that was never used.
Generate(i) ==
    /\ Stopped /\ i \notin Held
    /\ doing' = "nothing" /\ UNCHANGED parked
    /\ \/ live = Nobody /\ live' = i /\ UNCHANGED legacy
       \/ legacy = Nobody /\ legacy' = i /\ UNCHANGED live

\* A clean start may end with it.
Park ==
    /\ ~Stopped /\ live # Nobody
    /\ live' = Nobody /\ parked' = parked \cup {live}
    /\ doing' \in IF doing = "identity" THEN {doing} ELSE {doing, "nothing"}
    /\ UNCHANGED legacy

PutBack ==
    /\ doing = "identity" /\ live = Nobody
    /\ \E i \in parked : live' = i /\ parked' \in {parked, parked \ {i}}
    /\ UNCHANGED <<legacy, doing>>

\* The legacy identity becomes the live one, and is still the old service's.
Adopt ==
    /\ doing = "identity" /\ live = Nobody /\ legacy # Nobody
    /\ live' = legacy
    /\ UNCHANGED <<legacy, parked, doing>>

\* Taking that back, which leaves it with the old service.
Withdraw ==
    /\ doing = "identity" /\ live # Nobody /\ live = legacy
    /\ live' = Nobody
    /\ UNCHANGED <<legacy, parked, doing>>

Retire ==
    /\ legacy # Nobody
    /\ doing = "start-clean" \/ (doing = "identity" /\ live = legacy)
    /\ legacy' = Nobody /\ parked' = parked \cup {legacy}
    /\ UNCHANGED <<live, doing>>

\* A power cut may bring back where an identity was before, but none is gone.
Scatter ==
    /\ live' \in Held \cup {Nobody} /\ legacy' \in Held \cup {Nobody} /\ parked' \subseteq Held
    /\ Held' = Held
    /\ doing' = "crashed"

MoveNext ==
    \/ BeginOrEnd \/ (\E i \in Ids : Generate(i)) \/ Park \/ PutBack \/ Adopt \/ Withdraw
    \/ Retire \/ Scatter

MoveSpec == MoveInit /\ [][MoveNext]_idVars
=============================================================================
