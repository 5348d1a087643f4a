------------------------------ MODULE Choices -------------------------------
(***************************************************************************)
(* The macOS installer choices that an update preserves: detect_from and     *)
(* to_choice_changes_xml of update/choices.rs, and what installer(8) and the *)
(* package's scripts do with them as that module relies on it.               *)
(***************************************************************************)
EXTENDS Naturals, Sequences

CONSTANT Undetected   \* no pin, no file

NetworkIds == <<"jura", "rotsee">>
LoglevelIds == <<"info", "debug">>
Members(ids) == {ids[n] : n \in DOMAIN ids}

\* What is on disk: where config.toml links to, "file" when it is the user's own and no link,
\* and what the two choice files say.
Installs == [link : Members(NetworkIds) \cup {"custom", "file", Undetected},
             network_choice : Members(NetworkIds) \cup {"custom", Undetected},
             loglevel_choice : Members(LoglevelIds) \cup {"custom", Undetected}]

\* detect_from: the link that the client runs with first, values outside the lists discarded.
DetectNetwork(install) ==
    CASE install.link \in Members(NetworkIds) -> install.link
      [] install.link \notin Members(NetworkIds)
            /\ install.network_choice \in Members(NetworkIds) -> install.network_choice
      [] OTHER -> Undetected

DetectLoglevel(install) ==
    IF install.loglevel_choice \in Members(LoglevelIds) THEN install.loglevel_choice
    ELSE Undetected

Set(ids, id, selected) == [group |-> Members(ids), id |-> id, selected |-> selected]

\* The other members, in the order of the list.
Others(ids, chosen) ==
    LET k == CHOOSE k \in DOMAIN ids : ids[k] = chosen IN
    [n \in 1 .. (Len(ids) - 1) |-> ids[IF n < k THEN n ELSE n + 1]]

Deselect(ids, chosen) ==
    [n \in 1 .. (Len(ids) - 1) |-> Set(ids, Others(ids, chosen)[n], FALSE)]

\* Mutant of Pin: selects before it deselects the others.
PinSelectsFirst(ids, chosen) ==
    IF chosen = Undetected THEN << >>
    ELSE << Set(ids, chosen, TRUE) >> \o Deselect(ids, chosen)

\* to_choice_changes_xml, one group: the others are deselected first.
Pin(ids, chosen) ==
    IF chosen = Undetected THEN << >>
    ELSE Deselect(ids, chosen) \o << Set(ids, chosen, TRUE) >>

ChoiceChanges(install) ==
    Pin(NetworkIds, DetectNetwork(install)) \o Pin(LoglevelIds, DetectLoglevel(install))

-----------------------------------------------------------------------------
(* installer(8) and the packages: external.                                 *)

Defaults == {"jura", "debug"}

\* Of an exclusive group only the selected member, or any while there is none, is enabled.
Apply(selection, change) ==
    CASE selection \cap change.group \notin {{}, {change.id}} -> selection
      [] selection \cap change.group \in {{}, {change.id}} /\ change.selected ->
            selection \cup {change.id}
      [] OTHER -> selection \ {change.id}

\* The changes are applied one after the other.
Applied(changes) ==
    LET after[n \in 0 .. Len(changes)] ==
            IF n = 0 THEN Defaults ELSE Apply(after[n - 1], changes[n])
    IN after[Len(changes)]

Selection(install) == Applied(ChoiceChanges(install))

Selected(selection, ids) == CHOOSE id \in Members(ids) : id \in selection

\* The selected packages record their choice; postinstall falls back to jura and leaves a
\* config.toml that is no link alone.
Installed(install) ==
    LET selection == Selection(install)
        network == IF selection \cap Members(NetworkIds) = {} THEN "jura"
                   ELSE Selected(selection, NetworkIds)
    IN [link |-> IF install.link = "file" THEN "file" ELSE network,
        network_choice |-> IF selection \cap Members(NetworkIds) = {} THEN install.network_choice
                           ELSE network,
        loglevel_choice |-> IF selection \cap Members(LoglevelIds) = {}
                            THEN install.loglevel_choice
                            ELSE Selected(selection, LoglevelIds)]
=============================================================================
