------------------------------ MODULE Versions ------------------------------
(***************************************************************************)
(* How gnosis_vpn-update decides: comparing versions, the channel a version *)
(* belongs to, the end of life of an installed version and the gates that a *)
(* release has to pass (update/mod.rs, manifest.rs).                        *)
(*                                                                         *)
(* A version string is the sequence of its parts, and whether only dots     *)
(* join them; a part is a number or a word.                                 *)
(***************************************************************************)
EXTENDS Naturals, Sequences

CONSTANTS
    None,    \* no release, no end of life
    MaxU64   \* the largest number a part is parsed to

ASSUME MaxU64Assumption == MaxU64 \in Nat

Channels == {"stable", "snapshot", "experimental"}

Parts == [digits : BOOLEAN, value : Nat, word : STRING]
Versions == [parts : Seq(Parts), dotted : BOOLEAN]

\* ChannelRelease: what a manifest says of a channel.
EndsOfLife == [version : Versions, ends_at : Nat]
Releases == [version : Versions, min_app_version : Versions, end_of_life : SUBSET EndsOfLife]

\* parse::<u64>().unwrap_or(0)
Parse(part) == IF part.digits /\ part.value <= MaxU64 THEN part.value ELSE 0

Component(v, i) == IF i \in DOMAIN v.parts THEN Parse(v.parts[i]) ELSE 0

Longest(a, b) == IF Len(a.parts) < Len(b.parts) THEN Len(b.parts) ELSE Len(a.parts)

\* compare_components: the first component that differs decides.
Less(a, b) ==
    \E i \in 1 .. Longest(a, b) :
        /\ Component(a, i) < Component(b, i)
        /\ \A j \in 1 .. (i - 1) : Component(a, j) = Component(b, j)

Compare(a, b) == IF Less(a, b) THEN "Less" ELSE IF Less(b, a) THEN "Greater" ELSE "Equal"

\* channel_of_version
ChannelOf(v) ==
    IF \E i \in DOMAIN v.parts : v.parts[i].word = "experimental" THEN "experimental"
    ELSE IF v.dotted /\ v.parts # << >> /\ \A i \in DOMAIN v.parts : v.parts[i].digits
         THEN "stable" ELSE "snapshot"

\* Entries of the installed version's own channel at or above that version.
Covering(manifest, current) ==
    LET channel == ChannelOf(current) IN
    IF manifest[channel] = None THEN {}
    ELSE {e \in manifest[channel].end_of_life :
             ChannelOf(e.version) = channel /\ Compare(current, e.version) # "Greater"}

Earliest(entries) == CHOOSE e \in entries : \A other \in entries : e.ends_at <= other.ends_at

\* Mutant of EndOfLifeFor: takes the entries below the installed version.
EndOfLifeBelow(manifest, current) ==
    LET channel == ChannelOf(current)
        below == IF manifest[channel] = None THEN {}
                 ELSE {e \in manifest[channel].end_of_life : Compare(current, e.version) # "Less"}
    IN IF below = {} THEN None ELSE Earliest(below)

\* end_of_life_for
EndOfLifeFor(manifest, current) ==
    IF Covering(manifest, current) = {} THEN None ELSE Earliest(Covering(manifest, current))

\* Mutant of EnsureInstallable: compares the other way round.
GateSwapped(release, current, target, allowDowngrade) ==
    LET ordering == Compare(current, release.version) IN
    CASE ChannelOf(current) # target -> ordering
      [] ChannelOf(current) = target /\ Compare(current, release.min_app_version) = "Less" ->
            "AppTooOld"
      [] OTHER -> CASE ordering = "Equal" -> "AlreadyInstalled"
                    [] ordering = "Less" /\ ~allowDowngrade -> "Downgrade"
                    [] OTHER -> ordering

\* ensure_installable: an ordering when it may be installed, else what speaks against it.
EnsureInstallable(release, current, target, allowDowngrade) ==
    LET ordering == Compare(release.version, current) IN
    CASE ChannelOf(current) # target -> ordering
      [] ChannelOf(current) = target /\ Compare(current, release.min_app_version) = "Less" ->
            "AppTooOld"
      [] OTHER -> CASE ordering = "Equal" -> "AlreadyInstalled"
                    [] ordering = "Less" /\ ~allowDowngrade -> "Downgrade"
                    [] OTHER -> ordering

Installable(gate) == gate \in {"Less", "Equal", "Greater"}

\* The outcome of `check` for a manifest at hand.
CheckOutcome(manifest, current, channel) ==
    IF manifest[channel] = None THEN "NoReleaseForChannel"
    ELSE LET gate == EnsureInstallable(manifest[channel], current, channel, FALSE) IN
         CASE Installable(gate) -> "Available"
           [] gate \in {"AlreadyInstalled", "Downgrade"} -> "UpToDate"
           [] OTHER -> "Error"
=============================================================================
