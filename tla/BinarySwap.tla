----------------------------- MODULE BinarySwap -----------------------------
(***************************************************************************)
(* What rename-aside promises of the updater binary over any number of      *)
(* updates, kills and failed installs, without the steps of a run: the      *)
(* running binary is set aside, the installer puts a new one in its place,  *)
(* and either the copy is put back where none has come or it is discarded.  *)
(* While the installer works no update touches the two names, and a new     *)
(* binary is never given up for an older one.                               *)
(***************************************************************************)
CONSTANT None

VARIABLES
    at,      \* the binary at its path
    aside,   \* the one at its other name
    turn     \* who may touch them

swapVars == <<at, aside, turn>>

SwapInit == at = "cur" /\ aside = None /\ turn = "nobody"

\* What is aside may go.
Outdated == at # None /\ (aside = "new" => at = "new")

\* An update begins with nobody else at work; an installer may outlive its update.
PassOn ==
    /\ turn' \in IF turn = "nobody" THEN {"update"} ELSE {"nobody", "update", "installer"}
    /\ UNCHANGED <<at, aside>>

SetAside ==
    /\ turn = "update" /\ Outdated
    /\ at' = None /\ aside' = at
    /\ UNCHANGED turn

Land ==
    /\ turn = "installer" /\ at' = "new"
    /\ UNCHANGED <<aside, turn>>

PutBack ==
    /\ turn = "update" /\ at = None /\ aside # None
    /\ at' = aside /\ aside' = None
    /\ UNCHANGED turn

Discard ==
    /\ turn = "update" /\ Outdated
    /\ aside' = None
    /\ UNCHANGED <<at, turn>>

SwapNext == PassOn \/ SetAside \/ Land \/ PutBack \/ Discard

SwapSpec == SwapInit /\ [][SwapNext]_swapVars
=============================================================================
