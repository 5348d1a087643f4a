--------------------------- MODULE UpdaterRefines ---------------------------
(* Updater with what its two names and its processes are to BinarySwap.     *)
EXTENDS Updater

Turn ==
    CASE installer \in {"preinstall", "payload", "postinstall"} -> "installer"
      [] installer \in {"off", "succeeded", "failed"} /\ Running -> "update"
      [] OTHER -> "nobody"

Swap == INSTANCE BinarySwap WITH at <- path, aside <- old, turn <- Turn

\* Over any number of runs, whatever is killed, fails or outlives its updater: the binary is set
\* aside, replaced, put back or discarded in turn, so that no name is touched while installer(8)
\* works, and a new binary that has landed is never given up for the old one.
SwapsBinary == Swap!SwapSpec
=============================================================================
