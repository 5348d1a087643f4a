--------------------------- MODULE ManifestFetch ---------------------------
(***************************************************************************)
(* The manifest fetch of gnosis_vpn-update (manifest.rs): the manifest and  *)
(* then its signature file, each with its own retries and backoff, under    *)
(* one budget that stays inside the time the app waits for the answer.      *)
(* Time is counted in seconds; a request takes one of a few durations.      *)
(***************************************************************************)
EXTENDS Naturals

CONSTANTS
    Durations,       \* how long a request may take before it answers or fails
    RequestTimeout,  \* REQUEST_TIMEOUT, which ends a request of any length
    Delays,          \* BACKOFF: the pause after each attempt
    MaxTimes,        \* BACKOFF: retries of one file
    Budget,          \* BUDGET of both files together
    AppTimeout       \* the app gives up on check-update; external

\* file, tries: what is fetched and its attempts so far; now, deadline: since the start;
\* waited: history, the time spent on requests.
VARIABLE fetch

Files == {"manifest", "signature"}
Outcomes == {"none", "Fetched", "Integrity", "Error", "TimedOut"}

Off == [at |-> "off", file |-> "manifest", tries |-> 0, now |-> 0, deadline |-> 0,
        waited |-> 0, outcome |-> "none"]

At(here) == fetch.at = here

Outcome(result, f) == fetch' = [f EXCEPT !.at = "off", !.outcome = result]

Later(d) == [fetch EXCEPT !.now = @ + d]

\* What follows an await of d seconds only happens before the deadline.
Within(d) == fetch.now + d <= fetch.deadline

-----------------------------------------------------------------------------
\* download_from and the first fetch.
Start == [Off EXCEPT !.at = "request", !.tries = 1, !.deadline = Budget]

Answered(d) == [Later(d) EXCEPT !.waited = @ + d]

\* Mutant of NextFile: every file gets a budget of its own.
NextFileAnew(f) ==
    [f EXCEPT !.at = "request", !.file = "signature", !.tries = 1, !.deadline = f.now + Budget]

\* The second fetch starts its count of attempts over.
NextFile(f) == [f EXCEPT !.at = "request", !.file = "signature", !.tries = 1]

\* get_bytes succeeds; after the second file the manifest is parsed.
Parsed(f) ==
    IF f.file = "manifest" THEN fetch' = NextFile(f)
    ELSE \E result \in {"Fetched", "Integrity"} : Outcome(result, f)

RequestSucceeds(d) == At("request") /\ Within(d) /\ Parsed(Answered(d))

\* Mutant of RetryLater: max_times plus one.
RetryLaterOnceMore(f) ==
    IF f.tries <= MaxTimes + 1 THEN fetch' = [f EXCEPT !.at = "backoff"] ELSE Outcome("Error", f)

\* A network error, an error status or REQUEST_TIMEOUT: retried while there are retries left.
RetryLater(f) ==
    IF f.tries <= MaxTimes THEN fetch' = [f EXCEPT !.at = "backoff"] ELSE Outcome("Error", f)

RequestFails(d) == At("request") /\ Within(d) /\ RetryLater(Answered(d))

\* Builder and redirect errors are not retried.
RequestUnretryable(d) == At("request") /\ Within(d) /\ Outcome("Error", Answered(d))

\* Mutant of Delay: grows by a factor of four from a second on.
DelayQuadruples(tries) == Delays[tries] * Delays[tries]

Delay(tries) == Delays[tries]

Backoff ==
    LET d == Delay(fetch.tries) IN
    /\ At("backoff") /\ Within(d)
    /\ fetch' = [Later(d) EXCEPT !.at = "request", !.tries = @ + 1]

Awaits == IF At("request") THEN Durations \cup {RequestTimeout} ELSE {Delay(fetch.tries)}

\* tokio's timeout drops the fetch at the deadline, wherever it is.
TimesOut ==
    LET rest == fetch.deadline - fetch.now IN
    /\ ~At("off") /\ \E d \in Awaits : d >= rest
    /\ Outcome("TimedOut", IF At("request") THEN Answered(rest) ELSE Later(rest))

Step ==
    \/ \E d \in Durations : RequestSucceeds(d)
    \/ \E d \in Durations \cup {RequestTimeout} : RequestFails(d)
    \/ \E d \in Durations : RequestUnretryable(d)
    \/ Backoff \/ TimesOut

-----------------------------------------------------------------------------
(* Properties.                                                             *)

TypeOK ==
    /\ fetch.at \in {"off", "request", "backoff"}
    /\ fetch.file \in Files /\ fetch.outcome \in Outcomes
    /\ fetch.tries \in 0 .. (MaxTimes + 1)
    /\ fetch.now \in Nat /\ fetch.deadline \in Nat /\ fetch.waited \in Nat

\* "keeping them inside the app's 75 s timeout": two files, five attempts each, with every
\* delay a server can cause, and still there is an answer before the app gives up.
AnswersInTime == fetch.now < AppTimeout

\* The pauses of one file and of the other: all the time a fetch does not wait for a server.
\* As each is twice the one before, those after the first n attempts are Delays[n + 1] - Delays[1].
Pauses == 2 * (Delays[MaxTimes + 1] - Delays[1])

\* The budget cuts off slow servers, not quick failures: whoever is timed out has waited for
\* servers all the time that the pauses of both files leave.
TimedOutOnlySlow == fetch.outcome = "TimedOut" => fetch.waited + Pauses >= Budget
=============================================================================
