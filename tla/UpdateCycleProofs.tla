------------------------- MODULE UpdateCycleProofs -------------------------
(***************************************************************************)
(* The commands' gates and times for every sequence of manifests, every     *)
(* version that may be installed, every backoff that doubles, every budget  *)
(* and every number of installs by hand.                                    *)
(***************************************************************************)
EXTENDS UpdateCycle, FiniteSetTheorems, SequenceTheorems, TLAPS

-----------------------------------------------------------------------------
(* The order of versions.                                                   *)

\* Natural numbers have a least one: their initial segments are finite.
LEMMA Least ==
    ASSUME NEW S, S \subseteq Nat, S # {}
    PROVE  \E m \in S : \A n \in S : m <= n
<1>. DEFINE T == {1 .. n : n \in S}
<1>1. T # {} /\ T \subseteq FiniteSubsetsOf(Nat)
  <2>1. \A n \in S : 1 .. n \in SUBSET Nat /\ IsFiniteSet(1 .. n)
    BY FS_Interval
  <2>. QED
    BY <2>1 DEF FiniteSubsetsOf
<1>2. PICK X \in T : \A Y \in T : <<Y, X>> \notin StrictSubsetOrdering(Nat)
  BY <1>1, FS_StrictSubsetOrderingWellFounded, WFMin
<1>3. PICK m \in S : X = 1 .. m
  OBVIOUS
<1>4. ASSUME NEW n \in S, n < m PROVE FALSE
  <2>1. 1 .. n \subseteq 1 .. m /\ m \in 1 .. m /\ m \notin 1 .. n
    BY <1>4
  <2>2. <<1 .. n, 1 .. m>> \in StrictSubsetOrdering(Nat)
    BY <2>1 DEF StrictSubsetOrdering
  <2>. QED
    BY <1>2, <1>3, <2>2
<1>. QED
  BY <1>4

LEMMA ComponentTyped ==
    ASSUME NEW a \in Versions, NEW b \in Versions, NEW i \in Nat \ {0}
    PROVE  /\ Component(a, i) \in Nat
           /\ Component(a, i) # 0 => i \in 1 .. Longest(a, b) /\ i \in 1 .. Longest(b, a)
           /\ Longest(a, b) \in Nat
<1>1. /\ a.parts \in Seq(Parts) /\ b.parts \in Seq(Parts)
      /\ Len(a.parts) \in Nat /\ Len(b.parts) \in Nat /\ DOMAIN a.parts = 1 .. Len(a.parts)
  BY LenProperties DEF Versions
<1>2. i \in DOMAIN a.parts => a.parts[i] \in Parts
  BY <1>1, ElementOfSeq
<1>3. Component(a, i) \in Nat
  BY <1>2 DEF Component, Parse, Parts
<1>4. Component(a, i) # 0 => i \in 1 .. Len(a.parts)
  BY <1>1 DEF Component
<1>. QED
  BY <1>1, <1>3, <1>4 DEF Longest

\* The first component that differs decides, however far it is.
LEMMA LessIs ==
    ASSUME NEW a \in Versions, NEW b \in Versions
    PROVE  Less(a, b) <=> \E i \in Nat \ {0} :
               /\ Component(a, i) < Component(b, i)
               /\ \A j \in 1 .. (i - 1) : Component(a, j) = Component(b, j)
<1>1. ASSUME NEW i \in Nat \ {0}, Component(a, i) < Component(b, i)
      PROVE  i \in 1 .. Longest(a, b)
  BY <1>1, ComponentTyped
<1>2. \A i \in 1 .. Longest(a, b) : i \in Nat \ {0}
  BY ComponentTyped
<1>. QED
  BY <1>1, <1>2 DEF Less

LEMMA LessAsymmetric ==
    ASSUME NEW a \in Versions, NEW b \in Versions, Less(a, b)
    PROVE  ~Less(b, a)
<1>. SUFFICES ASSUME Less(b, a) PROVE FALSE
  OBVIOUS
<1>1. PICK i \in Nat \ {0} : /\ Component(a, i) < Component(b, i)
                             /\ \A j \in 1 .. (i - 1) : Component(a, j) = Component(b, j)
  BY LessIs
<1>2. PICK k \in Nat \ {0} : /\ Component(b, k) < Component(a, k)
                             /\ \A j \in 1 .. (k - 1) : Component(b, j) = Component(a, j)
  BY LessIs
<1>3. \A j \in Nat \ {0} : Component(a, j) \in Nat /\ Component(b, j) \in Nat
  BY ComponentTyped
<1>4. i = k \/ i \in 1 .. (k - 1) \/ k \in 1 .. (i - 1)
  OBVIOUS
<1>. QED
  BY <1>1, <1>2, <1>3, <1>4

\* A version between two others is above the one or below the other: "not comparable" is an
\* equivalence, which the earliest end of life depends on.
LEMMA LessSplits ==
    ASSUME NEW a \in Versions, NEW b \in Versions, NEW c \in Versions, Less(a, c)
    PROVE  Less(a, b) \/ Less(b, c)
<1>. DEFINE Differ(j) == Component(a, j) # Component(b, j)
<1>1. PICK i \in Nat \ {0} : /\ Component(a, i) < Component(c, i)
                             /\ \A j \in 1 .. (i - 1) : Component(a, j) = Component(c, j)
  BY LessIs
<1>2. \A j \in Nat \ {0} :
          Component(a, j) \in Nat /\ Component(b, j) \in Nat /\ Component(c, j) \in Nat
  BY ComponentTyped
<1>3. CASE \E j \in 1 .. (i - 1) : Differ(j)
  <2>1. PICK k \in 1 .. (i - 1) : Differ(k) /\ \A j \in 1 .. (i - 1) : Differ(j) => k <= j
    <3>. DEFINE S == {j \in 1 .. (i - 1) : Differ(j)}
    <3>1. S \subseteq Nat /\ S # {}
      BY <1>3
    <3>. HIDE DEF Differ
    <3>2. \E m \in S : \A n \in S : m <= n
      BY <3>1, Least
    <3>. QED
      BY <3>2
  <2>2. \A j \in 1 .. (k - 1) : j \in 1 .. (i - 1) /\ ~(k <= j)
    OBVIOUS
  <2>3. \A j \in 1 .. (k - 1) : ~Differ(j)
    BY <2>1, <2>2
  <2>4. \A j \in 1 .. (k - 1) : Component(a, j) = Component(b, j) /\ Component(b, j) = Component(c, j)
    BY <1>1, <2>2, <2>3
  <2>5. Component(a, k) = Component(c, k) /\ k \in Nat \ {0}
    BY <1>1
  <2>6. Component(a, k) < Component(b, k) \/ Component(b, k) < Component(c, k)
    BY <1>2, <2>1, <2>5
  <2>. QED
    BY <2>4, <2>5, <2>6, LessIs
<1>4. CASE \A j \in 1 .. (i - 1) : ~Differ(j)
  <2>1. Component(a, i) < Component(b, i) \/ Component(b, i) < Component(c, i)
    BY <1>1, <1>2
  <2>2. \A j \in 1 .. (i - 1) : Component(a, j) = Component(b, j) /\ Component(b, j) = Component(c, j)
    BY <1>1, <1>4
  <2>. QED
    BY <2>1, <2>2, LessIs
<1>. QED
  BY <1>3, <1>4

\* The order by which the gates and the ends of life go is one: no version is older than itself,
\* older than what is older is older, and versions of which neither is older are so towards
\* every third one, whatever their components are (compare_components).
THEOREM VersionOrder ==
    \A a, b, c \in Versions :
        /\ ~Less(a, a)
        /\ Less(a, b) /\ Less(b, c) => Less(a, c)
        /\ ~Less(a, b) /\ ~Less(b, c) => ~Less(a, c)
<1>. SUFFICES ASSUME NEW a \in Versions, NEW b \in Versions, NEW c \in Versions
              PROVE  /\ ~Less(a, a)
                     /\ Less(a, b) /\ Less(b, c) => Less(a, c)
                     /\ ~Less(a, b) /\ ~Less(b, c) => ~Less(a, c)
  OBVIOUS
<1>1. ~Less(a, a)
  BY LessAsymmetric
<1>2. Less(a, b) => Less(a, c) \/ Less(c, b)
  BY LessSplits
<1>3. ~(Less(b, c) /\ Less(c, b))
  BY LessAsymmetric
<1>4. Less(a, c) => Less(a, b) \/ Less(b, c)
  BY LessSplits
<1>. QED
  BY <1>1, <1>2, <1>3, <1>4

LEMMA NotGreater ==
    ASSUME NEW a \in Versions, NEW b \in Versions
    PROVE  Compare(a, b) # "Greater" <=> ~Less(b, a)
  BY LessAsymmetric DEF Compare

-----------------------------------------------------------------------------
(* The end of life.                                                         *)

LEMMA EarliestIs ==
    ASSUME NEW S, S \subseteq EndsOfLife, S # {}
    PROVE  /\ Earliest(S) \in S /\ Earliest(S) # None
           /\ \A e \in S : Earliest(S).ends_at <= e.ends_at
<1>. DEFINE T == {e.ends_at : e \in S}
<1>1. T \subseteq Nat /\ T # {}
  BY DEF EndsOfLife
<1>2. \E m \in T : \A n \in T : m <= n
  BY <1>1, Least
<1>3. \E e \in S : \A other \in S : e.ends_at <= other.ends_at
  BY <1>2
<1>4. Earliest(S) \in S /\ \A e \in S : Earliest(S).ends_at <= e.ends_at
  BY <1>3 DEF Earliest
<1>. QED
  BY <1>4, ManifestsAssumption

\* What EndOfLifeMonotone says of a manifest and an installed version.
Fair(manifest, current, others) ==
    LET Ends(v) == EndOfLifeFor(manifest, v)
        own == manifest[ChannelOf(current)]
        EndsBy(v, ends) == Ends(v) # None /\ Ends(v).ends_at <= ends
    IN
    /\ \A e \in IF own = None THEN {} ELSE own.end_of_life :
          e.version = current => EndsBy(current, e.ends_at)
    /\ Ends(current) # None =>
          \A v \in others :
              ChannelOf(v) = ChannelOf(current) /\ ~Less(current, v)
              => EndsBy(v, Ends(current).ends_at)

LEMMA ChannelsOfVersions == \A v : ChannelOf(v) \in Channels
  BY DEF ChannelOf, Channels

LEMMA EndOfLifeIsFair ==
    ASSUME NEW m \in [Channels -> Releases \cup {None}], NEW current \in Versions,
           NEW others \in SUBSET Versions
    PROVE  Fair(m, current, others)
<1>. DEFINE own == m[ChannelOf(current)]
<1>1. own \in Releases \cup {None}
  BY ChannelsOfVersions
<1>2. own # None => own.end_of_life \subseteq EndsOfLife
  BY <1>1 DEF Releases
<1>3. ASSUME NEW v \in Versions, ChannelOf(v) = ChannelOf(current)
      PROVE  Covering(m, v) \subseteq EndsOfLife
  BY <1>2, <1>3 DEF Covering
<1>4. ASSUME NEW v \in Versions, ChannelOf(v) = ChannelOf(current), Covering(m, v) # {}
      PROVE  /\ EndOfLifeFor(m, v) = Earliest(Covering(m, v)) /\ EndOfLifeFor(m, v) # None
             /\ EndOfLifeFor(m, v) \in Covering(m, v)
             /\ \A e \in Covering(m, v) : EndOfLifeFor(m, v).ends_at <= e.ends_at
  BY <1>3, <1>4, EarliestIs DEF EndOfLifeFor
<1>5. ASSUME own # None, NEW e \in own.end_of_life, e.version = current
      PROVE  EndOfLifeFor(m, current) # None /\ EndOfLifeFor(m, current).ends_at <= e.ends_at
  <2>1. ~Less(current, current)
    BY LessAsymmetric
  <2>2. e \in Covering(m, current)
    BY <1>5, <2>1, NotGreater DEF Covering
  <2>. QED
    BY <1>4, <2>2
<1>6. ASSUME EndOfLifeFor(m, current) # None, NEW v \in others,
             ChannelOf(v) = ChannelOf(current), ~Less(current, v)
      PROVE  /\ EndOfLifeFor(m, v) # None
             /\ EndOfLifeFor(m, v).ends_at <= EndOfLifeFor(m, current).ends_at
  <2>1. Covering(m, current) # {}
    BY <1>6 DEF EndOfLifeFor
  <2>2. EndOfLifeFor(m, current) \in Covering(m, current)
    BY <1>4, <2>1
  <2>3. ASSUME NEW e \in Covering(m, current) PROVE e \in Covering(m, v)
    <3>1. e.version \in Versions /\ ~Less(e.version, current)
      BY <1>3, <2>3, NotGreater DEF Covering, EndsOfLife
    <3>2. ~Less(e.version, v)
      BY <1>6, <3>1, LessSplits
    <3>. QED
      BY <1>6, <2>3, <3>1, <3>2, NotGreater DEF Covering
  <2>. QED
    BY <1>4, <1>6, <2>2, <2>3
<1>. QED
  BY <1>5, <1>6 DEF Fair

-----------------------------------------------------------------------------
(* The times of a fetch.                                                    *)

Last == Delays[MaxTimes + 1]

\* After tries attempts the pauses of this file add up to Delays[tries] - Delays[1], and those of
\* the file before it to no more than Last - Delays[1]; the rest was spent on requests.
Paused(f) == Delays[f.tries] - Delays[1] + (IF f.file = "signature" THEN Last - Delays[1] ELSE 0)

Fetches == [at : {"off", "request", "backoff"}, file : F!Files, tries : 0 .. (MaxTimes + 1),
            now : Nat, deadline : Nat, waited : Nat, outcome : F!Outcomes]

FetchInv ==
    /\ fetch \in Fetches
    /\ fetch.now <= Budget
    /\ fetch.at # "off" =>
          /\ fetch.tries \in 1 .. (MaxTimes + 1) /\ fetch.deadline = Budget
          /\ fetch.now - fetch.waited <= Paused(fetch)
    /\ fetch.at = "backoff" => fetch.tries <= MaxTimes
    /\ fetch.outcome = "Fetched" => fetch.file = "signature"
    /\ TimedOutOnlySlow

LEMMA DelaysGrow ==
    /\ MaxTimes \in Nat /\ \A n \in 1 .. (MaxTimes + 1) : Delays[n] \in Nat
    /\ \A n \in 1 .. (MaxTimes + 1) : Delays[1] <= Delays[n] /\ Delays[n] <= Last
    /\ Last \in Nat /\ Delays[1] \in Nat
    /\ Budget \in Nat /\ AppTimeout \in Nat /\ Budget < AppTimeout
    /\ RequestTimeout \in Nat /\ \A d \in Durations : d \in Nat
<1>1. MaxTimes \in Nat /\ \A n \in 1 .. (MaxTimes + 1) : Delays[n] \in Nat
  BY DelaysAssumption
<1>2. \A n \in 1 .. MaxTimes : Delays[n + 1] = 2 * Delays[n]
  BY DelaysAssumption
<1>3. ASSUME NEW n \in 1 .. (MaxTimes + 1), Delays[n] < Delays[1] PROVE FALSE
  <2>. DEFINE S == {k \in 1 .. (MaxTimes + 1) : Delays[k] < Delays[1]}
  <2>1. S \subseteq Nat /\ S # {}
    BY <1>3
  <2>2. PICK m \in S : \A k \in S : m <= k
    BY <2>1, Least
  <2>3. m - 1 \in 1 .. MaxTimes /\ m - 1 \notin S
    BY <1>1, <2>2
  <2>. QED
    BY <1>1, <1>2, <2>3
<1>4. ASSUME NEW n \in 1 .. (MaxTimes + 1), Last < Delays[n] PROVE FALSE
  <2>. DEFINE S == {k \in 0 .. MaxTimes : Last < Delays[MaxTimes + 1 - k]}
  <2>1. S \subseteq Nat /\ S # {}
    <3>1. MaxTimes + 1 - n \in 0 .. MaxTimes /\ MaxTimes + 1 - (MaxTimes + 1 - n) = n
      BY <1>1
    <3>. QED
      BY <1>4, <3>1
  <2>2. PICK m \in S : \A k \in S : m <= k
    BY <2>1, Least
  <2>3. m \in 1 .. MaxTimes
    BY <1>1, <2>2 DEF Last
  <2>4. m - 1 \in 0 .. MaxTimes /\ m - 1 \notin S
    BY <1>1, <2>2, <2>3
  <2>5. MaxTimes + 1 - (m - 1) = (MaxTimes + 1 - m) + 1 /\ MaxTimes + 1 - m \in 1 .. MaxTimes
    BY <1>1, <2>3
  <2>6. Delays[MaxTimes + 1 - (m - 1)] = 2 * Delays[MaxTimes + 1 - m]
    BY <1>2, <2>5
  <2>. QED
    BY <1>1, <2>2, <2>4, <2>5, <2>6 DEF Last
<1>5. \A n \in 1 .. (MaxTimes + 1) : Delays[1] <= Delays[n] /\ Delays[n] <= Last
  BY <1>1, <1>3, <1>4 DEF Last
<1>. QED
  BY <1>1, <1>5, BudgetAssumption, TimesAssumption DEF Last

LEMMA PausedBounds ==
    ASSUME NEW f \in Fetches, f.tries \in 1 .. (MaxTimes + 1)
    PROVE  /\ Paused(f) \in Nat
           /\ Paused(f) <= F!Pauses
           /\ f.file = "manifest" => Paused(f) <= Last - Delays[1]
           /\ F!Pauses \in Nat
<1>1. F!Pauses = 2 * (Last - Delays[1])
  BY DEF F!Pauses, Last
<1>2. Delays[f.tries] \in Nat /\ Delays[1] <= Delays[f.tries] /\ Delays[f.tries] <= Last
  BY DelaysGrow
<1>. QED
  BY <1>1, <1>2, DelaysGrow DEF Paused

\* Time passes: f is fetch after d more seconds, w of them waiting for a server.
Passed(f, d, w) ==
    /\ f \in Fetches
    /\ f.now = fetch.now + d /\ f.waited = fetch.waited + w
    /\ f.at = fetch.at /\ f.file = fetch.file /\ f.tries = fetch.tries
    /\ f.deadline = fetch.deadline /\ f.outcome = fetch.outcome

LEMMA TimePasses ==
    ASSUME FetchInv, NEW d \in Nat
    PROVE  Passed(F!Later(d), d, 0) /\ Passed(F!Answered(d), d, d)
<1>1. fetch \in Fetches
  BY DEF FetchInv
<1>2. Passed(F!Later(d), d, 0)
  BY <1>1 DEF Passed, F!Later, Fetches
<1>3. Passed(F!Answered(d), d, d)
  BY <1>1, <1>2 DEF Passed, F!Answered, Fetches
<1>. QED
  BY <1>2, <1>3

\* What ends a fetch, in time.
LEMMA FetchEnds ==
    ASSUME NEW f \in Fetches, NEW r \in F!Outcomes, F!Outcome(r, f), f.now <= Budget,
           r = "Fetched" => f.file = "signature",
           r = "TimedOut" => f.waited + F!Pauses >= Budget
    PROVE  FetchInv'
<1>1. /\ fetch' \in Fetches /\ fetch'.at = "off" /\ fetch'.outcome = r /\ fetch'.now = f.now
      /\ fetch'.waited = f.waited /\ fetch'.file = f.file
  BY DEF F!Outcome, Fetches
<1>. QED
  BY <1>1 DEF FetchInv, TimedOutOnlySlow, F!TimedOutOnlySlow

LEMMA FetchStepKeeps ==
    ASSUME FetchInv, F!Step
    PROVE  /\ FetchInv' /\ fetch.at # "off"
           /\ fetch'.file = fetch.file \/ fetch'.file = "signature"
<1>. USE DEF F!At
<1>0. /\ fetch \in Fetches /\ fetch.tries \in 0 .. (MaxTimes + 1)
      /\ fetch.now \in Nat /\ fetch.waited \in Nat /\ Budget \in Nat /\ MaxTimes \in Nat
      /\ fetch.file \in {"manifest", "signature"} /\ fetch.at \in {"off", "request", "backoff"}
  BY DelaysGrow DEF FetchInv, Fetches, F!Files
<1>. DEFINE Kept(f, d, w) ==
        /\ f \in Fetches /\ fetch.at # "off"
        /\ f.now = fetch.now + d /\ f.now <= Budget /\ f.waited = fetch.waited + w
        /\ f.file = fetch.file /\ f.tries = fetch.tries /\ f.deadline = Budget
        /\ f.tries \in 1 .. (MaxTimes + 1) /\ f.outcome = fetch.outcome
        /\ w = d => f.now - f.waited <= Paused(f) /\ f.waited + F!Pauses >= f.now
<1>1. ASSUME NEW d \in Nat, F!Within(d), fetch.at # "off"
      PROVE  Kept(F!Answered(d), d, d) /\ Kept(F!Later(d), d, 0)
  <2>1. fetch.tries \in 1 .. (MaxTimes + 1) /\ fetch.deadline = Budget /\ fetch.now + d <= Budget
    BY <1>1 DEF FetchInv, F!Within
  <2>2. fetch.now - fetch.waited <= Paused(fetch) /\ Paused(fetch) <= F!Pauses
        /\ F!Pauses \in Nat /\ Paused(fetch) \in Nat
    BY <1>0, <1>1, <2>1, PausedBounds DEF FetchInv
  <2>3. \A f : f.tries = fetch.tries /\ f.file = fetch.file => Paused(f) = Paused(fetch)
    BY DEF Paused
  <2>4. Passed(F!Later(d), d, 0) /\ Passed(F!Answered(d), d, d)
    BY TimePasses
  <2>5. ASSUME NEW f, NEW w \in Nat, w \in {0, d}, Passed(f, d, w) PROVE Kept(f, d, w)
    <3>1. f.waited \in Nat /\ f.now \in Nat /\ Paused(f) = Paused(fetch)
      BY <2>3, <2>5 DEF Passed, Fetches
    <3>. QED
      BY <1>0, <1>1, <2>1, <2>2, <2>5, <3>1 DEF Passed
  <2>. QED
    BY <2>4, <2>5
<1>. HIDE DEF Kept
<1>2. ASSUME NEW f, NEW d \in Nat, Kept(f, d, d) \/ Kept(f, d, 0), NEW r \in F!Outcomes,
             r \notin {"Fetched", "TimedOut"}, F!Outcome(r, f)
      PROVE  FetchInv' /\ fetch'.file = fetch.file
  <2>1. fetch'.file = f.file
    BY <1>2 DEF Kept, F!Outcome, Fetches
  <2>. QED
    BY <1>2, <2>1, FetchEnds DEF Kept
<1>3. ASSUME NEW d \in Durations, F!RequestSucceeds(d)
      PROVE  FetchInv' /\ (fetch'.file = fetch.file \/ fetch'.file = "signature")
  <2>. DEFINE f == F!Answered(d)
  <2>1. d \in Nat /\ fetch.at = "request" /\ Kept(f, d, d)
    BY <1>1, <1>3, DelaysGrow DEF F!RequestSucceeds
  <2>. HIDE DEF f
  <2>2. CASE f.file = "manifest"
    <3>1. fetch' = F!NextFile(f)
      BY <1>3, <2>2 DEF F!RequestSucceeds, F!Parsed, f
    <3>2. /\ fetch' \in Fetches /\ fetch'.at = "request" /\ fetch'.file = "signature"
          /\ fetch'.tries = 1 /\ fetch'.now = f.now /\ fetch'.waited = f.waited
          /\ fetch'.deadline = Budget /\ fetch'.outcome = f.outcome
      <4>1. f \in Fetches /\ f.deadline = Budget /\ 1 \in 0 .. (MaxTimes + 1)
        BY <1>0, <2>1 DEF Kept
      <4>. QED
        BY <3>1, <4>1 DEF F!NextFile, Fetches, F!Files
    <3>3. f.now - f.waited <= Last - Delays[1]
      <4>1. Paused(f) <= Last - Delays[1] /\ Paused(f) \in Nat
        BY <2>1, <2>2, PausedBounds DEF Kept
      <4>2. f.now \in Nat /\ f.waited \in Nat
        BY <2>1 DEF Kept, Fetches
      <4>. QED
        BY <2>1, <4>1, <4>2, DelaysGrow DEF Kept
    <3>4. Paused(fetch') = Last - Delays[1]
      BY <3>2, DelaysGrow DEF Paused
    <3>5. fetch.outcome # "TimedOut" \/ TimedOutOnlySlow
      BY DEF FetchInv
    <3>6. TimedOutOnlySlow'
      BY <1>0, <2>1, <3>2, PausedBounds
         DEF TimedOutOnlySlow, F!TimedOutOnlySlow, FetchInv, Kept, Fetches
    <3>. QED
      BY <1>0, <2>1, <3>2, <3>3, <3>4, <3>6 DEF FetchInv, Kept, Paused, Last
  <2>3. CASE f.file # "manifest"
    <3>1. PICK r \in {"Fetched", "Integrity"} : F!Outcome(r, f)
      BY <1>3, <2>3 DEF F!RequestSucceeds, F!Parsed, f
    <3>2. f.file = "signature" /\ r \in F!Outcomes /\ fetch'.file = f.file
      BY <2>1, <2>3, <3>1 DEF Kept, Fetches, F!Files, F!Outcomes, F!Outcome
    <3>. QED
      BY <2>1, <3>1, <3>2, FetchEnds DEF Kept
  <2>. QED
    BY <2>2, <2>3
<1>4. ASSUME NEW d \in Durations \cup {RequestTimeout}, F!RequestFails(d)
      PROVE  FetchInv' /\ fetch'.file = fetch.file
  <2>. DEFINE f == F!Answered(d)
  <2>1. d \in Nat /\ fetch.at = "request" /\ Kept(f, d, d)
    BY <1>1, <1>4, DelaysGrow DEF F!RequestFails
  <2>2. F!RetryLater(f)
    BY <1>4 DEF F!RequestFails
  <2>. HIDE DEF f
  <2>3. CASE f.tries <= MaxTimes
    <3>1. fetch' = [f EXCEPT !.at = "backoff"]
      BY <2>2, <2>3 DEF F!RetryLater
    <3>2. /\ fetch' \in Fetches /\ fetch'.at = "backoff" /\ fetch'.file = f.file
          /\ fetch'.tries = f.tries /\ fetch'.now = f.now /\ fetch'.waited = f.waited
          /\ fetch'.deadline = Budget /\ fetch'.outcome = fetch.outcome
      BY <2>1, <3>1 DEF Fetches, Kept
    <3>3. TimedOutOnlySlow'
      BY <1>0, <2>1, <3>2, PausedBounds
         DEF TimedOutOnlySlow, F!TimedOutOnlySlow, FetchInv, Kept, Fetches
    <3>4. Paused(fetch') = Paused(f)
      BY <3>2 DEF Paused
    <3>. QED
      BY <1>0, <2>1, <2>3, <3>2, <3>3, <3>4 DEF FetchInv, Kept, Paused, Last
  <2>4. CASE ~(f.tries <= MaxTimes)
    BY <1>2, <2>1, <2>2, <2>4 DEF F!RetryLater, F!Outcomes
  <2>. QED
    BY <2>3, <2>4
<1>5. ASSUME NEW d \in Durations, F!RequestUnretryable(d)
      PROVE  FetchInv' /\ fetch'.file = fetch.file
  <2>1. d \in Nat /\ fetch.at = "request" /\ Kept(F!Answered(d), d, d)
    BY <1>1, <1>5, DelaysGrow DEF F!RequestUnretryable
  <2>. QED
    BY <1>2, <1>5, <2>1 DEF F!RequestUnretryable, F!Outcomes
<1>6. ASSUME F!Backoff
      PROVE  FetchInv' /\ fetch'.file = fetch.file
  <2>. DEFINE d == F!Delay(fetch.tries)
              f == F!Later(d)
  <2>1. /\ fetch.at = "backoff" /\ fetch.tries \in 1 .. MaxTimes
        /\ d = Delays[fetch.tries] /\ d \in Nat /\ F!Within(d)
    BY <1>0, <1>6, DelaysGrow DEF F!Backoff, FetchInv, F!Delay
  <2>2. Kept(f, d, 0)
    BY <1>1, <2>1
  <2>3. fetch' = [f EXCEPT !.at = "request", !.tries = fetch.tries + 1]
    BY <1>6, <2>2 DEF F!Backoff, Kept
  <2>. HIDE DEF d, f
  <2>4. /\ fetch' \in Fetches /\ fetch'.at = "request" /\ fetch'.file = fetch.file
        /\ fetch'.tries = fetch.tries + 1 /\ fetch'.now = fetch.now + d
        /\ fetch'.now <= Budget /\ fetch'.waited = fetch.waited
        /\ fetch'.deadline = Budget /\ fetch'.outcome = fetch.outcome
    <3>1. /\ f \in Fetches /\ f.now = fetch.now + d /\ f.now <= Budget
          /\ f.waited = fetch.waited + 0 /\ f.file = fetch.file /\ f.deadline = Budget
          /\ f.outcome = fetch.outcome
      BY <2>2 DEF Kept
    <3>2. fetch.tries + 1 \in 0 .. (MaxTimes + 1) /\ fetch.waited + 0 = fetch.waited
      BY <1>0, <2>1
    <3>3. /\ fetch' \in Fetches /\ fetch'.at = "request" /\ fetch'.file = f.file
          /\ fetch'.tries = fetch.tries + 1 /\ fetch'.now = f.now /\ fetch'.waited = f.waited
          /\ fetch'.deadline = f.deadline /\ fetch'.outcome = f.outcome
      BY <2>3, <3>1, <3>2 DEF Fetches
    <3>. QED
      BY <3>1, <3>2, <3>3
  <2>5. Delays[fetch.tries + 1] = 2 * Delays[fetch.tries] /\ Delays[1] \in Nat /\ Last \in Nat
        /\ Delays[1] <= Delays[fetch.tries] /\ Delays[fetch.tries] \in Nat
    <3>1. fetch.tries \in 1 .. (MaxTimes + 1)
      BY <1>0, <2>1
    <3>2. Delays[fetch.tries + 1] = 2 * Delays[fetch.tries]
      BY <2>1, DelaysAssumption
    <3>. QED
      BY <3>1, <3>2, DelaysGrow
  <2>6. fetch'.now - fetch'.waited <= Paused(fetch')
    <3>1. fetch.now - fetch.waited <= Paused(fetch)
      BY <2>1 DEF FetchInv
    <3>2. Paused(fetch') = Paused(fetch) + d /\ Paused(fetch) \in Int
      BY <2>1, <2>4, <2>5 DEF Paused
    <3>. QED
      BY <1>0, <2>1, <2>4, <3>1, <3>2
  <2>7. TimedOutOnlySlow'
    BY <2>4 DEF TimedOutOnlySlow, F!TimedOutOnlySlow, FetchInv
  <2>. QED
    BY <1>0, <2>1, <2>4, <2>6, <2>7 DEF FetchInv, Paused, Last
<1>7. ASSUME F!TimesOut
      PROVE  FetchInv' /\ fetch'.file = fetch.file /\ fetch.at # "off"
  <2>. DEFINE rest == fetch.deadline - fetch.now
  <2>1. /\ fetch.at # "off" /\ rest \in Nat /\ fetch.now + rest = Budget
        /\ fetch.tries \in 1 .. (MaxTimes + 1)
    BY <1>0, <1>7 DEF F!TimesOut, FetchInv
  <2>2. F!Within(rest)
    BY <1>0, <2>1 DEF F!Within, FetchInv
  <2>3. Kept(F!Answered(rest), rest, rest) /\ Kept(F!Later(rest), rest, 0)
    BY <1>1, <2>1, <2>2
  <2>4. "TimedOut" \in F!Outcomes
    BY DEF F!Outcomes
  <2>5. CASE fetch.at = "request"
    <3>1. F!Outcome("TimedOut", F!Answered(rest))
      BY <1>7, <2>5 DEF F!TimesOut
    <3>2. F!Answered(rest).waited + F!Pauses >= Budget /\ F!Answered(rest).now <= Budget
      BY <2>1, <2>3 DEF Kept
    <3>3. fetch'.file = F!Answered(rest).file
      BY <2>3, <3>1 DEF F!Outcome, Fetches, Kept
    <3>. QED
      BY <2>1, <2>3, <2>4, <3>1, <3>2, <3>3, FetchEnds DEF Kept
  <2>6. CASE fetch.at = "backoff"
    <3>1. F!Outcome("TimedOut", F!Later(rest))
      BY <1>7, <2>6 DEF F!TimesOut
    <3>2. rest <= Delays[fetch.tries] /\ fetch.tries \in 1 .. MaxTimes
      BY <1>0, <1>7, <2>1, <2>6 DEF F!TimesOut, F!Awaits, F!Delay, FetchInv
    <3>3. fetch.waited + F!Pauses >= Budget
      <4>. DEFINE g == [fetch EXCEPT !.tries = fetch.tries + 1]
      <4>1. g \in Fetches /\ g.tries = fetch.tries + 1 /\ g.file = fetch.file
        BY <1>0, <3>2 DEF Fetches
      <4>. HIDE DEF g
      <4>2. Delays[fetch.tries + 1] = 2 * Delays[fetch.tries] /\ Delays[fetch.tries] \in Nat
        <5>1. Delays[fetch.tries + 1] = 2 * Delays[fetch.tries]
          BY <3>2, DelaysAssumption
        <5>2. fetch.tries \in 1 .. (MaxTimes + 1)
          BY <2>1
        <5>. QED
          BY <5>1, <5>2, DelaysGrow
      <4>3. Paused(g) = Paused(fetch) + Delays[fetch.tries] /\ Paused(fetch) \in Int
        BY <4>1, <4>2, DelaysGrow DEF Paused
      <4>4. Paused(g) <= F!Pauses /\ F!Pauses \in Nat
        BY <1>0, <3>2, <4>1, PausedBounds
      <4>5. fetch.now - fetch.waited <= Paused(fetch)
        BY <2>1 DEF FetchInv
      <4>. QED
        BY <1>0, <2>1, <3>2, <4>2, <4>3, <4>4, <4>5
    <3>4. fetch'.file = F!Later(rest).file
      BY <2>3, <3>1 DEF F!Outcome, Fetches, Kept
    <3>. QED
      BY <1>0, <2>1, <2>3, <2>4, <3>1, <3>3, <3>4, FetchEnds DEF Kept
  <2>. QED
    BY <1>0, <2>1, <2>5, <2>6
<1>8. F!Backoff \/ F!TimesOut
      \/ (\E d \in Durations : F!RequestSucceeds(d) \/ F!RequestUnretryable(d))
      \/ (\E d \in Durations \cup {RequestTimeout} : F!RequestFails(d))
  BY DEF F!Step
<1>9. fetch.at # "off"
  BY <1>8 DEF F!Backoff, F!TimesOut, F!RequestSucceeds, F!RequestUnretryable, F!RequestFails
<1>. QED
  BY <1>3, <1>4, <1>5, <1>6, <1>7, <1>8, <1>9

-----------------------------------------------------------------------------
(* The invariant of the commands.                                           *)

Jobs == [at : {"idle", "fetch", "install"}, channel : Channels, given : BOOLEAN,
         current : Versions \cup {None}, got : Nat, allow : BOOLEAN]

\* Releases are only ever added to, and what is installed was one of them.
WorldInv ==
    /\ origin \in DOMAIN Manifests /\ gateway \in 1 .. origin
    /\ installed \in FirstInstalls \cup Published
    /\ manual \in 0 .. MaxManual

\* A command judges the version it found, for the channel it was given or else that version's
\* own, by a manifest that the origin has served; what it installs has passed the gates.
JobInv ==
    /\ job \in Jobs /\ job.got <= origin
    /\ job.at # "idle" =>
          /\ job.current \in Versions
          /\ ~job.given => job.channel = ChannelOf(job.current)
    /\ job.at = "fetch" /\ fetch.file = "signature" => job.got >= 1
    /\ job.at = "install" => job.got >= 1 /\ Passes(job.allow)

\* What a check reports is about a version and a manifest.
OutcomeInv ==
    outcome.report \in {"Available", "UpToDate"} =>
        outcome.current \in Versions /\ outcome.got \in 1 .. origin

CycleInv == WorldInv /\ FetchInv /\ JobInv /\ OutcomeInv

LEMMA ManifestsTyped ==
    /\ Len(Manifests) \in Nat \ {0} /\ DOMAIN Manifests = 1 .. Len(Manifests)
    /\ \A n \in DOMAIN Manifests : Manifests[n] \in [Channels -> Releases \cup {None}]
<1>1. Manifests \in Seq([Channels -> Releases \cup {None}]) /\ Manifests # << >>
  BY ManifestsAssumption
<1>. QED
  BY <1>1, LenProperties, EmptySeq, ElementOfSeq

LEMMA InstalledAreVersions ==
    ASSUME origin \in DOMAIN Manifests
    PROVE  FirstInstalls \cup Published \subseteq Versions
<1>1. ASSUME NEW nc \in (1 .. origin) \X Channels, Manifests[nc[1]][nc[2]] # None
      PROVE  Manifests[nc[1]][nc[2]].version \in Versions
  <2>1. nc[1] \in DOMAIN Manifests /\ nc[2] \in Channels
    BY ManifestsTyped
  <2>2. Manifests[nc[1]][nc[2]] \in Releases
    BY <1>1, <2>1, ManifestsTyped
  <2>. QED
    BY <2>2 DEF Releases
<1>. QED
  BY <1>1, ManifestsAssumption DEF Published

LEMMA WorldStays ==
    ASSUME WorldInv, UNCHANGED <<origin, gateway, installed, manual>>
    PROVE  WorldInv'
  BY DEF WorldInv, Published

LEMMA OffKeeps ==
    ASSUME fetch' = F!Off
    PROVE  FetchInv'
<1>1. /\ fetch' \in Fetches /\ fetch'.now = 0 /\ fetch'.at = "off" /\ fetch'.outcome = "none"
      /\ fetch'.file = "manifest"
  BY DelaysGrow DEF F!Off, Fetches, F!Files, F!Outcomes
<1>. QED
  BY <1>1, DelaysGrow DEF FetchInv, TimedOutOnlySlow, F!TimedOutOnlySlow

\* Whatever ends a command leaves the world as it was or has installed a release.
LEMMA ReportKeeps ==
    ASSUME CycleInv, WorldInv', NEW result, Report(result), origin' = origin,
           result.report \in {"Available", "UpToDate"} =>
               result.current \in Versions /\ result.got \in 1 .. origin
    PROVE  CycleInv'
<1>1. FetchInv'
  BY OffKeeps DEF Report
<1>2. JobInv'
  <2>1. /\ Idle \in Jobs /\ Idle.at = "idle" /\ Idle.got = 0
    BY DEF Idle, Jobs, Channels
  <2>2. origin \in Nat
    BY ManifestsTyped DEF CycleInv, WorldInv
  <2>. QED
    BY <2>1, <2>2 DEF Report, JobInv
<1>3. OutcomeInv'
  BY DEF OutcomeInv, Report
<1>. QED
  BY <1>1, <1>2, <1>3 DEF CycleInv

LEMMA EndedKeeps ==
    ASSUME CycleInv, WorldInv', NEW what, Ended(what), origin' = origin,
           what \notin {"Available", "UpToDate"}
    PROVE  CycleInv'
<1>1. [Nothing EXCEPT !.report = what].report = what
  BY DEF Nothing
<1>. QED
  BY <1>1, ReportKeeps DEF Ended

LEMMA CycleInit == Init => CycleInv
<1>. SUFFICES ASSUME Init PROVE CycleInv
  OBVIOUS
<1>1. WorldInv
  BY ManifestsTyped, ManualAssumption DEF Init, WorldInv
<1>2. FetchInv
  <2>1. /\ fetch \in Fetches /\ fetch.now = 0 /\ fetch.at = "off" /\ fetch.outcome = "none"
        /\ fetch.file = "manifest"
    BY DelaysGrow DEF Init, F!Off, Fetches, F!Files, F!Outcomes
  <2>. QED
    BY <2>1, DelaysGrow DEF FetchInv, TimedOutOnlySlow, F!TimedOutOnlySlow
<1>3. JobInv /\ OutcomeInv
  BY DEF Init, Idle, Nothing, JobInv, OutcomeInv, Jobs, Channels
<1>. QED
  BY <1>1, <1>2, <1>3 DEF CycleInv

LEMMA BeginKeeps ==
    ASSUME CycleInv, NEW channel \in Channels, NEW given \in BOOLEAN, Begin(channel, given)
    PROVE  CycleInv'
<1>1. WorldInv'
  BY WorldStays DEF Begin, CycleInv
<1>2. FetchInv'
  <2>1. /\ fetch' \in Fetches /\ fetch'.at = "request" /\ fetch'.file = "manifest"
        /\ fetch'.tries = 1 /\ fetch'.now = 0 /\ fetch'.waited = 0
        /\ fetch'.deadline = Budget /\ fetch'.outcome = "none"
    <3>1. 1 \in 0 .. (MaxTimes + 1) /\ Budget \in Nat
      BY DelaysGrow
    <3>. QED
      BY <3>1 DEF Begin, F!Start, F!Off, Fetches, F!Files, F!Outcomes
  <2>2. Paused(fetch') = 0 /\ 1 \in 1 .. (MaxTimes + 1)
    BY <2>1, DelaysGrow DEF Paused
  <2>. QED
    BY <2>1, <2>2, DelaysGrow DEF FetchInv, Paused, Last, TimedOutOnlySlow, F!TimedOutOnlySlow
<1>3. JobInv'
  <2>1. installed \in Versions
    BY InstalledAreVersions DEF CycleInv, WorldInv
  <2>2. job' \in Jobs /\ job'.at = "fetch" /\ job'.channel = channel /\ job'.given = given
        /\ job'.current = installed /\ job'.got = 0
    BY <2>1 DEF Begin, Idle, Jobs
  <2>3. fetch'.file = "manifest"
    BY DEF Begin, F!Start, F!Off
  <2>4. origin' \in Nat
    BY ManifestsTyped DEF Begin, CycleInv, WorldInv
  <2>. QED
    BY <2>1, <2>2, <2>3, <2>4 DEF JobInv, Begin
<1>4. OutcomeInv'
  BY DEF Begin, Nothing, OutcomeInv
<1>. QED
  BY <1>1, <1>2, <1>3, <1>4 DEF CycleInv

LEMMA FetchKeeps ==
    ASSUME CycleInv, FetchStep
    PROVE  CycleInv'
<1>1. WorldInv'
  BY WorldStays DEF FetchStep, CycleInv
<1>2. FetchInv' /\ (fetch'.file = fetch.file \/ fetch'.file = "signature")
  BY FetchStepKeeps DEF FetchStep, CycleInv
<1>3. JobInv'
  <2>1. /\ job \in Jobs /\ job.got <= origin /\ job.at = "fetch" /\ job.current \in Versions
        /\ ~job.given => job.channel = ChannelOf(job.current)
        /\ fetch.file = "signature" => job.got >= 1
    BY DEF CycleInv, JobInv, FetchStep, At
  <2>2. Served(job.channel) \in Nat /\ Served(job.channel) \in 1 .. origin
    BY ManifestsTyped DEF Served, CycleInv, WorldInv
  <2>3. PICK n \in Nat : /\ job' = [job EXCEPT !.got = n] /\ n <= origin
                         /\ fetch'.file = "signature" => n >= 1
    <3>1. fetch.file \in {"manifest", "signature"}
      BY DEF CycleInv, FetchInv, Fetches, F!Files
    <3>2. CASE fetch.file = "manifest" /\ fetch'.file = "signature"
      BY <2>2, <3>2 DEF FetchStep
    <3>3. CASE ~(fetch.file = "manifest" /\ fetch'.file = "signature")
      <4>1. job' = [job EXCEPT !.got = job.got] /\ job.got \in Nat
        BY <2>1, <3>3 DEF FetchStep, Jobs
      <4>2. fetch'.file = "signature" => job.got >= 1
        BY <1>2, <2>1, <3>1, <3>3
      <4>. QED
        BY <2>1, <4>1, <4>2
    <3>. QED
      BY <3>2, <3>3
  <2>4. /\ job' \in Jobs /\ job'.at = "fetch" /\ job'.got = n /\ job'.current = job.current
        /\ job'.given = job.given /\ job'.channel = job.channel
    BY <2>1, <2>3 DEF Jobs
  <2>. QED
    BY <2>1, <2>3, <2>4 DEF JobInv, FetchStep
<1>4. OutcomeInv'
  BY DEF FetchStep, OutcomeInv, CycleInv
<1>. QED
  BY <1>1, <1>2, <1>3, <1>4 DEF CycleInv

\* A fetched manifest is one that the origin has served.
LEMMA FetchedGot ==
    ASSUME CycleInv, Fetched
    PROVE  job.got \in 1 .. origin /\ job.current \in Versions
<1>1. fetch.file = "signature" /\ job.at = "fetch"
  BY DEF CycleInv, FetchInv, Fetched, At
<1>2. job.got \in Nat /\ job.got <= origin /\ job.got >= 1 /\ job.current \in Versions
  BY <1>1 DEF CycleInv, JobInv, Jobs
<1>3. origin \in Nat
  BY ManifestsTyped DEF CycleInv, WorldInv
<1>. QED
  BY <1>2, <1>3

LEMMA CheckKeeps ==
    ASSUME CycleInv, Check
    PROVE  CycleInv'
<1>1. WorldInv'
  BY WorldStays DEF Check, CycleInv
<1>2. job.got \in 1 .. origin /\ job.current \in Versions
  BY FetchedGot DEF Check
<1>. DEFINE result == [report |-> CheckOutcome(Manifest, job.current, job.channel),
                       end_of_life |-> EndOfLifeFor(Manifest, job.current),
                       current |-> job.current, got |-> job.got]
<1>3. Report(result) /\ origin' = origin
  BY DEF Check
<1>4. result.current = job.current /\ result.got = job.got
  OBVIOUS
<1>. HIDE DEF result
<1>. QED
  BY <1>1, <1>2, <1>3, <1>4, ReportKeeps

LEMMA AcceptKeeps ==
    ASSUME CycleInv, NEW allow \in BOOLEAN, Accept(allow)
    PROVE  CycleInv'
<1>1. WorldInv' /\ FetchInv' /\ OutcomeInv'
  BY WorldStays DEF Accept, CycleInv, OutcomeInv, FetchInv, TimedOutOnlySlow, F!TimedOutOnlySlow
<1>2. job.got \in 1 .. origin /\ job.current \in Versions
  BY FetchedGot DEF Accept
<1>3. /\ job' \in Jobs /\ job'.at = "install" /\ job'.got = job.got /\ job'.allow = allow
      /\ job'.current = job.current /\ job'.given = job.given /\ job'.channel = job.channel
  BY DEF Accept, CycleInv, JobInv, Jobs
<1>4. Passes(job.allow)'
  BY <1>3 DEF Accept, Passes, Release, Manifest
<1>5. job.at # "idle" /\ origin' = origin
  BY DEF Accept, Fetched, At
<1>. QED
  BY <1>1, <1>2, <1>3, <1>4, <1>5 DEF CycleInv, JobInv

\* What an update installs is a version of a manifest that was published.
LEMMA ReleasePublished ==
    ASSUME CycleInv, At("install")
    PROVE  /\ Release \in Releases /\ Release # None /\ Release.version \in Published
           /\ ChannelOf(Release.version) = job.channel
<1>1. job.got \in 1 .. origin /\ job.channel \in Channels /\ Release # None
  BY ManifestsTyped DEF CycleInv, WorldInv, JobInv, Jobs, At, Passes
<1>2. job.got \in DOMAIN Manifests
  BY <1>1, ManifestsTyped DEF CycleInv, WorldInv
<1>3. Release \in Releases
  BY <1>1, <1>2, ManifestsTyped DEF Release, Manifest
<1>4. Release.version \in Published
  <2>1. /\ <<job.got, job.channel>> \in (1 .. origin) \X Channels
        /\ <<job.got, job.channel>>[1] = job.got /\ <<job.got, job.channel>>[2] = job.channel
    BY <1>1
  <2>. QED
    BY <1>1, <2>1 DEF Published, Release, Manifest
<1>5. ChannelOf(Release.version) = job.channel
  BY <1>1, <1>2, ManifestsAssumption DEF Release, Manifest
<1>. QED
  BY <1>1, <1>3, <1>4, <1>5

LEMMA InstallKeeps ==
    ASSUME CycleInv, NEW what, Ended(what), what \notin {"Available", "UpToDate"},
           At("install"), PayloadLandsOrNot, UNCHANGED <<origin, gateway, manual>>
    PROVE  CycleInv'
<1>1. WorldInv'
  <2>1. installed' \in Published \cup {installed} /\ Published' = Published
    BY ReleasePublished DEF PayloadLandsOrNot, Published
  <2>. QED
    BY <2>1 DEF CycleInv, WorldInv
<1>. QED
  BY <1>1, EndedKeeps

LEMMA PublishKeeps ==
    ASSUME CycleInv, Publish
    PROVE  CycleInv'
<1>1. /\ origin \in Nat /\ origin' = origin + 1 /\ origin' \in DOMAIN Manifests
  BY ManifestsTyped DEF Publish, CycleInv, WorldInv
<1>2. Published \subseteq Published'
  BY <1>1 DEF Published
<1>3. WorldInv'
  BY <1>1, <1>2 DEF Publish, CycleInv, WorldInv
<1>4. FetchInv'
  BY DEF Publish, CycleInv, FetchInv, TimedOutOnlySlow, F!TimedOutOnlySlow
<1>5. JobInv'
  BY <1>1 DEF Publish, CycleInv, JobInv, Jobs, Passes, Release, Manifest
<1>6. OutcomeInv'
  BY <1>1 DEF Publish, CycleInv, OutcomeInv
<1>. QED
  BY <1>3, <1>4, <1>5, <1>6 DEF CycleInv

\* The steps of the gateway and of a user, which change neither a command nor the origin.
LEMMA OthersKeep ==
    ASSUME CycleInv, WorldInv', UNCHANGED <<origin, job, fetch, outcome>>
    PROVE  CycleInv'
<1>1. FetchInv'
  BY DEF CycleInv, FetchInv, TimedOutOnlySlow, F!TimedOutOnlySlow
<1>2. JobInv'
  BY DEF CycleInv, JobInv, Passes, Release, Manifest
<1>3. OutcomeInv'
  BY DEF CycleInv, OutcomeInv
<1>. QED
  BY <1>1, <1>2, <1>3 DEF CycleInv

LEMMA CycleStep == CycleInv /\ [Next]_vars => CycleInv'
<1>. SUFFICES ASSUME CycleInv, [Next]_vars PROVE CycleInv'
  OBVIOUS
<1>1. CASE CannotBegin
  BY <1>1, WorldStays, EndedKeeps DEF CannotBegin, CycleInv
<1>2. ASSUME NEW c \in Channels, NEW given \in BOOLEAN, Begin(c, given) PROVE CycleInv'
  BY <1>2, BeginKeeps
<1>3. CASE FetchStep
  BY <1>3, FetchKeeps
<1>4. CASE NoManifest
  BY <1>4, WorldStays, EndedKeeps DEF NoManifest, CycleInv
<1>5. CASE Check
  BY <1>5, CheckKeeps
<1>6. ASSUME NEW allow \in BOOLEAN, Refuse(allow) PROVE CycleInv'
  BY <1>6, WorldStays, EndedKeeps DEF Refuse, CycleInv
<1>7. ASSUME NEW allow \in BOOLEAN, Accept(allow) PROVE CycleInv'
  BY <1>7, AcceptKeeps
<1>8. CASE Install
  BY <1>8, InstallKeeps DEF Install, PayloadLandsOrNot
<1>9. CASE InstallFails
  BY <1>9, InstallKeeps DEF InstallFails
<1>10. CASE Killed
  <2>1. CASE At("install")
    BY <1>10, <2>1, InstallKeeps DEF Killed
  <2>2. CASE ~At("install")
    BY <1>10, <2>2, WorldStays, EndedKeeps DEF Killed, CycleInv
  <2>. QED
    BY <2>1, <2>2
<1>11. CASE Publish
  BY <1>11, PublishKeeps
<1>12. CASE GatewaySyncs
  <2>1. WorldInv'
    BY <1>12, ManifestsTyped DEF GatewaySyncs, CycleInv, WorldInv, Published
  <2>. QED
    BY <1>12, <2>1, OthersKeep DEF GatewaySyncs
<1>13. CASE InstallByHand
  <2>1. WorldInv'
    BY <1>13, ManualAssumption DEF InstallByHand, CycleInv, WorldInv, Published
  <2>. QED
    BY <1>13, <2>1, OthersKeep DEF InstallByHand
<1>14. CASE UNCHANGED vars
  BY <1>14, WorldStays, OthersKeep DEF vars, CycleInv
<1>. QED
  BY <1>1, <1>2, <1>3, <1>4, <1>5, <1>6, <1>7, <1>8, <1>9, <1>10, <1>11, <1>12, <1>13, <1>14
     DEF Next

\* Every command finds and keeps what it goes by, and every fetch its times.
THEOREM CycleInvariant == Spec => []CycleInv
  BY CycleInit, CycleStep, PTL DEF Spec

-----------------------------------------------------------------------------
(* The properties that the runs check.                                      *)

\* What is installed was installed at first or published since, and no count, version or
\* manifest is ever one that the commands could not have.
THEOREM CycleTypeCorrect == Spec => []CycleTypeOK
<1>1. CycleInv => CycleTypeOK
  <2>. SUFFICES ASSUME CycleInv PROVE CycleTypeOK
    OBVIOUS
  <2>1. F!TypeOK
    BY DEF CycleInv, FetchInv, Fetches, F!TypeOK
  <2>2. job.got \in 0 .. origin
    BY ManifestsTyped DEF CycleInv, WorldInv, JobInv, Jobs
  <2>. QED
    BY <2>1, <2>2 DEF CycleInv, WorldInv, JobInv, Jobs, CycleTypeOK
<1>. QED
  BY <1>1, CycleInvariant, PTL

\* An answer comes before the app gives up, however the requests and their retries go and
\* whatever the durations, the backoff and the number of retries are.
THEOREM AlwaysInTime == Spec => []AnswersInTime
<1>1. CycleInv => AnswersInTime
  BY BudgetAssumption DEF CycleInv, FetchInv, Fetches, AnswersInTime, F!AnswersInTime
<1>. QED
  BY <1>1, CycleInvariant, PTL

\* Whoever is timed out has waited for servers all the time that the pauses of both files leave,
\* for every backoff that doubles.
THEOREM OnlySlowTimesOut == Spec => []TimedOutOnlySlow
<1>1. CycleInv => TimedOutOnlySlow
  BY DEF CycleInv, FetchInv
<1>. QED
  BY <1>1, CycleInvariant, PTL

\* Whatever end of life a check reports is the earliest that names the version, and no older
\* version of the channel is told a later one, for every manifest.
THEOREM EndOfLifeFair == Spec => []EndOfLifeMonotone
<1>1. CycleInv => EndOfLifeMonotone
  <2>. SUFFICES ASSUME CycleInv, outcome.report \in {"Available", "UpToDate"}
                PROVE  Fair(Manifests[outcome.got], outcome.current, FirstInstalls \cup Published)
    BY DEF EndOfLifeMonotone, Fair
  <2>1. outcome.current \in Versions /\ outcome.got \in DOMAIN Manifests
    BY ManifestsTyped DEF CycleInv, WorldInv, OutcomeInv
  <2>2. FirstInstalls \cup Published \subseteq Versions
    BY InstalledAreVersions DEF CycleInv, WorldInv
  <2>. QED
    BY <2>1, <2>2, ManifestsTyped, EndOfLifeIsFair
<1>. QED
  BY <1>1, CycleInvariant, PTL

\* Of all steps only installer(8)'s changes the version file while a command installs, whether it
\* ends well, fails or outlives the command.
LEMMA OnlyRelease ==
    ASSUME CycleInv, [Next]_vars, ByUpdate, installed' # installed
    PROVE  At("install") /\ installed' = Release.version
<1>1. manual \in Nat
  BY ManualAssumption DEF CycleInv, WorldInv
<1>2. ~InstallByHand
  BY <1>1 DEF InstallByHand, ByUpdate
<1>. QED
  BY <1>2 DEF Next, vars, ByUpdate, CannotBegin, Begin, FetchStep, NoManifest, Check, Refuse,
              Accept, Install, InstallFails, Killed, PayloadLandsOrNot, Publish, GatewaySyncs

\* Within a channel and without --allow-downgrade an update replaces the version it found only
\* by a newer one.
THEOREM UpdatesForward == Spec => NeverOlder
<1>1. ASSUME CycleInv, [Next]_vars, ByUpdate, installed' # installed, ~job.allow,
             ChannelOf(job.current) = job.channel
      PROVE  Less(job.current, installed')
  <2>1. At("install") /\ installed' = Release.version
    BY <1>1, OnlyRelease
  <2>2. installed' = Release.version /\ Passes(job.allow) /\ job.allow = FALSE
    BY <1>1, <2>1 DEF At, CycleInv, JobInv, Jobs
  <2>3. Installable(EnsureInstallable(Release, job.current, job.channel, FALSE))
    BY <2>2 DEF Passes
  <2>4. Compare(Release.version, job.current) = "Greater"
    BY <1>1, <2>3 DEF Installable, EnsureInstallable, Compare
  <2>. QED
    BY <2>2, <2>4 DEF Compare
<1>2. CycleInv /\ [Next]_vars =>
        [ByUpdate /\ installed' # installed /\ ~job.allow /\ ChannelOf(job.current) = job.channel
         => Less(job.current, installed')]_vars
  BY <1>1
<1>. QED
  BY <1>2, CycleInvariant, PTL DEF Spec, NeverOlder

\* Without --channel an update stays on the channel of the version it found.
THEOREM UpdatesOnChannel == Spec => StaysOnChannel
<1>1. ASSUME CycleInv, [Next]_vars, ByUpdate, installed' # installed, ~job.given
      PROVE  ChannelOf(installed') = ChannelOf(job.current)
  <2>1. At("install") /\ installed' = Release.version
    BY <1>1, OnlyRelease
  <2>2. installed' = Release.version /\ ChannelOf(Release.version) = job.channel
    BY <1>1, <2>1, ReleasePublished
  <2>3. job.channel = ChannelOf(job.current)
    BY <1>1, <2>1 DEF CycleInv, JobInv, At
  <2>. QED
    BY <2>2, <2>3
<1>2. CycleInv /\ [Next]_vars =>
        [ByUpdate /\ installed' # installed /\ ~job.given
         => ChannelOf(installed') = ChannelOf(job.current)]_vars
  BY <1>1
<1>. QED
  BY <1>2, CycleInvariant, PTL DEF Spec, StaysOnChannel

-----------------------------------------------------------------------------
(* The installer choices.                                                   *)

\* f is what there is from first on after every one of N steps.
Iterates(f, first, step, N) ==
    f[0] = first /\ \A n \in 1 .. N : f[n] = step[n][f[n - 1]]

LEMMA StepByStep ==
    ASSUME NEW N \in Nat, NEW S, NEW first \in S, NEW step \in [1 .. N -> [S -> S]]
    PROVE  \E f \in [0 .. N -> S] : Iterates(f, first, step, N)
<1>. DEFINE Upto(m) == \E f \in [0 .. m -> S] : Iterates(f, first, step, m)
            Not == {m \in 0 .. N : ~Upto(m)}
<1>1. SUFFICES ASSUME Not # {} PROVE FALSE
  <2>. HIDE DEF Upto
  <2>1. N \in 0 .. N /\ (Not = {} => Upto(N))
    OBVIOUS
  <2>. USE DEF Upto
  <2>. QED
    BY <2>1
<1>2. PICK m \in Not : \A n \in Not : m <= n
  BY <1>1, Least, Not \subseteq Nat
<1>3. CASE m = 0
  <2>. DEFINE f == [n \in 0 .. 0 |-> first]
  <2>1. f \in [0 .. m -> S] /\ Iterates(f, first, step, m)
    BY <1>3 DEF Iterates
  <2>. QED
    BY <1>2, <2>1
<1>4. CASE m # 0
  <2>1. m \in 1 .. N /\ m - 1 \in 0 .. N /\ ~(m <= m - 1)
    BY <1>2, <1>4
  <2>2. Upto(m - 1)
    BY <1>2, <2>1
  <2>3. PICK g \in [0 .. (m - 1) -> S] : Iterates(g, first, step, m - 1)
    BY <2>2
  <2>. DEFINE f == [n \in 0 .. m |-> IF n = m THEN step[m][g[m - 1]] ELSE g[n]]
  <2>4. step[m] \in [S -> S] /\ g[m - 1] \in S
    BY <2>1
  <2>5. f \in [0 .. m -> S]
    BY <2>1, <2>4
  <2>6. f[0] = first
    BY <2>1, <2>3 DEF Iterates
  <2>7. ASSUME NEW n \in 1 .. m PROVE f[n] = step[n][f[n - 1]]
    <3>1. n - 1 \in 0 .. m /\ n - 1 # m /\ n \in 0 .. m
      BY <2>1
    <3>2. f[n - 1] = g[n - 1]
      BY <3>1
    <3>3. CASE n = m
      BY <3>1, <3>2, <3>3
    <3>4. CASE n # m
      <4>1. n \in 1 .. (m - 1)
        BY <2>1, <3>4
      <4>. QED
        BY <2>3, <3>1, <3>2, <3>4, <4>1 DEF Iterates
    <3>. QED
      BY <3>3, <3>4
  <2>8. Iterates(f, first, step, m)
    <3>. HIDE DEF f
    <3>. QED
      BY <2>6, <2>7 DEF Iterates
  <2>. QED
    BY <1>2, <2>5, <2>8
<1>. QED
  BY <1>3, <1>4

Ids == C!Members(C!NetworkIds) \cup C!Members(C!LoglevelIds)

Changes == [group : SUBSET Ids, id : Ids, selected : BOOLEAN]

LEMMA ApplyTyped ==
    ASSUME NEW selection \in SUBSET Ids, NEW change \in Changes
    PROVE  C!Apply(selection, change) \in SUBSET Ids
BY DEF C!Apply, Changes

\* The changes are applied in their order.
LEMMA AppliedIs ==
    ASSUME NEW changes \in Seq(Changes)
    PROVE  \E f : /\ f[0] = C!Defaults /\ C!Applied(changes) = f[Len(changes)]
                 /\ \A n \in 1 .. Len(changes) : f[n] = C!Apply(f[n - 1], changes[n])
<1>. DEFINE N == Len(changes)
            S == SUBSET Ids
            step == [n \in 1 .. N |-> [s \in S |-> C!Apply(s, changes[n])]]
<1>1. N \in Nat /\ \A n \in 1 .. N : changes[n] \in Changes
  BY LenProperties, ElementOfSeq
<1>2. C!Defaults \in S
  BY DEF C!Defaults, Ids, C!Members, C!NetworkIds, C!LoglevelIds
<1>3. step \in [1 .. N -> [S -> S]]
  BY <1>1, ApplyTyped
<1>4. PICK f \in [0 .. N -> S] : Iterates(f, C!Defaults, step, N)
  <2>1. N \in Nat
    BY <1>1
  <2>. HIDE DEF N, S, step
  <2>. QED
    BY <1>2, <1>3, <2>1, StepByStep
<1>5. \A n \in 1 .. N : n - 1 \in 0 .. N /\ f[n - 1] \in S
  BY <1>1
<1>6. \A n \in 1 .. N : f[n] = C!Apply(f[n - 1], changes[n])
  BY <1>4, <1>5 DEF Iterates
<1>. DEFINE Rec(g) == g = [n \in 0 .. N |-> IF n = 0 THEN C!Defaults
                                            ELSE C!Apply(g[n - 1], changes[n])]
<1>7. Rec(f)
  <2>1. \A n \in 0 .. N : n # 0 => n \in 1 .. N
    BY <1>1
  <2>. QED
    BY <1>4, <1>6, <2>1 DEF Iterates
<1>8. PICK g : Rec(g) /\ C!Applied(changes) = g[N]
  <2>. DEFINE g == CHOOSE g : Rec(g)
  <2>1. Rec(g)
    BY <1>7
  <2>2. C!Applied(changes) = g[N]
    BY DEF C!Applied
  <2>. QED
    BY <2>1, <2>2
<1>9. \A n \in 1 .. N : n \in 0 .. N /\ n # 0
  BY <1>1
<1>10. 0 \in 0 .. N
  BY <1>1
<1>. QED
  BY <1>8, <1>9, <1>10

\* Both orders of a group of two: ids lists a at place k and b at the other one.
LEMMA PinIs ==
    ASSUME NEW ids, Len(ids) = 2, DOMAIN ids = {1, 2}, NEW a \in Ids, NEW b \in Ids, a # b, a # None,
           \/ ids[1] = a /\ ids[2] = b
           \/ ids[1] = b /\ ids[2] = a
    PROVE  /\ C!Pin(ids, a) \in Seq(Changes) /\ Len(C!Pin(ids, a)) = 2
           /\ C!Pin(ids, a)[1] = C!Set(ids, b, FALSE) /\ C!Pin(ids, a)[2] = C!Set(ids, a, TRUE)
<1>. DEFINE other == C!Set(ids, b, FALSE)
            chosen == C!Set(ids, a, TRUE)
            first == C!Deselect(ids, a)
<1>. DEFINE k == IF ids[1] = a THEN 1 ELSE 2
<1>1. (CHOOSE i \in DOMAIN ids : ids[i] = a) = k
  <2>1. \A i \in DOMAIN ids : ids[i] = a <=> i = k
    OBVIOUS
  <2>. HIDE DEF k
  <2>2. k \in DOMAIN ids
    BY DEF k
  <2>. QED
    BY <2>1, <2>2
<1>2. C!Others(ids, a)[1] = b
  BY <1>1 DEF C!Others
<1>3. other \in Changes /\ chosen \in Changes
  <2>1. C!Members(ids) \subseteq Ids
    BY DEF C!Members
  <2>. QED
    BY <2>1 DEF C!Set, Changes
<1>4. first = [n \in 1 .. 1 |-> other]
  <2>1. first = [n \in 1 .. 1 |-> C!Set(ids, C!Others(ids, a)[n], FALSE)]
    BY DEF C!Deselect
  <2>2. \A n \in 1 .. 1 : n = 1
    OBVIOUS
  <2>. HIDE DEF first
  <2>. QED
    BY <1>2, <2>1, <2>2
<1>5. first \in Seq(Changes) /\ Len(first) = 1 /\ first[1] = other
  <2>. HIDE DEF first, other
  <2>. QED
    BY <1>3, <1>4
<1>6. C!Pin(ids, a) = first \o << chosen >>
  BY DEF C!Pin
<1>7. << chosen >> \in Seq(Changes) /\ Len(<< chosen >>) = 1 /\ << chosen >>[1] = chosen
  <2>. HIDE DEF chosen
  <2>. QED
    BY <1>3
<1>. HIDE DEF first, chosen, other
<1>8. /\ first \o << chosen >> \in Seq(Changes) /\ Len(first \o << chosen >>) = 2
      /\ (first \o << chosen >>)[1] = first[1] /\ (first \o << chosen >>)[2] = << chosen >>[1]
  <2>. DEFINE last == << chosen >>
  <2>1. last \in Seq(Changes) /\ Len(last) = 1
    BY <1>7
  <2>. HIDE DEF last
  <2>. DEFINE both == first \o last
  <2>2. both \in Seq(Changes) /\ Len(both) = Len(first) + Len(last)
    BY <1>5, <2>1, ConcatProperties
  <2>3. \A i \in 1 .. (Len(first) + Len(last)) :
            both[i] = IF i <= Len(first) THEN first[i] ELSE last[i - Len(first)]
    <3>1. \A s, t \in Seq(Changes) : \A n \in 1 .. (Len(s) + Len(t)) :
              (s \o t)[n] = IF n <= Len(s) THEN s[n] ELSE t[n - Len(s)]
      BY ConcatProperties
    <3>. QED
      BY <1>5, <2>1, <3>1
  <2>. HIDE DEF both
  <2>4. Len(both) = 2 /\ both[1] = first[1] /\ both[2] = last[1]
    BY <1>5, <2>1, <2>2, <2>3
  <2>. QED
    BY <2>2, <2>4 DEF last, both
<1>. QED
  BY <1>5, <1>6, <1>7, <1>8 DEF other, chosen

\* Whichever member of the group is selected, the pinned one is in the end, and alone.
LEMMA PinSelects ==
    ASSUME NEW a, NEW b, a # b, NEW ids, C!Members(ids) = {a, b},
           NEW selection, selection \cap {a, b} = {a} \/ selection \cap {a, b} = {b}
    PROVE  C!Apply(C!Apply(selection, C!Set(ids, b, FALSE)), C!Set(ids, a, TRUE))
           = (selection \ {b}) \cup {a}
<1>. DEFINE other == C!Set(ids, b, FALSE)
            chosen == C!Set(ids, a, TRUE)
<1>1. /\ other.group = {a, b} /\ other.id = b /\ other.selected = FALSE
      /\ chosen.group = {a, b} /\ chosen.id = a /\ chosen.selected = TRUE
  BY DEF C!Set
<1>. HIDE DEF other, chosen
<1>2. CASE selection \cap {a, b} = {a}
  <2>1. C!Apply(selection, other) = selection
    BY <1>1, <1>2 DEF C!Apply
  <2>2. C!Apply(selection, chosen) = selection \cup {a}
    BY <1>1, <1>2 DEF C!Apply
  <2>3. selection \ {b} = selection
    BY <1>2
  <2>. QED
    BY <2>1, <2>2, <2>3 DEF other, chosen
<1>3. CASE selection \cap {a, b} = {b}
  <2>1. C!Apply(selection, other) = selection \ {b}
    BY <1>1, <1>3 DEF C!Apply
  <2>2. (selection \ {b}) \cap {a, b} = {}
    BY <1>3
  <2>3. C!Apply(selection \ {b}, chosen) = (selection \ {b}) \cup {a}
    BY <1>1, <2>2 DEF C!Apply
  <2>. QED
    BY <2>1, <2>3 DEF other, chosen
<1>. QED
  BY <1>2, <1>3

LEMMA GroupsAre ==
    /\ C!Members(C!NetworkIds) = {"jura", "rotsee"} /\ C!Members(C!LoglevelIds) = {"info", "debug"}
    /\ Ids = {"jura", "rotsee", "info", "debug"} /\ None \notin Ids
    /\ Len(C!NetworkIds) = 2 /\ Len(C!LoglevelIds) = 2
    /\ DOMAIN C!NetworkIds = {1, 2} /\ DOMAIN C!LoglevelIds = {1, 2}
    /\ C!NetworkIds[1] = "jura" /\ C!NetworkIds[2] = "rotsee"
    /\ C!LoglevelIds[1] = "info" /\ C!LoglevelIds[2] = "debug"
BY UndetectedAssumption DEF C!Members, C!NetworkIds, C!LoglevelIds, Ids

Groups == {C!NetworkIds, C!LoglevelIds}

LEMMA PinOfGroup ==
    ASSUME NEW ids \in Groups, NEW chosen \in C!Members(ids)
    PROVE  \E other \in Ids :
               /\ other # chosen /\ C!Members(ids) = {chosen, other} /\ chosen \in Ids
               /\ C!Pin(ids, chosen) \in Seq(Changes) /\ Len(C!Pin(ids, chosen)) = 2
               /\ C!Pin(ids, chosen)[1] = C!Set(ids, other, FALSE)
               /\ C!Pin(ids, chosen)[2] = C!Set(ids, chosen, TRUE)
<1>1. Len(ids) = 2 /\ DOMAIN ids = {1, 2} /\ ids[1] \in Ids /\ ids[2] \in Ids /\ ids[1] # ids[2]
      /\ ids[1] # None /\ ids[2] # None /\ C!Members(ids) = {ids[1], ids[2]}
  BY GroupsAre DEF Groups
<1>2. CASE chosen = ids[1]
  <2>1. chosen \in Ids /\ chosen # ids[2] /\ chosen # None
    BY <1>1, <1>2
  <2>. QED
    BY <1>1, <1>2, <2>1, PinIs
<1>3. CASE chosen = ids[2]
  <2>1. chosen \in Ids /\ chosen # ids[1] /\ chosen # None
    BY <1>1, <1>3
  <2>2. C!Members(ids) = {chosen, ids[1]}
    BY <1>1, <1>3
  <2>3. /\ C!Pin(ids, chosen) \in Seq(Changes) /\ Len(C!Pin(ids, chosen)) = 2
        /\ C!Pin(ids, chosen)[1] = C!Set(ids, ids[1], FALSE)
        /\ C!Pin(ids, chosen)[2] = C!Set(ids, chosen, TRUE)
    BY <1>1, <1>3, <2>1, PinIs
  <2>. QED
    BY <1>1, <2>1, <2>2, <2>3
<1>. QED
  BY <1>1, <1>2, <1>3

LEMMA NothingPinned ==
    ASSUME NEW ids
    PROVE  C!Pin(ids, None) = << >>
BY DEF C!Pin

LEMMA PinTyped ==
    ASSUME NEW ids \in Groups, NEW chosen \in C!Members(ids) \cup {None}
    PROVE  C!Pin(ids, chosen) \in Seq(Changes) /\ Len(C!Pin(ids, chosen)) \in Nat
<1>1. CASE chosen = None
  <2>1. C!Pin(ids, chosen) = << >>
    BY <1>1, NothingPinned
  <2>. QED
    BY <2>1, EmptySeq
<1>2. CASE chosen \in C!Members(ids)
  <2>1. C!Pin(ids, chosen) \in Seq(Changes)
    BY <1>2, PinOfGroup
  <2>. QED
    BY <2>1, LenProperties
<1>. QED
  BY <1>1, <1>2

\* f[i] is selected before the changes of the group, f[i + 1] after the first of them.
Follows(f, i, pin) ==
    \A n \in 1 .. Len(pin) : f[i + n] = C!Apply(f[i + n - 1], pin[n])

Wanted(chosen, default) == IF chosen = None THEN default ELSE chosen

\* One group's changes, from i on among all: the pinned member is selected in the end, or the
\* default as before; the other group is left alone.
LEMMA GroupPinned ==
    ASSUME NEW ids \in Groups, NEW chosen \in C!Members(ids) \cup {None},
           NEW default \in C!Members(ids), NEW f, NEW i \in Nat,
           f[i] \cap C!Members(ids) = {default},
           Follows(f, i, C!Pin(ids, chosen))
    PROVE  f[i + Len(C!Pin(ids, chosen))]
           = (f[i] \ C!Members(ids)) \cup {Wanted(chosen, default)}
<1>1. CASE chosen = None
  <2>1. Len(C!Pin(ids, chosen)) = 0
    BY <1>1, NothingPinned, EmptySeq
  <2>2. f[i] = (f[i] \ C!Members(ids)) \cup {default}
    OBVIOUS
  <2>3. i + 0 = i
    OBVIOUS
  <2>. QED
    BY <1>1, <2>1, <2>2, <2>3 DEF Wanted
<1>2. CASE chosen \in C!Members(ids)
  <2>1. PICK other \in Ids :
            /\ other # chosen /\ C!Members(ids) = {chosen, other} /\ chosen \in Ids
            /\ C!Pin(ids, chosen) \in Seq(Changes) /\ Len(C!Pin(ids, chosen)) = 2
            /\ C!Pin(ids, chosen)[1] = C!Set(ids, other, FALSE)
            /\ C!Pin(ids, chosen)[2] = C!Set(ids, chosen, TRUE)
    BY <1>2, PinOfGroup
  <2>2. /\ 1 \in 1 .. 2 /\ 2 \in 1 .. 2
        /\ i + 1 - 1 = i /\ i + 2 - 1 = i + 1
    OBVIOUS
  <2>3. f[i + 1] = C!Apply(f[i], C!Set(ids, other, FALSE))
    BY <2>1, <2>2 DEF Follows
  <2>4. f[i + 2] = C!Apply(f[i + 1], C!Set(ids, chosen, TRUE))
    BY <2>1, <2>2 DEF Follows
  <2>5. f[i] \cap {chosen, other} = {chosen} \/ f[i] \cap {chosen, other} = {other}
    BY <2>1
  <2>6. f[i + 2] = (f[i] \ {other}) \cup {chosen}
    <3>1. C!Apply(C!Apply(f[i], C!Set(ids, other, FALSE)), C!Set(ids, chosen, TRUE))
          = (f[i] \ {other}) \cup {chosen}
      <4>1. chosen # other /\ C!Members(ids) = {chosen, other}
        BY <2>1
      <4>. QED
        BY <2>5, <4>1, PinSelects
    <3>. QED
      BY <2>3, <2>4, <3>1
  <2>7. (f[i] \ {other}) \cup {chosen} = (f[i] \ C!Members(ids)) \cup {chosen}
    BY <2>1
  <2>8. chosen # None
    BY <2>1, GroupsAre
  <2>. QED
    BY <2>1, <2>6, <2>7, <2>8 DEF Wanted
<1>. QED
  BY <1>1, <1>2

LEMMA DetectedIs ==
    ASSUME NEW install
    PROVE  /\ C!DetectNetwork(install) \in C!Members(C!NetworkIds) \cup {None}
           /\ C!DetectLoglevel(install) \in C!Members(C!LoglevelIds) \cup {None}
BY DEF C!DetectNetwork, C!DetectLoglevel

\* What installer(8) selects: what was detected, else the defaults, in both groups.
LEMMA SelectionIs ==
    ASSUME NEW install
    PROVE  C!Selection(install) = {Wanted(C!DetectNetwork(install), "jura"),
                                   Wanted(C!DetectLoglevel(install), "debug")}
<1>. DEFINE network == C!DetectNetwork(install)
            loglevel == C!DetectLoglevel(install)
            p == C!Pin(C!NetworkIds, network)
            q == C!Pin(C!LoglevelIds, loglevel)
            changes == p \o q
<1>1. /\ network \in C!Members(C!NetworkIds) \cup {None}
      /\ loglevel \in C!Members(C!LoglevelIds) \cup {None}
      /\ C!NetworkIds \in Groups /\ C!LoglevelIds \in Groups
  BY DetectedIs DEF Groups
<1>2. p \in Seq(Changes) /\ q \in Seq(Changes) /\ Len(p) \in Nat /\ Len(q) \in Nat
  BY <1>1, PinTyped
<1>3. C!Selection(install) = C!Applied(changes)
  BY DEF C!Selection, C!ChoiceChanges
<1>. HIDE DEF p, q
<1>4. changes \in Seq(Changes) /\ Len(changes) = Len(p) + Len(q)
  BY <1>2, ConcatProperties
<1>5. \A n \in 1 .. (Len(p) + Len(q)) :
          changes[n] = IF n <= Len(p) THEN p[n] ELSE q[n - Len(p)]
  <2>1. \A s, t \in Seq(Changes) : \A n \in 1 .. (Len(s) + Len(t)) :
            (s \o t)[n] = IF n <= Len(s) THEN s[n] ELSE t[n - Len(s)]
    BY ConcatProperties
  <2>. QED
    BY <1>2, <2>1
<1>. HIDE DEF changes
<1>6. PICK f : /\ f[0] = C!Defaults /\ C!Applied(changes) = f[Len(changes)]
               /\ \A n \in 1 .. Len(changes) : f[n] = C!Apply(f[n - 1], changes[n])
  BY <1>4, AppliedIs
<1>7. Follows(f, 0, p)
  <2>1. \A n \in 1 .. Len(p) : /\ n \in 1 .. Len(changes) /\ 0 + n = n /\ 0 + n - 1 = n - 1
                               /\ changes[n] = p[n]
    BY <1>2, <1>4, <1>5
  <2>. QED
    BY <1>6, <2>1 DEF Follows
<1>8. Follows(f, Len(p), q)
  <2>1. \A n \in 1 .. Len(q) : /\ Len(p) + n \in 1 .. Len(changes) /\ ~(Len(p) + n <= Len(p))
                               /\ Len(p) + n - Len(p) = n
    BY <1>2, <1>4
  <2>2. \A n \in 1 .. Len(q) : changes[Len(p) + n] = q[n]
    BY <1>4, <1>5, <2>1
  <2>. QED
    BY <1>6, <2>1, <2>2 DEF Follows
<1>9. f[0] \cap C!Members(C!NetworkIds) = {"jura"} /\ f[0] \ C!Members(C!NetworkIds) = {"debug"}
  BY <1>6, GroupsAre DEF C!Defaults
<1>10. f[Len(p)] = {"debug", Wanted(network, "jura")}
  <2>. HIDE DEF network
  <2>1. f[0 + Len(C!Pin(C!NetworkIds, network))]
        = (f[0] \ C!Members(C!NetworkIds)) \cup {Wanted(network, "jura")}
    <3>1. "jura" \in C!Members(C!NetworkIds) /\ 0 \in Nat
      BY GroupsAre
    <3>2. Follows(f, 0, C!Pin(C!NetworkIds, network))
      BY <1>7 DEF p
    <3>. QED
      BY <1>1, <1>9, <3>1, <3>2, GroupPinned
  <2>2. 0 + Len(p) = Len(p)
    BY <1>2
  <2>. QED
    BY <1>9, <2>1, <2>2 DEF p
<1>11. Wanted(network, "jura") \in {"jura", "rotsee"}
  BY <1>1, GroupsAre DEF Wanted
<1>12. /\ f[Len(p)] \cap C!Members(C!LoglevelIds) = {"debug"}
       /\ f[Len(p)] \ C!Members(C!LoglevelIds) = {Wanted(network, "jura")}
  <2>. HIDE DEF network
  <2>. QED
    BY <1>10, <1>11, GroupsAre
<1>13. f[Len(p) + Len(q)] = {Wanted(network, "jura"), Wanted(loglevel, "debug")}
  <2>. HIDE DEF network, loglevel
  <2>1. f[Len(p) + Len(C!Pin(C!LoglevelIds, loglevel))]
        = (f[Len(p)] \ C!Members(C!LoglevelIds)) \cup {Wanted(loglevel, "debug")}
    <3>1. "debug" \in C!Members(C!LoglevelIds)
      BY GroupsAre
    <3>2. Follows(f, Len(p), C!Pin(C!LoglevelIds, loglevel))
      BY <1>8 DEF q
    <3>. QED
      BY <1>1, <1>2, <1>12, <3>1, <3>2, GroupPinned
  <2>. QED
    BY <1>12, <2>1 DEF q
<1>. QED
  BY <1>3, <1>4, <1>6, <1>13

\* Whatever is on disk when installer(8) runs.
LEMMA InstalledKeeps ==
    ASSUME NEW before \in C!Installs
    PROVE  LET after == C!Installed(before) IN
           /\ before.link \in C!Members(C!NetworkIds) \cup {"file"} => after.link = before.link
           /\ before.link \in {"custom", None} /\ C!DetectNetwork(before) # None =>
                 after.link = before.network_choice
           /\ C!DetectLoglevel(before) # None => after.loglevel_choice = before.loglevel_choice
<1>. DEFINE network == Wanted(C!DetectNetwork(before), "jura")
            loglevel == Wanted(C!DetectLoglevel(before), "debug")
            selection == C!Selection(before)
            after == C!Installed(before)
<1>1. selection = {network, loglevel}
  BY SelectionIs
<1>2. network \in C!Members(C!NetworkIds) /\ loglevel \in C!Members(C!LoglevelIds)
  BY DetectedIs, GroupsAre DEF Wanted
<1>3. C!Members(C!NetworkIds) \cap C!Members(C!LoglevelIds) = {}
  BY GroupsAre
<1>4. /\ after.link = IF before.link = "file" THEN "file" ELSE network
      /\ after.loglevel_choice = loglevel
  <2>1. selection \cap C!Members(C!NetworkIds) # {} /\ selection \cap C!Members(C!LoglevelIds) # {}
    BY <1>1, <1>2
  <2>2. \A id \in C!Members(C!NetworkIds) : id \in selection <=> id = network
    BY <1>1, <1>2, <1>3
  <2>3. \A id \in C!Members(C!LoglevelIds) : id \in selection <=> id = loglevel
    BY <1>1, <1>2, <1>3
  <2>. HIDE DEF network, loglevel, selection
  <2>4. C!Selected(selection, C!NetworkIds) = network
    BY <1>2, <2>2 DEF C!Selected
  <2>5. C!Selected(selection, C!LoglevelIds) = loglevel
    BY <1>2, <2>3 DEF C!Selected
  <2>. QED
    BY <2>1, <2>4, <2>5 DEF C!Installed, selection
<1>5. C!DetectLoglevel(before) # None =>
          C!DetectLoglevel(before) = before.loglevel_choice
  BY DEF C!DetectLoglevel
<1>6. before.link \in C!Members(C!NetworkIds) =>
          C!DetectNetwork(before) = before.link /\ before.link # None /\ before.link # "file"
  BY GroupsAre DEF C!DetectNetwork
<1>7. before.link \in {"custom", None} /\ C!DetectNetwork(before) # None =>
          C!DetectNetwork(before) = before.network_choice /\ before.link # "file"
  BY GroupsAre, UndetectedAssumption DEF C!DetectNetwork
<1>. QED
  BY <1>4, <1>5, <1>6, <1>7 DEF Wanted

\* An update keeps the network and the log level that are installed, and a config.toml that is
\* the user's own, whatever is on disk when it runs installer(8).
THEOREM ChoicesAreKept == Spec => []ChoicesKept
<1>1. ChoicesKept
  BY InstalledKeeps DEF ChoicesKept
<1>. QED
  BY <1>1, PTL
=============================================================================
