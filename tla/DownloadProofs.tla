--------------------------- MODULE DownloadProofs ---------------------------
(***************************************************************************)
(* The invariants of Download for every list of artifacts, every budget and *)
(* every pair of client timeouts.                                           *)
(***************************************************************************)
EXTENDS DownloadRefines, SequenceTheorems, TLAPS

\* A body is read from the byte after the last counted one, and into a file.
ReadingOn ==
    /\ pc # "idle" => file \in Seq(Bytes)
    /\ pc \in Fetching \cup {"fetched"} => bytesDone = Len(file)
    /\ pc = "body" => /\ response \in [ver : Versions, next : Nat]
                      /\ response.next = bytesDone + 1 /\ bytesDone <= Size[response.ver]

TypeInv == TypeOK /\ ReadingOn

\* The clock of the outage runs no faster than that of the silence, and a request does not
\* outlast the budget.
ClocksAgree ==
    /\ pc \in Fetching /\ outage # None => outage <= silent \/ silent = Budget
    /\ pc \in {"send", "body"} /\ outage # None => outage <= Budget
    /\ OvershootBounded

\* What is counted is of artifact v, and the validator names one that was served no later.
OfArtifact(v) ==
    /\ v <= served
    /\ \A i \in 1 .. Len(file) : file[i] = <<v, i>>
    /\ pc = "body" => response.ver = v
    /\ bytesDone > 0 \/ pc = "body" => validator # None
    /\ validator # None => \E u \in Versions : u <= v /\ validator = Tag[u]

SameArtifact == pc \in Fetching \cup {"fetched"} => \E v \in Versions : OfArtifact(v)

\* The server sends strong validators and never goes back to an earlier artifact.
Strong ==
    /\ ~Rollback
    /\ \A v \in Versions : Tag[v] # None
    /\ \A v, w \in Versions : Tag[v] = Tag[w] => v = w

-----------------------------------------------------------------------------
(* Type correctness.                                                       *)

Sizes == UNION {0 .. Size[v] : v \in Versions}

LEMMA ConstantsTyped ==
    /\ Versions \subseteq Nat /\ Release \in Versions
    /\ \A v \in Versions : Size[v] \in Nat \ {0} /\ Tag[v] \in Tags
    /\ Budget \in Nat \ {0} /\ SendTimeout \in Nat /\ ReadTimeout \in Nat
    /\ None \in Tags
    /\ 0 \in Sizes /\ \A n \in Sizes : n \in Nat
<1>1. Size \in Seq(Nat \ {0}) /\ DOMAIN Tag = Versions /\ Release \in Versions
  BY ArtifactsAssumption
<1>2. Versions = 1 .. Len(Size) /\ Len(Size) \in Nat
  BY <1>1, LenProperties DEF Versions
<1>3. \A v \in Versions : Size[v] \in Nat \ {0}
  BY <1>1, <1>2, ElementOfSeq
<1>. QED
  BY <1>1, <1>2, <1>3, TimesAssumption DEF Tags, Sizes

LEMMA PassTyped == ASSUME TypeOK, NEW d \in Nat, Pass(d) PROVE silent' \in 0 .. Budget
  BY ConstantsTyped DEF TypeOK, Pass

LEMMA OutageTyped ==
    ASSUME TypeOK, NEW d \in Nat, outage' = Later(d) \/ RecordFailure(d)
    PROVE  outage' \in Nat \cup {None}
  BY DEF TypeOK, Later, RecordFailure

LEMMA KeepTyped ==
    ASSUME TypeOK, NEW kept \in Tags, KeepValidator(kept)
    PROVE  validator' \in Tags
  BY ConstantsTyped DEF TypeOK, KeepValidator

LEMMA EmptyFile == << >> \in Seq(Bytes) /\ Len(<< >>) = 0
  BY EmptySeq

LEMMA ByteThere ==
    ASSUME NEW v \in Versions, NEW i \in Nat \ {0}, i <= Size[v]
    PROVE  <<v, i>> \in Bytes /\ i \in Sizes
  BY ConstantsTyped DEF Bytes, Sizes

LEMMA InitTyped == Init => TypeInv
  BY ConstantsTyped DEF Init, TypeInv, TypeOK, ReadingOn, Results, Fetching, Sizes

LEMMA BeginTyped == ASSUME TypeInv, Begin PROVE TypeInv'
<1>. USE DEF TypeInv, TypeOK, ReadingOn, At, Return, Goto, server, fetch, Results, Fetching
<1>1. CASE Refuse \/ NoSpace \/ CreateFails
  BY <1>1 DEF Refuse, NoSpace, CreateFails
<1>2. ASSUME NEW size \in {0, Size[Release]}, Create(size)
      PROVE  TypeInv'
  BY <1>2, ConstantsTyped, EmptyFile DEF Create, Sizes
<1>. QED
  BY <1>1, <1>2 DEF Begin

\* The steps that send nothing and read nothing.
LEMMA QuietTyped ==
    ASSUME TypeInv, \/ AllBytesThere \/ GiveUp \/ Attempt \/ EndOfBody \/ WriteFails
                    \/ FlushFails \/ CheckSize \/ VerifySha256 \/ Kill
                    \/ \E v \in Versions : Republish(v)
    PROVE  TypeInv'
<1>. USE DEF TypeInv, TypeOK, ReadingOn, At, Return, Goto, server, fetch, Results, Fetching
<1>1. CASE AllBytesThere \/ GiveUp
  BY <1>1 DEF AllBytesThere, GiveUp, FetchFails
<1>2. CASE Attempt
  BY <1>2, PassTyped DEF Attempt
<1>3. CASE EndOfBody \/ WriteFails
  BY <1>3 DEF EndOfBody, WriteFails, FetchFails
<1>4. CASE FlushFails \/ CheckSize \/ VerifySha256
  BY <1>4 DEF FlushFails, CheckSize, VerifySha256
<1>5. CASE Kill \/ \E v \in Versions : Republish(v)
  BY <1>5 DEF Kill, Republish
<1>. QED
  BY <1>1, <1>2, <1>3, <1>4, <1>5

LEMMA RequestTyped == ASSUME TypeInv, Request PROVE TypeInv'
<1>. PICK d \in 0 .. SendTimeout : \/ SendFails(d) \/ SendBroken(d) \/ PartialContent(d)
                                  \/ RangeNotSatisfiable(d) \/ Full(d)
  BY DEF Request
<1>1. d \in Nat
  BY ConstantsTyped
<1>2. Pass(d) => silent' \in 0 .. Budget
  BY <1>1, PassTyped DEF TypeInv
<1>3. outage' = Later(d) \/ RecordFailure(d) => outage' \in Nat \cup {None}
  BY <1>1, OutageTyped DEF TypeInv
<1>4. \A kept \in Tags : KeepValidator(kept) => validator' \in Tags
  BY KeepTyped DEF TypeInv
<1>. USE DEF TypeInv, TypeOK, ReadingOn, At, Return, Goto, server, Results, Fetching
<1>5. CASE SendFails(d)
  BY <1>2, <1>3, <1>5 DEF SendFails
<1>6. CASE SendBroken(d) \/ RangeNotSatisfiable(d)
  BY <1>2, <1>3, <1>6 DEF SendBroken, RangeNotSatisfiable, FetchFails
<1>7. CASE PartialContent(d)
  <2>1. served \in Versions /\ bytesDone \in Nat /\ Size[served] \in Nat
    BY ConstantsTyped DEF Sizes
  <2>2. response' \in [ver : Versions, next : Nat] /\ response'.next = bytesDone + 1
        /\ response'.ver = served
    BY <1>7, <2>1 DEF PartialContent
  <2>3. validator' \in Tags
    BY <1>4, <1>7 DEF PartialContent
  <2>. QED
    BY <1>2, <1>3, <1>7, <2>1, <2>2, <2>3 DEF PartialContent
<1>8. CASE Full(d)
  <2>1. served \in Versions /\ Size[served] \in Nat
    BY ConstantsTyped
  <2>2. response' \in [ver : Versions, next : Nat] /\ response'.next = 1
        /\ response'.ver = served
    BY <1>8, <2>1 DEF Full
  <2>3. validator' \in Tags
    BY <1>4, <1>8, ConstantsTyped DEF Full
  <2>. QED
    BY <1>2, <1>3, <1>8, <2>1, <2>2, <2>3, EmptyFile, ConstantsTyped DEF Full, Sizes
<1>. QED
  BY <1>5, <1>6, <1>7, <1>8

LEMMA ChunkTyped ==
    ASSUME TypeInv, NEW d \in 0 .. ReadTimeout, Chunk(d)
    PROVE  /\ TypeInv'
           /\ Len(file') = Len(file) + 1 /\ Len(file) \in Nat
           /\ \A i \in 1 .. Len(file') :
                 file'[i] = IF i = Len(file) + 1 THEN <<response.ver, i>> ELSE file[i]
<1>. DEFINE b == <<response.ver, response.next>>
<1>1. response \in [ver : Versions, next : Nat] /\ response.next = bytesDone + 1
      /\ bytesDone = Len(file) /\ file \in Seq(Bytes) /\ response.next <= Size[response.ver]
  BY DEF Chunk, At, TypeInv, ReadingOn, Fetching
<1>2. Len(file) \in Nat
  BY <1>1
<1>3. b \in Bytes /\ bytesDone + 1 \in Sizes
  BY <1>1, <1>2, ByteThere
<1>. HIDE DEF b
<1>4. file' = Append(file, b)
  BY DEF Chunk, b
<1>5. file' \in Seq(Bytes) /\ Len(file') = Len(file) + 1
      /\ \A i \in 1 .. Len(file') : file'[i] = IF i = Len(file) + 1 THEN b ELSE file[i]
  BY <1>1, <1>3, <1>4
<1>6. response' = [response EXCEPT !.next = response.next + 1]
  BY DEF Chunk
<1>7. response' \in [ver : Versions, next : Nat] /\ response'.next = bytesDone + 2
      /\ response'.ver = response.ver
  BY <1>1, <1>2, <1>6
<1>8. TypeInv'
  BY <1>1, <1>2, <1>3, <1>5, <1>7, ConstantsTyped
     DEF Chunk, At, TypeInv, TypeOK, ReadingOn, server, Fetching, Sizes
<1>. QED
  BY <1>1, <1>2, <1>5, <1>8 DEF b

LEMMA DropTyped == ASSUME TypeInv, NEW d \in 0 .. ReadTimeout, Drop(d) PROVE TypeInv'
<1>1. d \in Nat
  BY ConstantsTyped
<1>2. silent' \in 0 .. Budget /\ outage' \in Nat \cup {None}
  BY <1>1, PassTyped, OutageTyped DEF Drop, TypeInv
<1>. QED
  BY <1>2 DEF Drop, At, Goto, TypeInv, TypeOK, ReadingOn, server, Results, Fetching

LEMMA StepTyped == TypeInv /\ [Next]_vars => TypeInv'
<1>. SUFFICES ASSUME TypeInv, [Next]_vars PROVE TypeInv'
  OBVIOUS
<1>1. CASE UNCHANGED vars
  BY <1>1 DEF TypeInv, TypeOK, ReadingOn, vars, server, fetch
<1>. QED
  BY <1>1, BeginTyped, QuietTyped, RequestTyped, ChunkTyped, DropTyped DEF Next, Step, Body

\* Every variable has its type; what is counted is never more than one artifact, even after a
\* restart (fetch_with_resume).
THEOREM DownloadTyped == Spec => []TypeOK
<1>1. TypeInv => TypeOK
  BY DEF TypeInv
<1>. QED
  BY <1>1, InitTyped, StepTyped, PTL DEF Spec

-----------------------------------------------------------------------------
(* Giving up.                                                              *)

\* A wait of d moves both clocks by d, or the silence up to the budget.
LEMMA ClocksMove ==
    ASSUME TypeInv, ClocksAgree, pc \in Fetching, NEW d \in Nat, Pass(d),
           outage' = Later(d) \/ RecordFailure(d)
    PROVE  outage' # None => outage' <= silent' \/ silent' = Budget
<1>1. silent \in 0 .. Budget /\ Budget \in Nat /\ outage \in Nat \cup {None}
  BY ConstantsTyped DEF TypeInv, TypeOK
<1>2. CASE outage = None
  BY <1>1, <1>2 DEF Later, RecordFailure, Pass
<1>3. CASE outage # None
  BY <1>1, <1>3 DEF ClocksAgree, Later, RecordFailure, Pass
<1>. QED
  BY <1>2, <1>3

\* A request that fails while offline has used up the budget at most.
LEMMA RequestInBudget ==
    ASSUME TypeInv, ClocksAgree, pc = "send", NEW d \in Nat, d <= Remaining,
           outage' = Later(d) \/ RecordFailure(d)
    PROVE  outage' # None => outage' <= Budget
<1>1. Budget \in Nat /\ SendTimeout \in Nat /\ outage \in Nat \cup {None}
  BY ConstantsTyped DEF TypeInv, TypeOK
<1>2. CASE outage = None
  BY <1>1, <1>2 DEF Later, RecordFailure
<1>3. CASE outage # None
  BY <1>1, <1>3 DEF ClocksAgree, Later, RecordFailure, Remaining
<1>. QED
  BY <1>2, <1>3

LEMMA ClocksKept == TypeInv /\ ClocksAgree /\ [Next]_vars => ClocksAgree'
<1>. SUFFICES ASSUME TypeInv, ClocksAgree, [Next]_vars PROVE ClocksAgree'
  OBVIOUS
<1>0. Budget \in Nat /\ SendTimeout \in Nat /\ ReadTimeout \in Nat
      /\ silent \in 0 .. Budget /\ outage \in Nat \cup {None}
  BY ConstantsTyped DEF TypeInv, TypeOK
<1>. USE DEF ClocksAgree, OvershootBounded, At, Goto, Return, Fetching, fetch
<1>1. CASE Begin
  BY <1>1 DEF Begin, Refuse, NoSpace, CreateFails, Create
<1>2. CASE AllBytesThere \/ GiveUp \/ FlushFails \/ CheckSize \/ VerifySha256
  BY <1>2 DEF AllBytesThere, GiveUp, FlushFails, CheckSize, VerifySha256, FetchFails
<1>3. CASE Attempt
  BY <1>0, <1>3 DEF Attempt, Pass
<1>4. CASE Request
  <2>. PICK d \in 0 .. SendTimeout : \/ SendFails(d) \/ SendBroken(d) \/ PartialContent(d)
                                    \/ RangeNotSatisfiable(d) \/ Full(d)
    BY <1>4 DEF Request
  <2>1. /\ d \in Nat /\ pc = "send" /\ d <= Remaining /\ Pass(d)
        /\ outage' = Later(d) \/ RecordFailure(d)
    BY <1>0 DEF SendFails, SendBroken, PartialContent, RangeNotSatisfiable, Full
  <2>2. outage' # None => outage' <= silent' \/ silent' = Budget
    BY <2>1, ClocksMove
  <2>3. outage' # None => outage' <= Budget
    BY <2>1, RequestInBudget
  <2>4. outage' \in Nat \cup {None}
    BY <2>1, OutageTyped DEF TypeInv
  <2>. QED
    BY <1>0, <2>2, <2>3, <2>4
<1>5. ASSUME NEW d \in 0 .. ReadTimeout, Chunk(d)
      PROVE  ClocksAgree'
  BY <1>5 DEF Chunk
<1>6. ASSUME NEW d \in 0 .. ReadTimeout, Drop(d)
      PROVE  ClocksAgree'
  <2>1. /\ d \in Nat /\ d <= ReadTimeout /\ pc = "body" /\ pc' = "attempt"
        /\ Pass(d) /\ RecordFailure(d)
    BY <1>0, <1>6 DEF Drop
  <2>2. outage' # None => outage' <= silent' \/ silent' = Budget
    BY <2>1, ClocksMove
  <2>3. outage' # None => outage' <= Budget + ReadTimeout
    BY <1>0, <2>1 DEF RecordFailure
  <2>. QED
    BY <2>1, <2>2, <2>3
<1>7. CASE EndOfBody \/ WriteFails
  BY <1>7 DEF EndOfBody, WriteFails, FetchFails
<1>8. CASE Kill \/ (\E v \in Versions : Republish(v)) \/ UNCHANGED vars
  BY <1>8 DEF Kill, Republish, vars
<1>. QED
  BY <1>1, <1>2, <1>3, <1>4, <1>5, <1>6, <1>7, <1>8 DEF Next, Step, Body

\* What is read as given up has been silent for the budget.
GivenUp == TypeInv /\ ClocksAgree /\ GaveUpOnlyOffline

LEMMA GivenUpHolds == Spec => []GivenUp
<1>1. Init => GivenUp
  BY InitTyped
     DEF Init, GivenUp, ClocksAgree, OvershootBounded, GaveUpOnlyOffline, Fetching
<1>2. GivenUp /\ [Next]_vars => GivenUp'
  <2>. SUFFICES ASSUME GivenUp, [Next]_vars PROVE GaveUpOnlyOffline'
    BY StepTyped, ClocksKept DEF GivenUp
  <2>1. CASE GiveUp
    BY <2>1, ConstantsTyped
       DEF GiveUp, At, Fetching, GivenUp, ClocksAgree, GaveUpOnlyOffline, TypeInv, TypeOK
  <2>2. CASE ~GiveUp
    BY <2>2 DEF GivenUp, GaveUpOnlyOffline, Next, Begin, Step, Body, Request, Refuse, NoSpace,
       CreateFails, Create, AllBytesThere, Attempt, SendFails, SendBroken, PartialContent,
       RangeNotSatisfiable, Full, Chunk, Drop, EndOfBody, WriteFails, FlushFails, CheckSize,
       VerifySha256, Republish, Kill, FetchFails, At, Goto, Return, vars, fetch
  <2>. QED
    BY <2>1, <2>2
<1>. QED
  BY <1>1, <1>2, PTL DEF Spec

\* fetch_with_resume gives up only when no byte has come for a whole budget: record_failure
\* starts the clock at the first failure, and a chunk stops it.
THEOREM GivesUpOnlyOffline == Spec => []GaveUpOnlyOffline
<1>1. GivenUp => GaveUpOnlyOffline
  BY DEF GivenUp
<1>. QED
  BY <1>1, GivenUpHolds, PTL

\* The time offline never exceeds the budget by more than one stalled body: every request made
\* while offline is cut to what is left of it.
THEOREM OvershootIsBounded == Spec => []OvershootBounded
<1>1. GivenUp => OvershootBounded
  BY DEF GivenUp, ClocksAgree
<1>. QED
  BY <1>1, GivenUpHolds, PTL

-----------------------------------------------------------------------------
(* No splice.                                                              *)

\* A range is continued only on the artifact that the bytes are from.
LEMMA RangeIsOfServed ==
    ASSUME Strong, TypeInv, NEW v \in Versions, OfArtifact(v), RangeHolds
    PROVE  served = v
<1>1. validator # None /\ validator = Tag[served]
  BY DEF OfArtifact, RangeHolds, IfRange
<1>2. PICK u \in Versions : u <= v /\ validator = Tag[u]
  BY <1>1 DEF OfArtifact
<1>3. served \in Versions /\ v <= served
  BY DEF OfArtifact, TypeInv, TypeOK
<1>4. u = served
  BY <1>1, <1>2, <1>3 DEF Strong
<1>. QED
  BY <1>2, <1>3, <1>4, ConstantsTyped

LEMMA SameKept == ASSUME Strong, TypeInv, SameArtifact, [Next]_vars PROVE SameArtifact'
<1>. SUFFICES ASSUME pc' \in {"attempt", "send", "body", "fetched"}
     PROVE  \E v \in Versions : OfArtifact(v)'
  BY DEF SameArtifact, Fetching
<1>0. served \in Versions /\ Versions \subseteq Nat
  BY ConstantsTyped DEF TypeInv, TypeOK
<1>1. ASSUME NEW size \in {0, Size[Release]}, Create(size), NEW v \in Versions, v = served
      PROVE  OfArtifact(v)'
  BY <1>0, <1>1, EmptyFile DEF Create, Goto, server, OfArtifact
<1>2. Request \/ Body => pc \in {"send", "body"}
  BY DEF Body, Request, SendFails, SendBroken, PartialContent, RangeNotSatisfiable, Full, Chunk,
     Drop, EndOfBody, WriteFails, At
<1>3. CASE Begin
  BY <1>0, <1>1, <1>3 DEF Begin, Refuse, NoSpace, CreateFails, Return
<1>4. CASE pc \notin {"attempt", "send", "body", "fetched"} /\ ~Begin
  <2>1. ~(Request \/ Body)
    BY <1>2, <1>4
  <2>2. ~(AllBytesThere \/ GiveUp \/ Attempt \/ FlushFails \/ CheckSize \/ VerifySha256 \/ Kill)
    BY <1>4 DEF AllBytesThere, GiveUp, Attempt, FlushFails, CheckSize, VerifySha256, Kill, At,
                Return
  <2>3. pc' = pc
    BY <1>4, <2>1, <2>2 DEF Next, Step, Republish, vars
  <2>. QED
    BY <1>4, <2>3
<1>5. ASSUME pc \in {"attempt", "send", "body", "fetched"}, ~Begin
      PROVE  \E v \in Versions : OfArtifact(v)'
  <2>. PICK v \in Versions : OfArtifact(v)
    BY <1>5 DEF SameArtifact, Fetching
  <2>1. CASE UNCHANGED <<served, file, bytesDone, validator>> /\ pc' # "body"
    BY <2>1 DEF OfArtifact
  <2>2. ASSUME NEW d \in 0 .. SendTimeout, PartialContent(d)
        PROVE  OfArtifact(v)'
    <3>1. served = v
      BY <1>5, <2>2, RangeIsOfServed DEF PartialContent
    <3>2. validator # None /\ validator' = validator
      BY <2>2 DEF PartialContent, RangeHolds, OfArtifact, KeepValidator
    <3>3. response' = [ver |-> served, next |-> bytesDone + 1]
      BY <2>2 DEF PartialContent
    <3>. QED
      BY <2>2, <3>1, <3>2, <3>3 DEF PartialContent, server, OfArtifact
  <2>3. ASSUME NEW d \in 0 .. SendTimeout, Full(d), NEW w \in Versions, w = served
        PROVE  OfArtifact(w)'
    <3>1. validator' # None /\ (validator' = validator \/ validator' = Tag[served])
      BY <1>0, <2>3 DEF Full, KeepValidator, Strong
    <3>2. \E u \in Versions : u <= served /\ validator' = Tag[u]
      <4>1. CASE validator' = Tag[served]
        BY <1>0, <4>1
      <4>2. CASE validator' = validator
        BY <1>0, <3>1, <4>2 DEF OfArtifact
      <4>. QED
        BY <3>1, <4>1, <4>2
    <3>3. response' = [ver |-> served, next |-> 1]
      BY <2>3 DEF Full
    <3>. QED
      BY <1>0, <2>3, <3>1, <3>2, <3>3, EmptyFile DEF Full, server, OfArtifact
  <2>4. ASSUME NEW d \in 0 .. ReadTimeout, Chunk(d)
        PROVE  OfArtifact(v)'
    <3>1. /\ Len(file') = Len(file) + 1 /\ Len(file) \in Nat
          /\ \A i \in 1 .. Len(file') :
                file'[i] = IF i = Len(file) + 1 THEN <<v, i>> ELSE file[i]
      BY <2>4, ChunkTyped DEF Chunk, At, OfArtifact
    <3>2. \A i \in 1 .. Len(file') : file'[i] = <<v, i>>
      BY <3>1 DEF OfArtifact
    <3>3. response'.ver = v /\ validator # None
      BY <2>4 DEF Chunk, At, OfArtifact, TypeInv, ReadingOn
    <3>. QED
      BY <2>4, <3>2, <3>3 DEF Chunk, server, OfArtifact
  <2>5. ASSUME NEW w \in Versions, Republish(w)
        PROVE  OfArtifact(v)'
    BY <1>0, <2>5 DEF Republish, Strong, fetch, OfArtifact
  <2>6. CASE UNCHANGED vars
    BY <2>6 DEF vars, server, fetch, OfArtifact
  <2>7. CASE AllBytesThere \/ GiveUp \/ Attempt \/ EndOfBody \/ WriteFails \/ FlushFails
             \/ CheckSize \/ VerifySha256 \/ Kill
    BY <2>1, <2>7 DEF AllBytesThere, GiveUp, Attempt, EndOfBody, WriteFails, FlushFails, CheckSize,
       VerifySha256, Kill, FetchFails, Goto, Return, server, fetch
  <2>8. ASSUME NEW d \in 0 .. SendTimeout, SendFails(d) \/ SendBroken(d) \/ RangeNotSatisfiable(d)
        PROVE  \E x \in Versions : OfArtifact(x)'
    BY <2>1, <2>8 DEF SendFails, SendBroken, RangeNotSatisfiable, FetchFails, Goto, Return, server
  <2>9. ASSUME NEW d \in 0 .. ReadTimeout, Drop(d)
        PROVE  \E x \in Versions : OfArtifact(x)'
    BY <2>1, <2>9 DEF Drop, Goto, server
  <2>. QED
    <3>1. CASE Request
      <4>. PICK d \in 0 .. SendTimeout : \/ SendFails(d) \/ SendBroken(d) \/ PartialContent(d)
                                        \/ RangeNotSatisfiable(d) \/ Full(d)
        BY <3>1 DEF Request
      <4>. QED
        BY <1>0, <2>2, <2>3, <2>8
    <3>2. CASE Body
      BY <2>4, <2>7, <2>9, <3>2 DEF Body
    <3>3. CASE ~Request /\ ~Body
      BY <1>5, <2>5, <2>6, <2>7, <3>3 DEF Next, Step
    <3>. QED
      BY <3>1, <3>2, <3>3
<1>. QED
  BY <1>3, <1>4, <1>5

\* "splicing two different artifacts" (fetch_with_resume) does not happen with a server that sends
\* strong validators and never serves an earlier artifact again; the run download_rollback shows
\* that it does happen with one that does.
THEOREM NoSplice == Strong => (Spec => []OneArtifact)
<1>. SUFFICES ASSUME Strong PROVE Spec => []OneArtifact
  OBVIOUS
<1>. DEFINE Same == TypeInv /\ SameArtifact
<1>1. Init => Same
  BY InitTyped DEF Init, SameArtifact, Fetching
<1>2. Same /\ [Next]_vars => Same'
  BY StepTyped, SameKept
<1>3. Same => OneArtifact
  BY DEF TypeInv, ReadingOn, SameArtifact, OfArtifact, OneArtifact
<1>. QED
  BY <1>1, <1>2, <1>3, PTL DEF Spec

-----------------------------------------------------------------------------
(* Download implements ArtifactTransfer.                                    *)

\* Without a size to expect, the end of the body is the end of the artifact.
FetchedWhole ==
    pc = "fetched" /\ expected = 0 => \E v \in Versions : file = Artifact(v)

TransferInv == TypeInv /\ SameArtifact /\ FetchedWhole

\* A file of artifact v is a beginning of it.
LEMMA IsBeginning ==
    ASSUME NEW v \in Versions, NEW f \in Seq(Bytes), \A i \in 1 .. Len(f) : f[i] = <<v, i>>
    PROVE  f = Transfer!Beginning(v, Len(f))
<1>1. f \in [1 .. Len(f) -> Bytes]
  BY LenProperties
<1>. QED
  BY <1>1 DEF Transfer!Beginning

LEMMA WholeIsArtifact == \A v : Transfer!Whole(v) = Artifact(v)
BY DEF Transfer!Whole, Transfer!Beginning, Artifact

LEMMA EndIsWhole ==
    ASSUME Strong, TypeInv, SameArtifact, EndOfBody
    PROVE  \E v \in Versions : file = Artifact(v)
<1>1. pc = "body"
  BY DEF EndOfBody, At
<1>2. PICK v \in Versions : OfArtifact(v)
  BY <1>1 DEF SameArtifact, Fetching
<1>3. /\ file \in Seq(Bytes) /\ bytesDone = Len(file) /\ Len(file) \in Nat
      /\ response.ver = v /\ response.next = bytesDone + 1 /\ bytesDone <= Size[v]
  BY <1>1, <1>2, LenProperties DEF OfArtifact, TypeInv, ReadingOn, Fetching
<1>4. response.next > Size[v] /\ Size[v] \in Nat
  BY <1>2, <1>3, ConstantsTyped DEF EndOfBody
<1>5. Len(file) = Size[v]
  BY <1>3, <1>4
<1>6. file = Transfer!Beginning(v, Len(file))
  BY <1>2, <1>3, IsBeginning DEF OfArtifact
<1>. QED
  BY <1>5, <1>6 DEF Transfer!Beginning, Artifact

LEMMA WholeKept ==
    ASSUME Strong, TransferInv, [Next]_vars
    PROVE  FetchedWhole'
<1>. SUFFICES ASSUME pc' = "fetched", expected' = 0 PROVE \E v \in Versions : file' = Artifact(v)
  BY DEF FetchedWhole, Artifact
<1>1. CASE EndOfBody
  BY <1>1, EndIsWhole DEF EndOfBody, TransferInv
<1>2. CASE ~EndOfBody
  <2>1. ~AllBytesThere
    BY DEF AllBytesThere
  <2>2. pc = "fetched" /\ expected' = expected /\ file' = file
    BY <1>2, <2>1 DEF Next, Begin, Step, Body, Request, Refuse, NoSpace, CreateFails, Create,
       GiveUp, Attempt, SendFails, SendBroken, PartialContent, RangeNotSatisfiable, Full, Chunk,
       Drop, WriteFails, FlushFails, CheckSize, VerifySha256, Republish, Kill, FetchFails, At,
       Goto, Return, vars, fetch, TransferInv, TypeInv, TypeOK
  <2>. QED
    BY <2>2 DEF TransferInv, FetchedWhole
<1>. QED
  BY <1>1, <1>2

\* A step of the transfer, or none.
Moved == [Transfer!TransferNext]_(Transfer!transferVars)

LEMMA Unmoved ==
    ASSUME UNCHANGED <<Stage, file, Outcome>>
    PROVE  Moved
BY DEF Moved, Transfer!transferVars

LEMMA BeginMoves == ASSUME TransferInv, Begin PROVE Moved
<1>1. CASE Refuse \/ NoSpace \/ CreateFails
  <2>1. pc = "idle" /\ pc' = "idle" /\ file' \in {None, file}
        /\ result' \in {"Refused", "InsufficientSpace", "Io"}
    BY <1>1 DEF Refuse, NoSpace, CreateFails, At, Return
  <2>2. Stage = "off" /\ Stage' = "off" /\ Outcome' = "Download"
    BY <2>1 DEF Stage, Outcome
  <2>3. Transfer!Refuse
    BY <2>1, <2>2 DEF Transfer!Refuse
  <2>. QED
    BY <2>3 DEF Moved, Transfer!TransferNext
<1>2. ASSUME NEW size, Create(size) PROVE Moved
  <2>1. pc = "idle" /\ pc' = "attempt" /\ file' = << >> /\ result' = result
    BY <1>2 DEF Create, At, Goto
  <2>2. Stage = "off" /\ Stage' = "download" /\ Outcome' = Outcome
    BY <2>1 DEF Stage, Outcome
  <2>3. Transfer!Begin
    BY <2>1, <2>2 DEF Transfer!Begin
  <2>. QED
    BY <2>3 DEF Moved, Transfer!TransferNext
<1>. QED
  BY <1>1, <1>2 DEF Begin

\* A failure of the request, of the body or of the file, and giving up.
LEMMA FailMoves ==
    ASSUME pc \in {"attempt", "send", "body", "fetched"}, pc' = "idle", file' \in {None, file},
           result' \in {"ConnectionLost", "Http", "Io", "SizeMismatch"}
    PROVE  Moved
<1>1. Stage = "download" /\ Stage' = "off" /\ Outcome' = "Download"
  BY DEF Stage, Outcome
<1>2. Transfer!Fail
  BY <1>1 DEF Transfer!Fail
<1>. QED
  BY <1>2 DEF Moved, Transfer!TransferNext

\* The next byte is the next one of the artifact that is there already.
LEMMA ChunkMoves ==
    ASSUME TransferInv, NEW d \in 0 .. ReadTimeout, Chunk(d)
    PROVE  Moved
<1>1. pc = "body" /\ pc' = pc /\ result' = result
  BY DEF Chunk, At
<1>2. PICK v \in Versions : OfArtifact(v)
  BY <1>1 DEF TransferInv, SameArtifact, Fetching
<1>3. /\ file \in Seq(Bytes) /\ bytesDone = Len(file) /\ Len(file) \in Nat
      /\ response.ver = v /\ response.next = Len(file) + 1
  BY <1>1, <1>2, LenProperties DEF OfArtifact, TransferInv, TypeInv, ReadingOn, Fetching
<1>. DEFINE n == Len(file) + 1
<1>4. n \in 1 .. Size[v] /\ n - 1 = Len(file)
  BY <1>2, <1>3, ConstantsTyped DEF Chunk
<1>5. file = Transfer!Beginning(v, n - 1)
  BY <1>2, <1>3, <1>4, IsBeginning DEF OfArtifact
<1>6. file' = Transfer!Beginning(v, n)
  <2>1. <<v, n>> \in Bytes
    BY <1>2, <1>4, ConstantsTyped DEF Bytes
  <2>2. file' = Append(file, <<v, n>>)
    BY <1>3 DEF Chunk
  <2>3. /\ file' \in Seq(Bytes) /\ Len(file') = n
        /\ \A i \in 1 .. Len(file) : file'[i] = file[i]
        /\ file'[n] = <<v, n>>
    BY <1>3, <2>1, <2>2, AppendProperties
  <2>4. \A i \in 1 .. Len(file') : file'[i] = <<v, i>>
    <3>. TAKE i \in 1 .. Len(file')
    <3>1. i = n \/ i \in 1 .. Len(file)
      BY <1>3, <2>3
    <3>. QED
      BY <1>2, <2>3, <3>1 DEF OfArtifact
  <2>. QED
    BY <2>3, <2>4, IsBeginning
<1>7. Stage = "download" /\ Stage' = Stage /\ Outcome' = Outcome
  BY <1>1 DEF Stage, Outcome
<1>8. Transfer!Receive
  BY <1>4, <1>5, <1>6, <1>7 DEF Transfer!Receive, Versions
<1>. QED
  BY <1>8 DEF Moved, Transfer!TransferNext

LEMMA RequestMoves == ASSUME TransferInv, Request PROVE Moved
<1>. PICK d \in 0 .. SendTimeout : \/ SendFails(d) \/ SendBroken(d) \/ PartialContent(d)
                                   \/ RangeNotSatisfiable(d) \/ Full(d)
  BY DEF Request
<1>1. CASE SendFails(d) \/ PartialContent(d)
  <2>1. pc = "send" /\ pc' \in {"attempt", "body"} /\ file' = file /\ result' = result
    BY <1>1 DEF SendFails, PartialContent, At, Goto
  <2>. QED
    BY <2>1, Unmoved DEF Stage, Outcome
<1>2. CASE SendBroken(d) \/ RangeNotSatisfiable(d)
  BY <1>2, FailMoves DEF SendBroken, RangeNotSatisfiable, FetchFails, Return, At
<1>3. CASE Full(d)
  <2>1. pc = "send" /\ pc' = "body" /\ file' = << >> /\ result' = result
    BY <1>3 DEF Full, At, Goto
  <2>2. Stage = "download" /\ Stage' = Stage /\ Outcome' = Outcome
    BY <2>1 DEF Stage, Outcome
  <2>3. Transfer!StartOver
    BY <2>1, <2>2 DEF Transfer!StartOver
  <2>. QED
    BY <2>3 DEF Moved, Transfer!TransferNext
<1>. QED
  BY <1>1, <1>2, <1>3

\* What has the size that was expected, or ended when none was, is handed on.
LEMMA CheckSizeMoves == ASSUME TransferInv, CheckSize PROVE Moved
<1>1. pc = "fetched"
  BY DEF CheckSize, At
<1>2. CASE expected # 0 /\ bytesDone # expected
  BY <1>1, <1>2, FailMoves DEF CheckSize, Return
<1>3. CASE ~(expected # 0 /\ bytesDone # expected)
  <2>1. pc' = "verify" /\ file' = file /\ result' = result
    BY <1>3 DEF CheckSize, Goto
  <2>2. Stage = "download" /\ Stage' = "verify" /\ Outcome' = Outcome
    BY <1>1, <2>1 DEF Stage, Outcome
  <2>3. (\E v \in DOMAIN Size : file = Transfer!Whole(v)) \/ Len(file) = Size[Release]
    <3>1. CASE expected = 0
      BY <1>1, <3>1, WholeIsArtifact DEF TransferInv, FetchedWhole, Versions
    <3>2. CASE expected # 0
      BY <1>1, <1>3, <3>2 DEF TransferInv, TypeInv, TypeOK, ReadingOn
    <3>. QED
      BY <3>1, <3>2
  <2>4. Transfer!HandOn
    BY <2>1, <2>2, <2>3 DEF Transfer!HandOn
  <2>. QED
    BY <2>4 DEF Moved, Transfer!TransferNext
<1>. QED
  BY <1>2, <1>3

LEMMA VerifyMoves == ASSUME VerifySha256 PROVE Moved
<1>1. pc = "verify" /\ pc' = "idle" /\ file' = file
  BY DEF VerifySha256, At, Return
<1>2. Stage = "verify" /\ Stage' = "off"
  BY <1>1 DEF Stage
<1>3. CASE file = Artifact(Release) /\ result' = "Verified"
  <2>1. Transfer!LetThrough
    BY <1>1, <1>2, <1>3, WholeIsArtifact DEF Transfer!LetThrough, Outcome
  <2>. QED
    BY <2>1 DEF Moved, Transfer!TransferNext
<1>4. CASE result' = "Verify"
  <2>1. Transfer!Reject
    BY <1>1, <1>2, <1>4 DEF Transfer!Reject, Outcome
  <2>. QED
    BY <2>1 DEF Moved, Transfer!TransferNext
<1>. QED
  BY <1>3, <1>4 DEF VerifySha256, Return

LEMMA KillMoves == ASSUME Kill PROVE Moved
<1>1. pc # "idle" /\ pc' = "idle" /\ file' = file /\ result' = "Killed"
  BY DEF Kill, At, Return
<1>2. Stage # "off" /\ Stage' = "off" /\ Outcome' = "Killed"
  BY <1>1 DEF Stage, Outcome
<1>3. Transfer!Die
  BY <1>1, <1>2 DEF Transfer!Die
<1>. QED
  BY <1>3 DEF Moved, Transfer!TransferNext

LEMMA NextMoves == ASSUME TransferInv, [Next]_vars PROVE Moved
<1>1. CASE AllBytesThere \/ Attempt \/ EndOfBody \/ \E d \in 0 .. ReadTimeout : Drop(d)
  <2>1. /\ pc \in {"attempt", "body"} /\ pc' \in {"attempt", "send", "fetched"}
        /\ file' = file /\ result' = result
    BY <1>1 DEF AllBytesThere, Attempt, EndOfBody, Drop, At, Goto
  <2>. QED
    BY <2>1, Unmoved DEF Stage, Outcome
<1>2. CASE GiveUp \/ WriteFails \/ FlushFails
  BY <1>2, FailMoves DEF GiveUp, WriteFails, FlushFails, FetchFails, Return, At
<1>3. CASE (\E v \in Versions : Republish(v)) \/ UNCHANGED vars
  <2>1. pc' = pc /\ file' = file /\ result' = result
    BY <1>3 DEF Republish, vars
  <2>. QED
    BY <2>1, Unmoved DEF Stage, Outcome
<1>4. CASE Begin
  BY <1>4, BeginMoves
<1>5. CASE Request
  BY <1>5, RequestMoves
<1>6. CASE \E d \in 0 .. ReadTimeout : Chunk(d)
  BY <1>6, ChunkMoves
<1>7. CASE CheckSize
  BY <1>7, CheckSizeMoves
<1>8. CASE VerifySha256 \/ Kill
  BY <1>8, VerifyMoves, KillMoves
<1>. QED
  BY <1>1, <1>2, <1>3, <1>4, <1>5, <1>6, <1>7, <1>8 DEF Next, Step, Body

\* For every list of artifacts, every budget and every pair of timeouts, with a server that sends
\* strong validators and never goes back: whatever drops, resumes, restarts and republished
\* artifacts fetch_with_resume goes through, every step adds the next byte of the artifact that
\* the file is a beginning of, starts over, ends the transfer, or does nothing to it; and the
\* engine's stages end as ArtifactTransfer says.
THEOREM DownloadTransfers == Strong => (Spec => TransfersArtifacts)
<1>. SUFFICES ASSUME Strong PROVE Spec => TransfersArtifacts
  OBVIOUS
<1>1. Init => TransferInv /\ Transfer!TransferInit
  BY InitTyped DEF Init, SameArtifact, FetchedWhole, Fetching, TransferInv,
     Transfer!TransferInit, Stage, Outcome
<1>2. TransferInv /\ [Next]_vars => TransferInv' /\ [Transfer!TransferNext]_(Transfer!transferVars)
  BY StepTyped, SameKept, WholeKept, NextMoves DEF TransferInv, Moved
<1>. QED
  BY <1>1, <1>2, PTL DEF Spec, TransfersArtifacts, Transfer!TransferSpec
=============================================================================
