---------------------------- MODULE Gateway_proofs ----------------------------
(***************************************************************************)
(* Theorems about Gateway for every set of keys, accounts, requests,       *)
(* console calls and viewers: rings and streams, keys and accounts, calls  *)
(* to Cursor, and in the second part failover and the types.               *)
(***************************************************************************)
EXTENDS Gateway, SequenceTheorems, FiniteSetTheorems, TLAPS

-----------------------------------------------------------------------------
(* The ring buffers and the streams that follow them *)

Consecutive(buf, latest) == \A m \in 1 .. Len(buf) : buf[m] = latest - Len(buf) + m

Stream == [ring : RingNames \cup {"none"}, last : Nat, whole : BOOLEAN]

\* A buffer ends with the latest entry and has no gap; a stream is where its ring is.
RingsInv ==
  /\ capacity \in Nat
  /\ \A n \in RingNames : /\ rings[n].pushed \in Nat
                          /\ rings[n].buf \in Seq(Nat)
                          /\ Consecutive(rings[n].buf, rings[n].pushed)
  /\ streams \in [Viewers -> Stream]
  /\ StreamsAreWhole

RingsRestart ==
  /\ rings' = [n \in RingNames |-> [buf |-> <<>>, pushed |-> 0]]
  /\ capacity' = CHOOSE c \in CapacitySteps : \A d \in CapacitySteps : d <= c
  /\ streams' = [v \in Viewers |-> NoStream]

\* What the steps of the gateway do to the rings.
RingStep ==
  \/ UNCHANGED ringVars
  \/ \E names \in SUBSET RingNames : Push(names)
  \/ \E size \in CapacitySteps : SetCapacity(size)
  \/ \E v \in Viewers, n \in RingNames : OpenStream(v, n)
  \/ \E v \in Viewers : CloseStream(v)
  \/ RingsRestart

\* Trimming a buffer from its old end leaves no gap.
LEMMA TrimmedIsConsecutive ==
  ASSUME NEW buf \in Seq(Nat), NEW latest \in Nat, NEW n \in Nat, Consecutive(buf, latest)
  PROVE  LastOf(buf, n) \in Seq(Nat) /\ Consecutive(LastOf(buf, n), latest)
<1>1. CASE Len(buf) <= n
  BY <1>1 DEF LastOf
<1>2. CASE ~(Len(buf) <= n)
  <2> DEFINE first == Len(buf) - n + 1
             tail == SubSeq(buf, first, Len(buf))
  <2>1. /\ Len(buf) \in Nat /\ first \in Int /\ first >= 2 /\ LastOf(buf, n) = tail
        /\ \A i \in first .. Len(buf) : buf[i] \in Nat
    BY <1>2 DEF LastOf
  <2>2. tail \in Seq(Nat) /\ Len(tail) = n
    <3>1. /\ tail \in Seq(Nat)
          /\ Len(tail) = IF first <= Len(buf) THEN Len(buf) - first + 1 ELSE 0
      <4> HIDE DEF first
      <4> QED BY <2>1, SubSeqProperties
    <3>2. (IF first <= Len(buf) THEN Len(buf) - first + 1 ELSE 0) = n
      BY <2>1
    <3> QED BY <3>1, <3>2
  <2>3. ASSUME NEW m \in 1 .. n PROVE tail[m] = latest - n + m
    <3>1. tail[m] = buf[first + m - 1] /\ first + m - 1 \in 1 .. Len(buf)
      BY <2>1, <2>2, <1>2
    <3> QED BY <3>1, <2>1 DEF Consecutive
  <2> QED BY <2>1, <2>2, <2>3 DEF Consecutive
<1> QED BY <1>1, <1>2

\* So does an entry that is pushed.
LEMMA PushedIsConsecutive ==
  ASSUME NEW buf \in Seq(Nat), NEW latest \in Nat, Consecutive(buf, latest)
  PROVE  /\ Append(buf, latest + 1) \in Seq(Nat)
         /\ Consecutive(Append(buf, latest + 1), latest + 1)
<1>1. Append(buf, latest + 1) \in Seq(Nat) /\ Len(Append(buf, latest + 1)) = Len(buf) + 1
  OBVIOUS
<1>2. ASSUME NEW m \in 1 .. Len(buf) + 1
      PROVE  Append(buf, latest + 1)[m] = latest + 1 - (Len(buf) + 1) + m
  <2>1. CASE m = Len(buf) + 1
    BY <2>1
  <2>2. CASE m # Len(buf) + 1
    <3>1. m \in 1 .. Len(buf)
      BY <2>2
    <3>2. buf[m] = latest - Len(buf) + m
      BY <3>1 DEF Consecutive
    <3>3. Append(buf, latest + 1)[m] = buf[m]
      BY <3>1
    <3> QED BY <3>1, <3>2, <3>3
  <2> QED BY <2>1, <2>2
<1> QED BY <1>1, <1>2 DEF Consecutive

\* The capacity a process starts with.
LEMMA LargestCapacity ==
  (CHOOSE c \in CapacitySteps : \A d \in CapacitySteps : d <= c) \in Nat
  BY RingsAssumption

\* Both rings start empty and without subscribers.
LEMMA RingsStart == RingsInit => RingsInv
<1> SUFFICES ASSUME RingsInit PROVE RingsInv
  OBVIOUS
<1>1. capacity \in Nat
  BY LargestCapacity DEF RingsInit
<1>2. ASSUME NEW n \in RingNames
      PROVE  /\ rings[n].pushed \in Nat
             /\ rings[n].buf \in Seq(Nat)
             /\ Consecutive(rings[n].buf, rings[n].pushed)
  <2>1. rings[n].buf = <<>> /\ rings[n].pushed = 0
    BY DEF RingsInit
  <2> QED BY <2>1 DEF Consecutive
<1>3. streams \in [Viewers -> Stream] /\ StreamsAreWhole
  BY DEF RingsInit, StreamsAreWhole, Stream, NoStream
<1> QED BY <1>1, <1>2, <1>3 DEF RingsInv

\* A push stores one entry, hands it to every subscriber and trims the buffer to its capacity.
LEMMA PushKeeps ==
  ASSUME RingsInv, NEW names \in SUBSET RingNames, Push(names) PROVE RingsInv'
<1>1. capacity' \in Nat
  BY DEF RingsInv, Push
<1>2. ASSUME NEW n \in RingNames
      PROVE  /\ rings'[n].pushed \in Nat
             /\ rings'[n].buf \in Seq(Nat)
             /\ Consecutive(rings'[n].buf, rings'[n].pushed)
             /\ rings'[n].pushed = IF n \in names THEN Latest(n) + 1 ELSE Latest(n)
  <2> DEFINE longer == Append(rings[n].buf, Latest(n) + 1)
  <2>1. CASE n \notin names
    BY <2>1 DEF RingsInv, Push, Latest
  <2>2. CASE n \in names
    <3>1. longer \in Seq(Nat) /\ Consecutive(longer, Latest(n) + 1) /\ Latest(n) + 1 \in Nat
      BY PushedIsConsecutive DEF RingsInv, Latest
    <3>2. /\ LastOf(longer, capacity) \in Seq(Nat)
          /\ Consecutive(LastOf(longer, capacity), Latest(n) + 1)
      <4> HIDE DEF longer
      <4> QED BY <3>1, TrimmedIsConsecutive DEF RingsInv
    <3>3. rings'[n] = [buf |-> LastOf(longer, capacity), pushed |-> Latest(n) + 1]
      BY <2>2 DEF Push
    <3> QED BY <2>2, <3>1, <3>2, <3>3
  <2> QED BY <2>1, <2>2
<1>3. ASSUME NEW v \in Viewers
      PROVE  /\ streams'[v] \in Stream
             /\ streams'[v].ring # "none"
                => streams'[v].whole /\ streams'[v].last = rings'[streams'[v].ring].pushed
  <2>1. CASE streams[v].ring \notin names
    <3>1. streams'[v] = streams[v]
      BY <2>1 DEF Push
    <3> QED BY <2>1, <3>1, <1>2 DEF RingsInv, Stream, StreamsAreWhole, Latest
  <2>2. CASE streams[v].ring \in names
    <3>1. streams[v].ring \in RingNames /\ streams[v].ring # "none"
      BY <2>2 DEF RingNames
    <3>2. streams[v].whole /\ streams[v].last = Latest(streams[v].ring)
      BY <3>1 DEF RingsInv, StreamsAreWhole
    <3>3. streams'[v] = [streams[v] EXCEPT !.last = Latest(streams[v].ring) + 1,
                            !.whole = @ /\ streams[v].last = Latest(streams[v].ring)]
      BY <2>2 DEF Push
    <3>4. streams[v] \in Stream
      BY DEF RingsInv
    <3>5. /\ streams'[v].ring = streams[v].ring
          /\ streams'[v].last = Latest(streams[v].ring) + 1
          /\ streams'[v].whole = TRUE
          /\ streams'[v] \in Stream
      <4>1. Latest(streams[v].ring) + 1 \in Nat
        BY <3>1 DEF RingsInv, Latest
      <4> QED BY <3>2, <3>3, <3>4, <4>1 DEF Stream
    <3> QED BY <2>2, <3>1, <3>5, <1>2
  <2> QED BY <2>1, <2>2
<1>4. streams' \in [Viewers -> Stream]
  BY <1>3 DEF Push
<1> QED BY <1>1, <1>2, <1>3, <1>4 DEF RingsInv, StreamsAreWhole, Latest

\* A new capacity trims the buffer and touches no stream.
LEMMA SetCapacityKeeps ==
  ASSUME RingsInv, NEW size \in CapacitySteps, SetCapacity(size) PROVE RingsInv'
<1>1. capacity' \in Nat /\ size \in Nat
  BY RingsAssumption DEF SetCapacity
<1>2. ASSUME NEW n \in RingNames
      PROVE  /\ rings'[n].pushed = rings[n].pushed
             /\ rings'[n].buf \in Seq(Nat)
             /\ Consecutive(rings'[n].buf, rings[n].pushed)
  <2>1. rings'[n] = [rings[n] EXCEPT !.buf = LastOf(@, size)]
    BY DEF SetCapacity
  <2> QED BY <2>1, <1>1, TrimmedIsConsecutive DEF RingsInv
<1> QED BY <1>1, <1>2 DEF RingsInv, SetCapacity, StreamsAreWhole, Latest, Stream

\* A stream that opens starts with the entries of the buffer it asked for.
LEMMA OpenStreamKeeps ==
  ASSUME RingsInv, NEW v \in Viewers, NEW n \in RingNames, OpenStream(v, n) PROVE RingsInv'
<1> DEFINE buf == rings[n].buf
<1>1. buf \in Seq(Nat) /\ Consecutive(buf, Latest(n)) /\ Latest(n) \in Nat
  BY DEF RingsInv, Latest
<1>2. buf # <<>> => buf[Len(buf)] = Latest(n)
  <2> HIDE DEF buf
  <2> QED BY <1>1 DEF Consecutive
<1>3. \A m \in 1 .. Len(buf) - 1 : buf[m + 1] = buf[m] + 1
  <2> HIDE DEF buf
  <2> QED BY <1>1 DEF Consecutive
<1>4. streams'[v] = [ring |-> n, last |-> Latest(n), whole |-> TRUE]
  BY <1>2, <1>3 DEF OpenStream, RingsInv
<1>5. /\ \A w \in Viewers \ {v} : streams'[w] = streams[w]
      /\ DOMAIN streams' = Viewers /\ UNCHANGED <<rings, capacity>>
      /\ streams' = [w \in Viewers |-> streams'[w]]
  BY DEF OpenStream, RingsInv
<1>6. streams' \in [Viewers -> Stream]
  <2>1. streams'[v] \in Stream
    BY <1>1, <1>4 DEF Stream
  <2>2. \A w \in Viewers \ {v} : streams'[w] \in Stream
    BY <1>5 DEF RingsInv
  <2>3. \A w \in Viewers : streams'[w] \in Stream
    BY <2>1, <2>2
  <2> QED BY <1>5, <2>3
<1>7. ASSUME NEW w \in Viewers, streams'[w].ring # "none"
      PROVE  streams'[w].whole /\ streams'[w].last = Latest(streams'[w].ring)
  <2>1. CASE w = v
    BY <1>4, <2>1
  <2>2. CASE w # v
    BY <1>5, <1>7, <2>2 DEF RingsInv, StreamsAreWhole
  <2> QED BY <2>1, <2>2
<1>8. StreamsAreWhole'
  BY <1>5, <1>7 DEF StreamsAreWhole, Latest
<1>9. \A m \in RingNames : rings'[m] = rings[m]
  BY <1>5
<1> QED BY <1>5, <1>6, <1>8, <1>9 DEF RingsInv

\* Whatever trims or closes, no stream misses an entry.
LEMMA RingStepKeeps == RingsInv /\ RingStep => RingsInv'
<1> SUFFICES ASSUME RingsInv, RingStep PROVE RingsInv'
  OBVIOUS
<1>1. CASE UNCHANGED ringVars
  BY <1>1 DEF ringVars, RingsInv, StreamsAreWhole, Latest, Stream
<1>2. ASSUME NEW v \in Viewers, CloseStream(v) PROVE RingsInv'
  BY <1>2 DEF CloseStream, RingsInv, StreamsAreWhole, Latest, Stream, NoStream
<1>3. CASE RingsRestart
  <2>1. capacity' \in Nat
    BY <1>3, LargestCapacity DEF RingsRestart
  <2>2. ASSUME NEW n \in RingNames
        PROVE  /\ rings'[n].pushed \in Nat
               /\ rings'[n].buf \in Seq(Nat)
               /\ Consecutive(rings'[n].buf, rings'[n].pushed)
    <3>1. rings'[n].buf = <<>> /\ rings'[n].pushed = 0
      BY <1>3 DEF RingsRestart
    <3> QED BY <3>1 DEF Consecutive
  <2>3. streams' \in [Viewers -> Stream] /\ StreamsAreWhole'
    BY <1>3 DEF RingsRestart, StreamsAreWhole, Stream, NoStream
  <2> QED BY <2>1, <2>2, <2>3 DEF RingsInv
<1> QED BY <1>1, <1>2, <1>3, PushKeeps, SetCapacityKeeps, OpenStreamKeeps DEF RingStep
-----------------------------------------------------------------------------
(* Every step of the gateway is a step of the rings *)

\* An answer is pushed, and to nothing but the rings.
LEMMA AnsweredPushes ==
  ASSUME NEW r, NEW q, NEW ok, Answered(r, q, ok) PROVE RingStep
<1>1. PICK names \in SUBSET RingNames : Push(names)
  <2>1. (IF q.compacts = "endpoint" THEN {} ELSE {"activity"}) \cup (IF ok THEN {} ELSE {"log"})
          \in SUBSET RingNames
    BY DEF RingNames
  <2> QED BY <2>1 DEF Answered
<1> QED BY <1>1 DEF RingStep

\* A request that goes on to an attempt writes at most one log entry.
LEMMA GoesOnPushes == ASSUME NEW r, NEW q, GoesOn(r, q) PROVE RingStep
<1>1. CASE Push({"log"})
  BY <1>1 DEF RingStep, RingNames
<1> QED BY <1>1 DEF GoesOn, RingStep

\* So does one that is sent to an account.
LEMMA GoesPushes == ASSUME NEW r, NEW q, NEW k, NEW profile, Goes(r, q, k, profile) PROVE RingStep
  BY AnsweredPushes, GoesOnPushes DEF Goes, Finish

\* So does the choice of an account.
LEMMA ResolvePushes == ASSUME NEW r, NEW q, Resolve(r, q) PROVE RingStep
  BY AnsweredPushes, GoesOnPushes, GoesPushes DEF Resolve, Finish

\* So does what follows a failed attempt.
LEMMA AfterFailurePushes == ASSUME NEW r, NEW error, AfterFailure(r, error) PROVE RingStep
  BY AnsweredPushes, ResolvePushes DEF AfterFailure, Finish

\* Every step of a request leaves the rings alone or pushes one entry.
LEMMA RequestStepsPush == RequestSteps => RingStep
<1> SUFFICES ASSUME RequestSteps PROVE RingStep
  OBVIOUS
<1>1. ASSUME NEW r, NEW bound, NEW continues, NEW compacts, NEW token,
             Arrive(r, bound, continues, compacts, token)
      PROVE  RingStep
  BY <1>1, ResolvePushes DEF Arrive
<1>2. ASSUME NEW r, EndListing(r) PROVE RingStep
  BY <1>2, AnsweredPushes, GoesPushes DEF EndListing, Finish
<1>3. ASSUME NEW r, Begin(r) \/ ClientGone(r) PROVE RingStep
  BY <1>3 DEF Begin, ClientGone, RingStep
<1>4. ASSUME NEW r, RunEndsWell(r) PROVE RingStep
  BY <1>4, AnsweredPushes DEF RunEndsWell, Finish
<1>5. ASSUME NEW r, NEW error, RunFails(r, error) PROVE RingStep
  <2>1. CASE UNCHANGED ringVars
    BY <2>1 DEF RingStep
  <2>2. CASE AfterFailure(r, error)
    BY <2>2, AfterFailurePushes
  <2> QED BY <1>5, <2>1, <2>2 DEF RunFails
<1>6. ASSUME NEW k, NEW valid, ProbeEnds(k, valid) PROVE RingStep
  BY <1>6 DEF ProbeEnds, RingStep
<1>7. ASSUME NEW r, AfterProbe(r) PROVE RingStep
  BY <1>7, GoesPushes, AfterFailurePushes DEF AfterProbe
<1> QED BY <1>1, <1>2, <1>3, <1>4, <1>5, <1>6, <1>7 DEF RequestSteps

\* A quota that becomes known pushes to the telemetry ring only.
LEMMA QuotaKnownPushes == ASSUME NEW c, NEW available, QuotaKnown(c, available) PROVE RingStep
<1>1. CASE Throws
  BY <1>1 DEF Throws, RingStep, RingNames
<1>2. CASE Replies
  BY <1>2 DEF Replies, RingStep
<1> QED BY <1>1, <1>2 DEF QuotaKnown

\* Every step of a call of the console does one thing to the rings at most.
LEMMA WebStepsPush == WebSteps => RingStep
<1> SUFFICES ASSUME WebSteps PROVE RingStep
  OBVIOUS
<1>1. ASSUME UNCHANGED ringVars PROVE RingStep
  BY <1>1 DEF RingStep
<1>2. ASSUME Throws PROVE RingStep
  BY <1>2 DEF Throws, RingStep, RingNames
<1>3. ASSUME NEW c, QuotaAtOnce(c) PROVE RingStep
  BY <1>3, QuotaKnownPushes DEF QuotaAtOnce
<1>4. ASSUME NEW c, TokenRefused(c) PROVE RingStep
  BY <1>4, <1>1, QuotaKnownPushes DEF TokenRefused
<1>5. ASSUME NEW c, NEW b, AccessKnown(c, b) \/ UsageKnown(c, b) PROVE RingStep
  BY <1>5, <1>1, QuotaKnownPushes DEF AccessKnown, UsageKnown
<1>6. ASSUME NEW c, OnboardingAllowed(c) \/ StepOver(c) PROVE RingStep
  BY <1>6, <1>1 DEF OnboardingAllowed, StepOver
<1>7. ASSUME NEW c, OnboardingFails(c) \/ BodyCut(c) PROVE RingStep
  BY <1>7, <1>2 DEF OnboardingFails, BodyCut
<1>8. ASSUME NEW c, NEW k, KeyMade(c, k) PROVE RingStep
  BY <1>8, <1>1 DEF KeyMade
<1>9. ASSUME NEW k, NEW b, Exchanged(k, b) \/ ForgetGrant(k) PROVE RingStep
  BY <1>9, <1>1 DEF Exchanged, ForgetGrant
<1> QED BY <1>3, <1>4, <1>5, <1>6, <1>7, <1>8, <1>9 DEF WebSteps

\* So does every step of the process.
LEMMA NextIsRingStep == [Next]_vars => RingStep
<1> SUFFICES ASSUME [Next]_vars PROVE RingStep
  OBVIOUS
<1>1. ASSUME UNCHANGED ringVars PROVE RingStep
  BY <1>1 DEF RingStep
<1>2. ASSUME NEW t, Login(t) \/ LogsOut(t) PROVE RingStep
  BY <1>2, <1>1 DEF Login, LogsOut, SetTokens
<1>3. ASSUME NEW is, EditAccounts(is) PROVE RingStep
  BY <1>3, <1>1 DEF EditAccounts, Change
<1>4. ASSUME NEW i, NEW proxy, EditProxy(i, proxy) PROVE RingStep
  BY <1>4, <1>1 DEF EditProxy, Change
<1>5. ASSUME NEW k, AddAccount(k) PROVE RingStep
  BY <1>5, <1>1 DEF AddAccount
<1>6. ASSUME NEW c, AskCursor(c) PROVE RingStep
  BY <1>6, <1>1 DEF AskCursor, BeginQuota, BeginOnboarding
<1>7. ASSUME NEW patch, PutSettings(patch) PROVE RingStep
  BY <1>7, <1>1 DEF PutSettings
<1>8. CASE FollowRing
  BY <1>8 DEF FollowRing, RingStep
<1>9. ASSUME NEW v \in Viewers, LeaveRing(v) PROVE RingStep
  BY <1>9 DEF LeaveRing, RingStep
<1>10. CASE Tick \/ AnchorsGo
  BY <1>10, <1>1 DEF Tick, AnchorsGo
<1>11. ASSUME NEW content, EditConfig(content) PROVE RingStep
  BY <1>11, <1>1 DEF EditConfig
<1>12. ASSUME NEW env, Restart(env) PROVE RingStep
  BY <1>12 DEF Restart, RingStep, RingsRestart
<1>13. CASE UNCHANGED vars
  BY <1>13, <1>1 DEF vars
<1> QED BY <1>2, <1>3, <1>4, <1>5, <1>6, <1>7, <1>8, <1>9, <1>10, <1>11, <1>12, <1>13,
           RequestStepsPush, WebStepsPush DEF Next

\* A console that follows a ring misses no entry, whatever is logged, trimmed, resized
\* or opened meanwhile (log-sink.ts, request-telemetry.ts, log-routes.ts).
THEOREM GatewayStreams == Spec => []StreamsAreWhole
<1>1. Init => RingsInv
  BY RingsStart DEF Init
<1>2. RingsInv /\ [Next]_vars => RingsInv'
  BY NextIsRingStep, RingStepKeeps
<1>3. RingsInv => StreamsAreWhole
  BY DEF RingsInv
<1> QED BY <1>1, <1>2, <1>3, PTL DEF Spec

-----------------------------------------------------------------------------
(* Account files and what the operator said of them *)

FileFields == {"key", "disabled", "priority", "proxy"}

FilesOf(fs) == DOMAIN fs = Ids /\ \A i \in Ids : FileFields \subseteq DOMAIN fs[i]

FilesInv ==
  /\ FilesOf(files)
  /\ DOMAIN edits = Ids
  /\ LateResultsKeepEdits

\* A new account file has every field a patch may name.
LEMMA NewFileHasFields == \A k : FileFields \subseteq DOMAIN NewFile(k)
  BY DEF NewFile, FileFields

\* What the operator says is what the files hold.
LEMMA SaidKeeps ==
  ASSUME FilesOf(files'), edits' = [i \in Ids |-> Edited(files'[i])] PROVE FilesInv'
  BY DEF FilesInv, FilesOf, LateResultsKeepEdits, Edited

\* A change of one file keeps the edits when it keeps what they are about.
LEMMA MutateKeeps ==
  ASSUME FilesInv, UNCHANGED edits, NEW i, NEW changed, Mutate(i, changed),
         i \in Ids => FileFields \subseteq DOMAIN changed /\ Edited(changed) = Edited(files[i])
  PROVE  FilesInv'
<1>1. CASE i \notin Listed
  BY <1>1 DEF Mutate, FilesInv, FilesOf, LateResultsKeepEdits, Edited
<1>2. CASE i \in Listed
  <2>1. i \in Ids /\ files' = [files EXCEPT ![i] = changed]
    BY <1>2 DEF Mutate, Listed
  <2>2. FilesOf(files')
    BY <2>1 DEF FilesInv, FilesOf
  <2>3. \A j \in Ids : Edited(files'[j]) = edits[j]
    BY <2>1 DEF FilesInv, FilesOf, LateResultsKeepEdits
  <2>4. LateResultsKeepEdits'
    BY <2>3 DEF LateResultsKeepEdits, Edited
  <2> QED BY <2>2, <2>4 DEF FilesInv
<1> QED BY <1>1, <1>2

\* An account that is added leaves the files of all others alone.
LEMMA AddedKeeps ==
  ASSUME FilesInv, NEW k
  PROVE  /\ FilesOf(Added(k).files)
         /\ \A i \in Ids \ {Added(k).id} : Added(k).files[i] = files[i]
<1>1. CASE IdsOf(k) # {}
  BY <1>1 DEF Added, FilesInv
<1>2. CASE IdsOf(k) = {}
  <2>1. /\ Added(k).files = [files EXCEPT ![added + 1] = NewFile(k)]
        /\ Added(k).id = added + 1
    BY <1>2 DEF Added
  <2> QED BY <2>1, NewFileHasFields DEF FilesInv, FilesOf
<1> QED BY <1>1, <1>2

\* The steps of the account store keep the fields and the history of what was written.
LEMMA StoreKeeps ==
  ASSUME FilesInv, NEW c, NEW k, Store(c, k) PROVE FilesInv'
<1> DEFINE a == Added(k)
<1>1. FilesOf(a.files) /\ \A i \in Ids \ {a.id} : a.files[i] = files[i]
  BY AddedKeeps
<1>2. /\ \E t : files' = [a.files EXCEPT ![a.id].token = t]
      /\ edits' = [edits EXCEPT ![a.id] = Edited(a.files[a.id])]
  BY DEF Store
<1> HIDE DEF a
<1>3. PICK t : files' = [a.files EXCEPT ![a.id].token = t]
  BY <1>2
<1>4. FilesOf(files') /\ DOMAIN edits' = Ids
  BY <1>1, <1>2, <1>3 DEF FilesOf, FilesInv
<1>5. ASSUME NEW i \in Ids PROVE Edited(files'[i]) = edits'[i]
  <2>1. CASE i = a.id
    <3>1. edits'[i] = Edited(a.files[i]) /\ files'[i] = [a.files[i] EXCEPT !.token = t]
      BY <2>1, <1>1, <1>2, <1>3 DEF FilesInv, FilesOf
    <3>2. FileFields \subseteq DOMAIN a.files[i]
      BY <1>1 DEF FilesOf
    <3> QED BY <3>1, <3>2 DEF Edited, FileFields
  <2>2. CASE i # a.id
    <3>1. edits'[i] = edits[i] /\ files'[i] = files[i]
      BY <2>2, <1>1, <1>2, <1>3 DEF FilesInv, FilesOf
    <3> QED BY <3>1 DEF FilesInv, LateResultsKeepEdits
  <2> QED BY <2>1, <2>2
<1>6. LateResultsKeepEdits'
  BY <1>5 DEF LateResultsKeepEdits, Edited
<1> QED BY <1>4, <1>6 DEF FilesInv

\* A call that goes on to its next question to Cursor writes no file.
LEMMA GoesOnToKeepsFiles ==
  ASSUME FilesInv, NEW c, NEW k, NEW step, GoesOnTo(c, k, step) PROVE FilesInv'
<1>1. CASE step = "store"
  BY <1>1, StoreKeeps DEF GoesOnTo
<1>2. CASE step # "store"
  BY <1>2 DEF GoesOnTo, FilesInv, FilesOf, LateResultsKeepEdits, Edited
<1> QED BY <1>1, <1>2

\* A quota that becomes known keeps the account file well formed.
LEMMA QuotaKnownKeepsFiles ==
  ASSUME FilesInv, UNCHANGED edits, NEW c, NEW available, QuotaKnown(c, available)
  PROVE  FilesInv'
<1> DEFINE i == web[c].id
<1>1. CASE UNCHANGED files
  BY <1>1 DEF FilesInv, FilesOf, LateResultsKeepEdits, Edited
<1>2. CASE Mutate(i, [files[i] EXCEPT !.profile = web[c].profile])
  <2>1. ASSUME i \in Ids
        PROVE  LET changed == [files[i] EXCEPT !.profile = web[c].profile]
               IN  FileFields \subseteq DOMAIN changed /\ Edited(changed) = Edited(files[i])
    BY <2>1 DEF FilesInv, FilesOf, FileFields, Edited
  <2> HIDE DEF i
  <2> QED BY <1>2, <2>1, MutateKeeps
<1>3. ASSUME NEW usable \in BOOLEAN, Mutate(i, Verified(files[i], usable)) PROVE FilesInv'
  <2>1. ASSUME i \in Ids
        PROVE  LET changed == Verified(files[i], usable)
               IN  FileFields \subseteq DOMAIN changed /\ Edited(changed) = Edited(files[i])
    BY <2>1 DEF Verified, FilesInv, FilesOf, FileFields, Edited
  <2> HIDE DEF i
  <2> QED BY <1>3, <2>1, MutateKeeps
<1> QED BY <1>1, <1>2, <1>3 DEF QuotaKnown

\* No step of a call of the console breaks the invariant of the files.
LEMMA WebStepsKeepFiles == FilesInv /\ WebSteps => FilesInv'
<1> SUFFICES ASSUME FilesInv, WebSteps PROVE FilesInv'
  OBVIOUS
<1>1. ASSUME UNCHANGED <<files, edits>> PROVE FilesInv'
  BY <1>1 DEF FilesInv, FilesOf, LateResultsKeepEdits, Edited
<1>2. ASSUME NEW c, QuotaAtOnce(c) PROVE FilesInv'
  BY <1>2, QuotaKnownKeepsFiles DEF QuotaAtOnce, histories
<1>3. ASSUME NEW c, TokenRefused(c) PROVE FilesInv'
  BY <1>3, <1>1, QuotaKnownKeepsFiles DEF TokenRefused, histories
<1>4. ASSUME NEW c, NEW b, AccessKnown(c, b) \/ UsageKnown(c, b) PROVE FilesInv'
  BY <1>4, <1>1, QuotaKnownKeepsFiles DEF AccessKnown, UsageKnown, histories
<1>5. ASSUME NEW c, OnboardingAllowed(c) \/ OnboardingFails(c) \/ BodyCut(c) PROVE FilesInv'
  BY <1>5, <1>1 DEF OnboardingAllowed, OnboardingFails, BodyCut, histories
<1>6. ASSUME NEW c, StepOver(c) PROVE FilesInv'
  BY <1>6, GoesOnToKeepsFiles DEF StepOver
<1>7. ASSUME NEW c, NEW k, KeyMade(c, k) PROVE FilesInv'
  BY <1>7, GoesOnToKeepsFiles DEF KeyMade
<1>8. ASSUME NEW k, NEW b, Exchanged(k, b) \/ ForgetGrant(k) PROVE FilesInv'
  BY <1>8, <1>1 DEF Exchanged, ForgetGrant, histories
<1> QED BY <1>2, <1>3, <1>4, <1>5, <1>6, <1>7, <1>8 DEF WebSteps

\* An edit made by hand or by the console keeps the fields of a file.
LEMMA ChangeKeeps ==
  ASSUME FilesInv, NEW is, NEW changed, Change(is, changed),
         \A i \in Ids : FileFields \subseteq DOMAIN changed[i]
  PROVE  FilesInv'
<1>1. files' = [i \in Ids |-> IF i \in is \cap Listed THEN changed[i] ELSE files[i]]
  BY DEF Change, Says
<1>2. FilesOf(files')
  BY <1>1 DEF FilesInv, FilesOf
<1>3. edits' = [i \in Ids |-> Edited(files'[i])]
  BY DEF Change, Says
<1> QED BY <1>2, <1>3, SaidKeeps

\* Requests write no account file.
LEMMA RequestStepsKeepFiles == RequestSteps => UNCHANGED files
<1> SUFFICES ASSUME RequestSteps PROVE UNCHANGED files
  OBVIOUS
<1> USE DEF accountVars
<1>1. ASSUME NEW r, NEW bound, NEW continues, NEW compacts, NEW token,
             Arrive(r, bound, continues, compacts, token)
      PROVE  UNCHANGED files
  BY <1>1 DEF Arrive
<1>2. ASSUME NEW r, \/ EndListing(r) \/ Begin(r) \/ ClientGone(r) \/ RunEndsWell(r)
                    \/ AfterProbe(r)
      PROVE  UNCHANGED files
  BY <1>2 DEF EndListing, Begin, ClientGone, RunEndsWell, AfterProbe
<1>3. ASSUME NEW r, NEW error, RunFails(r, error) PROVE UNCHANGED files
  BY <1>3 DEF RunFails
<1>4. ASSUME NEW k, NEW valid, ProbeEnds(k, valid) PROVE UNCHANGED files
  BY <1>4 DEF ProbeEnds
<1> QED BY <1>1, <1>2, <1>3, <1>4 DEF RequestSteps

\* The invariant of the files is inductive.
LEMMA NextKeepsFiles == FilesInv /\ [Next]_vars => FilesInv'
<1> SUFFICES ASSUME FilesInv, [Next]_vars PROVE FilesInv'
  OBVIOUS
<1>1. ASSUME UNCHANGED <<files, edits>> PROVE FilesInv'
  BY <1>1 DEF FilesInv, FilesOf, LateResultsKeepEdits, Edited
<1> USE DEF accountVars, webVars
<1>2. CASE RequestSteps /\ UNCHANGED webVars
  BY <1>2, <1>1, RequestStepsKeepFiles
<1>3. ASSUME NEW t, Login(t) \/ LogsOut(t) PROVE FilesInv'
  BY <1>3, <1>1 DEF Login, LogsOut, SetTokens
<1>4. ASSUME NEW is, EditAccounts(is) PROVE FilesInv'
  <2>1. \A i \in Ids : FileFields \subseteq DOMAIN files[i]
    BY DEF FilesInv, FilesOf
  <2>2. ASSUME NEW d \in BOOLEAN, Change(is, [i \in Ids |-> [files[i] EXCEPT !.disabled = d]])
        PROVE  FilesInv'
    <3>1. \A i \in Ids : FileFields \subseteq
                         DOMAIN [j \in Ids |-> [files[j] EXCEPT !.disabled = d]][i]
      BY <2>1
    <3> QED BY <2>2, <3>1, ChangeKeeps
  <2>3. ASSUME NEW p \in Priorities, Change(is, [i \in Ids |-> [files[i] EXCEPT !.priority = p]])
        PROVE  FilesInv'
    <3>1. \A i \in Ids : FileFields \subseteq
                         DOMAIN [j \in Ids |-> [files[j] EXCEPT !.priority = p]][i]
      BY <2>1
    <3> QED BY <2>3, <3>1, ChangeKeeps
  <2>4. ASSUME Change(is, [i \in Ids |-> NoFile]) PROVE FilesInv'
    <3>1. \A i \in Ids : FileFields \subseteq DOMAIN [j \in Ids |-> NoFile][i]
      BY NewFileHasFields DEF NoFile
    <3> QED BY <2>4, <3>1, ChangeKeeps
  <2> QED BY <1>4, <2>2, <2>3, <2>4 DEF EditAccounts
<1>5. ASSUME NEW i \in Ids, NEW proxy, EditProxy(i, proxy) PROVE FilesInv'
  <2> DEFINE changed == [files EXCEPT ![i].proxy = Proxied(@, proxy)]
  <2>1. \A j \in Ids : FileFields \subseteq DOMAIN changed[j]
    BY DEF FilesInv, FilesOf
  <2>2. Change({i}, changed)
    BY <1>5 DEF EditProxy
  <2> HIDE DEF changed
  <2> QED BY <2>1, <2>2, ChangeKeeps
<1>6. ASSUME NEW k, AddAccount(k) PROVE FilesInv'
  <2>1. files' = Added(k).files /\ edits' = [i \in Ids |-> Edited(files'[i])]
    BY <1>6 DEF AddAccount, Says
  <2> QED BY <2>1, AddedKeeps, SaidKeeps
<1>7. ASSUME NEW c, AskCursor(c) PROVE FilesInv'
  BY <1>7, <1>1 DEF AskCursor, BeginQuota, BeginOnboarding, histories
<1>8. ASSUME NEW patch, PutSettings(patch) PROVE FilesInv'
  BY <1>8, <1>1 DEF PutSettings
<1>9. ASSUME NEW v, FollowRing \/ LeaveRing(v) PROVE FilesInv'
  BY <1>9, <1>1 DEF FollowRing, LeaveRing
<1>10. CASE Tick \/ AnchorsGo
  BY <1>10, <1>1 DEF Tick, AnchorsGo
<1>11. ASSUME NEW content, EditConfig(content) PROVE FilesInv'
  BY <1>11, <1>1 DEF EditConfig
<1>12. ASSUME NEW env, Restart(env) PROVE FilesInv'
  <2>1. CASE UNCHANGED <<files, edits>>
    BY <2>1, <1>1
  <2>2. CASE files' = Added(Seed).files /\ edits' = [i \in Ids |-> Edited(files'[i])]
    BY <2>2, AddedKeeps, SaidKeeps
  <2> QED BY <1>12, <2>1, <2>2 DEF Restart
<1>13. CASE UNCHANGED vars
  BY <1>13, <1>1 DEF vars
<1> QED BY <1>2, <1>3, <1>4, <1>5, <1>6, <1>7, <1>8, <1>9, <1>10, <1>11, <1>12, <1>13,
           WebStepsKeepFiles DEF Next

\* An answer of Cursor that comes late undoes no edit of the operator and brings no
\* removed account back (file-store.ts mutate, and the callers of setLastError and
\* setDefaultProfile in app.ts).
THEOREM GatewayEdits == Spec => []LateResultsKeepEdits
<1>1. Init => FilesInv
  <2> SUFFICES ASSUME Init PROVE FilesInv
    OBVIOUS
  <2>1. FilesOf(files)
    <3>1. PICK keys : files = [i \in Ids |-> IF i \in DOMAIN keys THEN NewFile(keys[i]) ELSE NoFile]
      BY DEF Init
    <3> QED BY <3>1, NewFileHasFields DEF FilesOf, NoFile
  <2>2. edits = [i \in Ids |-> Edited(files[i])]
    BY DEF Init, WebInit
  <2> QED BY <2>1, <2>2 DEF FilesInv, LateResultsKeepEdits
<1>2. FilesInv /\ [Next]_vars => FilesInv'
  BY NextKeepsFiles
<1>3. FilesInv => LateResultsKeepEdits
  BY DEF FilesInv
<1> QED BY <1>1, <1>2, <1>3, PTL DEF Spec

-----------------------------------------------------------------------------
(* Keys that Cursor made *)

CallFields == {"pc", "op", "key", "then", "profile"}

\* Only an onboarding call takes onboarding steps, and it has no key before one is made.
CallOk(call) ==
  /\ CallFields \subseteq DOMAIN call
  /\ call.pc \in Steps <=> call.op = "onboard"
  /\ call.then \notin Steps
  /\ call.profile \in Profiles
  /\ call.pc \in Steps => call.key \in Keys \cup {NoKey}
  /\ call.pc \in {"check", "create"} => call.key = NoKey

KeysInv ==
  /\ DOMAIN web = Operators /\ \A c \in Operators : CallOk(web[c])
  /\ received \subseteq Keys
  /\ SoftFailuresKeepTheKey

\* The place of a call that is over satisfies the invariant of the calls.
LEMMA NoCallIsOk == CallOk(NoCall) /\ NoCall.op # "onboard"
  BY DEF NoCall, CallOk, CallFields, Steps, Profiles

\* One call changes: the key that it held is given up only when it is on file or cut off.
LEMMA CallChanges ==
  ASSUME KeysInv, NEW c \in Operators, NEW call, CallOk(call), web' = [web EXCEPT ![c] = call],
         stored \subseteq stored', cut \subseteq cut', received' \subseteq Keys,
         \A k \in received' :
           \/ k \in received /\ ~(web[c].op = "onboard" /\ web[c].key = k)
           \/ k \in stored' \cup cut'
           \/ call.op = "onboard" /\ call.key = k
  PROVE  KeysInv'
<1>1. /\ DOMAIN web' = Operators /\ web'[c] = call
      /\ \A d \in Operators \ {c} : web'[d] = web[d]
  BY DEF KeysInv
<1>2. \A d \in Operators : CallOk(web'[d])
  BY <1>1 DEF KeysInv
<1>3. ASSUME NEW k \in received'
      PROVE  \/ k \in stored' \cup cut'
             \/ \E d \in Operators : web'[d].op = "onboard" /\ web'[d].key = k
  <2>1. CASE k \in received /\ ~(web[c].op = "onboard" /\ web[c].key = k)
    BY <2>1, <1>1 DEF KeysInv, SoftFailuresKeepTheKey, InOnboarding
  <2>2. CASE call.op = "onboard" /\ call.key = k
    BY <2>2, <1>1
  <2> QED BY <1>3, <2>1, <2>2
<1>4. SoftFailuresKeepTheKey'
  BY <1>3 DEF SoftFailuresKeepTheKey, InOnboarding
<1> QED BY <1>1, <1>2, <1>4 DEF KeysInv, CallOk, CallFields

\* A call about an account that is on file holds no key that was made.
LEMMA OtherCallChanges ==
  ASSUME KeysInv, NEW c \in Operators, web[c].op # "onboard", NEW call, CallOk(call),
         web' = [web EXCEPT ![c] = call], UNCHANGED <<received, stored, cut>>
  PROVE  KeysInv'
<1>1. /\ stored \subseteq stored' /\ cut \subseteq cut' /\ received' \subseteq Keys
      /\ \A k \in received' : k \in received /\ ~(web[c].op = "onboard" /\ web[c].key = k)
  BY DEF KeysInv
<1> QED BY <1>1, CallChanges

\* A quota that becomes known moves no key.
LEMMA QuotaKnownKeepsKeys ==
  ASSUME KeysInv, NEW c \in Operators, web[c].pc \in Quota, NEW available,
         QuotaKnown(c, available), UNCHANGED <<received, stored, cut>>
  PROVE  KeysInv'
<1>1. web[c].op # "onboard"
  BY DEF KeysInv, CallOk, Quota, Steps
<1>2. web' = [web EXCEPT ![c] = NoCall]
  BY DEF QuotaKnown
<1> QED BY <1>1, <1>2, NoCallIsOk, OtherCallChanges

\* The exchange of a token is over before a key exists.
LEMMA ExchangeKeepsKeys ==
  ASSUME KeysInv, NEW c \in Operators, web[c].op # "onboard", UNCHANGED <<received, stored, cut>>,
         NEW call, CallFields \subseteq DOMAIN call, call.op # "onboard", call.then \notin Steps,
         call.profile \in Profiles,
         Exchange(c, call)
  PROVE  KeysInv'
<1>1. web' = [web EXCEPT ![c] = [call EXCEPT !.pc = "exchange"]]
  BY DEF Exchange
<1>2. CallOk([call EXCEPT !.pc = "exchange"])
  BY DEF CallOk, CallFields, Steps
<1> QED BY <1>1, <1>2, OtherCallChanges

\* A call carries its key on to the next question.
LEMMA GoesOnToKeepsKeys ==
  ASSUME KeysInv, NEW c \in Operators, web[c].op = "onboard", NEW k \in Keys,
         web[c].pc = "create" \/ web[c].key = k,
         received' = received \cup {k}, UNCHANGED cut,
         NEW step, step \in {"store"} \cup (Steps \ {"check", "create"}), GoesOnTo(c, k, step)
  PROVE  KeysInv'
<1>1. \A g \in received' : g = k \/ (g \in received /\ web[c].key # g)
  BY AccountsAssumption DEF KeysInv, CallOk
<1>2. CASE step = "store"
  <2>1. web' = [web EXCEPT ![c] = NoCall] /\ stored' = stored \cup {k}
    BY <1>2 DEF GoesOnTo, Store
  <2>2. /\ stored \subseteq stored' /\ cut \subseteq cut' /\ received' \subseteq Keys
        /\ \A g \in received' : \/ g \in received /\ ~(web[c].op = "onboard" /\ web[c].key = g)
                                \/ g \in stored' \cup cut'
    BY <2>1, <1>1 DEF KeysInv
  <2> QED BY <2>1, <2>2, NoCallIsOk, CallChanges
<1>3. CASE step # "store"
  <2> DEFINE call == [web[c] EXCEPT !.pc = step, !.key = k]
  <2>1. web' = [web EXCEPT ![c] = call] /\ UNCHANGED stored
    BY <1>3 DEF GoesOnTo, KeysInv
  <2>2. CallOk(call) /\ call.op = "onboard" /\ call.key = k
    BY <1>3 DEF KeysInv, CallOk, CallFields
  <2>3. /\ stored \subseteq stored' /\ cut \subseteq cut' /\ received' \subseteq Keys
        /\ \A g \in received' : \/ g \in received /\ ~(web[c].op = "onboard" /\ web[c].key = g)
                                \/ g = k
    BY <2>1, <1>1 DEF KeysInv
  <2> HIDE DEF call
  <2> QED BY <2>1, <2>2, <2>3, CallChanges
<1> QED BY <1>2, <1>3

\* No step of a call of the console loses a key but where the code does.
LEMMA WebStepsKeepKeys == KeysInv /\ WebSteps => KeysInv'
<1> SUFFICES ASSUME KeysInv, WebSteps PROVE KeysInv'
  OBVIOUS
<1> USE DEF histories
<1>ok. \A c \in Operators : CallOk(web[c])
  BY DEF KeysInv
<1>1. ASSUME NEW c \in Operators, QuotaAtOnce(c) PROVE KeysInv'
  BY <1>1, QuotaKnownKeepsKeys DEF QuotaAtOnce, Quota
<1>2. ASSUME NEW c \in Operators, TokenRefused(c) PROVE KeysInv'
  <2>1. web[c].pc \in Quota /\ web[c].op # "onboard"
    BY <1>2, <1>ok DEF TokenRefused, Quota, CallOk, Steps
  <2>2. CASE web[c].again
    BY <1>2, <2>1, <2>2, QuotaKnownKeepsKeys DEF TokenRefused
  <2>3. CASE ~web[c].again
    <3> DEFINE call == [web[c] EXCEPT !.again = TRUE]
    <3>1. /\ CallFields \subseteq DOMAIN call /\ call.op # "onboard" /\ call.then \notin Steps
          /\ call.profile \in Profiles
      BY <2>1, <1>ok DEF CallOk, CallFields
    <3>2. Exchange(c, call) /\ UNCHANGED <<received, stored, cut>>
      BY <1>2, <2>3 DEF TokenRefused
    <3> HIDE DEF call
    <3> QED BY <2>1, <3>1, <3>2, ExchangeKeepsKeys
  <2> QED BY <2>2, <2>3
<1>3. ASSUME NEW c \in Operators, NEW b, AccessKnown(c, b) PROVE KeysInv'
  <2>1. web[c].pc = "access" /\ web[c].pc \in Quota /\ web[c].op # "onboard"
    BY <1>3, <1>ok DEF AccessKnown, Quota, CallOk, Steps
  <2>2. CASE b
    <3> DEFINE call == [web[c] EXCEPT !.pc = "usage", !.then = "usage", !.again = FALSE]
    <3>1. CallOk(call)
      BY <2>1, <1>ok DEF CallOk, CallFields, Steps
    <3>2. web' = [web EXCEPT ![c] = call] /\ UNCHANGED <<received, stored, cut>>
      BY <1>3, <2>2 DEF AccessKnown, KeysInv
    <3> HIDE DEF call
    <3> QED BY <2>1, <3>1, <3>2, OtherCallChanges
  <2>3. CASE ~b
    BY <1>3, <2>1, <2>3, QuotaKnownKeepsKeys DEF AccessKnown
  <2> QED BY <2>2, <2>3
<1>4. ASSUME NEW c \in Operators, NEW b, UsageKnown(c, b) PROVE KeysInv'
  BY <1>4, QuotaKnownKeepsKeys DEF UsageKnown, Quota
<1>5. ASSUME NEW c \in Operators, OnboardingAllowed(c) PROVE KeysInv'
  <2> DEFINE call == [web[c] EXCEPT !.pc = "create"]
  <2>1. CallOk(call) /\ call.key = web[c].key /\ call.op = "onboard"
    BY <1>5, <1>ok DEF OnboardingAllowed, CallOk, CallFields, Steps
  <2>2. web' = [web EXCEPT ![c] = call] /\ UNCHANGED <<received, stored, cut>>
    BY <1>5 DEF OnboardingAllowed, KeysInv
  <2>3. /\ stored \subseteq stored' /\ cut \subseteq cut' /\ received' \subseteq Keys
        /\ \A k \in received' : \/ k \in received /\ ~(web[c].op = "onboard" /\ web[c].key = k)
                                \/ call.op = "onboard" /\ call.key = k
    BY <2>1, <2>2 DEF KeysInv
  <2> HIDE DEF call
  <2> QED BY <2>1, <2>2, <2>3, CallChanges
<1>6. ASSUME NEW c \in Operators, NEW k \in Keys, KeyMade(c, k) PROVE KeysInv'
  <2>1. web[c].pc = "create" /\ web[c].op = "onboard"
    BY <1>6, <1>ok DEF KeyMade, CallOk, Steps
  <2>2. PICK step \in AfterKey(web[c]) : GoesOnTo(c, k, step)
    BY <1>6 DEF KeyMade
  <2>3. step \in {"store"} \cup (Steps \ {"check", "create"})
    BY <2>2 DEF AfterKey, AfterConsent, Steps
  <2>4. received' = received \cup {k} /\ UNCHANGED cut
    BY <1>6 DEF KeyMade
  <2> QED BY <2>1, <2>2, <2>3, <2>4, GoesOnToKeepsKeys
<1>7. ASSUME NEW c \in Operators, StepOver(c) PROVE KeysInv'
  <2> DEFINE k == web[c].key
  <2>1. web[c].op = "onboard" /\ UNCHANGED <<received, cut>>
    BY <1>7, <1>ok DEF StepOver, CallOk
  <2>2. PICK step \in AfterStep(web[c]) : GoesOnTo(c, k, step)
    BY <1>7 DEF StepOver
  <2>3. step \in {"store"} \cup (Steps \ {"check", "create"})
    <3>1. web[c].pc \in {"consent", "grant", "claim", "me", "team", "mark", "trial"}
      BY <1>7 DEF StepOver, Steps
    <3> QED BY <2>2, <3>1 DEF AfterStep, AfterConsent, Steps
  <2>4. CASE k \in received
    BY <2>1, <2>2, <2>3, <2>4, GoesOnToKeepsKeys DEF KeysInv
  <2>5. CASE k \notin received /\ step = "store"
    <3>1. /\ web' = [web EXCEPT ![c] = NoCall] /\ stored \subseteq stored' /\ cut \subseteq cut'
          /\ received' \subseteq Keys
          /\ \A g \in received' : g \in received /\ ~(web[c].op = "onboard" /\ web[c].key = g)
      BY <2>1, <2>2, <2>5 DEF GoesOnTo, Store, KeysInv
    <3> QED BY <3>1, NoCallIsOk, CallChanges
  <2>6. CASE k \notin received /\ step # "store"
    <3> DEFINE call == [web[c] EXCEPT !.pc = step, !.key = k]
    <3>1. CallOk(call)
      BY <2>1, <2>3, <2>6, <1>ok DEF CallOk, CallFields
    <3>2. /\ web' = [web EXCEPT ![c] = call] /\ stored \subseteq stored' /\ cut \subseteq cut'
          /\ received' \subseteq Keys
          /\ \A g \in received' : g \in received /\ ~(web[c].op = "onboard" /\ web[c].key = g)
      BY <2>1, <2>2, <2>6 DEF GoesOnTo, KeysInv
    <3> HIDE DEF call
    <3> QED BY <3>1, <3>2, CallChanges
  <2> QED BY <2>4, <2>5, <2>6
<1>8. ASSUME NEW c \in Operators, OnboardingFails(c) PROVE KeysInv'
  <2>1. web[c].key \notin Keys
    BY <1>8, <1>ok, AccountsAssumption DEF OnboardingFails, Fatal, CallOk
  <2>2. web' = [web EXCEPT ![c] = NoCall] /\ UNCHANGED <<received, stored, cut>>
    BY <1>8 DEF OnboardingFails
  <2>3. /\ stored \subseteq stored' /\ cut \subseteq cut' /\ received' \subseteq Keys
        /\ \A k \in received' : k \in received /\ ~(web[c].op = "onboard" /\ web[c].key = k)
    BY <2>1, <2>2 DEF KeysInv
  <2> QED BY <2>2, <2>3, NoCallIsOk, CallChanges
<1>9. ASSUME NEW c \in Operators, BodyCut(c) PROVE KeysInv'
  <2>1. /\ web' = [web EXCEPT ![c] = NoCall] /\ UNCHANGED <<received, stored>>
        /\ cut' = cut \cup {web[c].key}
    BY <1>9 DEF BodyCut
  <2>2. /\ stored \subseteq stored' /\ cut \subseteq cut' /\ received' \subseteq Keys
        /\ \A k \in received' : \/ k \in received /\ ~(web[c].op = "onboard" /\ web[c].key = k)
                                \/ k \in stored' \cup cut'
    BY <2>1 DEF KeysInv
  <2> QED BY <2>1, <2>2, NoCallIsOk, CallChanges
<1>10. ASSUME NEW k, NEW b \in BOOLEAN, Exchanged(k, b) PROVE KeysInv'
  <2>1. /\ web' = [c \in Operators |->
                     IF web[c].pc = "exchange" /\ web[c].key = k
                     THEN [web[c] EXCEPT !.pc = IF b THEN web[c].then ELSE "failed"] ELSE web[c]]
        /\ UNCHANGED <<received, stored, cut>>
    BY <1>10 DEF Exchanged
  <2>2. ASSUME NEW c \in Operators
        PROVE  CallOk(web'[c]) /\ web'[c].op = web[c].op /\ web'[c].key = web[c].key
    <3>1. CASE web[c].pc = "exchange" /\ web[c].key = k
      <4>1. PICK pc : web'[c] = [web[c] EXCEPT !.pc = pc] /\ pc \in {web[c].then, "failed"}
        BY <2>1, <3>1
      <4>2. web[c].op # "onboard" /\ pc \notin Steps
        BY <3>1, <4>1, <1>ok DEF CallOk, Steps
      <4> QED BY <4>1, <4>2, <1>ok DEF CallOk, CallFields, Steps
    <3>2. CASE ~(web[c].pc = "exchange" /\ web[c].key = k)
      BY <2>1, <3>2, <1>ok
    <3> QED BY <3>1, <3>2
  <2>3. SoftFailuresKeepTheKey'
    BY <2>1, <2>2 DEF KeysInv, SoftFailuresKeepTheKey, InOnboarding
  <2> QED BY <2>1, <2>2, <2>3 DEF KeysInv, CallOk, CallFields
<1>11. ASSUME NEW k, ForgetGrant(k) PROVE KeysInv'
  BY <1>11 DEF ForgetGrant, KeysInv, SoftFailuresKeepTheKey, InOnboarding, CallOk
<1> QED BY <1>1, <1>2, <1>3, <1>4, <1>5, <1>6, <1>7, <1>8, <1>9, <1>10, <1>11 DEF WebSteps

\* The start of a question to Cursor keeps the keys.
LEMMA AskCursorKeepsKeys ==
  ASSUME KeysInv, NEW c \in Operators, AskCursor(c) PROVE KeysInv'
<1>1. web[c].pc = "idle" /\ UNCHANGED <<received, stored, cut>>
  BY DEF AskCursor, BeginQuota, BeginOnboarding, histories
<1>2. web[c].op # "onboard"
  BY <1>1 DEF KeysInv, CallOk, Steps
<1>3. ASSUME NEW op \in {"profile", "verify"}, NEW i, NEW profile \in Profiles,
             BeginQuota(c, op, i, profile)
      PROVE  KeysInv'
  <2> DEFINE call == [NoCall EXCEPT !.op = op, !.id = i, !.key = files[i].key, !.then = "access",
                                    !.profile = profile]
  <2>1. /\ CallFields \subseteq DOMAIN call /\ call.op # "onboard" /\ call.then \notin Steps
        /\ call.profile \in Profiles /\ CallOk([call EXCEPT !.pc = "cached"])
    BY DEF NoCall, CallFields, Steps, CallOk
  <2>2. Exchange(c, call) \/ web' = [web EXCEPT ![c] = [call EXCEPT !.pc = "cached"]]
    BY <1>3 DEF BeginQuota
  <2> HIDE DEF call
  <2> QED BY <1>1, <1>2, <2>1, <2>2, ExchangeKeepsKeys, OtherCallChanges
<1>4. ASSUME NEW wants, BeginOnboarding(c, wants) PROVE KeysInv'
  <2> DEFINE call == [NoCall EXCEPT !.pc = "check", !.op = "onboard", !.wants = wants]
  <2>1. CallOk(call)
    BY DEF NoCall, CallFields, Steps, CallOk, Profiles
  <2>2. web' = [web EXCEPT ![c] = call]
    BY <1>4 DEF BeginOnboarding
  <2> HIDE DEF call
  <2> QED BY <1>1, <1>2, <2>1, <2>2, OtherCallChanges
<1> QED BY <1>3, <1>4 DEF AskCursor, Profiles

\* The invariant of the keys is inductive.
LEMMA NextKeepsKeys == KeysInv /\ [Next]_vars => KeysInv'
<1> SUFFICES ASSUME KeysInv, [Next]_vars PROVE KeysInv'
  OBVIOUS
<1>1. ASSUME UNCHANGED <<web, received, cut>>, stored \subseteq stored' PROVE KeysInv'
  BY <1>1 DEF KeysInv, SoftFailuresKeepTheKey, InOnboarding, CallOk
<1>2. ASSUME UNCHANGED webVars PROVE KeysInv'
  BY <1>2, <1>1 DEF webVars
<1>3. ASSUME NEW t, Login(t) \/ LogsOut(t) PROVE KeysInv'
  BY <1>3, <1>2 DEF Login, LogsOut, SetTokens
<1>4. ASSUME NEW is, EditAccounts(is) PROVE KeysInv'
  BY <1>4, <1>1 DEF EditAccounts, Change, UnchangedByEdits
<1>5. ASSUME NEW i, NEW proxy, EditProxy(i, proxy) PROVE KeysInv'
  BY <1>5, <1>1 DEF EditProxy, Change, UnchangedByEdits
<1>6. ASSUME NEW k, AddAccount(k) PROVE KeysInv'
  BY <1>6, <1>1 DEF AddAccount, UnchangedByEdits
<1>7. ASSUME NEW patch, PutSettings(patch) PROVE KeysInv'
  BY <1>7, <1>2 DEF PutSettings
<1>8. ASSUME NEW v, FollowRing \/ LeaveRing(v) PROVE KeysInv'
  BY <1>8, <1>2 DEF FollowRing, LeaveRing
<1>9. CASE Tick \/ AnchorsGo
  BY <1>9, <1>2 DEF Tick, AnchorsGo
<1>10. ASSUME NEW content, EditConfig(content) PROVE KeysInv'
  BY <1>10, <1>2 DEF EditConfig
<1>11. ASSUME NEW env, Restart(env) PROVE KeysInv'
  <2>1. /\ web' = [c \in Operators |-> NoCall] /\ received' = received \cap stored
        /\ stored \subseteq stored'
    BY <1>11 DEF Restart
  <2>2. SoftFailuresKeepTheKey'
    BY <2>1 DEF SoftFailuresKeepTheKey
  <2> QED BY <2>1, <2>2, NoCallIsOk DEF KeysInv, CallOk
<1>12. CASE UNCHANGED vars
  BY <1>12, <1>2 DEF vars
<1> QED BY <1>2, <1>3, <1>4, <1>5, <1>6, <1>7, <1>8, <1>9, <1>10, <1>11, <1>12,
           WebStepsKeepKeys, AskCursorKeepsKeys DEF Next

\* A key that Cursor made for the gateway ends in a file, unless an answer breaks off in
\* the middle or the process ends (cursor-onboarding.ts, the onboarding route of app.ts).
THEOREM GatewayKeys == Spec => []SoftFailuresKeepTheKey
<1>1. Init => KeysInv
  BY NoCallIsOk DEF Init, WebInit, KeysInv, SoftFailuresKeepTheKey
<1>2. KeysInv /\ [Next]_vars => KeysInv'
  BY NextKeepsKeys
<1>3. KeysInv => SoftFailuresKeepTheKey
  BY DEF KeysInv
<1> QED BY <1>1, <1>2, <1>3, PTL DEF Spec

-----------------------------------------------------------------------------
(* Answers that have begun *)

RequestOk(q) ==
  /\ {"pc", "answer", "ran", "barred"} \subseteq DOMAIN q
  /\ q.answer = "begun" => q.pc = "running"

AnswersInv == DOMAIN req = Requests /\ \A r \in Requests : RequestOk(req[r])

\* The step that BegunAnswerIsNotRunAgain allows.
NoRerun ==
  \A r \in Requests : (req[r].answer = "begun" /\ req'[r].pc # "idle") => req'[r].ran = req[r].ran

\* The place of no request satisfies the invariant of the answers.
LEMMA NoRequestIsOk == RequestOk(NoRequest) /\ NoRequest.pc = "idle"
  BY DEF NoRequest, RequestOk

\* A step of one request leaves the others as they are.
LEMMA RequestChanges ==
  ASSUME AnswersInv, NEW r \in Requests, NEW q, req' = [req EXCEPT ![r] = q], RequestOk(q),
         req[r].answer = "begun" => q.pc = "idle" \/ q.ran = req[r].ran
  PROVE  AnswersInv' /\ NoRerun
<1>1. /\ DOMAIN req' = Requests /\ req'[r] = q
      /\ \A s \in Requests \ {r} : req'[s] = req[s]
  BY DEF AnswersInv
<1>2. \A s \in Requests : RequestOk(req'[s])
  BY <1>1 DEF AnswersInv
<1>3. NoRerun
  BY <1>1 DEF NoRerun
<1> QED BY <1>1, <1>2, <1>3 DEF AnswersInv, RequestOk

\* An answer that is finished is not run again.
LEMMA FinishKeepsAnswers ==
  ASSUME AnswersInv, NEW r \in Requests, NEW q, NEW ok, Answered(r, q, ok)
  PROVE  AnswersInv' /\ NoRerun
  BY NoRequestIsOk, RequestChanges DEF Answered

\* Of a request whose answer has not begun.
LEMMA GoesKeepsAnswers ==
  ASSUME AnswersInv, NEW r \in Requests, req[r].answer # "begun",
         NEW q, RequestOk(q), q.answer # "begun", NEW k, NEW profile, Goes(r, q, k, profile)
  PROVE  AnswersInv' /\ NoRerun
<1>1. RequestOk(Runs(q, k, profile))
  BY DEF Runs, RequestOk
<1>2. ASSUME GoesOn(r, Runs(q, k, profile)) PROVE AnswersInv' /\ NoRerun
  BY <1>1, <1>2, RequestChanges DEF GoesOn
<1> QED BY <1>2, FinishKeepsAnswers DEF Goes, Finish

\* The choice of an account comes before any answer has begun.
LEMMA ResolveKeepsAnswers ==
  ASSUME AnswersInv, NEW r \in Requests, req[r].answer # "begun",
         NEW q, RequestOk(q), q.answer # "begun", Resolve(r, q)
  PROVE  AnswersInv' /\ NoRerun
<1>1. RequestOk(Lists(q))
  BY DEF Lists, RequestOk
<1>2. ASSUME GoesOn(r, Lists(q)) PROVE AnswersInv' /\ NoRerun
  BY <1>1, <1>2, RequestChanges DEF GoesOn
<1> QED BY <1>2, FinishKeepsAnswers, GoesKeepsAnswers DEF Resolve, Finish

\* After a failure a new attempt starts only while the answer has not begun.
LEMMA AfterFailureKeepsAnswers ==
  ASSUME AnswersInv, NEW r \in Requests, NEW error, AfterFailure(r, error)
  PROVE  AnswersInv' /\ NoRerun
<1>1. CASE FailsOver(r, error)
  <2> DEFINE q == [req[r] EXCEPT !.stage = "alternate"]
  <2>1. req[r].answer # "begun"
    BY <1>1 DEF FailsOver, ResponseStarted
  <2>2. RequestOk(q) /\ q.answer # "begun"
    BY <2>1 DEF AnswersInv, RequestOk
  <2>3. Resolve(r, q)
    BY <1>1 DEF AfterFailure
  <2> HIDE DEF q
  <2> QED BY <2>1, <2>2, <2>3, ResolveKeepsAnswers
<1>2. CASE ~FailsOver(r, error)
  BY <1>2, FinishKeepsAnswers DEF AfterFailure, Finish
<1> QED BY <1>1, <1>2

\* No step of a request runs a begun answer again.
LEMMA RequestStepsKeepAnswers == AnswersInv /\ RequestSteps => AnswersInv' /\ NoRerun
<1> SUFFICES ASSUME AnswersInv, RequestSteps PROVE AnswersInv' /\ NoRerun
  OBVIOUS
<1>ok. \A r \in Requests : RequestOk(req[r])
  BY DEF AnswersInv
<1>1. ASSUME NEW r \in Requests, req[r].pc = "idle", NEW bound, NEW continues, NEW compacts,
             NEW token, Arrive(r, bound, continues, compacts, token)
      PROVE  AnswersInv' /\ NoRerun
  <2> DEFINE q == [NoRequest EXCEPT !.stage = "first", !.bound = bound, !.continues = continues,
                      !.compacts = compacts, !.token = token, !.barred = Unusable(files)]
  <2>1. RequestOk(q) /\ q.answer # "begun"
    BY DEF NoRequest, RequestOk
  <2>2. Resolve(r, q) /\ req[r].answer # "begun"
    BY <1>1, <1>ok DEF Arrive, RequestOk
  <2> HIDE DEF q
  <2> QED BY <2>1, <2>2, ResolveKeepsAnswers
<1>2. ASSUME NEW r \in Requests, EndListing(r) PROVE AnswersInv' /\ NoRerun
  <2>1. req[r].answer # "begun"
    BY <1>2, <1>ok DEF EndListing, RequestOk
  <2> QED BY <1>2, <1>ok, <2>1, FinishKeepsAnswers, GoesKeepsAnswers DEF EndListing, Finish
<1>3. ASSUME NEW r \in Requests, Begin(r) PROVE AnswersInv' /\ NoRerun
  <2> DEFINE q == [req[r] EXCEPT !.answer = "begun"]
  <2>1. RequestOk(q) /\ q.ran = req[r].ran /\ req' = [req EXCEPT ![r] = q]
    BY <1>3, <1>ok DEF Begin, RequestOk, AnswersInv
  <2> HIDE DEF q
  <2> QED BY <2>1, RequestChanges
<1>4. ASSUME NEW r \in Requests, ClientGone(r) PROVE AnswersInv' /\ NoRerun
  <2> DEFINE q == [req[r] EXCEPT !.answer = "gone"]
  <2>1. RequestOk(q) /\ q.ran = req[r].ran /\ req' = [req EXCEPT ![r] = q]
    BY <1>4, <1>ok DEF ClientGone, RequestOk, AnswersInv
  <2> HIDE DEF q
  <2> QED BY <2>1, RequestChanges
<1>5. ASSUME NEW r \in Requests, RunEndsWell(r) PROVE AnswersInv' /\ NoRerun
  BY <1>5, FinishKeepsAnswers DEF RunEndsWell, Finish
<1>6. ASSUME NEW r \in Requests, NEW error, RunFails(r, error) PROVE AnswersInv' /\ NoRerun
  <2>1. CASE AfterFailure(r, error)
    BY <2>1, AfterFailureKeepsAnswers
  <2>2. CASE ~ResponseStarted(r) /\ req' = [req EXCEPT ![r].pc = "probing"]
    <3> DEFINE q == [req[r] EXCEPT !.pc = "probing"]
    <3>1. RequestOk(q) /\ q.ran = req[r].ran /\ req' = [req EXCEPT ![r] = q]
      BY <2>2, <1>ok DEF ResponseStarted, RequestOk, AnswersInv
    <3> HIDE DEF q
    <3> QED BY <3>1, RequestChanges
  <2> QED BY <1>6, <2>1, <2>2 DEF RunFails
<1>7. ASSUME NEW k, NEW valid \in BOOLEAN, ProbeEnds(k, valid) PROVE AnswersInv' /\ NoRerun
  <2>1. ASSUME NEW r \in Requests PROVE RequestOk(req'[r]) /\ req'[r].ran = req[r].ran
    <3>1. CASE req[r].pc = "probing" /\ req[r].first = k
      <4>1. PICK pc : req'[r] = [req[r] EXCEPT !.pc = pc]
        BY <1>7, <3>1 DEF ProbeEnds
      <4>2. req[r].answer # "begun"
        BY <3>1, <1>ok DEF RequestOk
      <4> QED BY <4>1, <4>2, <1>ok DEF RequestOk
    <3>2. CASE ~(req[r].pc = "probing" /\ req[r].first = k)
      BY <1>7, <3>2, <1>ok DEF ProbeEnds
    <3> QED BY <3>1, <3>2
  <2>2. DOMAIN req' = Requests
    BY <1>7 DEF ProbeEnds
  <2> QED BY <2>1, <2>2 DEF AnswersInv, RequestOk, NoRerun
<1>8. ASSUME NEW r \in Requests, AfterProbe(r) PROVE AnswersInv' /\ NoRerun
  <2>1. CASE /\ req[r].pc = "valid"
             /\ Goes(r, [req[r] EXCEPT !.stage = "retry"], req[r].first, req[r].profile)
    <3> DEFINE q == [req[r] EXCEPT !.stage = "retry"]
    <3>1. req[r].answer # "begun" /\ RequestOk(q) /\ q.answer # "begun"
      BY <2>1, <1>ok DEF RequestOk
    <3>2. Goes(r, q, req[r].first, req[r].profile)
      BY <2>1
    <3> HIDE DEF q
    <3> QED BY <3>1, <3>2, GoesKeepsAnswers
  <2> QED BY <1>8, <2>1, AfterFailureKeepsAnswers DEF AfterProbe
<1> QED BY <1>1, <1>2, <1>3, <1>4, <1>5, <1>6, <1>7, <1>8 DEF RequestSteps

\* What the operator does to the accounts a request could use is history only.
LEMMA SeenKeepsAnswers == AnswersInv /\ SeenByRequests => AnswersInv' /\ NoRerun
<1> SUFFICES ASSUME AnswersInv, SeenByRequests PROVE AnswersInv' /\ NoRerun
  OBVIOUS
<1>1. ASSUME NEW r \in Requests PROVE RequestOk(req'[r]) /\ req'[r].ran = req[r].ran
  <2>1. PICK b : req'[r] = [req[r] EXCEPT !.barred = b]
    BY DEF SeenByRequests
  <2> QED BY <2>1 DEF AnswersInv, RequestOk
<1>2. DOMAIN req' = Requests
  BY DEF SeenByRequests
<1> QED BY <1>1, <1>2 DEF AnswersInv, RequestOk, NoRerun

\* The invariant of the answers is inductive.
LEMMA NextKeepsAnswers == AnswersInv /\ [Next]_vars => AnswersInv' /\ NoRerun
<1> SUFFICES ASSUME AnswersInv, [Next]_vars PROVE AnswersInv' /\ NoRerun
  OBVIOUS
<1>1. ASSUME UNCHANGED req PROVE AnswersInv' /\ NoRerun
  BY <1>1 DEF AnswersInv, RequestOk, NoRerun
<1> USE DEF requestVars
<1>2. ASSUME NEW t, Login(t) \/ LogsOut(t) PROVE AnswersInv' /\ NoRerun
  BY <1>2, <1>1 DEF Login, LogsOut, SetTokens
<1>3. ASSUME NEW is, EditAccounts(is) PROVE AnswersInv' /\ NoRerun
  BY <1>3, SeenKeepsAnswers DEF EditAccounts, Change, Says
<1>4. ASSUME NEW i, NEW proxy, EditProxy(i, proxy) PROVE AnswersInv' /\ NoRerun
  BY <1>4, SeenKeepsAnswers DEF EditProxy, Change, Says
<1>5. ASSUME NEW k, AddAccount(k) PROVE AnswersInv' /\ NoRerun
  BY <1>5, SeenKeepsAnswers DEF AddAccount, Says
<1>6. ASSUME NEW c, AskCursor(c) PROVE AnswersInv' /\ NoRerun
  BY <1>6, <1>1 DEF AskCursor
<1>7. ASSUME NEW patch, PutSettings(patch) PROVE AnswersInv' /\ NoRerun
  BY <1>7, <1>1 DEF PutSettings
<1>8. ASSUME NEW v, FollowRing \/ LeaveRing(v) PROVE AnswersInv' /\ NoRerun
  BY <1>8, <1>1 DEF FollowRing, LeaveRing
<1>9. CASE Tick \/ AnchorsGo
  BY <1>9, <1>1 DEF Tick, AnchorsGo
<1>10. ASSUME NEW content, EditConfig(content) PROVE AnswersInv' /\ NoRerun
  BY <1>10, <1>1 DEF EditConfig
<1>11. ASSUME NEW env, Restart(env) PROVE AnswersInv' /\ NoRerun
  <2>1. req' = [r \in Requests |-> NoRequest]
    BY <1>11 DEF Restart
  <2> QED BY <2>1, NoRequestIsOk DEF AnswersInv, RequestOk, NoRerun
<1>12. CASE UNCHANGED vars
  BY <1>12, <1>1 DEF vars
<1> QED BY <1>2, <1>3, <1>4, <1>5, <1>6, <1>7, <1>8, <1>9, <1>10, <1>11, <1>12,
           RequestStepsKeepAnswers, SeenKeepsAnswers DEF Next

\* Once the first byte of an answer is out, no probe and no alternate account runs its
\* request again (runWithProviderRecovery in app.ts).
THEOREM GatewayAnswers == Spec => BegunAnswerIsNotRunAgain
<1>1. Init => AnswersInv
  BY NoRequestIsOk DEF Init, FailoverInit, AnswersInv
<1>2. AnswersInv /\ [Next]_vars => AnswersInv'
  BY NextKeepsAnswers
<1>3. AnswersInv /\ [Next]_vars => [NoRerun]_req
  BY NextKeepsAnswers
<1> QED BY <1>1, <1>2, <1>3, PTL DEF Spec, BegunAnswerIsNotRunAgain, NoRerun

-----------------------------------------------------------------------------
(***************************************************************************)
(* Second part: the accounts that model requests run on, and the types.    *)
(***************************************************************************)

(* The round-robin pool *)

Rank(T, i) == Cardinality({j \in T : j < i})

\* The ranks of a finite set of numbers are 0 to its cardinality less one, each once, so
\* the pool finds an account wherever its cursor stands.
LEMMA NthIsMember ==
  ASSUME NEW T \in SUBSET Nat, IsFiniteSet(T), NEW n \in 0 .. Cardinality(T) - 1
  PROVE  Nth(T, n) \in T /\ Rank(T, Nth(T, n)) = n
<1> DEFINE places == 0 .. Cardinality(T) - 1
           f == [i \in T |-> Rank(T, i)]
<1>1. Cardinality(T) \in Nat
  BY FS_CardinalityType
<1>2. ASSUME NEW i \in T
      PROVE  IsFiniteSet({j \in T : j < i}) /\ Rank(T, i) \in places
  <2> DEFINE less == {j \in T : j < i}
  <2>1. IsFiniteSet(T \ {i}) /\ Cardinality(T \ {i}) = Cardinality(T) - 1
    BY FS_RemoveElement
  <2>2. less \in SUBSET (T \ {i})
    OBVIOUS
  <2>3. IsFiniteSet(less) /\ Cardinality(less) <= Cardinality(T) - 1
    BY <2>1, <2>2, FS_Subset
  <2>4. Cardinality(less) \in Nat
    BY <2>3, FS_CardinalityType
  <2> QED BY <1>1, <2>3, <2>4 DEF Rank
<1>rank. ASSUME NEW i \in T PROVE Rank(T, i) \in Int
  <2>1. Rank(T, i) \in places
    BY <1>2
  <2> QED BY <1>1, <2>1
<1>3. ASSUME NEW i \in T, NEW j \in T, i < j PROVE Rank(T, i) < Rank(T, j)
  <2> DEFINE li == {m \in T : m < i}
             lj == {m \in T : m < j}
  <2>1. li \in SUBSET lj /\ i \in lj /\ i \notin li
    <3>1. \A m \in T : m \in Nat
      OBVIOUS
    <3>2. \A m \in T : m < i => m < j
      BY <3>1, <1>3
    <3>3. ~(i < i)
      BY <3>1
    <3> QED BY <3>2, <3>3, <1>3
  <2>fin. IsFiniteSet(lj) /\ IsFiniteSet(li)
    BY <1>2
  <2>2. Cardinality(li) <= Cardinality(lj) /\ Cardinality(li) # Cardinality(lj)
    <3> HIDE DEF li, lj
    <3> QED BY <2>1, <2>fin, FS_Subset
  <2>3. Cardinality(li) \in Nat /\ Cardinality(lj) \in Nat
    BY <2>fin, FS_CardinalityType
  <2> QED BY <2>2, <2>3 DEF Rank
<1>4. f \in Injection(T, places)
  <2>1. f \in [T -> places]
    BY <1>2
  <2>2. \A i, j \in T : f[i] = f[j] => i = j
    <3>1. ASSUME NEW i \in T, NEW j \in T, f[i] = f[j] PROVE i = j
      <4>1. Rank(T, i) = Rank(T, j)
        BY <3>1
      <4>int. Rank(T, i) \in Int /\ Rank(T, j) \in Int
        BY <1>rank
      <4>2. i \in Nat /\ j \in Nat
        OBVIOUS
      <4> QED BY <4>1, <4>int, <4>2, <1>3
    <3> QED BY <3>1
  <2> QED BY <2>1, <2>2 DEF Injection, IsInjective
<1>5. IsFiniteSet(places) /\ Cardinality(places) = Cardinality(T)
  BY <1>1, FS_Interval
<1>6. f \in Surjection(T, places)
  <2> HIDE DEF f, places
  <2> QED BY <1>4, <1>5, FS_Injection
<1>7. PICK i \in T : Rank(T, i) = n
  BY <1>6 DEF Surjection
<1> QED BY <1>7 DEF Nth, Rank

\* A nonempty finite set of natural numbers has a least member.
LEMMA LeastMember ==
  ASSUME NEW T \in SUBSET Nat, IsFiniteSet(T), T # {}
  PROVE  \E i \in T : \A j \in T : i <= j
<1>1. Cardinality(T) \in Nat /\ Cardinality(T) # 0
  BY FS_CardinalityType, FS_EmptySet
<1>2. PICK i \in T : Rank(T, i) = 0
  <2>1. 0 \in 0 .. Cardinality(T) - 1
    BY <1>1
  <2> QED BY <2>1, NthIsMember
<1>3. {j \in T : j < i} = {}
  <2>1. IsFiniteSet({j \in T : j < i})
    BY FS_Subset
  <2> QED BY <2>1, <1>2, FS_EmptySet DEF Rank
<1>4. ASSUME NEW j \in T PROVE i <= j
  <2>1. ~(j < i) /\ i \in Nat /\ j \in Nat
    BY <1>3
  <2> QED BY <2>1
<1> QED BY <1>4

\* Any set of ids is a finite set of numbers.
LEMMA IdsAreFinite ==
  ASSUME NEW ids \in SUBSET Ids PROVE ids \in SUBSET Nat /\ IsFiniteSet(ids)
<1>1. IsFiniteSet(Ids) /\ Ids \subseteq Nat
  BY AccountsAssumption, FS_Interval DEF Ids
<1> QED BY <1>1, FS_Subset

\* findByFingerprint finds an account of the key when there is one.
LEMMA IdOfIsOne ==
  ASSUME NEW k, IdsOf(k) # {} PROVE IdOf(k) \in Ids /\ files[IdOf(k)].key = k
<1>1. IdsOf(k) \in SUBSET Ids
  BY DEF IdsOf, Listed
<1>2. \E i \in IdsOf(k) : \A j \in IdsOf(k) : i <= j
  BY <1>1, IdsAreFinite, LeastMember
<1>3. IdOf(k) \in IdsOf(k)
  BY <1>2 DEF IdOf
<1> QED BY <1>1, <1>3 DEF IdsOf

\* The best tier of a list of accounts is a part of it, and not empty.
LEMMA TierIsThere ==
  ASSUME NEW seen, NEW eligible \in SUBSET Ids, eligible # {},
         \A i \in eligible : seen[i].priority \in Priorities
  PROVE  /\ Best(seen, eligible) \in Priorities
         /\ Tier(seen, eligible) \in SUBSET eligible
         /\ IsFiniteSet(Tier(seen, eligible))
         /\ Cardinality(Tier(seen, eligible)) \in Nat \ {0}
<1> DEFINE ranks == {seen[i].priority : i \in eligible}
           f == [i \in eligible |-> seen[i].priority]
<1>1. ranks \in SUBSET Nat /\ ranks # {} /\ ranks \subseteq Priorities
  BY AccountsAssumption
<1>2. IsFiniteSet(ranks)
  <2>1. f \in Surjection(eligible, ranks)
    BY DEF Surjection
  <2>2. IsFiniteSet(eligible)
    BY IdsAreFinite
  <2> HIDE DEF f, ranks
  <2> QED BY <2>1, <2>2, FS_Surjection
<1>3. PICK p \in ranks : \A q \in ranks : p <= q
  <2> HIDE DEF ranks
  <2> QED BY <1>1, <1>2, LeastMember
<1>4. /\ Best(seen, eligible) \in ranks
      /\ \A i \in eligible : Best(seen, eligible) <= seen[i].priority
  <2>1. \A i \in eligible : p <= seen[i].priority
    BY <1>3
  <2>2. p \in {seen[i].priority : i \in eligible}
    BY <1>3
  <2> QED BY <2>1, <2>2 DEF Best
<1>5. PICK i \in eligible : seen[i].priority = Best(seen, eligible)
  BY <1>4
<1>6. Tier(seen, eligible) \in SUBSET eligible /\ i \in Tier(seen, eligible)
  BY <1>5 DEF Tier
<1>7. IsFiniteSet(Tier(seen, eligible))
  BY <1>6, IdsAreFinite
<1>8. Cardinality(Tier(seen, eligible)) \in Nat /\ Cardinality(Tier(seen, eligible)) # 0
  BY <1>6, <1>7, FS_CardinalityType, FS_EmptySet
<1> QED BY <1>1, <1>4, <1>6, <1>7, <1>8

PoolOk == cursors \in [Priorities -> Nat]

\* The pool picks one of the accounts it was given, and its cursors stay numbers.
LEMMA PickedIsEligible ==
  ASSUME NEW seen, NEW eligible \in SUBSET Ids, eligible # {}, PoolOk,
         \A i \in eligible : seen[i].priority \in Priorities
  PROVE  /\ Picked(seen, eligible) \in eligible
         /\ MoveCursor(seen, eligible) => PoolOk'
<1> DEFINE tier == Tier(seen, eligible)
           best == Best(seen, eligible)
<1>1. /\ best \in Priorities /\ tier \in SUBSET eligible /\ tier \in SUBSET Nat
      /\ IsFiniteSet(tier) /\ Cardinality(tier) \in Nat \ {0}
  BY TierIsThere, IdsAreFinite
<1>2. Picked(seen, eligible) = Nth(tier, cursors[best] % Cardinality(tier))
  BY DEF Picked
<1>3. MoveCursor(seen, eligible) =>
        cursors' = [cursors EXCEPT ![best] = (@ + 1) % Cardinality(tier)]
  BY DEF MoveCursor, Advanced
<1> HIDE DEF tier, best
<1>4. cursors[best] \in Nat
  BY <1>1 DEF PoolOk
<1>5. cursors[best] % Cardinality(tier) \in 0 .. Cardinality(tier) - 1
  BY <1>1, <1>4
<1>6. (cursors[best] + 1) % Cardinality(tier) \in Nat
  BY <1>1, <1>4
<1>7. Picked(seen, eligible) \in eligible
  BY <1>1, <1>2, <1>5, NthIsMember
<1>8. ASSUME MoveCursor(seen, eligible) PROVE PoolOk'
  BY <1>3, <1>6, <1>8 DEF PoolOk
<1> QED BY <1>7, <1>8

-----------------------------------------------------------------------------
(* The files, and what a request needs of them *)

FilesTyped == files \in [Ids -> File]

\* The priority a new account gets is a priority.
LEMMA DefaultPriorityIsOne == DefaultPriority \in Priorities
  BY AccountsAssumption DEF DefaultPriority

\* A new account file is an account file.
LEMMA NewFileIsOne == ASSUME NEW k \in Keys \cup {NoKey} PROVE NewFile(k) \in File
  BY DefaultPriorityIsOne DEF NewFile, File, Profiles, Proxies

\* An added account keeps the types of the store.
LEMMA AddedTyped ==
  ASSUME FilesTyped, NEW k \in Keys \cup {NoKey} PROVE Added(k).files \in [Ids -> File]
<1>1. NewFile(k) \in File
  BY NewFileIsOne
<1>2. CASE IdsOf(k) # {}
  BY <1>2 DEF Added, FilesTyped
<1>3. CASE IdsOf(k) = {}
  <2>1. Added(k).files = [files EXCEPT ![added + 1] = NewFile(k)]
    BY <1>3 DEF Added
  <2> QED BY <1>1, <2>1 DEF FilesTyped
<1> QED BY <1>2, <1>3

\* A call that goes on to its next question keeps the types of the store.
LEMMA GoesOnToTyped ==
  ASSUME FilesTyped, NEW c, NEW k \in Keys \cup {NoKey}, NEW step, GoesOnTo(c, k, step)
  PROVE  FilesTyped'
<1>1. CASE UNCHANGED files
  BY <1>1 DEF FilesTyped
<1>2. CASE Store(c, k)
  <2> DEFINE a == Added(k)
  <2>1. a.files \in [Ids -> File]
    BY AddedTyped
  <2>2. files' = [a.files EXCEPT ![a.id].token = @ \/ "token" \in web[c].wants]
    BY <1>2 DEF Store
  <2> HIDE DEF a
  <2>3. ASSUME NEW i \in Ids PROVE files'[i] \in File
    <3>1. CASE i = a.id
      <4>1. /\ a.files[i] \in File
            /\ files'[i] = [a.files[i] EXCEPT !.token = @ \/ "token" \in web[c].wants]
        BY <3>1, <2>1, <2>2
      <4> QED BY <4>1 DEF File
    <3>2. CASE i # a.id
      BY <3>2, <2>1, <2>2
    <3> QED BY <3>1, <3>2
  <2> QED BY <2>1, <2>2, <2>3 DEF FilesTyped
<1> QED BY <1>1, <1>2 DEF GoesOnTo

\* A change of one account file keeps the types of the store.
LEMMA MutateTyped ==
  ASSUME FilesTyped, NEW i, NEW changed, i \in Ids => changed \in File, Mutate(i, changed)
  PROVE  FilesTyped'
  BY DEF FilesTyped, Mutate, Listed

\* A quota that becomes known keeps the types of the store.
LEMMA QuotaKnownTyped ==
  ASSUME FilesTyped, KeysInv, NEW c \in Operators, NEW available, QuotaKnown(c, available)
  PROVE  FilesTyped'
<1> DEFINE i == web[c].id
<1>1. web[c].profile \in Profiles
  BY DEF KeysInv, CallOk
<1>2. CASE UNCHANGED files
  BY <1>2 DEF FilesTyped
<1>3. CASE Mutate(i, [files[i] EXCEPT !.profile = web[c].profile])
  <2>1. i \in Ids => [files[i] EXCEPT !.profile = web[c].profile] \in File
    BY <1>1 DEF FilesTyped, File
  <2> HIDE DEF i
  <2> QED BY <1>3, <2>1, MutateTyped
<1>4. ASSUME NEW usable \in BOOLEAN, Mutate(i, Verified(files[i], usable)) PROVE FilesTyped'
  <2>1. i \in Ids => Verified(files[i], usable) \in File
    BY DEF FilesTyped, File, Verified
  <2> HIDE DEF i
  <2> QED BY <1>4, <2>1, MutateTyped
<1> QED BY <1>2, <1>3, <1>4 DEF QuotaKnown

\* Every step of a call of the console keeps the types of the store.
LEMMA WebStepsTyped == FilesTyped /\ KeysInv /\ WebSteps => FilesTyped'
<1> SUFFICES ASSUME FilesTyped, KeysInv, WebSteps PROVE FilesTyped'
  OBVIOUS
<1>1. ASSUME UNCHANGED files PROVE FilesTyped'
  BY <1>1 DEF FilesTyped
<1>2. ASSUME NEW c \in Operators, \/ QuotaAtOnce(c) \/ TokenRefused(c)
                                  \/ \E b \in BOOLEAN : AccessKnown(c, b) \/ UsageKnown(c, b)
      PROVE  FilesTyped'
  BY <1>2, <1>1, QuotaKnownTyped DEF QuotaAtOnce, TokenRefused, AccessKnown, UsageKnown
<1>3. ASSUME NEW c, OnboardingAllowed(c) \/ OnboardingFails(c) \/ BodyCut(c) PROVE FilesTyped'
  BY <1>3, <1>1 DEF OnboardingAllowed, OnboardingFails, BodyCut
<1>4. ASSUME NEW c \in Operators, StepOver(c) PROVE FilesTyped'
  <2>1. web[c].key \in Keys \cup {NoKey}
    BY <1>4 DEF StepOver, KeysInv, CallOk
  <2> QED BY <1>4, <2>1, GoesOnToTyped DEF StepOver
<1>5. ASSUME NEW c, NEW k \in Keys, KeyMade(c, k) PROVE FilesTyped'
  BY <1>5, GoesOnToTyped DEF KeyMade
<1>6. ASSUME NEW k, NEW b, Exchanged(k, b) \/ ForgetGrant(k) PROVE FilesTyped'
  BY <1>6, <1>1 DEF Exchanged, ForgetGrant
<1> QED BY <1>2, <1>3, <1>4, <1>5, <1>6 DEF WebSteps

\* An edit of an account keeps the type of its file.
LEMMA ChangeTyped ==
  ASSUME FilesTyped, NEW is, NEW changed, Change(is, changed), \A i \in Ids : changed[i] \in File
  PROVE  FilesTyped'
  BY DEF FilesTyped, Change, Says

\* The types of the store are inductive.
LEMMA NextTyped == FilesTyped /\ KeysInv /\ [Next]_vars => FilesTyped'
<1> SUFFICES ASSUME FilesTyped, KeysInv, [Next]_vars PROVE FilesTyped'
  OBVIOUS
<1>1. ASSUME UNCHANGED files PROVE FilesTyped'
  BY <1>1 DEF FilesTyped
<1> USE DEF accountVars
<1>2. CASE RequestSteps
  BY <1>2, <1>1, RequestStepsKeepFiles
<1>3. ASSUME NEW t, Login(t) \/ LogsOut(t) PROVE FilesTyped'
  BY <1>3, <1>1 DEF Login, LogsOut, SetTokens
<1>4. ASSUME NEW is, EditAccounts(is) PROVE FilesTyped'
  <2>1. ASSUME NEW d \in BOOLEAN, Change(is, [i \in Ids |-> [files[i] EXCEPT !.disabled = d]])
        PROVE  FilesTyped'
    <3>1. \A j \in Ids : [i \in Ids |-> [files[i] EXCEPT !.disabled = d]][j] \in File
      BY DEF FilesTyped, File
    <3> QED BY <2>1, <3>1, ChangeTyped
  <2>2. ASSUME NEW p \in Priorities, Change(is, [i \in Ids |-> [files[i] EXCEPT !.priority = p]])
        PROVE  FilesTyped'
    <3>1. \A j \in Ids : [i \in Ids |-> [files[i] EXCEPT !.priority = p]][j] \in File
      BY DEF FilesTyped, File
    <3> QED BY <2>2, <3>1, ChangeTyped
  <2>3. ASSUME Change(is, [i \in Ids |-> NoFile]) PROVE FilesTyped'
    <3>1. \A j \in Ids : [i \in Ids |-> NoFile][j] \in File
      BY NewFileIsOne DEF NoFile
    <3> QED BY <2>3, <3>1, ChangeTyped
  <2> QED BY <1>4, <2>1, <2>2, <2>3 DEF EditAccounts
<1>5. ASSUME NEW i \in Ids, NEW proxy \in Proxies, EditProxy(i, proxy) PROVE FilesTyped'
  <2> DEFINE changed == [files EXCEPT ![i].proxy = Proxied(@, proxy)]
  <2>1. Proxied(files[i].proxy, proxy) \in Proxies
    BY DEF Proxied, Proxies
  <2>2. \A j \in Ids : changed[j] \in File
    BY <2>1 DEF FilesTyped, File
  <2>3. Change({i}, changed)
    BY <1>5 DEF EditProxy
  <2> HIDE DEF changed
  <2> QED BY <2>2, <2>3, ChangeTyped
<1>6. ASSUME NEW k \in Keys, AddAccount(k) PROVE FilesTyped'
  BY <1>6, AddedTyped DEF AddAccount, Says, FilesTyped
<1>7. ASSUME NEW c, AskCursor(c) PROVE FilesTyped'
  BY <1>7, <1>1 DEF AskCursor, BeginQuota, BeginOnboarding
<1>8. ASSUME NEW patch, PutSettings(patch) PROVE FilesTyped'
  BY <1>8, <1>1 DEF PutSettings
<1>9. ASSUME NEW v, FollowRing \/ LeaveRing(v) PROVE FilesTyped'
  BY <1>9, <1>1 DEF FollowRing, LeaveRing
<1>10. CASE Tick \/ AnchorsGo
  BY <1>10, <1>1 DEF Tick, AnchorsGo
<1>11. ASSUME NEW content, EditConfig(content) PROVE FilesTyped'
  BY <1>11, <1>1 DEF EditConfig
<1>12. ASSUME NEW env, Restart(env) PROVE FilesTyped'
  BY <1>12, <1>1, AddedTyped, GatewayAssumption DEF Restart, FilesTyped
<1>13. CASE UNCHANGED vars
  BY <1>13, <1>1 DEF vars
<1> QED BY <1>2, <1>3, <1>4, <1>5, <1>6, <1>7, <1>8, <1>9, <1>10, <1>11, <1>12, <1>13,
           WebStepsTyped DEF Next

\* The store starts with its types.
LEMMA InitTyped == Init => FilesTyped
<1> SUFFICES ASSUME Init PROVE FilesTyped
  OBVIOUS
<1>1. PICK found \in OnFile :
        files = [i \in Ids |-> IF i \in DOMAIN Seeded(found) THEN NewFile(Seeded(found)[i]) ELSE NoFile]
  BY DEF Init
<1>2. found \in Seq(Keys)
  BY GatewayAssumption
<1>3. Seeded(found) \in Seq(Keys)
  BY <1>2, GatewayAssumption DEF Seeded
<1>4. ASSUME NEW i \in DOMAIN Seeded(found) PROVE Seeded(found)[i] \in Keys
  BY <1>3, <1>4
<1> QED BY <1>1, <1>4, NewFileIsOne DEF FilesTyped, NoFile

-----------------------------------------------------------------------------
(* Requests and the accounts they ran on *)

RequestFields ==
  {"pc", "stage", "bound", "token", "first", "ref", "profile", "seen", "ran", "barred", "answer"}

Anchor == [key : Keys, profile : Profiles, exp : Nat]

\* Where the compact token of a request comes from, and what that demands of its runs.
AtHome(q, tokenList) ==
  /\ q.token \in 0 .. Len(tokenList)
  /\ q.token # NoToken =>
       /\ \A n \in 1 .. Len(q.ran) : q.ran[n] = tokenList[q.token].key
       /\ q.ran # <<>> => q.profile = tokenList[q.token].profile

Common(q, fs, tokenList) ==
  /\ RequestFields \subseteq DOMAIN q
  /\ q.profile \in Profiles /\ q.ran \in Seq(Keys)
  /\ q.barred \subseteq Unusable(fs)
  /\ AtHome(q, tokenList)

\* The runs of a request that may go on an account: its first one, the first again, another.
MayRun(q) ==
  \/ q.stage = "first" /\ q.first = NoKey /\ q.ran = <<>>
  \/ q.stage = "retry" /\ q.first \in Keys /\ q.ran = <<q.first>>
  \/ q.stage = "alternate" /\ q.first \in Keys /\ q.ran \in {<<q.first>>, <<q.first, q.first>>}

HasRun(q) ==
  \/ q.stage = "first" /\ q.first \in Keys /\ q.ref = q.first /\ q.ran = <<q.first>>
  \/ q.stage = "retry" /\ q.first \in Keys /\ q.ref = q.first /\ q.ran = <<q.first, q.first>>
  \/ /\ q.stage = "alternate" /\ q.first \in Keys
     /\ \E b \in Keys \ {q.first} : q.ran \in {<<q.first, b>>, <<q.first, q.first, b>>}

\* An account that is barred was disabled in the list that the request read.
ListsBarred(q) ==
  /\ q.seen \in [Ids -> File]
  /\ \A k \in q.barred : \A i \in Ids : q.seen[i].key = k => q.seen[i].disabled

Served == {"running", "probing", "valid", "invalid"}

RequestInv(q, fs, tokenList) ==
  /\ Common(q, fs, tokenList)
  /\ q.pc \in {"idle", "listing"} \cup Served
  /\ q.pc = "idle" => q.ran = <<>>
  /\ q.pc = "listing" => ListsBarred(q) /\ MayRun(q) /\ q.stage # "retry"
  /\ q.pc \in Served => HasRun(q) /\ (q.ref # q.bound => q.ref \notin q.barred)
  /\ q.pc \in Served \ {"running"} => q.stage = "first"

RequestsInv ==
  /\ DOMAIN req = Requests /\ \A r \in Requests : RequestInv(req[r], files, issued)
  /\ issued \in Seq(Anchor)

\* The tokens that were issued stay what they are.
Grown == issued' = issued \/ \E a \in Anchor : issued' = Append(issued, a)

\* A request that does nothing.
LEMMA NoRequestInv ==
  ASSUME NEW fs, NEW tokenList, Len(tokenList) \in Nat PROVE RequestInv(NoRequest, fs, tokenList)
  BY DEF NoRequest, RequestInv, Common, RequestFields, AtHome, Served, Profiles, NoToken

\* New tokens leave what the old ones demand.
LEMMA GrownKeeps ==
  ASSUME issued \in Seq(Anchor), Grown
  PROVE  /\ issued' \in Seq(Anchor)
         /\ \A q : AtHome(q, issued) => AtHome(q, issued')
<1>1. CASE issued' = issued
  BY <1>1
<1>2. ASSUME NEW a \in Anchor, issued' = Append(issued, a)
      PROVE  /\ issued' \in Seq(Anchor)
             /\ \A q : AtHome(q, issued) => AtHome(q, issued')
  <2>1. /\ issued' \in Seq(Anchor) /\ Len(issued') = Len(issued) + 1 /\ Len(issued) \in Nat
        /\ \A t \in 1 .. Len(issued) : issued'[t] = issued[t]
    BY <1>2
  <2>2. ASSUME NEW q, AtHome(q, issued) PROVE AtHome(q, issued')
    <3>1. q.token # NoToken => issued'[q.token] = issued[q.token]
      BY <2>1, <2>2 DEF AtHome, NoToken
    <3> QED BY <2>1, <2>2, <3>1 DEF AtHome
  <2> QED BY <2>1, <2>2
<1> QED BY <1>1, <1>2 DEF Grown

\* One request changes, or the tokens grow.
LEMMA RequestReplaced ==
  ASSUME RequestsInv, UNCHANGED files, Grown, NEW r \in Requests, NEW q,
         req' = [req EXCEPT ![r] = q], RequestInv(q, files, issued')
  PROVE  RequestsInv'
<1>1. /\ DOMAIN req' = Requests /\ req'[r] = q
      /\ \A s \in Requests \ {r} : req'[s] = req[s]
  BY DEF RequestsInv
<1>2. issued' \in Seq(Anchor) /\ \A p : AtHome(p, issued) => AtHome(p, issued')
  BY GrownKeeps DEF RequestsInv
<1>3. ASSUME NEW s \in Requests PROVE RequestInv(req'[s], files', issued')
  <2>1. CASE s = r
    BY <2>1, <1>1
  <2>2. CASE s # r
    <3>1. RequestInv(req[s], files, issued) /\ req'[s] = req[s]
      BY <2>2, <1>1 DEF RequestsInv
    <3> QED BY <3>1, <1>2 DEF RequestInv, Common
  <2> QED BY <2>1, <2>2
<1> QED BY <1>1, <1>2, <1>3 DEF RequestsInv

\* An answered request satisfies the invariant of the requests.
LEMMA AnsweredKeepsRequests ==
  ASSUME RequestsInv, UNCHANGED files, Grown, NEW r \in Requests, NEW q, NEW ok, Answered(r, q, ok)
  PROVE  RequestsInv'
<1>1. issued' \in Seq(Anchor)
  BY GrownKeeps DEF RequestsInv
<1>2. RequestInv(NoRequest, files, issued')
  BY <1>1, NoRequestInv
<1> QED BY <1>2, RequestReplaced DEF Answered

\* The end of a request keeps it.
LEMMA FinishKeepsRequests ==
  ASSUME RequestsInv, UNCHANGED files, NEW r \in Requests, NEW q, NEW ok, Finish(r, q, ok)
  PROVE  RequestsInv'
  BY AnsweredKeepsRequests DEF Finish, anchorVars, Grown

\* The account that a run goes to is the right one for the stage of the request.
RightAccount(q, k) ==
  /\ k \in Keys
  /\ q.stage = "retry" => k = q.first
  /\ q.stage = "alternate" => k # q.first
  /\ k # q.bound => k \notin q.barred

\* A second and a third run are appended.
LEMMA AppendSecond ==
  ASSUME NEW S, NEW a \in S, NEW k \in S PROVE Append(<<a>>, k) = <<a, k>>
<1>1. Append(<<a>>, k) \in Seq(S) /\ <<a, k>> \in Seq(S)
  OBVIOUS
<1>2. Len(Append(<<a>>, k)) = 2 /\ Len(<<a, k>>) = 2
  OBVIOUS
<1>3. \A i \in 1 .. 2 : Append(<<a>>, k)[i] = <<a, k>>[i]
  OBVIOUS
<1> DEFINE s == Append(<<a>>, k)
           t == <<a, k>>
<1> HIDE DEF s, t
<1>4. /\ s \in Seq(S) /\ t \in Seq(S) /\ Len(s) = Len(t)
      /\ \A i \in 1 .. Len(s) : s[i] = t[i]
  BY <1>1, <1>2, <1>3 DEF s, t
<1>5. s = t
  BY <1>4, SeqEqual
<1> QED BY <1>5 DEF s, t

\* The members of a sequence of at most two and one more.
LEMMA AppendThird ==
  ASSUME NEW S, NEW a \in S, NEW k \in S PROVE Append(<<a, a>>, k) = <<a, a, k>>
<1>1. Append(<<a, a>>, k) \in Seq(S) /\ <<a, a, k>> \in Seq(S)
  OBVIOUS
<1>2. Len(Append(<<a, a>>, k)) = 3 /\ Len(<<a, a, k>>) = 3
  OBVIOUS
<1>3. \A i \in 1 .. 3 : Append(<<a, a>>, k)[i] = <<a, a, k>>[i]
  OBVIOUS
<1> DEFINE s == Append(<<a, a>>, k)
           t == <<a, a, k>>
<1> HIDE DEF s, t
<1>4. /\ s \in Seq(S) /\ t \in Seq(S) /\ Len(s) = Len(t)
      /\ \A i \in 1 .. Len(s) : s[i] = t[i]
  BY <1>1, <1>2, <1>3 DEF s, t
<1>5. s = t
  BY <1>4, SeqEqual
<1> QED BY <1>5 DEF s, t

\* Whoever is on a bounded list of runs satisfies the bound of that list.
LEMMA RunsInv ==
  ASSUME NEW q, Common(q, files, issued), MayRun(q), NEW k, RightAccount(q, k),
         NEW profile \in Profiles, Binds(q, k, profile)
  PROVE  RequestInv(Runs(q, k, profile), files, issued)
<1> DEFINE n == Runs(q, k, profile)
<1>1. /\ RequestFields \subseteq DOMAIN n /\ n.pc = "running" /\ n.ref = k /\ n.profile = profile
      /\ n.ran = Append(q.ran, k) /\ n.first = (IF q.first = NoKey THEN k ELSE q.first)
      /\ n.stage = q.stage /\ n.barred = q.barred /\ n.bound = q.bound /\ n.token = q.token
  BY DEF Runs, Common, RequestFields
<1> HIDE DEF n
<1>2. k \in Keys /\ k # NoKey /\ NoKey \notin Keys
  BY AccountsAssumption DEF RightAccount
<1>3. n.ran \in Seq(Keys) /\ n.ran # <<>>
  <2>1. q.ran \in Seq(Keys)
    BY DEF Common
  <2> QED BY <1>1, <1>2, <2>1, AppendProperties
<1>4. HasRun(n)
  <2>1. CASE q.stage = "first" /\ q.first = NoKey /\ q.ran = <<>>
    <3>1. n.ran = <<k>>
      BY <1>1, <2>1
    <3> QED BY <1>1, <1>2, <2>1, <3>1 DEF HasRun
  <2>2. CASE q.stage = "retry" /\ q.first \in Keys /\ q.ran = <<q.first>>
    <3>1. n.ran = <<q.first, q.first>> /\ k = q.first
      BY <1>1, <1>2, <2>2, AppendSecond DEF RightAccount
    <3> QED BY <1>1, <1>2, <2>2, <3>1 DEF HasRun
  <2>3. CASE q.stage = "alternate" /\ q.first \in Keys /\ q.ran \in {<<q.first>>, <<q.first, q.first>>}
    <3>1. n.ran \in {<<q.first, k>>, <<q.first, q.first, k>>}
      <4>1. Append(<<q.first>>, k) = <<q.first, k>>
        BY <1>2, <2>3, AppendSecond
      <4>2. Append(<<q.first, q.first>>, k) = <<q.first, q.first, k>>
        BY <1>2, <2>3, AppendThird
      <4> QED BY <1>1, <2>3, <4>1, <4>2
    <3>2. k # q.first
      BY <2>3 DEF RightAccount
    <3> QED BY <1>1, <1>2, <2>3, <3>1, <3>2 DEF HasRun
  <2> QED BY <2>1, <2>2, <2>3 DEF MayRun
<1>5. AtHome(n, issued)
  <2>1. CASE q.token = NoToken
    BY <1>1, <2>1 DEF AtHome, Common
  <2>2. CASE q.token # NoToken
    <3>1. issued[q.token].key = k /\ issued[q.token].profile = profile
      BY <2>2 DEF Binds, Vouched
    <3>2. \A m \in 1 .. Len(q.ran) : q.ran[m] = k
      BY <2>2, <3>1 DEF Common, AtHome
    <3>3. \A m \in 1 .. Len(n.ran) : n.ran[m] = k
      BY <1>1, <3>2 DEF Common
    <3> QED BY <1>1, <3>1, <3>3 DEF AtHome, Common
  <2> QED BY <2>1, <2>2
<1>6. n.ref # n.bound => n.ref \notin n.barred
  BY <1>1 DEF RightAccount
<1>7. Common(n, files, issued)
  BY <1>1, <1>3, <1>5 DEF Common
<1>8. RequestInv(n, files, issued)
  BY <1>1, <1>4, <1>6, <1>7 DEF RequestInv, Served
<1> QED BY <1>8 DEF n

\* A request that is sent to a pickable account keeps it.
LEMMA GoesKeepsRequests ==
  ASSUME RequestsInv, now \in Nat, UNCHANGED files, NEW r \in Requests, NEW q,
         Common(q, files, issued), MayRun(q), NEW k, RightAccount(q, k), NEW profile \in Profiles,
         Goes(r, q, k, profile)
  PROVE  RequestsInv'
<1>1. ASSUME Answered(r, q, TRUE), Mint(k, profile) PROVE RequestsInv'
  <2>1. [key |-> k, profile |-> profile, exp |-> now + AnchorTtl] \in Anchor
    BY AnchorsAssumption DEF Anchor, RightAccount
  <2>2. Grown
    BY <1>1, <2>1 DEF Grown, Mint
  <2> QED BY <1>1, <2>2, AnsweredKeepsRequests
<1>2. ASSUME Binds(q, k, profile), GoesOn(r, Runs(q, k, profile)) PROVE RequestsInv'
  <2>1. RequestInv(Runs(q, k, profile), files, issued)
    BY <1>2, RunsInv
  <2>2. Grown /\ issued' = issued /\ req' = [req EXCEPT ![r] = Runs(q, k, profile)]
    BY <1>2 DEF GoesOn, anchorVars, Grown
  <2> QED BY <2>1, <2>2, RequestReplaced
<1> QED BY <1>1, <1>2, FinishKeepsRequests DEF Goes

\* The choice of an account keeps it.
LEMMA ResolveKeepsRequests ==
  ASSUME RequestsInv, FilesTyped, now \in Nat, UNCHANGED files, NEW r \in Requests, NEW q,
         Common(q, files, issued), MayRun(q), q.stage # "retry", Resolve(r, q)
  PROVE  RequestsInv'
<1>1. CASE BoundTo(q) # 0 /\ Goes(r, q, q.bound, files[BoundTo(q)].profile)
  <2>1. q.bound \in Keys \ Excluded(q) /\ BoundTo(q) = IdOf(q.bound) /\ IdsOf(q.bound) # {}
    BY <1>1 DEF BoundTo, IdOf
  <2>2. BoundTo(q) \in Ids
    BY <2>1, IdOfIsOne
  <2>3. files[BoundTo(q)].profile \in Profiles
    BY <2>2 DEF FilesTyped, File
  <2>4. RightAccount(q, q.bound)
    BY <2>1 DEF RightAccount, Excluded
  <2> QED BY <1>1, <2>3, <2>4, GoesKeepsRequests
<1>2. CASE GoesOn(r, Lists(q))
  <2> DEFINE n == Lists(q)
  <2>1. /\ RequestFields \subseteq DOMAIN n /\ n.pc = "listing" /\ n.seen = files
        /\ n.ran = q.ran /\ n.first = q.first /\ n.stage = q.stage /\ n.barred = q.barred
        /\ n.token = q.token /\ n.profile = q.profile
    BY DEF Lists, Common, RequestFields
  <2>2. Grown /\ issued' = issued /\ req' = [req EXCEPT ![r] = n]
    BY <1>2 DEF GoesOn, anchorVars, Grown
  <2> HIDE DEF n
  <2>3. Common(n, files, issued) /\ MayRun(n)
    BY <2>1 DEF Common, AtHome, MayRun
  <2>4. ListsBarred(n)
    BY <2>1 DEF ListsBarred, FilesTyped, Common, Unusable
  <2>5. RequestInv(n, files, issued)
    BY <2>1, <2>3, <2>4 DEF RequestInv, Served
  <2> QED BY <2>2, <2>5, RequestReplaced
<1> QED BY <1>1, <1>2, FinishKeepsRequests DEF Resolve

\* What follows a failed attempt keeps it.
LEMMA AfterFailureKeepsRequests ==
  ASSUME RequestsInv, FilesTyped, now \in Nat, UNCHANGED files, NEW r \in Requests,
         req[r].pc \in Served, NEW error, AfterFailure(r, error)
  PROVE  RequestsInv'
<1>1. CASE FailsOver(r, error)
  <2> DEFINE q == [req[r] EXCEPT !.stage = "alternate"]
  <2>1. RequestInv(req[r], files, issued) /\ HasRun(req[r]) /\ req[r].stage # "alternate"
    BY <1>1 DEF RequestsInv, RequestInv, FailsOver
  <2>2. /\ RequestFields \subseteq DOMAIN q /\ q.stage = "alternate"
        /\ q.ran = req[r].ran /\ q.first = req[r].first /\ q.barred = req[r].barred
        /\ q.token = req[r].token /\ q.profile = req[r].profile
    BY <2>1 DEF RequestInv, Common, RequestFields
  <2>3. Resolve(r, q)
    BY <1>1 DEF AfterFailure
  <2> HIDE DEF q
  <2>4. Common(q, files, issued)
    BY <2>1, <2>2 DEF RequestInv, Common, AtHome
  <2>5. MayRun(q)
    BY <2>1, <2>2 DEF HasRun, MayRun
  <2> QED BY <2>2, <2>3, <2>4, <2>5, ResolveKeepsRequests
<1>2. CASE ~FailsOver(r, error)
  BY <1>2, FinishKeepsRequests DEF AfterFailure
<1> QED BY <1>1, <1>2

\* The end of the listing of the catalogs keeps it.
LEMMA EndListingKeepsRequests ==
  ASSUME RequestsInv, PoolOk, now \in Nat, UNCHANGED files, NEW r \in Requests, EndListing(r)
  PROVE  RequestsInv' /\ PoolOk'
<1> DEFINE q == req[r]
<1>1. /\ Common(q, files, issued) /\ MayRun(q) /\ ListsBarred(q) /\ q.stage # "retry"
      /\ q.barred \subseteq Keys
  BY DEF EndListing, RequestsInv, RequestInv, Common, Unusable
<1>2. PICK live : LET eligible == Eligible(q.seen, Candidates(q, live))
                  IN  IF eligible = {}
                      THEN Finish(r, q, FALSE) /\ UNCHANGED cursors
                      ELSE /\ MoveCursor(q.seen, eligible)
                           /\ LET picked == q.seen[Picked(q.seen, eligible)]
                              IN  Goes(r, q, picked.key, picked.profile)
  BY DEF EndListing
<1> DEFINE eligible == Eligible(q.seen, Candidates(q, live))
<1>3. CASE eligible = {}
  <2>1. Finish(r, q, FALSE) /\ UNCHANGED cursors
    BY <1>2, <1>3
  <2> QED BY <2>1, FinishKeepsRequests DEF PoolOk
<1>4. CASE eligible # {}
  <2> DEFINE i == Picked(q.seen, eligible)
             picked == q.seen[i]
  <2>1. MoveCursor(q.seen, eligible) /\ Goes(r, q, picked.key, picked.profile)
    BY <1>2, <1>4
  <2>2. ASSUME NEW j \in eligible
        PROVE  /\ j \in Ids /\ q.seen[j] \in File /\ q.seen[j].key # NoKey
               /\ q.seen[j].key \notin Excluded(q) /\ ~q.seen[j].disabled
    BY <1>1 DEF Eligible, Candidates, ListsBarred
  <2>3. eligible \in SUBSET Ids /\ \A j \in eligible : q.seen[j].priority \in Priorities
    BY <2>2 DEF File
  <2> HIDE DEF eligible, q
  <2>4. i \in eligible /\ PoolOk'
    BY <1>4, <2>1, <2>3, PickedIsEligible
  <2>5. /\ i \in Ids /\ picked \in File /\ picked.key # NoKey
        /\ picked.key \notin Excluded(q) /\ ~picked.disabled
    BY <2>2, <2>4
  <2>6. picked.key \in Keys /\ picked.profile \in Profiles
    BY <2>5 DEF File
  <2>7. picked.key \notin q.barred
    BY <1>1, <2>5 DEF ListsBarred
  <2>8. RightAccount(q, picked.key)
    BY <1>1, <2>5, <2>6, <2>7 DEF RightAccount, Excluded
  <2> HIDE DEF picked
  <2>9. RequestsInv'
    BY <1>1, <2>1, <2>6, <2>8, GoesKeepsRequests
  <2> QED BY <2>4, <2>9
<1> QED BY <1>3, <1>4

\* A step of a request that leaves what it ran on alone.
LEMMA ProgressKeepsRequests ==
  ASSUME RequestsInv, UNCHANGED <<files, issued>>, NEW r \in Requests, NEW q,
         req' = [req EXCEPT ![r] = q], RequestInv(q, files, issued)
  PROVE  RequestsInv'
  BY RequestReplaced DEF Grown

\* Every step of a request keeps it.
LEMMA RequestStepsKeepRequests ==
  ASSUME RequestsInv, FilesTyped, PoolOk, now \in Nat, RequestSteps
  PROVE  RequestsInv' /\ PoolOk' /\ now' \in Nat
<1>files. UNCHANGED files
  BY RequestStepsKeepFiles
<1>ok. \A r \in Requests : RequestInv(req[r], files, issued)
  BY DEF RequestsInv
<1> USE DEF accountVars, anchorVars
<1>1. ASSUME NEW r \in Requests, NEW bound, NEW continues, NEW compacts,
             NEW token \in 0 .. Len(issued), Arrive(r, bound, continues, compacts, token)
      PROVE  RequestsInv' /\ PoolOk' /\ now' \in Nat
  <2> DEFINE q == [NoRequest EXCEPT !.stage = "first", !.bound = bound, !.continues = continues,
                      !.compacts = compacts, !.token = token, !.barred = Unusable(files)]
  <2>1. Common(q, files, issued) /\ MayRun(q) /\ q.stage = "first"
    BY DEF NoRequest, Common, RequestFields, AtHome, MayRun, Profiles
  <2>2. Resolve(r, q) /\ UNCHANGED <<cursors, now>>
    BY <1>1 DEF Arrive
  <2> HIDE DEF q
  <2>3. RequestsInv'
    BY <1>files, <2>1, <2>2, ResolveKeepsRequests
  <2> QED BY <2>2, <2>3 DEF PoolOk
<1>2. ASSUME NEW r \in Requests, EndListing(r) PROVE RequestsInv' /\ PoolOk' /\ now' \in Nat
  <2>1. UNCHANGED now
    BY <1>2 DEF EndListing
  <2> QED BY <1>files, <1>2, <2>1, EndListingKeepsRequests
<1>3. ASSUME NEW r \in Requests, Begin(r) \/ ClientGone(r)
      PROVE  RequestsInv' /\ PoolOk' /\ now' \in Nat
  <2>1. PICK a : req' = [req EXCEPT ![r] = [req[r] EXCEPT !.answer = a]]
    BY <1>3 DEF Begin, ClientGone, RequestsInv
  <2>2. RequestInv([req[r] EXCEPT !.answer = a], files, issued)
    BY <1>ok DEF RequestInv, Common, RequestFields, AtHome, ListsBarred, MayRun, HasRun
  <2>3. UNCHANGED <<cursors, now, issued>>
    BY <1>3 DEF Begin, ClientGone
  <2>4. RequestsInv'
    BY <1>files, <2>1, <2>2, <2>3, ProgressKeepsRequests
  <2> QED BY <2>3, <2>4 DEF PoolOk
<1>4. ASSUME NEW r \in Requests, RunEndsWell(r) PROVE RequestsInv' /\ PoolOk' /\ now' \in Nat
  BY <1>files, <1>4, FinishKeepsRequests DEF RunEndsWell, PoolOk
<1>5. ASSUME NEW r \in Requests, NEW error, RunFails(r, error)
      PROVE  RequestsInv' /\ PoolOk' /\ now' \in Nat
  <2>1. UNCHANGED <<cursors, now>> /\ req[r].pc \in Served
    BY <1>5 DEF RunFails, Served
  <2>2. CASE AfterFailure(r, error)
    BY <1>files, <2>1, <2>2, AfterFailureKeepsRequests DEF PoolOk
  <2>3. CASE /\ req[r].stage = "first" /\ UNCHANGED anchorVars
             /\ req' = [req EXCEPT ![r].pc = "probing"]
    <3> DEFINE q == [req[r] EXCEPT !.pc = "probing"]
    <3>1. req' = [req EXCEPT ![r] = q]
      BY <2>3 DEF RequestsInv
    <3>2. RequestInv(q, files, issued)
      BY <2>1, <2>3, <1>ok DEF RequestInv, Common, RequestFields, AtHome, HasRun, Served
    <3>3. RequestsInv'
      BY <1>files, <2>3, <3>1, <3>2, ProgressKeepsRequests
    <3> QED BY <2>1, <3>3 DEF PoolOk
  <2> QED BY <1>5, <2>2, <2>3 DEF RunFails
<1>6. ASSUME NEW k, NEW valid \in BOOLEAN, ProbeEnds(k, valid)
      PROVE  RequestsInv' /\ PoolOk' /\ now' \in Nat
  <2>1. UNCHANGED <<cursors, now, issued>> /\ DOMAIN req' = Requests
    BY <1>6 DEF ProbeEnds
  <2>2. ASSUME NEW r \in Requests PROVE RequestInv(req'[r], files', issued')
    <3>1. CASE req[r].pc = "probing" /\ req[r].first = k
      <4>1. PICK pc \in {"valid", "invalid"} : req'[r] = [req[r] EXCEPT !.pc = pc]
        BY <1>6, <3>1 DEF ProbeEnds
      <4>2. RequestInv([req[r] EXCEPT !.pc = pc], files, issued)
        BY <3>1, <1>ok DEF RequestInv, Common, RequestFields, AtHome, HasRun, Served
      <4> QED BY <1>files, <2>1, <4>1, <4>2
    <3>2. CASE ~(req[r].pc = "probing" /\ req[r].first = k)
      <4>1. req'[r] = req[r]
        BY <1>6, <3>2 DEF ProbeEnds
      <4> QED BY <1>files, <1>ok, <2>1, <4>1
    <3> QED BY <3>1, <3>2
  <2> QED BY <2>1, <2>2 DEF RequestsInv, PoolOk
<1>7. ASSUME NEW r \in Requests, AfterProbe(r) PROVE RequestsInv' /\ PoolOk' /\ now' \in Nat
  <2>1. UNCHANGED <<cursors, now>> /\ req[r].pc \in Served
    BY <1>7 DEF AfterProbe, Served
  <2>2. CASE AfterFailure(r, "stale")
    BY <1>files, <2>1, <2>2, AfterFailureKeepsRequests DEF PoolOk
  <2>3. CASE /\ req[r].pc = "valid"
             /\ Goes(r, [req[r] EXCEPT !.stage = "retry"], req[r].first, req[r].profile)
    <3> DEFINE q == [req[r] EXCEPT !.stage = "retry"]
    <3>1. RequestInv(req[r], files, issued) /\ HasRun(req[r]) /\ req[r].stage = "first"
      BY <2>3, <1>ok DEF RequestInv, Served
    <3>2. Common(q, files, issued) /\ MayRun(q)
      BY <3>1 DEF RequestInv, Common, RequestFields, AtHome, HasRun, MayRun
    <3>3. RightAccount(q, req[r].first) /\ req[r].profile \in Profiles
      BY <2>3, <3>1 DEF RequestInv, Common, RequestFields, HasRun, RightAccount, Served
    <3>4. Goes(r, q, req[r].first, req[r].profile)
      BY <2>3
    <3> HIDE DEF q
    <3>5. RequestsInv'
      BY <1>files, <3>2, <3>3, <3>4, GoesKeepsRequests
    <3> QED BY <2>1, <3>5 DEF PoolOk
  <2> QED BY <1>7, <2>2, <2>3 DEF AfterProbe
<1> QED BY <1>1, <1>2, <1>3, <1>4, <1>5, <1>6, <1>7 DEF RequestSteps

\* Whoever changes the accounts, a request forgets what it could not use before.
LEMMA SeenKeepsRequests ==
  ASSUME RequestsInv, SeenByRequests, UNCHANGED issued PROVE RequestsInv'
<1>1. ASSUME NEW r \in Requests PROVE RequestInv(req'[r], files', issued)
  <2> DEFINE q == [req[r] EXCEPT !.barred = @ \cap Unusable(files')]
  <2>1. RequestInv(req[r], files, issued) /\ req'[r] = q
    BY DEF RequestsInv, SeenByRequests
  <2>2. RequestInv(q, files', issued)
    BY <2>1 DEF RequestInv, Common, RequestFields, AtHome, ListsBarred, MayRun, HasRun, Served
  <2> QED BY <2>1, <2>2
<1>2. DOMAIN req' = Requests
  BY DEF SeenByRequests
<1> QED BY <1>1, <1>2 DEF RequestsInv

FailoverInv == RequestsInv /\ PoolOk /\ now \in Nat

\* The invariant of the requests is inductive.
LEMMA NextKeepsRequests ==
  ASSUME FailoverInv, FilesTyped, [Next]_vars PROVE FailoverInv'
<1>1. ASSUME UNCHANGED <<req, files, issued, cursors, now>> PROVE FailoverInv'
  BY <1>1 DEF FailoverInv, RequestsInv, PoolOk
<1>2. ASSUME SeenByRequests, UNCHANGED <<issued, cursors, now>> PROVE FailoverInv'
  BY <1>2, SeenKeepsRequests DEF FailoverInv, PoolOk
<1> USE DEF requestVars, accountVars, anchorVars, others
<1>3. CASE RequestSteps
  BY <1>3, RequestStepsKeepRequests DEF FailoverInv
<1>4. CASE WebSteps /\ SeenByRequests /\ UNCHANGED anchorVars
  <2>1. ASSUME NEW c, \/ QuotaAtOnce(c) \/ TokenRefused(c)
                     \/ \E b \in BOOLEAN : AccessKnown(c, b) \/ UsageKnown(c, b)
                     \/ OnboardingAllowed(c) \/ OnboardingFails(c) \/ BodyCut(c)
        PROVE  UNCHANGED <<cursors, now>>
    BY <2>1 DEF QuotaAtOnce, TokenRefused, AccessKnown, UsageKnown, OnboardingAllowed,
                OnboardingFails, BodyCut, rest
  <2>2. ASSUME NEW c, StepOver(c) PROVE UNCHANGED <<cursors, now>>
    BY <2>2 DEF StepOver
  <2>3. ASSUME NEW c, NEW k, KeyMade(c, k) PROVE UNCHANGED <<cursors, now>>
    BY <2>3 DEF KeyMade
  <2>4. ASSUME NEW k, NEW b, Exchanged(k, b) \/ ForgetGrant(k) PROVE UNCHANGED <<cursors, now>>
    BY <2>4 DEF Exchanged, ForgetGrant, rest
  <2>5. UNCHANGED <<cursors, now>>
    BY <1>4, <2>1, <2>2, <2>3, <2>4 DEF WebSteps
  <2> QED BY <1>2, <1>4, <2>5
<1>5. ASSUME NEW t, Login(t) \/ LogsOut(t) PROVE FailoverInv'
  BY <1>5, <1>1 DEF Login, LogsOut, SetTokens
<1>6. ASSUME NEW is, EditAccounts(is) PROVE FailoverInv'
  BY <1>6, <1>2 DEF EditAccounts, Change, Says, UnchangedByEdits
<1>7. ASSUME NEW i, NEW proxy, EditProxy(i, proxy) PROVE FailoverInv'
  BY <1>7, <1>2 DEF EditProxy, Change, Says, UnchangedByEdits
<1>8. ASSUME NEW k, AddAccount(k) PROVE FailoverInv'
  BY <1>8, <1>2 DEF AddAccount, Says, UnchangedByEdits
<1>9. ASSUME NEW c, AskCursor(c) PROVE FailoverInv'
  BY <1>9, <1>1 DEF AskCursor, BeginQuota, BeginOnboarding, rest
<1>10. ASSUME NEW patch, PutSettings(patch) PROVE FailoverInv'
  BY <1>10, <1>1 DEF PutSettings
<1>11. ASSUME NEW v, FollowRing \/ LeaveRing(v) PROVE FailoverInv'
  BY <1>11, <1>1 DEF FollowRing, LeaveRing
<1>12. CASE Tick
  BY <1>12 DEF Tick, FailoverInv, RequestsInv, PoolOk
<1>13. CASE AnchorsGo
  BY <1>13, <1>1 DEF AnchorsGo, SweepAnchors, LoseAnchor
<1>14. ASSUME NEW content, EditConfig(content) PROVE FailoverInv'
  BY <1>14, <1>1 DEF EditConfig
<1>15. ASSUME NEW env, Restart(env) PROVE FailoverInv'
  <2>1. /\ req' = [r \in Requests |-> NoRequest] /\ cursors' = [p \in Priorities |-> 0]
        /\ UNCHANGED <<now, issued>>
    BY <1>15 DEF Restart
  <2>2. Len(issued) \in Nat
    BY DEF FailoverInv, RequestsInv
  <2> QED BY <2>1, <2>2, NoRequestInv DEF FailoverInv, RequestsInv, PoolOk
<1>16. CASE UNCHANGED vars
  BY <1>16, <1>1 DEF vars
<1> QED BY <1>3, <1>4, <1>5, <1>6, <1>7, <1>8, <1>9, <1>10, <1>11, <1>12, <1>13, <1>14, <1>15,
           <1>16 DEF Next

\* It holds of the initial state.
LEMMA InitRequests == Init => FailoverInv
<1> SUFFICES ASSUME Init PROVE FailoverInv
  OBVIOUS
<1>1. issued = <<>> /\ req = [r \in Requests |-> NoRequest]
  BY DEF Init, AnchorsInit, FailoverInit
<1>2. issued \in Seq(Anchor) /\ Len(issued) \in Nat
  BY <1>1
<1>3. \A r \in Requests : RequestInv(req[r], files, issued)
  BY <1>1, <1>2, NoRequestInv
<1> QED BY <1>1, <1>2, <1>3 DEF Init, FailoverInv, RequestsInv, PoolOk

\* In every behavior the accounts and the requests stay what the lemmas say of them.
THEOREM GatewayFailover == Spec => []FailoverInv
<1>1. Init => FilesTyped /\ KeysInv /\ FailoverInv
  <2>1. Init => KeysInv
    BY NoCallIsOk DEF Init, WebInit, KeysInv, SoftFailuresKeepTheKey
  <2> QED BY <2>1, InitTyped, InitRequests
<1>2. /\ FilesTyped /\ KeysInv /\ FailoverInv /\ [Next]_vars
      => (FilesTyped /\ KeysInv /\ FailoverInv)'
  BY NextTyped, NextKeepsKeys, NextKeepsRequests
<1> QED BY <1>1, <1>2, PTL DEF Spec

\* A request runs at most twice on its first account and once on one other, and never
\* comes back to the first, whatever fails and whatever the operator does meanwhile
\* (runWithProviderRecovery and resolveManagedAuth in app.ts).
THEOREM GatewayRuns == Spec => []FailoverIsBounded
<1>1. FailoverInv => FailoverIsBounded
  <2> SUFFICES ASSUME FailoverInv, NEW r \in Requests
               PROVE  \/ req[r].ran = <<>>
                      \/ \E a \in Keys : req[r].ran \in {<<a>>, <<a, a>>}
                      \/ \E a, b \in Keys : a # b /\ req[r].ran \in {<<a, b>>, <<a, a, b>>}
    BY DEF FailoverIsBounded
  <2>1. RequestInv(req[r], files, issued)
    BY DEF FailoverInv, RequestsInv
  <2>2. CASE MayRun(req[r])
    BY <2>2 DEF MayRun
  <2>3. CASE HasRun(req[r])
    BY <2>3 DEF HasRun
  <2> QED BY <2>1, <2>2, <2>3 DEF RequestInv
<1> QED BY <1>1, GatewayFailover, PTL

\* An account that the operator disabled or removed before a request came, and did not
\* put back, gets the request only for a session that is bound to it: the pool, the probe
\* and the alternate account included (account-pool.ts, app.ts).
THEOREM GatewayDisabled == Spec => []DisabledAccountsGetNoNewWork
<1>1. FailoverInv => DisabledAccountsGetNoNewWork
  BY DEF FailoverInv, RequestsInv, RequestInv, Served, DisabledAccountsGetNoNewWork
<1> QED BY <1>1, GatewayFailover, PTL

\* A request with a compact token runs only on the account and profile of the token, also
\* when it is retried or goes elsewhere (bindCompactContinuation in app.ts, compact-anchor.ts).
THEOREM GatewayHome == Spec => []CompactedTurnsStayHome
<1>1. FailoverInv => CompactedTurnsStayHome
  BY DEF FailoverInv, RequestsInv, RequestInv, Common, AtHome, CompactedTurnsStayHome
<1> QED BY <1>1, GatewayFailover, PTL

-----------------------------------------------------------------------------
(* The types of the gateway: what the invariants above leave open *)

Stages  == {"none", "first", "retry", "alternate"}
Answers == {"none", "begun", "gone"}
Entry   == [has : BOOLEAN, at : 0 .. MaxTime + 1]

ReqTyped(q) ==
  /\ {"pc", "stage", "bound", "first", "ref", "answer", "began", "barred"} \subseteq DOMAIN q
  /\ q.stage \in Stages /\ q.answer \in Answers
  /\ q.bound \in Keys \cup {NoKey} /\ q.first \in Keys \cup {NoKey} /\ q.ref \in Keys \cup {NoKey}
  /\ q.pc = "listing" => q.began \in 0 .. MaxTime

\* A token is in the hand of Cursor only for a key, and is sent back to one of two questions.
CallTyped(call) ==
  /\ {"pc", "op", "id", "key", "then", "again", "wants"} \subseteq DOMAIN call
  /\ call.pc \in Quota \cup Steps \cup {"idle"}
  /\ call.op \in {"none", "profile", "verify", "onboard"}
  /\ call.id \in Ids \cup {0} /\ call.key \in Keys \cup {NoKey}
  /\ call.pc \in {"exchange", "access", "usage"} =>
       call.key \in Keys /\ call.then \in {"access", "usage"}
  /\ call.pc \in Steps \ {"check", "create"} => call.key \in Keys

PoolTyped ==
  /\ added \in 0 .. MaxAccounts /\ cursors \in [Priorities -> 0 .. MaxAccounts]
  /\ catalog \in [Keys -> Entry] /\ now \in 0 .. MaxTime

AskedTyped ==
  /\ DOMAIN req = Requests /\ \A r \in Requests : ReqTyped(req[r])
  /\ probes \in [Keys -> Nat] /\ anchors \subseteq 1 .. Len(issued)

WebTyped ==
  /\ DOMAIN web = Operators /\ \A c \in Operators : CallTyped(web[c])
  /\ exchanges \in [Keys -> Nat] /\ sandCache \subseteq Keys /\ stored \subseteq Keys

RingsSized == capacity \in CapacitySteps /\ \A n \in RingNames : Len(rings[n].buf) <= capacity

BudgetTyped == tokens \subseteq Tokens /\ left \in [Kinds -> Nat]

RestTyped ==
  PoolTyped /\ AskedTyped /\ WebTyped /\ RingsSized /\ SettingsTypeOK /\ BudgetTyped

\* With what the earlier invariants say, these are the types of the gateway.
LEMMA RestGivesTypes ==
  FilesTyped /\ KeysInv /\ RingsInv /\ FailoverInv /\ RestTyped => TypeOK
<1> SUFFICES ASSUME FilesTyped, KeysInv, RingsInv, FailoverInv, RestTyped PROVE TypeOK
  OBVIOUS
<1>1. AccountsTypeOK
  BY DEF FilesTyped, RestTyped, PoolTyped, AccountsTypeOK, Entry
<1>2. AnchorsTypeOK
  BY DEF FailoverInv, RequestsInv, Anchor, RestTyped, AskedTyped, AnchorsTypeOK
<1>3. FailoverTypeOK
  <2>1. ASSUME NEW r \in Requests
        PROVE  /\ req[r].pc \in {"idle", "listing", "running", "probing", "valid", "invalid"}
               /\ req[r].barred \subseteq Keys /\ req[r].profile \in Profiles
               /\ req[r].token \in 0 .. Len(issued)
    BY DEF FailoverInv, RequestsInv, RequestInv, Common, AtHome, Served, Unusable
  <2>2. ASSUME NEW r \in Requests PROVE ReqTyped(req[r])
    BY DEF RestTyped, AskedTyped
  <2> QED BY <2>1, <2>2 DEF FailoverTypeOK, ReqTyped, Stages, Answers, RestTyped, AskedTyped
<1>4. RingsTypeOK
  BY DEF RingsInv, Stream, RestTyped, RingsSized, RingsTypeOK
<1>5. WebTypeOK
  BY DEF KeysInv, RestTyped, WebTyped, CallTyped, WebTypeOK
<1> QED BY <1>1, <1>2, <1>3, <1>4, <1>5 DEF TypeOK, RestTyped, BudgetTyped

-----------------------------------------------------------------------------
(* The types of requests *)

\* A place without a request has the types of one.
LEMMA NoRequestTyped == ReqTyped(NoRequest)
BY DEF NoRequest, ReqTyped, Stages, Answers

\* A step of one request, which may issue a token.
OneRequest(r) ==
  /\ \E q : ReqTyped(q) /\ req' = [req EXCEPT ![r] = q]
  /\ UNCHANGED anchorVars \/ \E k, profile : Mint(k, profile)

\* An answer ends one request.
LEMMA AnsweredIsOne ==
  ASSUME NEW r, NEW q, NEW ok, Answered(r, q, ok),
         UNCHANGED anchorVars \/ \E k, profile : Mint(k, profile)
  PROVE  OneRequest(r)
BY NoRequestTyped DEF Answered, OneRequest

\* So does an end without a token.
LEMMA FinishIsOne == ASSUME NEW r, NEW q, NEW ok, Finish(r, q, ok) PROVE OneRequest(r)
BY AnsweredIsOne DEF Finish

\* A request that has an account is answered or runs.
LEMMA GoesIsOne ==
  ASSUME NEW r, NEW q, ReqTyped(q), NEW k \in Keys, NEW profile, Goes(r, q, k, profile)
  PROVE  OneRequest(r)
<1>1. ASSUME Answered(r, q, TRUE), Mint(k, profile) PROVE OneRequest(r)
  BY <1>1, AnsweredIsOne
<1>2. ASSUME GoesOn(r, Runs(q, k, profile)) PROVE OneRequest(r)
  <2> DEFINE n == Runs(q, k, profile)
  <2>1. ReqTyped(n)
    BY DEF ReqTyped, Runs
  <2>2. req' = [req EXCEPT ![r] = n] /\ UNCHANGED anchorVars
    BY <1>2 DEF GoesOn
  <2> HIDE DEF n
  <2> QED BY <2>1, <2>2 DEF OneRequest
<1> QED BY <1>1, <1>2, FinishIsOne DEF Goes

\* A request that looks for an account is answered, runs or lists the catalogs.
LEMMA ResolveIsOne ==
  ASSUME now \in 0 .. MaxTime, NEW r, NEW q, ReqTyped(q), Resolve(r, q)
  PROVE  OneRequest(r)
<1>1. ASSUME BoundTo(q) # 0, Goes(r, q, q.bound, files[BoundTo(q)].profile) PROVE OneRequest(r)
  <2>1. q.bound \in Keys
    BY <1>1 DEF BoundTo
  <2> QED BY <1>1, <2>1, GoesIsOne
<1>2. ASSUME GoesOn(r, Lists(q)) PROVE OneRequest(r)
  <2> DEFINE n == Lists(q)
  <2>1. ReqTyped(n)
    BY DEF ReqTyped, Lists
  <2>2. req' = [req EXCEPT ![r] = n] /\ UNCHANGED anchorVars
    BY <1>2 DEF GoesOn
  <2> HIDE DEF n
  <2> QED BY <2>1, <2>2 DEF OneRequest
<1> QED BY <1>1, <1>2, FinishIsOne DEF Resolve

\* A run that failed is over or goes on to the alternate account.
LEMMA AfterFailureIsOne ==
  ASSUME now \in 0 .. MaxTime, NEW r, ReqTyped(req[r]), NEW error, AfterFailure(r, error)
  PROVE  OneRequest(r)
<1>1. CASE FailsOver(r, error)
  <2> DEFINE q == [req[r] EXCEPT !.stage = "alternate"]
  <2>1. ReqTyped(q) /\ Resolve(r, q)
    BY <1>1 DEF ReqTyped, Stages, AfterFailure
  <2> HIDE DEF q
  <2> QED BY <2>1, ResolveIsOne
<1> QED BY <1>1, FinishIsOne DEF AfterFailure

\* A token that is issued has a record.
LEMMA OneRequestTyped ==
  ASSUME AskedTyped, issued \in Seq(Anchor), NEW r \in Requests, OneRequest(r), probes' \in [Keys -> Nat]
  PROVE  AskedTyped'
<1>1. PICK q : ReqTyped(q) /\ req' = [req EXCEPT ![r] = q]
  BY DEF OneRequest
<1>2. DOMAIN req' = Requests /\ \A s \in Requests : req'[s] = IF s = r THEN q ELSE req[s]
  BY <1>1 DEF AskedTyped
<1>3. \A s \in Requests : ReqTyped(req'[s])
  BY <1>1, <1>2 DEF AskedTyped
<1>4. anchors' \subseteq 1 .. Len(issued')
  <2>1. CASE UNCHANGED anchorVars
    BY <2>1 DEF anchorVars, AskedTyped
  <2>2. ASSUME NEW k, NEW profile, Mint(k, profile) PROVE anchors' \subseteq 1 .. Len(issued')
    <3>1. Len(issued') = Len(issued) + 1 /\ Len(issued) \in Nat
      BY <2>2 DEF Mint
    <3>2. anchors' = anchors \cup {Len(issued) + 1}
      BY <2>2 DEF Mint
    <3>3. anchors \subseteq 1 .. Len(issued)
      BY DEF AskedTyped
    <3>4. 1 .. Len(issued) \subseteq 1 .. Len(issued') /\ Len(issued) + 1 \in 1 .. Len(issued')
      BY <3>1
    <3> QED BY <3>2, <3>3, <3>4
  <2> QED BY <2>1, <2>2 DEF OneRequest
<1> QED BY <1>2, <1>3, <1>4 DEF AskedTyped, ReqTyped

\* The cursor of a tier moves among the accounts of the tier.
LEMMA CursorTyped ==
  ASSUME cursors \in [Priorities -> 0 .. MaxAccounts],
         NEW seen, NEW eligible \in SUBSET Ids, eligible # {},
         \A i \in eligible : seen[i].priority \in Priorities, MoveCursor(seen, eligible)
  PROVE  cursors' \in [Priorities -> 0 .. MaxAccounts]
<1> DEFINE tier == Tier(seen, eligible)
           best == Best(seen, eligible)
<1>1. /\ best \in Priorities /\ tier \in SUBSET Ids /\ IsFiniteSet(tier)
      /\ Cardinality(tier) \in Nat \ {0}
  BY TierIsThere
<1>2. cursors' = [cursors EXCEPT ![best] = (@ + 1) % Cardinality(tier)]
  BY DEF MoveCursor, Advanced
<1> HIDE DEF tier, best
<1>3. Cardinality(tier) <= MaxAccounts /\ MaxAccounts \in Nat
  <2>1. IsFiniteSet(Ids) /\ Cardinality(Ids) = MaxAccounts
    BY AccountsAssumption, FS_Interval DEF Ids
  <2> QED BY <1>1, <2>1, FS_Subset, AccountsAssumption
<1>4. cursors[best] + 1 \in Nat
  <2>1. cursors[best] \in 0 .. MaxAccounts
    BY <1>1
  <2> QED BY <1>3, <2>1
<1>5. (cursors[best] + 1) % Cardinality(tier) \in 0 .. MaxAccounts
  BY <1>1, <1>3, <1>4
<1> QED BY <1>1, <1>2, <1>5

\* The end of a listing keeps the types of the pool, the catalog and the request.
LEMMA EndListingTyped ==
  ASSUME PoolTyped, AskedTyped, RequestsInv, NEW r \in Requests, EndListing(r)
  PROVE  PoolTyped' /\ AskedTyped'
<1> DEFINE q == req[r]
<1>1. q.pc = "listing" /\ ReqTyped(q) /\ q.began \in 0 .. MaxTime /\ q.seen \in [Ids -> File]
  <2>1. q.pc = "listing" /\ ReqTyped(q)
    BY DEF EndListing, AskedTyped
  <2>2. RequestInv(q, files, issued)
    BY DEF RequestsInv
  <2> QED BY <2>1, <2>2 DEF ReqTyped, RequestInv, ListsBarred
<1>2. PICK live :
        LET eligible == Eligible(q.seen, Candidates(q, live))
        IN  /\ catalog' = [k \in Keys |->
                             IF k \in DOMAIN live
                             THEN Relisted(q.cached[k], q.began, live[k], catalog[k])
                             ELSE catalog[k]]
            /\ IF eligible = {}
                 THEN Finish(r, q, FALSE) /\ UNCHANGED cursors
                 ELSE /\ MoveCursor(q.seen, eligible)
                      /\ LET picked == q.seen[Picked(q.seen, eligible)]
                         IN  Goes(r, q, picked.key, picked.profile)
  BY DEF EndListing
<1>3. catalog' \in [Keys -> Entry]
  <2>1. ASSUME NEW k \in Keys PROVE catalog'[k] \in Entry
    <3>1. catalog'[k] = catalog[k] \/ catalog'[k] = [has |-> live[k] = "has", at |-> q.began]
      BY <1>2 DEF Relisted
    <3>2. catalog[k] \in Entry
      BY DEF PoolTyped
    <3>3. q.began \in 0 .. MaxTime + 1
      BY <1>1, AccountsAssumption
    <3>4. [has |-> live[k] = "has", at |-> q.began] \in Entry
      <4>1. (live[k] = "has") \in BOOLEAN
        OBVIOUS
      <4> HIDE DEF q
      <4> QED BY <3>3, <4>1 DEF Entry
    <3> QED BY <3>1, <3>2, <3>4
  <2>2. catalog' = [k \in Keys |-> catalog'[k]]
    BY <1>2
  <2> QED BY <2>1, <2>2
<1>4. cursors' \in [Priorities -> 0 .. MaxAccounts] /\ OneRequest(r)
  <2> DEFINE eligible == Eligible(q.seen, Candidates(q, live))
  <2>1. CASE eligible = {}
    BY <1>2, <2>1, FinishIsOne DEF PoolTyped
  <2>2. CASE eligible # {}
    <3> DEFINE i == Picked(q.seen, eligible)
    <3>1. ASSUME NEW j \in eligible PROVE j \in Ids /\ q.seen[j] \in File /\ q.seen[j].key # NoKey
      BY <1>1 DEF Eligible, Candidates
    <3>2. MoveCursor(q.seen, eligible) /\ Goes(r, q, q.seen[i].key, q.seen[i].profile)
      BY <1>2, <2>2
    <3>3. eligible \in SUBSET Ids /\ \A j \in eligible : q.seen[j].priority \in Priorities
      BY <3>1 DEF File
    <3> HIDE DEF eligible, q
    <3>4. PoolOk
      BY AccountsAssumption DEF PoolTyped, PoolOk
    <3>5. i \in eligible
      BY <2>2, <3>3, <3>4, PickedIsEligible
    <3>6. q.seen[i].key \in Keys
      BY <3>1, <3>5 DEF File
    <3>7. OneRequest(r)
      BY <1>1, <3>2, <3>6, GoesIsOne
    <3>8. cursors' \in [Priorities -> 0 .. MaxAccounts]
      BY <2>2, <3>2, <3>3, CursorTyped DEF PoolTyped
    <3> QED BY <3>7, <3>8
  <2> QED BY <2>1, <2>2
<1>5. UNCHANGED <<added, now, probes>>
  BY DEF EndListing
<1>6. PoolTyped'
  BY <1>3, <1>4, <1>5 DEF PoolTyped
<1>7. AskedTyped'
  BY <1>4, <1>5, OneRequestTyped DEF AskedTyped, RequestsInv
<1> QED BY <1>6, <1>7

\* Every step of a request keeps the types.
LEMMA RequestStepsTyped ==
  ASSUME PoolTyped, AskedTyped, RequestsInv, RequestSteps
  PROVE  PoolTyped' /\ AskedTyped'
<1> USE DEF accountVars
<1>ok. \A r \in Requests : ReqTyped(req[r])
  BY DEF AskedTyped
<1>pool. ASSUME UNCHANGED accountVars PROVE PoolTyped'
  BY <1>pool DEF PoolTyped
<1>one. ASSUME NEW r \in Requests, OneRequest(r), UNCHANGED accountVars, probes' \in [Keys -> Nat]
        PROVE  PoolTyped' /\ AskedTyped'
  BY <1>one, <1>pool, OneRequestTyped DEF RequestsInv
<1>now. now \in 0 .. MaxTime /\ probes \in [Keys -> Nat]
  BY DEF PoolTyped, AskedTyped
<1>1. ASSUME NEW r \in Requests, NEW bound \in Keys \cup {NoKey}, NEW continues, NEW compacts,
             NEW token, Arrive(r, bound, continues, compacts, token)
      PROVE  PoolTyped' /\ AskedTyped'
  <2> DEFINE q == [NoRequest EXCEPT !.stage = "first", !.bound = bound, !.continues = continues,
                      !.compacts = compacts, !.token = token, !.barred = Unusable(files)]
  <2>1. ReqTyped(q)
    BY DEF NoRequest, ReqTyped, Stages, Answers
  <2>2. Resolve(r, q) /\ UNCHANGED <<accountVars, probes>>
    BY <1>1 DEF Arrive
  <2> HIDE DEF q
  <2>3. OneRequest(r)
    BY <1>now, <2>1, <2>2, ResolveIsOne
  <2> QED BY <1>now, <1>one, <2>2, <2>3
<1>2. ASSUME NEW r \in Requests, Begin(r) \/ ClientGone(r) PROVE PoolTyped' /\ AskedTyped'
  <2>1. PICK a \in Answers : req' = [req EXCEPT ![r] = [req[r] EXCEPT !.answer = a]]
    BY <1>2 DEF Begin, ClientGone, Answers, AskedTyped
  <2>2. ReqTyped([req[r] EXCEPT !.answer = a])
    BY <1>ok DEF ReqTyped
  <2>3. UNCHANGED <<accountVars, anchorVars, probes>>
    BY <1>2 DEF Begin, ClientGone
  <2>4. OneRequest(r)
    BY <2>1, <2>2, <2>3 DEF OneRequest
  <2> QED BY <1>now, <1>one, <2>3, <2>4
<1>3. ASSUME NEW r \in Requests, RunEndsWell(r) PROVE PoolTyped' /\ AskedTyped'
  BY <1>3, <1>now, <1>one, FinishIsOne DEF RunEndsWell
<1>4. ASSUME NEW r \in Requests, NEW error, RunFails(r, error) PROVE PoolTyped' /\ AskedTyped'
  <2>1. UNCHANGED accountVars
    BY <1>4 DEF RunFails
  <2>2. CASE AfterFailure(r, error) /\ UNCHANGED probes
    <3>1. OneRequest(r)
      BY <1>ok, <1>now, <2>2, AfterFailureIsOne
    <3> QED BY <1>now, <1>one, <2>1, <2>2, <3>1
  <2>3. CASE /\ req' = [req EXCEPT ![r].pc = "probing"] /\ UNCHANGED anchorVars
             /\ probes' = IF probes[req[r].first] > 0 THEN probes
                          ELSE [probes EXCEPT ![req[r].first] = @ + 1]
    <3> DEFINE q == [req[r] EXCEPT !.pc = "probing"]
    <3>1. ReqTyped(q) /\ req' = [req EXCEPT ![r] = q]
      BY <1>ok, <2>3 DEF ReqTyped, AskedTyped
    <3> HIDE DEF q
    <3>2. OneRequest(r)
      BY <2>3, <3>1 DEF OneRequest
    <3>3. probes' \in [Keys -> Nat]
      <4>1. PICK k : k = req[r].first
        OBVIOUS
      <4>2. probes' = probes \/ probes' = [probes EXCEPT ![k] = @ + 1]
        BY <2>3, <4>1
      <4> QED BY <1>now, <4>2
    <3> QED BY <1>one, <2>1, <3>2, <3>3
  <2> QED BY <1>4, <2>2, <2>3 DEF RunFails
<1>5. ASSUME NEW k, NEW valid \in BOOLEAN, ProbeEnds(k, valid) PROVE PoolTyped' /\ AskedTyped'
  <2>1. UNCHANGED <<accountVars, anchorVars>> /\ DOMAIN req' = Requests
    BY <1>5 DEF ProbeEnds
  <2>2. ASSUME NEW r \in Requests PROVE ReqTyped(req'[r])
    BY <1>5, <1>ok DEF ProbeEnds, ReqTyped
  <2>3. probes' \in [Keys -> Nat]
    <3>1. probes[k] > 0 /\ probes' = [probes EXCEPT ![k] = @ - 1]
      BY <1>5 DEF ProbeEnds
    <3>2. \A j \in Keys : probes'[j] \in Nat
      BY <1>now, <3>1
    <3> QED BY <1>now, <3>1, <3>2
  <2>4. anchors' \subseteq 1 .. Len(issued')
    BY <2>1 DEF AskedTyped, anchorVars
  <2> QED BY <1>pool, <2>1, <2>2, <2>3, <2>4 DEF AskedTyped
<1>6. ASSUME NEW r \in Requests, AfterProbe(r) PROVE PoolTyped' /\ AskedTyped'
  <2>1. UNCHANGED <<accountVars, probes>>
    BY <1>6 DEF AfterProbe
  <2>2. CASE AfterFailure(r, "stale")
    <3>1. OneRequest(r)
      BY <1>ok, <1>now, <2>2, AfterFailureIsOne
    <3> QED BY <1>now, <1>one, <2>1, <3>1
  <2>3. CASE /\ req[r].pc = "valid"
             /\ Goes(r, [req[r] EXCEPT !.stage = "retry"], req[r].first, req[r].profile)
    <3> DEFINE q == [req[r] EXCEPT !.stage = "retry"]
    <3>1. ReqTyped(q) /\ Goes(r, q, req[r].first, req[r].profile)
      BY <1>ok, <2>3 DEF ReqTyped, Stages
    <3>2. req[r].first \in Keys
      BY <2>3 DEF RequestsInv, RequestInv, Served, HasRun
    <3> HIDE DEF q
    <3>3. OneRequest(r)
      BY <3>1, <3>2, GoesIsOne
    <3> QED BY <1>now, <1>one, <2>1, <3>3
  <2> QED BY <1>6, <2>2, <2>3 DEF AfterProbe
<1> QED BY <1>1, <1>2, <1>3, <1>4, <1>5, <1>6, EndListingTyped DEF RequestSteps

-----------------------------------------------------------------------------
(* The types of the calls to Cursor *)

\* A place without a call has the types of one.
LEMMA NoCallTyped == CallTyped(NoCall)
BY DEF NoCall, CallTyped, Quota, Steps

\* A file that is listed has a key, and an added account takes the next id at most.
LEMMA ListedHasKey == ASSUME FilesTyped, NEW i \in Listed PROVE i \in Ids /\ files[i].key \in Keys
BY DEF FilesTyped, File, Listed

\* The count of the ids stays within the bound.
LEMMA CountedTyped ==
  ASSUME PoolTyped, NEW k, CanAdd(k), Counted(k) PROVE added' \in 0 .. MaxAccounts
BY AccountsAssumption DEF PoolTyped, CanAdd, Counted

\* One call changes, and of the rest only what it may write.
LEMMA CallReplaced ==
  ASSUME WebTyped, NEW c, NEW call, CallTyped(call), web' = [web EXCEPT ![c] = call],
         exchanges' \in [Keys -> Nat], sandCache' \subseteq Keys, stored' \subseteq Keys
  PROVE  WebTyped'
<1>1. DOMAIN web' = Operators
  BY DEF WebTyped
<1>2. ASSUME NEW d \in Operators PROVE CallTyped(web'[d])
  <2>1. web'[d] = call \/ web'[d] = web[d]
    BY DEF WebTyped
  <2> QED BY <2>1 DEF WebTyped
<1> QED BY <1>1, <1>2 DEF WebTyped, CallTyped

\* A call whose quota is known is over.
LEMMA QuotaKnownTypes ==
  ASSUME WebTyped, NEW c, NEW available, QuotaKnown(c, available),
         exchanges' \in [Keys -> Nat], sandCache' \subseteq Keys, stored' \subseteq Keys
  PROVE  WebTyped'
<1>1. web' = [web EXCEPT ![c] = NoCall]
  BY DEF QuotaKnown
<1> QED BY <1>1, NoCallTyped, CallReplaced

\* A call that needs a token waits for an exchange.
LEMMA ExchangeTypes ==
  ASSUME WebTyped, NEW c, NEW call, CallTyped([call EXCEPT !.pc = "exchange"]), Exchange(c, call),
         UNCHANGED <<sandCache, stored>>
  PROVE  WebTyped'
<1>1. exchanges' \in [Keys -> Nat]
  <2>1. PICK k : k = call.key
    OBVIOUS
  <2>2. exchanges' = exchanges \/ exchanges' = [exchanges EXCEPT ![k] = @ + 1]
    BY <2>1 DEF Exchange
  <2> QED BY <2>2 DEF WebTyped
<1>2. web' = [web EXCEPT ![c] = [call EXCEPT !.pc = "exchange"]]
  BY DEF Exchange
<1>3. sandCache' \subseteq Keys /\ stored' \subseteq Keys
  BY DEF WebTyped
<1> QED BY <1>1, <1>2, <1>3, CallReplaced

\* A call goes on with its key to a question, or stores the key and is over.
LEMMA GoesOnToTypes ==
  ASSUME WebTyped, PoolTyped, NEW c \in Operators, NEW k \in Keys,
         NEW step \in {"store"} \cup (Steps \ {"check", "create"}), GoesOnTo(c, k, step),
         web[c].pc \in Steps, UNCHANGED <<cursors, catalog, now, exchanges, sandCache>>
  PROVE  WebTyped' /\ PoolTyped'
<1>1. exchanges' \in [Keys -> Nat] /\ sandCache' \subseteq Keys /\ stored \subseteq Keys
  BY DEF WebTyped
<1>2. CASE step = "store"
  <2>1. Store(c, k)
    BY <1>2 DEF GoesOnTo
  <2>2. web' = [web EXCEPT ![c] = NoCall] /\ stored' = stored \cup {k}
    BY <2>1 DEF Store
  <2>3. added' \in 0 .. MaxAccounts
    BY <2>1, CountedTyped DEF Store
  <2> QED BY <1>1, <2>2, <2>3, NoCallTyped, CallReplaced DEF PoolTyped
<1>3. CASE step # "store"
  <2> DEFINE call == [web[c] EXCEPT !.pc = step, !.key = k]
  <2>1. web' = [web EXCEPT ![c] = call] /\ UNCHANGED <<added, stored>>
    BY <1>3 DEF GoesOnTo, WebTyped
  <2>2. CallTyped(web[c])
    BY DEF WebTyped
  <2>3. CallTyped(call)
    BY <1>3, <2>2 DEF CallTyped, Steps, Quota
  <2> HIDE DEF call
  <2> QED BY <1>1, <2>1, <2>3, CallReplaced DEF PoolTyped
<1> QED BY <1>2, <1>3

\* The steps that follow a step are steps.
LEMMA NextSteps ==
  ASSUME NEW call
  PROVE  /\ AfterKey(call) \subseteq {"store"} \cup (Steps \ {"check", "create"})
         /\ AfterStep(call) \subseteq {"store"} \cup (Steps \ {"check", "create"})
<1>1. /\ AfterConsent(call) \subseteq {"store", "claim"}
      /\ AfterKey(call) \subseteq {"store", "claim", "consent"}
  BY DEF AfterConsent, AfterKey
<1>2. AfterStep(call) \subseteq {"store", "claim", "consent", "grant", "me", "team", "trial", "mark"}
  BY <1>1 DEF AfterStep
<1> QED BY <1>1, <1>2 DEF Steps

\* Every step of a call keeps the types.
LEMMA WebStepsTypes ==
  ASSUME FilesTyped, WebTyped, PoolTyped, WebSteps PROVE WebTyped' /\ PoolTyped'
<1> USE DEF rest, histories
<1>ok. /\ \A c \in Operators : CallTyped(web[c])
       /\ exchanges \in [Keys -> Nat] /\ sandCache \subseteq Keys /\ stored \subseteq Keys
  BY DEF WebTyped
<1>pool. ASSUME UNCHANGED rest PROVE PoolTyped'
  BY <1>pool DEF PoolTyped
<1>1. ASSUME NEW c \in Operators, QuotaAtOnce(c) PROVE WebTyped' /\ PoolTyped'
  <2>1. UNCHANGED <<exchanges, sandCache, stored>> /\ UNCHANGED rest
    BY <1>1 DEF QuotaAtOnce
  <2>2. PICK available : QuotaKnown(c, available)
    BY <1>1 DEF QuotaAtOnce
  <2> QED BY <1>ok, <1>pool, <2>1, <2>2, QuotaKnownTypes
<1>2. ASSUME NEW c \in Operators, TokenRefused(c) PROVE WebTyped' /\ PoolTyped'
  <2>1. UNCHANGED <<sandCache, stored>> /\ UNCHANGED rest
    BY <1>2 DEF TokenRefused
  <2>2. CASE QuotaKnown(c, FALSE) /\ UNCHANGED exchanges
    BY <1>ok, <1>pool, <2>1, <2>2, QuotaKnownTypes
  <2>3. CASE Exchange(c, [web[c] EXCEPT !.again = TRUE])
    <3> DEFINE call == [web[c] EXCEPT !.again = TRUE]
    <3>1. CallTyped(web[c]) /\ web[c].pc \in {"access", "usage"}
      BY <1>2, <1>ok DEF TokenRefused
    <3>2. CallTyped([call EXCEPT !.pc = "exchange"])
      BY <3>1 DEF CallTyped, Quota, Steps
    <3> HIDE DEF call
    <3>3. Exchange(c, call)
      BY <2>3 DEF call
    <3> QED BY <1>pool, <2>1, <3>2, <3>3, ExchangeTypes
  <2> QED BY <1>2, <2>2, <2>3 DEF TokenRefused
<1>3. ASSUME NEW c \in Operators, NEW b \in BOOLEAN, AccessKnown(c, b)
      PROVE  WebTyped' /\ PoolTyped'
  <2>1. UNCHANGED <<exchanges, stored>> /\ UNCHANGED rest
    BY <1>3 DEF AccessKnown
  <2>2. CASE b
    <3> DEFINE call == [web[c] EXCEPT !.pc = "usage", !.then = "usage", !.again = FALSE]
    <3>1. CallTyped(web[c]) /\ web[c].pc = "access"
      BY <1>3, <1>ok DEF AccessKnown
    <3>2. CallTyped(call)
      BY <3>1 DEF CallTyped, Quota, Steps
    <3>3. web' = [web EXCEPT ![c] = call] /\ UNCHANGED sandCache
      BY <1>3, <2>2 DEF AccessKnown, WebTyped
    <3> HIDE DEF call
    <3> QED BY <1>ok, <1>pool, <2>1, <3>2, <3>3, CallReplaced
  <2>3. CASE ~b
    <3>1. QuotaKnown(c, FALSE) /\ sandCache' \subseteq sandCache
      BY <1>3, <2>3 DEF AccessKnown
    <3> QED BY <1>ok, <1>pool, <2>1, <3>1, QuotaKnownTypes
  <2> QED BY <2>2, <2>3
<1>4. ASSUME NEW c \in Operators, NEW b \in BOOLEAN, UsageKnown(c, b)
      PROVE  WebTyped' /\ PoolTyped'
  <2>1. UNCHANGED <<exchanges, stored>> /\ UNCHANGED rest /\ QuotaKnown(c, b)
    BY <1>4 DEF UsageKnown
  <2>2. web[c].key \in Keys
    BY <1>4, <1>ok DEF UsageKnown, CallTyped
  <2>3. sandCache' \subseteq Keys
    BY <1>4, <1>ok, <2>2 DEF UsageKnown
  <2> QED BY <1>ok, <1>pool, <2>1, <2>3, QuotaKnownTypes
<1>5. ASSUME NEW c \in Operators, OnboardingAllowed(c) PROVE WebTyped' /\ PoolTyped'
  <2> DEFINE call == [web[c] EXCEPT !.pc = "create"]
  <2>1. CallTyped(call)
    BY <1>ok DEF CallTyped, Quota, Steps
  <2>2. web' = [web EXCEPT ![c] = call] /\ UNCHANGED <<exchanges, sandCache, stored>> /\ UNCHANGED rest
    BY <1>5 DEF OnboardingAllowed, WebTyped
  <2> HIDE DEF call
  <2> QED BY <1>ok, <1>pool, <2>1, <2>2, CallReplaced
<1>6. ASSUME NEW c \in Operators, StepOver(c) PROVE WebTyped' /\ PoolTyped'
  <2>1. PICK step \in AfterStep(web[c]) : GoesOnTo(c, web[c].key, step)
    BY <1>6 DEF StepOver
  <2>2. /\ web[c].pc \in Steps /\ web[c].key \in Keys
        /\ UNCHANGED <<cursors, catalog, now, exchanges, sandCache>>
    BY <1>6, <1>ok DEF StepOver, CallTyped
  <2>3. step \in {"store"} \cup (Steps \ {"check", "create"})
    BY <2>1, NextSteps
  <2> QED BY <2>1, <2>2, <2>3, GoesOnToTypes
<1>7. ASSUME NEW c \in Operators, OnboardingFails(c) \/ BodyCut(c) PROVE WebTyped' /\ PoolTyped'
  <2>1. web' = [web EXCEPT ![c] = NoCall] /\ UNCHANGED <<exchanges, sandCache, stored>> /\ UNCHANGED rest
    BY <1>7 DEF OnboardingFails, BodyCut
  <2> QED BY <1>ok, <1>pool, <2>1, NoCallTyped, CallReplaced
<1>8. ASSUME NEW c \in Operators, NEW k \in Keys, KeyMade(c, k) PROVE WebTyped' /\ PoolTyped'
  <2>1. PICK step \in AfterKey(web[c]) : GoesOnTo(c, k, step)
    BY <1>8 DEF KeyMade
  <2>2. web[c].pc \in Steps /\ UNCHANGED <<cursors, catalog, now, exchanges, sandCache>>
    BY <1>8 DEF KeyMade, Steps
  <2>3. step \in {"store"} \cup (Steps \ {"check", "create"})
    BY <2>1, NextSteps
  <2> QED BY <2>1, <2>2, <2>3, GoesOnToTypes
<1>9. ASSUME NEW k \in Keys, NEW fine \in BOOLEAN, Exchanged(k, fine) PROVE WebTyped' /\ PoolTyped'
  <2>1. UNCHANGED <<sandCache, stored>> /\ UNCHANGED rest /\ DOMAIN web' = Operators
    BY <1>9 DEF Exchanged
  <2>2. exchanges' \in [Keys -> Nat]
    <3>1. exchanges[k] > 0 /\ exchanges' = [exchanges EXCEPT ![k] = @ - 1]
      BY <1>9 DEF Exchanged
    <3>2. \A j \in Keys : exchanges'[j] \in Nat
      BY <1>ok, <3>1
    <3> QED BY <1>ok, <3>1, <3>2
  <2>3. ASSUME NEW c \in Operators PROVE CallTyped(web'[c])
    <3>1. CASE web[c].pc = "exchange" /\ web[c].key = k
      <4>1. PICK pc \in {web[c].then, "failed"} : web'[c] = [web[c] EXCEPT !.pc = pc]
        BY <1>9, <3>1 DEF Exchanged
      <4>2. CallTyped(web[c]) /\ web[c].then \in {"access", "usage"}
        BY <1>ok, <3>1 DEF CallTyped
      <4> QED BY <3>1, <4>1, <4>2 DEF CallTyped, Quota, Steps
    <3>2. CASE ~(web[c].pc = "exchange" /\ web[c].key = k)
      <4>1. web'[c] = web[c]
        BY <1>9, <3>2 DEF Exchanged
      <4> QED BY <1>ok, <4>1
    <3> QED BY <3>1, <3>2
  <2>4. WebTyped'
    BY <1>ok, <2>1, <2>2, <2>3 DEF WebTyped, CallTyped
  <2> QED BY <1>pool, <2>1, <2>4
<1>10. ASSUME NEW k, ForgetGrant(k) PROVE WebTyped' /\ PoolTyped'
  <2>1. UNCHANGED <<web, exchanges, stored>> /\ UNCHANGED rest /\ sandCache' \subseteq sandCache
    BY <1>10 DEF ForgetGrant
  <2> QED BY <1>pool, <2>1 DEF WebTyped, CallTyped
<1> QED BY <1>1, <1>2, <1>3, <1>4, <1>5, <1>6, <1>7, <1>8, <1>9, <1>10 DEF WebSteps

-----------------------------------------------------------------------------
(* The size of the rings *)

\* What is left of a buffer fits.
LEMMA TrimmedFits ==
  ASSUME NEW buf \in Seq(Nat), NEW n \in Nat PROVE Len(LastOf(buf, n)) <= n
<1>1. CASE Len(buf) <= n
  BY <1>1 DEF LastOf
<1>2. CASE ~(Len(buf) <= n)
  <2> DEFINE first == Len(buf) - n + 1
  <2>1. /\ Len(buf) \in Nat /\ first \in Int /\ first >= 2 /\ first <= Len(buf) + 1
        /\ LastOf(buf, n) = SubSeq(buf, first, Len(buf))
        /\ \A i \in first .. Len(buf) : buf[i] \in Nat
    BY <1>2 DEF LastOf
  <2>2. Len(SubSeq(buf, first, Len(buf))) = IF first <= Len(buf) THEN Len(buf) - first + 1 ELSE 0
    <3> HIDE DEF first
    <3> QED BY <2>1, SubSeqProperties
  <2>3. (IF first <= Len(buf) THEN Len(buf) - first + 1 ELSE 0) = n
    BY <2>1
  <2> QED BY <2>1, <2>2, <2>3
<1> QED BY <1>1, <1>2

\* A process starts with a capacity that is one of the steps.
LEMMA LargestIsStep == (CHOOSE c \in CapacitySteps : \A d \in CapacitySteps : d <= c) \in CapacitySteps
BY RingsAssumption

\* Whatever is pushed and however it is resized, a ring stays within its capacity.
LEMMA RingStepFits == ASSUME RingsInv, RingsSized, RingStep PROVE RingsSized'
<1>1. CASE \/ UNCHANGED ringVars
           \/ \E v \in Viewers : CloseStream(v) \/ \E n \in RingNames : OpenStream(v, n)
  <2>1. UNCHANGED <<rings, capacity>>
    BY <1>1 DEF ringVars, CloseStream, OpenStream
  <2> QED BY <2>1 DEF RingsSized
<1>2. ASSUME NEW names \in SUBSET RingNames, Push(names) PROVE RingsSized'
  <2>1. capacity' = capacity /\ capacity \in CapacitySteps /\ capacity \in Nat
    BY <1>2 DEF Push, RingsSized, RingsInv
  <2>2. ASSUME NEW n \in RingNames PROVE Len(rings'[n].buf) <= capacity
    <3> DEFINE longer == Append(rings[n].buf, Latest(n) + 1)
    <3>1. CASE n \notin names
      BY <1>2, <3>1 DEF Push, RingsSized
    <3>2. CASE n \in names
      <4>1. rings'[n].buf = LastOf(longer, capacity)
        BY <1>2, <3>2 DEF Push
      <4>2. longer \in Seq(Nat)
        <5>1. rings[n].buf \in Seq(Nat) /\ Latest(n) + 1 \in Nat
          BY DEF RingsInv, Latest
        <5> QED BY <5>1, AppendProperties
      <4> HIDE DEF longer
      <4> QED BY <2>1, <4>1, <4>2, TrimmedFits
    <3> QED BY <3>1, <3>2
  <2> QED BY <2>1, <2>2 DEF RingsSized
<1>3. ASSUME NEW size \in CapacitySteps, SetCapacity(size) PROVE RingsSized'
  <2>1. size \in Nat /\ capacity' = size
    BY <1>3, RingsAssumption DEF SetCapacity
  <2>2. ASSUME NEW n \in RingNames PROVE Len(rings'[n].buf) <= size
    <3>1. rings[n].buf \in Seq(Nat)
      BY DEF RingsInv
    <3>2. rings'[n] = [rings[n] EXCEPT !.buf = LastOf(@, size)]
      BY <1>3 DEF SetCapacity
    <3> QED BY <2>1, <3>1, <3>2, TrimmedFits
  <2> QED BY <2>1, <2>2 DEF RingsSized
<1>4. CASE RingsRestart
  <2>1. capacity' \in CapacitySteps /\ \A n \in RingNames : rings'[n].buf = <<>>
    BY <1>4, LargestIsStep DEF RingsRestart
  <2>2. capacity' \in Nat
    BY <2>1, RingsAssumption
  <2> QED BY <2>1, <2>2 DEF RingsSized
<1> QED BY <1>1, <1>2, <1>3, <1>4 DEF RingStep

-----------------------------------------------------------------------------
(* The types of the settings *)

\* What is read from a file or the environment is moved into the range.
LEMMA ClampedInRange == ASSUME NEW s \in AllFields PROVE Clamped(s) \in [Fields -> InRange]
<1>1. ASSUME NEW f \in Fields
      PROVE  (IF s[f] < Lowest THEN Lowest ELSE IF s[f] > Highest THEN Highest ELSE s[f]) \in InRange
  <2>1. s[f] \in 0 .. Highest + 1
    BY DEF AllFields, Values
  <2> QED BY <2>1, RangeAssumption DEF InRange
<1> QED BY <1>1 DEF Clamped

\* Settings in range can be stored.
LEMMA InRangeAreFields == [Fields -> InRange] \subseteq AllFields
<1>1. InRange \subseteq Values
  BY RangeAssumption DEF InRange, Values
<1> QED BY <1>1 DEF AllFields

\* A process starts with settings in range, or does not start.
LEMMA StartSettingsTyped ==
  ASSUME SettingsTypeOK, NEW env \in AllFields, StartSettings(env) PROVE SettingsTypeOK'
<1>1. CASE configFile = Corrupt
  BY <1>1 DEF StartSettings, SettingsTypeOK
<1>2. CASE configFile # Corrupt
  <2>1. Loaded(env) \in [Fields -> InRange]
    BY <1>2, ClampedInRange DEF Loaded, SettingsTypeOK
  <2>2. settings' = Loaded(env) /\ (configFile' = Loaded(env) \/ configFile' = configFile)
    BY <1>2 DEF StartSettings
  <2> QED BY <2>1, <2>2, InRangeAreFields DEF SettingsTypeOK
<1> QED BY <1>1, <1>2

\* A patch is taken as a whole or not at all.
LEMMA UpdateSettingsTyped ==
  ASSUME SettingsTypeOK, NEW patch, UpdateSettings(patch) PROVE SettingsTypeOK'
<1>1. CASE ~Valid(patch)
  BY <1>1 DEF UpdateSettings, SettingsTypeOK, settingsVars
<1>2. CASE Valid(patch)
  <2> DEFINE next == [f \in Fields |-> IF f \in DOMAIN patch THEN patch[f] ELSE settings[f]]
  <2>1. settings \in [Fields -> InRange]
    BY DEF UpdateSettings, SettingsTypeOK
  <2>2. next \in [Fields -> InRange]
    BY <1>2, <2>1 DEF Valid
  <2>3. settings' = next /\ (configFile' = next \/ configFile' = configFile)
    BY <1>2 DEF UpdateSettings
  <2> HIDE DEF next
  <2> QED BY <2>2, <2>3, InRangeAreFields DEF SettingsTypeOK
<1> QED BY <1>1, <1>2

-----------------------------------------------------------------------------
(* All types *)

\* An act takes one from the budget.
LEMMA ActTyped == ASSUME left \in [Kinds -> Nat], NEW kind, Act(kind) PROVE left' \in [Kinds -> Nat]
<1>1. left[kind] > 0 /\ left' = [left EXCEPT ![kind] = @ - 1]
  BY DEF Act
<1>2. \A j \in Kinds : left'[j] \in Nat
  BY <1>1
<1> QED BY <1>1, <1>2

\* What requests forget about accounts changes no type.
LEMMA SeenTyped ==
  ASSUME AskedTyped, SeenByRequests, UNCHANGED <<probes, anchorVars>> PROVE AskedTyped'
<1>1. DOMAIN req' = Requests /\ \A r \in Requests : ReqTyped(req'[r])
  BY DEF AskedTyped, SeenByRequests, ReqTyped
<1> QED BY <1>1 DEF AskedTyped, anchorVars

\* A step of the request budget.
LEMMA RequestStepsBudget ==
  ASSUME left \in [Kinds -> Nat], RequestSteps PROVE left' \in [Kinds -> Nat]
<1>1. ASSUME NEW r, NEW bound, NEW continues, NEW compacts, NEW token,
             Arrive(r, bound, continues, compacts, token)
      PROVE  left' \in [Kinds -> Nat]
  BY <1>1, ActTyped DEF Arrive
<1>2. ASSUME NEW r, \/ EndListing(r) \/ Begin(r) \/ ClientGone(r) \/ RunEndsWell(r) \/ AfterProbe(r)
                    \/ \E error : RunFails(r, error)
      PROVE  UNCHANGED left
  BY <1>2 DEF EndListing, Begin, ClientGone, RunEndsWell, AfterProbe, RunFails
<1>3. ASSUME NEW k, NEW valid, ProbeEnds(k, valid) PROVE UNCHANGED left
  BY <1>3 DEF ProbeEnds
<1> QED BY <1>1, <1>2, <1>3 DEF RequestSteps

\* A call that begins has the types of one.
LEMMA AskCursorTyped ==
  ASSUME FilesTyped, WebTyped, NEW c \in Operators, AskCursor(c) PROVE WebTyped'
<1>ok. exchanges \in [Keys -> Nat] /\ sandCache \subseteq Keys /\ stored \subseteq Keys
  BY DEF WebTyped
<1>1. ASSUME NEW op \in {"profile", "verify"}, NEW i \in Ids, NEW profile,
             BeginQuota(c, op, i, profile)
      PROVE  WebTyped'
  <2> DEFINE call == [NoCall EXCEPT !.op = op, !.id = i, !.key = files[i].key, !.then = "access",
                                    !.profile = profile]
  <2>1. files[i].key \in Keys
    BY <1>1, ListedHasKey DEF BeginQuota
  <2>2. CallTyped([call EXCEPT !.pc = "cached"]) /\ CallTyped([call EXCEPT !.pc = "exchange"])
    BY <2>1 DEF NoCall, CallTyped, Quota, Steps
  <2>3. UNCHANGED <<sandCache, stored>>
    BY <1>1 DEF BeginQuota, histories
  <2>4. \/ Exchange(c, call)
        \/ web' = [web EXCEPT ![c] = [call EXCEPT !.pc = "cached"]] /\ UNCHANGED exchanges
    BY <1>1 DEF BeginQuota
  <2> HIDE DEF call
  <2> QED BY <1>ok, <2>2, <2>3, <2>4, ExchangeTypes, CallReplaced
<1>2. ASSUME NEW wants, BeginOnboarding(c, wants) PROVE WebTyped'
  <2> DEFINE call == [NoCall EXCEPT !.pc = "check", !.op = "onboard", !.wants = wants]
  <2>1. CallTyped(call)
    BY DEF NoCall, CallTyped, Quota, Steps
  <2>2. web' = [web EXCEPT ![c] = call] /\ UNCHANGED <<exchanges, sandCache, stored>>
    BY <1>2 DEF BeginOnboarding, histories
  <2> HIDE DEF call
  <2> QED BY <1>ok, <2>1, <2>2, CallReplaced
<1> QED BY <1>1, <1>2 DEF AskCursor

\* What an operator adds, and the seed of a process that starts, get an id.
LEMMA RestartTyped ==
  ASSUME PoolTyped, AskedTyped, WebTyped, SettingsTypeOK, BudgetTyped, RequestsInv,
         NEW env \in AllFields, Restart(env)
  PROVE  PoolTyped' /\ AskedTyped' /\ WebTyped' /\ SettingsTypeOK' /\ BudgetTyped'
<1>1. added' \in 0 .. MaxAccounts /\ stored' \subseteq Keys
  <2>1. CASE Seed = NoKey
    BY <2>1 DEF Restart, PoolTyped, WebTyped
  <2>2. CASE Seed # NoKey
    <3>1. CanAdd(Seed) /\ Counted(Seed) /\ stored' = stored \cup {Seed} /\ Seed \in Keys
      BY <2>2, GatewayAssumption DEF Restart
    <3> QED BY <3>1, CountedTyped DEF WebTyped
  <2> QED BY <2>1, <2>2
<1>2. PoolTyped'
  <2>1. /\ cursors' = [p \in Priorities |-> 0] /\ catalog' = [k \in Keys |-> NeverListed]
        /\ UNCHANGED now
    BY DEF Restart
  <2>2. NeverListed \in Entry /\ 0 \in 0 .. MaxAccounts
    BY AccountsAssumption DEF NeverListed, Entry
  <2> QED BY <1>1, <2>1, <2>2 DEF PoolTyped
<1>3. AskedTyped'
  <2>1. /\ req' = [r \in Requests |-> NoRequest] /\ probes' = [k \in Keys |-> 0]
        /\ UNCHANGED anchorVars
    BY DEF Restart
  <2> QED BY <2>1, NoRequestTyped DEF AskedTyped, anchorVars, ReqTyped
<1>4. WebTyped'
  <2>1. /\ web' = [c \in Operators |-> NoCall] /\ exchanges' = [k \in Keys |-> 0]
        /\ sandCache' = {}
    BY DEF Restart
  <2> QED BY <1>1, <2>1, NoCallTyped DEF WebTyped, CallTyped
<1>5. SettingsTypeOK'
  BY StartSettingsTyped DEF Restart
<1>6. BudgetTyped'
  BY ActTyped DEF Restart, BudgetTyped
<1> QED BY <1>2, <1>3, <1>4, <1>5, <1>6

\* What a hand edit gives is a value for each setting.
LEMMA UniformAreFields == Uniform \subseteq AllFields
BY DEF Uniform, AllFields

\* The types are inductive.
LEMMA NextRest ==
  ASSUME FilesTyped, RingsInv, FailoverInv, RestTyped, [Next]_vars PROVE RestTyped'
<1> USE DEF RestTyped
<1>rings. RingsSized'
  BY NextIsRingStep, RingStepFits
<1>left. left \in [Kinds -> Nat]
  BY DEF BudgetTyped
<1>pool. ASSUME UNCHANGED accountVars PROVE PoolTyped'
  BY <1>pool DEF PoolTyped, accountVars
<1>asked. ASSUME UNCHANGED requestVars PROVE AskedTyped'
  BY <1>asked DEF AskedTyped, requestVars, anchorVars, ReqTyped
<1>web. ASSUME UNCHANGED webVars PROVE WebTyped'
  BY <1>web DEF WebTyped, webVars, CallTyped
<1>set. ASSUME UNCHANGED settingsVars PROVE SettingsTypeOK'
  BY <1>set DEF SettingsTypeOK, settingsVars
<1>bud. ASSUME UNCHANGED tokens, UNCHANGED left \/ \E kind : Act(kind) PROVE BudgetTyped'
  BY <1>bud, ActTyped DEF BudgetTyped
<1>1. CASE RequestSteps /\ UNCHANGED <<webVars, settingsVars, tokens>>
  <2>1. PoolTyped' /\ AskedTyped'
    BY <1>1, RequestStepsTyped DEF FailoverInv
  <2>2. BudgetTyped'
    BY <1>1, <1>left, RequestStepsBudget DEF BudgetTyped
  <2> QED BY <1>1, <1>rings, <1>web, <1>set, <2>1, <2>2
<1>2. CASE WebSteps /\ SeenByRequests /\ UNCHANGED <<probes, anchorVars, settingsVars, tokens, left>>
  <2>1. WebTyped' /\ PoolTyped'
    BY <1>2, WebStepsTypes
  <2>2. AskedTyped'
    BY <1>2, SeenTyped
  <2> QED BY <1>2, <1>rings, <1>set, <1>bud, <2>1, <2>2
<1>3. ASSUME NEW t \in Tokens, Login(t) \/ LogsOut(t) PROVE RestTyped'
  <2>1. /\ UNCHANGED <<accountVars, requestVars, webVars, settingsVars, left>>
        /\ tokens' \subseteq Tokens
    BY <1>3 DEF Login, LogsOut, SetTokens, BudgetTyped
  <2> QED BY <1>rings, <1>pool, <1>asked, <1>web, <1>set, <2>1 DEF BudgetTyped
<1>edit. ASSUME UnchangedByEdits, SeenByRequests, Act("edit"), added' \in 0 .. MaxAccounts,
                stored' \subseteq Keys
         PROVE  RestTyped'
  <2>1. /\ UNCHANGED <<cursors, catalog, now, probes, anchorVars, settingsVars, tokens>>
        /\ UNCHANGED <<web, exchanges, sandCache>>
    BY <1>edit DEF UnchangedByEdits, others
  <2>2. PoolTyped' /\ WebTyped'
    BY <1>edit, <2>1 DEF PoolTyped, WebTyped, CallTyped
  <2>3. AskedTyped'
    BY <1>edit, <2>1, SeenTyped
  <2> QED BY <1>edit, <1>rings, <1>set, <1>bud, <2>1, <2>2, <2>3
<1>4. ASSUME NEW is, NEW changed, Change(is, changed) PROVE RestTyped'
  <2>1. /\ UnchangedByEdits /\ SeenByRequests /\ Act("edit") /\ UNCHANGED <<added, stored>>
    BY <1>4 DEF Change, Says, Call
  <2> QED BY <1>edit, <2>1 DEF PoolTyped, WebTyped
<1>5. ASSUME NEW k \in Keys, AddAccount(k) PROVE RestTyped'
  <2>1. /\ UnchangedByEdits /\ SeenByRequests /\ Act("edit") /\ CanAdd(k) /\ Counted(k)
        /\ stored' = stored \cup {k}
    BY <1>5 DEF AddAccount, Says, Call
  <2>2. added' \in 0 .. MaxAccounts
    BY <2>1, CountedTyped
  <2> QED BY <1>edit, <2>1, <2>2 DEF WebTyped
<1>6. ASSUME NEW c \in Operators, AskCursor(c) PROVE RestTyped'
  <2>1. UNCHANGED <<requestVars, settingsVars, tokens>> /\ Act("web")
    BY <1>6 DEF AskCursor, Call
  <2>2. PoolTyped'
    <3>1. UNCHANGED <<added, cursors, catalog, now>>
      BY <1>6 DEF AskCursor, BeginQuota, BeginOnboarding, rest
    <3> QED BY <3>1 DEF PoolTyped
  <2> QED BY <1>6, <1>rings, <1>asked, <1>set, <1>bud, <2>1, <2>2, AskCursorTyped
<1>7. ASSUME NEW patch, PutSettings(patch) PROVE RestTyped'
  <2>1. UNCHANGED <<accountVars, requestVars, webVars, tokens>> /\ Act("settings")
    BY <1>7 DEF PutSettings, Call
  <2>2. SettingsTypeOK'
    BY <1>7, UpdateSettingsTyped DEF PutSettings
  <2> QED BY <1>rings, <1>pool, <1>asked, <1>web, <1>bud, <2>1, <2>2
<1>8. ASSUME NEW v, FollowRing \/ LeaveRing(v) PROVE RestTyped'
  <2>1. /\ UNCHANGED <<accountVars, requestVars, webVars, settingsVars, tokens>>
        /\ UNCHANGED left \/ Act("ring")
    BY <1>8 DEF FollowRing, LeaveRing, Call
  <2> QED BY <1>rings, <1>pool, <1>asked, <1>web, <1>set, <1>bud, <2>1
<1>9. CASE Tick
  <2>1. /\ UNCHANGED <<added, cursors, catalog, requestVars, webVars, settingsVars, tokens>>
        /\ now < MaxTime /\ now' = now + 1 /\ Act("tick")
    BY <1>9 DEF Tick
  <2>2. PoolTyped'
    BY <2>1, AccountsAssumption DEF PoolTyped
  <2> QED BY <1>rings, <1>asked, <1>web, <1>set, <1>bud, <2>1, <2>2
<1>10. CASE AnchorsGo
  <2>1. /\ UNCHANGED <<accountVars, req, probes, webVars, settingsVars, tokens, issued>>
        /\ anchors' \subseteq anchors /\ (UNCHANGED left \/ Act("tick"))
    BY <1>10 DEF AnchorsGo, SweepAnchors, LoseAnchor
  <2>2. AskedTyped'
    BY <2>1 DEF AskedTyped, ReqTyped
  <2> QED BY <1>rings, <1>pool, <1>web, <1>set, <1>bud, <2>1, <2>2
<1>11. ASSUME NEW content \in Uniform \cup {NoConfig, Corrupt}, EditConfig(content) PROVE RestTyped'
  <2>1. /\ UNCHANGED <<accountVars, requestVars, webVars, tokens, settings>>
        /\ configFile' = content /\ Act("settings")
    BY <1>11 DEF EditConfig, EditConfigFile
  <2>2. SettingsTypeOK'
    BY <2>1, UniformAreFields DEF SettingsTypeOK
  <2> QED BY <1>rings, <1>pool, <1>asked, <1>web, <1>bud, <2>1, <2>2
<1>12. ASSUME NEW env \in Uniform, Restart(env) PROVE RestTyped'
  <2>1. PoolTyped' /\ AskedTyped' /\ WebTyped' /\ SettingsTypeOK' /\ BudgetTyped'
    BY <1>12, RestartTyped, UniformAreFields DEF FailoverInv
  <2> QED BY <1>rings, <2>1
<1>13. CASE UNCHANGED vars
  BY <1>13, <1>rings, <1>pool, <1>asked, <1>web, <1>set, <1>bud DEF vars, accountVars, requestVars
<1>14. ASSUME NEW is, EditAccounts(is) PROVE RestTyped'
  BY <1>14, <1>4 DEF EditAccounts
<1>15. ASSUME NEW i, NEW proxy, EditProxy(i, proxy) PROVE RestTyped'
  BY <1>15, <1>4 DEF EditProxy
<1> QED
  <2> HIDE DEF RestTyped
  <2> QED BY <1>1, <1>2, <1>3, <1>5, <1>6, <1>7, <1>8, <1>9, <1>10, <1>11, <1>12, <1>13, <1>14,
             <1>15 DEF Next

\* They hold of the initial state: what was on file got an id each.
LEMMA InitRest == Init => RestTyped
<1> SUFFICES ASSUME Init PROVE RestTyped
  OBVIOUS
<1>1. PICK found \in OnFile : added = Len(Seeded(found))
  BY DEF Init
<1>2. added \in 0 .. MaxAccounts
  <2>1. found \in Seq(Keys)
    BY GatewayAssumption
  <2>2. Seeded(found) \in Seq(Keys)
    BY <2>1, GatewayAssumption DEF Seeded
  <2>3. Len(Seeded(found)) \in Nat /\ Len(Seeded(found)) <= MaxAccounts
    BY <2>2, BoundsAssumption
  <2> QED BY <1>1, <2>3, AccountsAssumption
<1>3. PoolTyped
  <2>1. cursors = [p \in Priorities |-> 0] /\ catalog = [k \in Keys |-> NeverListed] /\ now = 0
    BY DEF Init
  <2>2. NeverListed \in Entry /\ 0 \in 0 .. MaxAccounts /\ 0 \in 0 .. MaxTime
    BY AccountsAssumption DEF NeverListed, Entry
  <2> QED BY <1>2, <2>1, <2>2 DEF PoolTyped
<1>4. AskedTyped
  BY NoRequestTyped DEF Init, FailoverInit, AnchorsInit, AskedTyped
<1>5. WebTyped
  <2>1. stored \subseteq Keys
    BY InitTyped, ListedHasKey DEF Init, WebInit
  <2> QED BY <2>1, NoCallTyped DEF Init, WebInit, WebTyped
<1>6. RingsSized
  <2>1. capacity \in CapacitySteps /\ \A n \in RingNames : rings[n].buf = <<>>
    BY LargestIsStep DEF Init, RingsInit
  <2>2. capacity \in Nat
    BY <2>1, RingsAssumption
  <2> QED BY <2>1, <2>2 DEF RingsSized
<1>7. SettingsTypeOK
  <2>1. settings \in [Fields -> InRange] /\ configFile = settings
    BY RangeAssumption DEF Init, SettingsInit, InRange
  <2> QED BY <2>1, InRangeAreFields DEF SettingsTypeOK
<1>8. BudgetTyped
  BY BoundsAssumption DEF Init, FailoverInit, BudgetTyped
<1> QED BY <1>3, <1>4, <1>5, <1>6, <1>7, <1>8 DEF RestTyped

\* The gateway keeps its types: no cursor, id, capacity, setting, token or budget leaves
\* its range, whatever is read from a damaged file (file-store.ts, settings/validate.ts).
THEOREM GatewayTypes == Spec => []TypeOK
<1>1. Init => FilesTyped /\ KeysInv /\ RingsInv /\ FailoverInv /\ RestTyped
  <2>1. Init => KeysInv
    BY NoCallIsOk DEF Init, WebInit, KeysInv, SoftFailuresKeepTheKey
  <2>2. Init => RingsInv
    BY RingsStart DEF Init
  <2> QED BY <2>1, <2>2, InitTyped, InitRequests, InitRest
<1>2. /\ FilesTyped /\ KeysInv /\ RingsInv /\ FailoverInv /\ RestTyped /\ [Next]_vars
      => (FilesTyped /\ KeysInv /\ RingsInv /\ FailoverInv /\ RestTyped)'
  BY NextTyped, NextKeepsKeys, NextIsRingStep, RingStepKeeps, NextKeepsRequests, NextRest
<1>3. FilesTyped /\ KeysInv /\ RingsInv /\ FailoverInv /\ RestTyped => TypeOK
  BY RestGivesTypes
<1> QED BY <1>1, <1>2, <1>3, PTL DEF Spec
=============================================================================
