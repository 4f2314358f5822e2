---------------------------- MODULE Results_proofs ----------------------------
(***************************************************************************)
(* The same results never make two runs go at a time: the live session,    *)
(* the stored session and the transcript are alternatives.  The invariant  *)
(* says what each of the three knows of the other two.                     *)
(***************************************************************************)
EXTENDS Recovery_proofs

-----------------------------------------------------------------------------
(* The session that asked for a batch                                         *)

HomeOf(b) == obj[AskedBy(b)].id

LEMMA HomeOfBatch ==
  ASSUME Base, NEW b, NEW i, BatchIn(b, i)
  PROVE  AskedBy(b) \in Objects /\ Exists(AskedBy(b)) /\ HomeOf(b) = i /\ i \in Ids /\ Exists(i)
<1>1. PICK o \in Objects : Exists(o) /\ obj[o].id = i /\ AskedFor(o, b)
  BY DEF BatchIn
<1>2. AskedBy(b) = o
  BY <1>1, AskerOfBatch DEF AskedFor
<1> QED BY <1>1, <1>2 DEF HomeOf, Base, SessionsInv

\* A batch that an object waits for belongs to the agent of that object.
LEMMA HomeOfPending ==
  ASSUME BatchesInv, NEW o \in Objects, NEW b \in obj[o].pending
  PROVE  HomeOf(b) = obj[o].id
<1>1. AskedFor(o, b)
  BY DEF BatchesInv
<1>2. AskedBy(b) = o
  BY <1>1, AskerOfBatch DEF AskedFor
<1> QED BY <1>2 DEF HomeOf

LEMMA ShownFacts ==
  ASSUME Base, NEW b, Shown(b)
  PROVE  /\ AskedBy(b) \in Objects /\ Exists(AskedBy(b)) /\ HomeOf(b) \in Ids /\ Exists(HomeOf(b))
         /\ BatchIn(b, HomeOf(b))
         /\ \E n \in 1 .. MaxRounds : b = BatchOf(AskedBy(b), n) /\ n <= ShownRounds(AskedBy(b))
<1>1. PICK o \in Objects, n \in 1 .. MaxRounds :
        b = BatchOf(o, n) /\ n <= obj[o].rounds /\ ~(n = obj[o].rounds /\ Unshown(o))
  BY DEF Shown
<1>2. obj[o].rounds \in Nat /\ n \in Nat /\ 1 <= n
  BY RoundsFacts, NoneFacts
<1>3. Exists(o)
  BY <1>1, <1>2 DEF Base, SessionsInv, NoObject
<1>4. AskedBy(b) = o /\ AskedFor(o, b)
  BY <1>1, AskerOfBatch DEF AskedFor
<1>5. n <= ShownRounds(o)
  BY <1>1, <1>2 DEF ShownRounds
<1>6. BatchIn(b, obj[o].id)
  BY <1>3, <1>4 DEF BatchIn
<1> QED BY <1>1, <1>3, <1>4, <1>5, <1>6, HomeOfBatch DEF HomeOf

\* What was shown stays shown.
ShownGrows == \A p \in Objects : ShownRounds(p)' >= ShownRounds(p)

LEMMA ShownKept ==
  ASSUME Base, Base', KeepsIds, ShownGrows, NEW b, Shown(b)
  PROVE  Shown(b)' /\ HomeOf(b)' = HomeOf(b)
<1>1. PICK o \in Objects : o = AskedBy(b) /\ Exists(o)
  BY ShownFacts
<1>2. PICK n \in 1 .. MaxRounds : b = BatchOf(o, n) /\ n <= ShownRounds(o)
  BY <1>1, ShownFacts
<1>3. /\ obj'[o].rounds \in Nat /\ n \in Nat
      /\ ShownRounds(o) \in Int /\ ShownRounds(o)' \in Int
  BY NoneFacts DEF Base, Typed, ObjectsTyped, Object, ShownRounds
<1>4. n <= ShownRounds(o)'
  BY <1>2, <1>3 DEF ShownGrows
<1>5. n <= obj'[o].rounds /\ ~(n = obj'[o].rounds /\ Unshown(o)')
  BY <1>3, <1>4 DEF ShownRounds
<1>6. Shown(b)'
  BY <1>2, <1>5 DEF Shown, BatchOf
<1>7. HomeOf(b)' = HomeOf(b)
  BY <1>1 DEF HomeOf, KeepsIds, AskedBy
<1> QED BY <1>6, <1>7

LEMMA NothingGrows ==
  ASSUME Base, NothingShown PROVE ShownGrows
<1>1. \A p \in Objects : ShownRounds(p) \in Int
  BY NoneFacts DEF Base, Typed, ObjectsTyped, Object, ShownRounds
<1> QED BY <1>1 DEF NothingShown, ShownGrows

\* A batch that is about to be shown was not shown.
LEMMA UnshownBatch ==
  ASSUME Base, NEW o \in Objects, Unshown(o), obj[o].rounds > 0
  PROVE  ~Shown(BatchOf(o, obj[o].rounds))
<1>1. PICK n \in 1 .. MaxRounds : n = obj[o].rounds
  BY NoneFacts DEF Base, Typed, ObjectsTyped, Object
<1> SUFFICES ASSUME Shown(BatchOf(o, n)) PROVE FALSE
  BY <1>1
<1>2. AskedBy(BatchOf(o, n)) = o
  BY AskerOfBatch
<1>3. PICK m \in 1 .. MaxRounds : BatchOf(o, n) = BatchOf(o, m) /\ m <= ShownRounds(o)
  BY <1>2, ShownFacts
<1>4. n \in Nat /\ m \in Nat /\ o \in Nat /\ MaxRounds \in Nat
  BY NoneFacts DEF Objects
<1>5. (o - 1) * MaxRounds \in Int
  BY <1>4
<1>6. n = m
  BY <1>3, <1>4, <1>5 DEF BatchOf
<1> QED BY <1>1, <1>3, <1>4, <1>6 DEF ShownRounds

-----------------------------------------------------------------------------
(* What a session that waits, works or is resumed says of its results         *)

\* The file of session i takes results k, and no others.
StoredFor(i, k) ==
  lineage[i].st = "awaiting" /\ lineage[i].pending = {k.of} /\ lineage[i].credential = k.by

WaitsOk(p) ==
  obj[p].st = "awaiting" =>
    obj[p].open # NoBatch /\ toolIndex[obj[p].open] = obj[p].id /\ obj[p].digest = NoKey

WorksOk(p) ==
  obj[p].st = "resuming" /\ obj[p].run # "none" =>
    /\ obj[p].digest \in ResultKeys /\ toolIndex[obj[p].digest.of] = obj[p].id
    /\ Driving(p) # {}

\* A stored session that is being resumed: its results are in pendingRecoveries, and its batch
\* is not in the index yet.
SendsOk(p) ==
  LET k == obj[p].digest
      i == obj[p].id
  IN  obj[p].st = "resuming" /\ obj[p].run = "none" =>
        /\ k \in ResultKeys /\ pendingRecoveries[i] = [key |-> k, obj |-> p]
        /\ \A r \in Requests : req[r].pc = "opening" /\ req[r].obj = p =>
             req[r].mode = "pending" /\ req[r].key = k
        /\ forgotten[i] = {} =>
             (\A b \in Batches : toolIndex[b] # i) /\ (k \in unshared \/ StoredFor(i, k))

FileOk(p) ==
  Certain(obj[p].id) /\ lineage[obj[p].id].st = "awaiting" =>
    /\ obj[p].st \in {"awaiting", "resuming"}
    /\ obj[p].st = "resuming" => obj[p].digest.of \in lineage[obj[p].id].pending

\* A session at work on the results of a batch of its own has them as its digest.
MineOk(p) ==
  LET k == obj[p].segment
  IN  Busy(p) /\ k \in ResultKeys /\ obj[p].boundary = "none" /\ obj[p].id = HomeOf(k.of) =>
        obj[p].st = "resuming" /\ obj[p].digest = k

LiveOk(p) ==
  Registered(p) => WaitsOk(p) /\ WorksOk(p) /\ SendsOk(p) /\ FileOk(p) /\ MineOk(p)

LiveInv == \A p \in Objects : LiveOk(p)

AsksOk(p) ==
  /\ obj[p].boundary = "tools" => obj[p].open = BatchOf(p, obj[p].rounds)
  /\ obj[p].segment \in ResultKeys => Shown(obj[p].segment.of)

AsksInv == \A p \in Objects : AsksOk(p)

ToolsInv ==
  \A b \in Batches : toolIndex[b] # None =>
    /\ BatchIn(b, toolIndex[b])
    /\ forgotten[toolIndex[b]] = {} => sessions[toolIndex[b]] # None

\* An object at work on results for a batch of another session was made to recover them.
TakenOk(p) ==
  LET k == obj[p].segment
  IN  Busy(p) /\ k \in ResultKeys \ unshared /\ obj[p].id # HomeOf(k.of) => transcriptRecoveries[k] = p

TakenInv == \A p \in Objects : TakenOk(p)

\* Results that are recovered from their transcript are not awaited, are not taken by the stored
\* session, and nothing works on them in the session that asked for them.
NotAwaited(k) ==
  \A p \in Objects : Registered(p) /\ obj[p].st = "awaiting" =>
    ~(obj[p].open = k.of /\ obj[p].credential = k.by)

Answering(p) == Registered(p) /\ obj[p].st = "resuming" /\ obj[p].run # "none"

NotStored(k) ==
  k \notin unshared /\ Certain(HomeOf(k.of)) /\ StoredFor(HomeOf(k.of), k) =>
    \E p \in Objects : obj[p].id = HomeOf(k.of) /\ Answering(p)

NotTaken(k) ==
  k \notin unshared /\ Certain(HomeOf(k.of)) =>
    \A p \in Objects :
      Registered(p) /\ Busy(p) /\ obj[p].id = HomeOf(k.of) /\ obj[p].segment = k =>
        obj[p].boundary # "none"

RecoveredOk(k) ==
  transcriptRecoveries[k] # None => Shown(k.of) /\ NotAwaited(k) /\ NotStored(k) /\ NotTaken(k)

RecoveredInv == \A k \in ResultKeys : RecoveredOk(k)

Known == Base /\ UseInv /\ LeftInv /\ FileInv /\ BatchesInv
ResultsInv == ToolsInv /\ AsksInv /\ LiveInv /\ TakenInv /\ RecoveredInv

-----------------------------------------------------------------------------
(* It is what the property needs                                              *)

LEMMA OpeningExists ==
  ASSUME Base, NEW p, Opening(p) PROVE p \in Objects /\ Exists(p) /\ obj[p].run = "none"
BY DEF Base, Typed, RequestsTyped, ReqInv, Opening, OpeningOk

LEMMA BusyExists ==
  ASSUME Base, NEW p \in Objects, Busy(p) PROVE Exists(p)
BY RunExists, OpeningExists DEF Busy

LEMMA ResultsGive ==
  ASSUME Base, UseInv, LiveInv, TakenInv, RecoveredInv PROVE OneRunPerResults
<1> SUFFICES ASSUME NEW o \in Objects, NEW q \in Objects, NEW k \in ResultKeys,
                    o # q, Busy(o), Busy(q), obj[o].segment = k, obj[q].segment = k, k \notin unshared,
                    Certain(HomeOf(k.of)), obj[o].boundary = "none", obj[q].boundary = "none"
             PROVE  FALSE
  BY DEF OneRunPerResults, HomeOf, Certain
<1>1. Exists(o) /\ Exists(q)
  BY BusyExists
<1>2. ASSUME NEW p \in Objects, Busy(p), Exists(p), obj[p].id = HomeOf(k.of) PROVE Registered(p)
  BY <1>2 DEF UseInv, Certain
<1>3. ASSUME NEW p \in Objects, Busy(p), obj[p].segment = k, obj[p].id # HomeOf(k.of)
      PROVE  transcriptRecoveries[k] = p
  BY <1>3 DEF TakenInv, TakenOk
<1>4. ASSUME NEW p \in Objects, NEW x \in Objects, Busy(p), obj[p].segment = k, obj[p].boundary = "none",
             Exists(p), obj[p].id = HomeOf(k.of), transcriptRecoveries[k] = x
      PROVE  FALSE
  <2>1. transcriptRecoveries[k] # None /\ Registered(p)
    BY <1>2, <1>4, NoneFacts
  <2>2. NotTaken(k)
    BY <2>1 DEF RecoveredInv, RecoveredOk
  <2> QED BY <1>4, <2>1, <2>2 DEF NotTaken
<1>5. CASE obj[o].id = HomeOf(k.of) /\ obj[q].id = HomeOf(k.of)
  BY <1>1, <1>2, <1>5, RegisteredAlone
<1>6. CASE obj[o].id # HomeOf(k.of) /\ obj[q].id # HomeOf(k.of)
  BY <1>3, <1>6
<1>7. CASE obj[o].id = HomeOf(k.of) /\ obj[q].id # HomeOf(k.of)
  BY <1>1, <1>3, <1>4, <1>7
<1>8. CASE obj[o].id # HomeOf(k.of) /\ obj[q].id = HomeOf(k.of)
  BY <1>1, <1>3, <1>4, <1>8
<1> QED BY <1>5, <1>6, <1>7, <1>8

-----------------------------------------------------------------------------
(* The steps, with what they do to results and tools                          *)

\* A session is made for a text, or is adopted and then refused.
PlainStep(r, o, i, new) ==
  /\ CreateStep(r, o, i, new) /\ new.segment \notin ResultKeys /\ new.st # "resuming"
  /\ lineage[i].st # "awaiting" /\ UNCHANGED <<maps, unshared>>

\* A session is made for results that its file takes.
PendingStep(r, o, i, new) ==
  LET k == new.segment
  IN  /\ CreateStep(r, o, i, new) /\ k \in ResultKeys /\ new.digest = k /\ new.st = "resuming"
      /\ Shown(k.of) /\ i \in Ids /\ StoredFor(i, k) /\ pendingRecoveries[i].key = NoKey
      /\ req'[r].pc = "opening" /\ req'[r].obj = o /\ req'[r].mode = "pending" /\ req'[r].key = k
      /\ pendingRecoveries' = [pendingRecoveries EXCEPT ![i] = [key |-> k, obj |-> o]]
      /\ UNCHANGED <<transcriptRecoveries, unshared>>

\* A session is made for results that nobody takes.
TranscriptStep(r, o, new) ==
  LET k == new.segment
  IN  /\ CreateStep(r, o, o, new) /\ k \in ResultKeys /\ new.st = "creating"
      /\ Shown(k.of) /\ Unrouted(k) /\ transcriptRecoveries[k] = None
      /\ transcriptRecoveries' = [transcriptRecoveries EXCEPT ![k] = o]
      /\ unshared \subseteq unshared' /\ (TakenByOthers(k) => k \in unshared')
      /\ UNCHANGED pendingRecoveries

FollowsStep(r, o, new, ask) ==
  /\ FollowStep(r, o, new, ask)
  /\ toolIndex' = [b \in Batches |-> IF b \in obj[o].pending THEN None ELSE toolIndex[b]]

AcceptsStep(r, o, new, ask) ==
  /\ AcceptStep(r, o, new, ask) /\ new.digest = ask.key /\ Shown(ask.key.of)
  /\ Accepts(o, ask.key) /\ toolIndex[ask.key.of] = obj[o].id

OpensStep(r, o, new) ==
  /\ OpenedStep(r, o, new) /\ new.digest = obj[o].digest
  /\ toolIndex' = IF req[r].mode = "pending" THEN [toolIndex EXCEPT ![req[r].key.of] = obj[o].id]
                  ELSE toolIndex

AsksStep(o, new) == AskStep(o, new) /\ new.digest = obj[o].digest

EndsStep(o, new) ==
  /\ EndStep(o, new)
  /\ new = Gone(o) \/ (new.digest = obj[o].digest /\ new.open = obj[o].open /\ new.run = "over")

AnswersStep(o, new) ==
  /\ AnswerStep(o, new) /\ (new.st = "awaiting" => new.digest = NoKey)
  /\ toolIndex' = [b \in Batches |-> IF new.st = "awaiting" /\ b \in obj[o].pending THEN obj[o].id
                                     ELSE toolIndex[b]]

FileStays(i) ==
  forgotten'[i] = {} =>
    /\ forgotten[i] = {} /\ (i \in unrecorded' <=> i \in unrecorded)
    /\ \/ lineage'[i] = lineage[i]
       \/ /\ lineage'[i] = NoFile
          /\ pendingRecoveries[i].key = NoKey \/ pendingRecoveries[i].key \in unshared'

AgeStep ==
  /\ CalmStep /\ \A i \in Ids : FileStays(i)
  /\ \A k \in ResultKeys : transcriptRecoveries'[k] = transcriptRecoveries[k] \/ k \in unshared'

ResultsStep ==
  \/ \E r \in Requests : \E new : QuietStep(r, new)
  \/ \E r \in Requests, o \in Objects, i \in Ids : \E new : PlainStep(r, o, i, new)
  \/ \E r \in Requests, o \in Objects, i \in Ids : \E new : PendingStep(r, o, i, new)
  \/ \E r \in Requests, o \in Objects : \E new : TranscriptStep(r, o, new)
  \/ \E r \in Requests, o \in Objects : \E new, ask : FollowsStep(r, o, new, ask)
  \/ \E r \in Requests, o \in Objects : \E new, ask : AcceptsStep(r, o, new, ask)
  \/ \E r \in Requests, o \in Objects : \E new : OpensStep(r, o, new)
  \/ \E r \in Requests : OpenFails(r)
  \/ \E o \in Objects : \E new : AsksStep(o, new)
  \/ \E o \in Objects : \E new : EndsStep(o, new)
  \/ \E o \in Objects : ReleaseStep(o)
  \/ \E o \in Objects : \E new : AnswersStep(o, new)
  \/ \E os : ForgetStep(os)
  \/ AgeStep
  \/ Restart

\* The object that a step makes is the fresh one.
LEMMA MadeIs ==
  ASSUME Base, NEW r \in Requests, NEW o \in Objects, NEW i \in Ids, NEW new, CreateStep(r, o, i, new),
         NEW p \in Objects, NEW made, Fresh(p), obj' = [obj EXCEPT ![p] = made], made.st # "none"
  PROVE  p = o /\ new = made
<1>1. obj'[o] = new /\ \A q \in Objects : q # o => obj'[q] = obj[q]
  BY CreateFacts
<1>2. obj'[p] = made /\ obj[p].st = "none"
  BY DEF Base, Typed, ObjectsTyped, Fresh, Exists
<1> QED BY <1>1, <1>2

LEMMA CreateIsNew ==
  ASSUME NEW r, NEW o, NEW i, NEW new, CreateStep(r, o, i, new)
  PROVE  IsNew(new, i) /\ new.st # "none" /\ new.st \in ActiveStates /\ new.id = i
BY DEF CreateStep, IsNew, ActiveStates

LEMMA StartIsPlain ==
  ASSUME Base, NEW r \in Requests, NEW k \in OpenKeys, StartTurn(r, k)
  PROVE  \E o \in Objects, i \in Ids : \E new : PlainStep(r, o, i, new)
<1>1. PICK o \in Objects : \E new : CreateStep(r, o, o, new) 
  BY StartIsCreate
<1>2. PICK new : CreateStep(r, o, o, new)
  BY <1>1
<1>3. PICK p \in Objects : Fresh(p) /\ obj' = [obj EXCEPT ![p] = NewObject(p, k.by, "creating", k)]
  BY DEF StartTurn
<1> DEFINE made == NewObject(p, k.by, "creating", k)
<1>4. obj' = [obj EXCEPT ![p] = made] /\ made.st = "creating" /\ made.segment = k /\ k \notin ResultKeys
  BY <1>3, KeyFacts DEF NewObject, NoObject
<1> HIDE DEF made
<1>5. o \in Ids
  BY NoneFacts
<1>6. new.segment = k /\ new.st = "creating" /\ k \notin ResultKeys
  BY <1>2, <1>3, <1>4, <1>5, MadeIs
<1>7. lineage[o].st # "awaiting"
  <2>1. ~Exists(o)
    BY <1>2, <1>5, CreateFacts
  <2> QED BY <2>1, <1>5 DEF Base, SessionsInv, NoFile
<1>8. PlainStep(r, o, o, new)
  BY <1>2, <1>6, <1>7 DEF PlainStep, StartTurn, history
<1> QED BY <1>5, <1>8

LEMMA ResumeIsPlain ==
  ASSUME Base, NEW r \in Requests, NEW i \in Ids, ResumeCompleted(r, i)
  PROVE  \E o \in Objects, j \in Ids : \E new : PlainStep(r, o, j, new)
<1> DEFINE k == NextKey(i)
           fresh == NewObject(i, lineage[i].credential, "creating", NoKey)
           sent == Activated(NewObject(i, lineage[i].credential, "creating", k), k)
<1>1. PICK o \in Objects : \E new : CreateStep(r, o, i, new)
  BY ResumeIsCreate
<1>2. PICK new : CreateStep(r, o, i, new)
  BY <1>1
<1>3. PICK p \in Objects : Fresh(p) /\ (obj' = [obj EXCEPT ![p] = sent] \/ obj' = [obj EXCEPT ![p] = fresh])
  BY DEF ResumeCompleted
<1>4. /\ sent.st = "running" /\ sent.segment = k /\ fresh.st = "creating" /\ fresh.segment = NoKey
      /\ k \notin ResultKeys /\ NoKey \notin ResultKeys
  BY KeyFacts DEF Activated, NewObject, NoObject, NoKey
<1> HIDE DEF sent, fresh, k
<1>5. new.st # "resuming" /\ new.segment \notin ResultKeys
  <2>1. CASE obj' = [obj EXCEPT ![p] = sent]
    BY <1>2, <1>3, <1>4, <2>1, MadeIs
  <2>2. CASE obj' = [obj EXCEPT ![p] = fresh]
    <3>1. new = fresh
      BY <1>2, <1>3, <1>4, <2>2, MadeIs
    <3> QED BY <3>1, <1>4
  <2> QED BY <1>3, <2>1, <2>2
<1>6. PlainStep(r, o, i, new)
  BY <1>2, <1>5 DEF PlainStep, ResumeCompleted, history
<1> QED BY <1>6

LEMMA PendingIsStep ==
  ASSUME Base, NEW r \in Requests, NEW k \in ResultKeys, ResumePending(r, k)
  PROVE  \/ \E new : QuietStep(r, new)
         \/ \E o \in Objects, i \in Ids : \E new : PendingStep(r, o, i, new)
<1> SUFFICES ASSUME ~ \E new : QuietStep(r, new)
             PROVE  \E o \in Objects, i \in Ids : \E new : PendingStep(r, o, i, new)
  OBVIOUS
<1>1. PICK o \in Objects, i \in Ids : \E new : CreateStep(r, o, i, new)
  BY PendingCases
<1>2. PICK new : CreateStep(r, o, i, new)
  BY <1>1
<1>3. /\ obj'[o] = new /\ ~Exists(o) /\ new.st # "none" /\ sessions'[i] = o /\ sessions[i] = None
      /\ \A j \in Ids : j # i => sessions'[j] = sessions[j]
  BY <1>2, CreateFacts, CreateIsNew
<1>4. PICK j \in Stored(k.of) :
        /\ Resumable(j, k)
        /\ \/ /\ OpenNow(j, k) /\ CanActivate(k.by, None)
              /\ \E p \in Objects :
                   /\ Fresh(p)
                   /\ obj' = [obj EXCEPT ![p] = NewObject(j, k.by, "resuming", k)]
                   /\ sessions' = [sessions EXCEPT ![j] = p]
                   /\ pendingRecoveries' = [pendingRecoveries EXCEPT ![j] = [key |-> k, obj |-> p]]
                   /\ Opens(r, p, k, "pending", lineage[j].agent)
           \/ /\ ~OpenNow(j, k)
              /\ Joins(r, pendingRecoveries[j].obj, k)
              /\ UNCHANGED <<obj, sessions, pendingRecoveries>>
  BY DEF ResumePending
<1>5. obj' # obj
  BY <1>3 DEF Exists
<1>6. PICK p \in Objects :
                   /\ Fresh(p)
                   /\ obj' = [obj EXCEPT ![p] = NewObject(j, k.by, "resuming", k)]
                   /\ sessions' = [sessions EXCEPT ![j] = p]
                   /\ pendingRecoveries' = [pendingRecoveries EXCEPT ![j] = [key |-> k, obj |-> p]]
                   /\ Opens(r, p, k, "pending", lineage[j].agent)
  BY <1>4, <1>5
<1> DEFINE made == NewObject(j, k.by, "resuming", k)
<1>7. /\ made.st = "resuming" /\ made.segment = k /\ made.digest = k /\ made.id = j
  BY KeyFacts DEF NewObject, NoObject
<1> HIDE DEF made
<1>8. p = o /\ new = made
  <2>1. obj' = [obj EXCEPT ![p] = made] /\ made.st # "none"
    BY <1>6, <1>7 DEF made
  <2> QED BY <1>2, <1>6, <2>1, MadeIs
<1>9. j = i
  BY <1>2, <1>7, <1>8 DEF CreateStep, IsNew
<1>10. req'[r] = [Idle EXCEPT !.pc = "opening", !.obj = o, !.key = k, !.mode = "pending",
                              !.agent = lineage[j].agent]
  BY <1>6, <1>8 DEF Opens, Base, Typed, RequestsTyped
<1>11. req'[r].pc = "opening" /\ req'[r].obj = o /\ req'[r].mode = "pending" /\ req'[r].key = k
  BY <1>10 DEF Idle
<1>12. StoredFor(i, k) /\ pendingRecoveries[i].key = NoKey
  BY <1>4, <1>5, <1>9 DEF StoredFor, Stored, Resumable, OpenNow
<1>13. Shown(k.of) /\ UNCHANGED <<transcriptRecoveries, unshared>>
  BY DEF ResumePending, Results, history
<1>14. PendingStep(r, o, i, new)
  BY <1>2, <1>6, <1>7, <1>8, <1>9, <1>11, <1>12, <1>13 DEF PendingStep
<1> QED BY <1>14

LEMMA TranscriptIsStep ==
  ASSUME Base, NEW r \in Requests, NEW k \in ResultKeys, RecoverFromTranscript(r, k)
  PROVE  \/ \E new : QuietStep(r, new)
         \/ \E o \in Objects : \E new : TranscriptStep(r, o, new)
<1> SUFFICES ASSUME ~ \E new : QuietStep(r, new)
             PROVE  \E o \in Objects : \E new : TranscriptStep(r, o, new)
  OBVIOUS
<1>1. PICK o \in Objects, i \in Ids : \E new : CreateStep(r, o, i, new)
  BY TranscriptCases
<1>2. PICK new : CreateStep(r, o, i, new)
  BY <1>1
<1>3. obj'[o] = new /\ ~Exists(o) /\ new.st # "none"
  BY <1>2, CreateFacts, CreateIsNew
<1>4. obj' # obj
  BY <1>3 DEF Exists
<1>5. /\ KnownRecovery(k) = None
      /\ unshared' = IF TakenByOthers(k) THEN unshared \cup {k} ELSE unshared
      /\ \E p \in Objects :
           /\ Fresh(p)
           /\ obj' = [obj EXCEPT ![p] = NewObject(p, k.by, "creating", k)]
           /\ transcriptRecoveries' = [transcriptRecoveries EXCEPT ![k] = p]
  BY <1>4 DEF RecoverFromTranscript
<1>6. PICK p \in Objects :
           /\ Fresh(p)
           /\ obj' = [obj EXCEPT ![p] = NewObject(p, k.by, "creating", k)]
           /\ transcriptRecoveries' = [transcriptRecoveries EXCEPT ![k] = p]
  BY <1>5
<1> DEFINE made == NewObject(p, k.by, "creating", k)
<1>7. made.st = "creating" /\ made.segment = k /\ made.id = p
  BY DEF NewObject, NoObject
<1> HIDE DEF made
<1>8. p = o /\ new = made
  <2>1. obj' = [obj EXCEPT ![p] = made] /\ made.st # "none"
    BY <1>6, <1>7 DEF made
  <2> QED BY <1>2, <1>6, <2>1, MadeIs
<1>9. i = o
  BY <1>2, <1>7, <1>8 DEF CreateStep, IsNew
<1>10. /\ Shown(k.of) /\ Unrouted(k) /\ UNCHANGED pendingRecoveries
       /\ unshared \subseteq unshared' /\ (TakenByOthers(k) => k \in unshared')
  BY <1>5 DEF RecoverFromTranscript, Results
<1>11. TranscriptStep(r, o, new)
  BY <1>2, <1>5, <1>6, <1>7, <1>8, <1>9, <1>10 DEF TranscriptStep, KnownRecovery
<1> QED BY <1>11

LEMMA FollowIsTools ==
  ASSUME Base, NEW r \in Requests, NEW i \in Ids, FollowUp(r, i)
  PROVE  \E o \in Objects : \E new, ask : FollowsStep(r, o, new, ask)
<1>1. PICK o \in Objects : \E new, ask : FollowStep(r, o, new, ask)
  BY FollowIsStep
<1>2. PICK new, ask : FollowStep(r, o, new, ask)
  BY <1>1
<1>3. PICK p \in Objects : p = sessions[i] /\ Registered(p) /\ obj[p].id = i
  BY SessionFacts DEF FollowUp
<1>4. /\ obj' = [obj EXCEPT ![p] = Activated(obj[p], NextKey(i))]
      /\ toolIndex' = [b \in Batches |-> IF b \in obj[p].pending THEN None ELSE toolIndex[b]]
      /\ obj[p].st = "completed"
  BY <1>3 DEF FollowUp, Base, Typed, ObjectsTyped
<1>5. p = o
  <2>1. obj'[p] # obj[p]
    <3>1. obj'[p] = Activated(obj[p], NextKey(i))
      BY <1>4 DEF Base, Typed, ObjectsTyped
    <3>2. Activated(obj[p], NextKey(i)).st = "running"
      BY DEF Activated, Base, Typed, ObjectsTyped, Object
    <3> QED BY <3>1, <3>2, <1>4
  <2>2. Moves(o, new)
    BY <1>2, FollowMoves
  <2> QED BY <2>1, <2>2 DEF Moves
<1>6. FollowsStep(r, o, new, ask)
  BY <1>2, <1>4, <1>5 DEF FollowsStep
<1> QED BY <1>6

LEMMA AcceptIsTools ==
  ASSUME Base, NEW r \in Requests, NEW k \in ResultKeys, AcceptResults(r, k)
  PROVE  \E o \in Objects : \E new, ask : AcceptsStep(r, o, new, ask)
<1>1. PICK o \in Objects : \E new, ask : AcceptStep(r, o, new, ask)
  BY AcceptIsStep
<1>2. PICK new, ask : AcceptStep(r, o, new, ask)
  BY <1>1
<1>3. k \in Keys /\ k.of \in Batches /\ OwnerOf(k.of) # None
  BY KeyFacts DEF AcceptResults
<1>4. PICK p \in Objects : p = OwnerOf(k.of) /\ Registered(p)
  BY <1>3, OwnerFacts DEF Base
<1>5. toolIndex[k.of] = obj[p].id
  <2>1. toolIndex[k.of] \in Ids /\ sessions[toolIndex[k.of]] = p
    BY <1>3, <1>4 DEF OwnerOf, Base, Typed, RegistryTyped
  <2> QED BY <2>1, NoneFacts DEF Base, SessionsInv
<1>6. /\ Shown(k.of) /\ Accepts(p, k)
      /\ obj'[p].st = "resuming" /\ obj'[p].digest = k /\ obj'[p].segment = k
  BY <1>4 DEF AcceptResults, Results, Base, Typed, ObjectsTyped, Object
<1>7. Moves(o, new)
  BY <1>2, AcceptMoves
<1>8. p = o /\ new = obj'[o]
  <2>1. obj'[p] # obj[p]
    BY <1>6 DEF Accepts
  <2> QED BY <2>1, <1>7 DEF Moves
<1>9. ask.key = k
  BY <1>2, <1>6, <1>8 DEF AcceptStep
<1>10. AcceptsStep(r, o, new, ask)
  BY <1>2, <1>5, <1>6, <1>8, <1>9 DEF AcceptsStep
<1> QED BY <1>10

LEMMA OpenedIsTools ==
  ASSUME Base, NEW r \in Requests, Opened(r)
  PROVE  \E o \in Objects : \E new : OpensStep(r, o, new)
<1>1. PICK o \in Objects : \E new : OpenedStep(r, o, new)
  BY OpenedIsStep
<1>2. PICK new : OpenedStep(r, o, new)
  BY <1>1
<1>0. Moves(o, new)
  BY <1>2, OpenedMoves
<1>3. req[r].obj = o /\ obj'[o] = new
  BY <1>0, <1>2 DEF OpenedStep, Moves
<1>4. obj'[o].digest = obj[o].digest
  BY <1>3 DEF Opened, Base, Typed, ObjectsTyped, Object
<1>5. toolIndex' = IF req[r].mode = "pending" THEN [toolIndex EXCEPT ![req[r].key.of] = obj[o].id]
                   ELSE toolIndex
  BY <1>3 DEF Opened
<1>6. OpensStep(r, o, new)
  BY <1>2, <1>3, <1>4, <1>5 DEF OpensStep
<1> QED BY <1>6

LEMMA AskIsTools ==
  ASSUME Base, NEW o \in Objects, AskForTools(o)
  PROVE  \E new : AsksStep(o, new)
<1>1. PICK new : AskStep(o, new)
  BY AskIsStep
<1>2. obj'[o] = new
  BY <1>1, AskMoves DEF Moves
<1>3. obj'[o].digest = obj[o].digest
  BY DEF AskForTools, Base, Typed, ObjectsTyped, Object
<1>4. AsksStep(o, new)
  BY <1>1, <1>2, <1>3 DEF AsksStep
<1> QED BY <1>4

LEMMA EndIsTools ==
  ASSUME Base, NEW o \in Objects, NEW boundary \in {"final", "error"}, RunEnds(o, boundary)
  PROVE  \E new : EndsStep(o, new)
<1>1. PICK new : EndStep(o, new)
  BY EndIsStep
<1>2. obj'[o] = new
  BY <1>1, EndMoves DEF Moves
<1>3. CASE obj[o].run = "cancelled" /\ Driving(o) = {}
  <2>1. obj'[o] = Gone(o)
    BY <1>3 DEF RunEnds, Base, Typed, ObjectsTyped
  <2>2. EndsStep(o, new)
    BY <1>1, <1>2, <2>1 DEF EndsStep
  <2> QED BY <2>2
<1>4. CASE ~(obj[o].run = "cancelled" /\ Driving(o) = {})
  <2>1. obj' = [obj EXCEPT ![o] = [@ EXCEPT !.run = "over", !.boundary = boundary, !.applied = FALSE]]
    BY <1>4 DEF RunEnds
  <2>2. obj'[o].digest = obj[o].digest /\ obj'[o].open = obj[o].open /\ obj'[o].run = "over"
    BY <2>1 DEF Base, Typed, ObjectsTyped, Object
  <2>3. EndsStep(o, new)
    BY <1>1, <1>2, <2>2 DEF EndsStep
  <2> QED BY <2>3
<1> QED BY <1>3, <1>4

LEMMA AnswerIsTools ==
  ASSUME Base, NEW o \in Objects, Answer(o)
  PROVE  ReleaseStep(o) \/ \E new : AnswersStep(o, new)
<1> SUFFICES ASSUME ~ReleaseStep(o) PROVE \E new : AnswersStep(o, new)
  OBVIOUS
<1>1. PICK new : AnswerStep(o, new)
  BY AnswerIsStep
<1>2. obj'[o] = new /\ ~obj[o].applied /\ new.st = StateAfter(obj[o].boundary)
  BY <1>1, AnswerMoves DEF Moves, AnswerStep
<1>3. /\ toolIndex' = [b \in Batches |-> IF new.st = "awaiting" /\ b \in obj[o].pending THEN obj[o].id
                                         ELSE toolIndex[b]]
      /\ obj' = [obj EXCEPT ![o].applied = TRUE, ![o].st = new.st,
                            ![o].digest = IF new.st = "awaiting" THEN NoKey ELSE @]
  BY <1>2 DEF Answer
<1>4. new.st = "awaiting" => obj'[o].digest = NoKey
  BY <1>3 DEF Base, Typed, ObjectsTyped, Object
<1>5. AnswersStep(o, new)
  BY <1>1, <1>2, <1>3, <1>4 DEF AnswersStep
<1> QED BY <1>5

-----------------------------------------------------------------------------
(* What ages, and every step                                                  *)

LEMMA StutterIsAge ==
  ASSUME Base, UNCHANGED vars PROVE AgeStep
<1>1. CalmStep
  BY StutterIsCalm
<1>2. UNCHANGED <<lineage, pendingRecoveries, forgotten, unrecorded, transcriptRecoveries>>
  BY DEF vars
<1> QED BY <1>1, <1>2 DEF AgeStep, FileStays

LEMMA BeginDrainIsAge ==
  ASSUME Base, BeginDrain PROVE AgeStep
<1>1. CalmStep
  BY BeginDrainIsCalm
<1>2. UNCHANGED <<lineage, pendingRecoveries, forgotten, unrecorded, transcriptRecoveries>>
  BY DEF BeginDrain, disk, maps
<1> QED BY <1>1, <1>2 DEF AgeStep, FileStays

LEMMA RecordIsAge ==
  ASSUME Base, NEW i \in Ids, ExpireRecord(i) PROVE AgeStep
<1>1. CalmStep
  BY RecordIsCalm
<1>2. UNCHANGED <<pendingRecoveries, forgotten, unrecorded, transcriptRecoveries>>
  BY DEF ExpireRecord, maps
<1>3. /\ lineage'[i] = NoFile /\ \A j \in Ids : j # i => lineage'[j] = lineage[j]
      /\ pendingRecoveries[i].key = NoKey \/ pendingRecoveries[i].key \in unshared'
  BY DEF ExpireRecord, Base, Typed, FilesTyped
<1> QED BY <1>1, <1>2, <1>3 DEF AgeStep, FileStays

LEMMA RecoveryIsAge ==
  ASSUME Base, NEW k \in ResultKeys, ExpireRecovery(k) PROVE AgeStep
<1>1. CalmStep
  BY RecoveryIsCalm
<1>2. UNCHANGED <<lineage, pendingRecoveries, forgotten, unrecorded>>
  BY DEF ExpireRecovery, disk
<1>3. k \in unshared' /\ \A l \in ResultKeys : l # k => transcriptRecoveries'[l] = transcriptRecoveries[l]
  BY DEF ExpireRecovery, Base, Typed, FilesTyped
<1> QED BY <1>1, <1>2, <1>3 DEF AgeStep, FileStays

LEMMA EndDrainIsAge ==
  ASSUME Base, EndDrain PROVE AgeStep \/ \E os : ForgetStep(os)
<1> SUFFICES ASSUME CalmStep, ~ \E os : ForgetStep(os) PROVE AgeStep
  BY EndDrainCases
<1>1. UNCHANGED <<lineage, pendingRecoveries, forgotten, unrecorded, transcriptRecoveries>>
  BY DEF EndDrain, CalmStep, disk, maps
<1> QED BY <1>1 DEF AgeStep, FileStays

LEMMA ResultsCases ==
  ASSUME Base, [Next]_vars PROVE ResultsStep
<1>1. CASE UNCHANGED vars
  BY <1>1, StutterIsAge DEF ResultsStep
<1>2. ASSUME NEW r \in Requests, NEW k \in OpenKeys, StartTurn(r, k) PROVE ResultsStep
  BY <1>2, StartIsPlain DEF ResultsStep
<1>3. ASSUME NEW r \in Requests, NEW i \in Ids, FollowUp(r, i) PROVE ResultsStep
  BY <1>3, FollowIsTools DEF ResultsStep
<1>4. ASSUME NEW r \in Requests, NEW i \in Ids, ResumeCompleted(r, i) PROVE ResultsStep
  BY <1>4, ResumeIsPlain DEF ResultsStep
<1>5. ASSUME NEW r \in Requests, NEW k \in ResultKeys, AcceptResults(r, k) PROVE ResultsStep
  BY <1>5, AcceptIsTools DEF ResultsStep
<1>6. ASSUME NEW r \in Requests, NEW k \in ResultKeys, RepeatResults(r, k) PROVE ResultsStep
  BY <1>6, RepeatIsQuiet DEF ResultsStep
<1>7. ASSUME NEW r \in Requests, NEW k \in ResultKeys, ResumePending(r, k) PROVE ResultsStep
  BY <1>7, PendingIsStep DEF ResultsStep
<1>8. ASSUME NEW r \in Requests, NEW k \in ResultKeys, RecoverFromTranscript(r, k) PROVE ResultsStep
  BY <1>8, TranscriptIsStep DEF ResultsStep
<1>9. ASSUME NEW r \in Requests, NEW k \in TextKeys, Reconnect(r, k) PROVE ResultsStep
  BY <1>9, ReconnectIsQuiet DEF ResultsStep
<1>10. ASSUME NEW r \in Requests, Opened(r) PROVE ResultsStep
  BY <1>10, OpenedIsTools DEF ResultsStep
<1>11. ASSUME NEW r \in Requests, OpenFails(r) PROVE ResultsStep
  BY <1>11 DEF ResultsStep
<1>12. ASSUME NEW o \in Objects, AskForTools(o) PROVE ResultsStep
  BY <1>12, AskIsTools DEF ResultsStep
<1>13. ASSUME NEW o \in Objects, Finish(o) \/ Die(o) PROVE ResultsStep
  <2>1. \E new : EndsStep(o, new)
    BY <1>13, EndIsTools DEF Finish, Die
  <2> QED BY <2>1 DEF ResultsStep
<1>14. ASSUME NEW o \in Objects, Answer(o) PROVE ResultsStep
  BY <1>14, AnswerIsTools DEF ResultsStep
<1>15. ASSUME NEW o \in Objects, ForgetSession(o) PROVE ResultsStep
  BY <1>15, SweepIsForget DEF ResultsStep
<1>16. CASE BeginDrain
  BY <1>16, BeginDrainIsAge DEF ResultsStep
<1>17. CASE EndDrain
  BY <1>17, EndDrainIsAge DEF ResultsStep
<1>18. ASSUME NEW i \in Ids, ExpireRecord(i) PROVE ResultsStep
  BY <1>18, RecordIsAge DEF ResultsStep
<1>19. ASSUME NEW k \in ResultKeys, ExpireRecovery(k) PROVE ResultsStep
  BY <1>19, RecoveryIsAge DEF ResultsStep
<1>20. CASE Restart
  BY <1>20 DEF ResultsStep
<1> QED
  BY <1>1, <1>2, <1>3, <1>4, <1>5, <1>6, <1>7, <1>8, <1>9, <1>10, <1>11, <1>12, <1>13, <1>14,
     <1>15, <1>16, <1>17, <1>18, <1>19, <1>20 DEF Next

-----------------------------------------------------------------------------
(* What a step leaves of an object                                            *)

\* What the other objects' steps leave alone of a registered session.
Steady(p) ==
  LET i == obj[p].id
  IN  /\ Registered(p) /\ (obj[p].st = "resuming" /\ Driving(p) # {} => Driving(p)' # {})
      /\ \A b \in Batches : toolIndex[b] = i => toolIndex'[b] = i
      /\ forgotten'[i] = {} => \A b \in Batches : toolIndex'[b] = i => toolIndex[b] = i
      /\ pendingRecoveries[i].obj = p => pendingRecoveries'[i] = pendingRecoveries[i]
      /\ FileStays(i)

Same(p) ==
  /\ obj'[p] = obj[p]
  /\ \A r \in Requests : req'[r].pc = "opening" /\ req'[r].obj = p => req'[r] = req[r]
  /\ \A l \in ResultKeys : transcriptRecoveries[l] = p => transcriptRecoveries'[l] = p \/ l \in unshared'
  /\ Registered(p)' => Steady(p)
  /\ Answering(p) => Registered(p)' \/ forgotten'[obj[p].id] # {}

\* A session waits for what it waited for, or for a batch that was not shown before.
WaitingStays(p) ==
  Registered(p)' /\ obj'[p].st = "awaiting" =>
    \/ /\ Registered(p) /\ obj[p].st = "awaiting"
       /\ obj'[p].open = obj[p].open /\ obj'[p].credential = obj[p].credential
    \/ ~Shown(obj'[p].open)

\* If the file of session i takes results now, they are for a batch that was not shown before.
FileIsNew(i) ==
  Certain(i)' /\ lineage'[i].st = "awaiting" => \E b \in lineage'[i].pending : ~Shown(b)

AnsweringStays(p) ==
  Answering(p) => (Answering(p)' /\ obj'[p].id = obj[p].id) \/ FileIsNew(obj[p].id)

\* What works on results worked on them, or was made to recover them, or a session that waited for
\* them, or the file that takes them, gave them to it.
WorkStays(p) ==
  LET l == obj'[p].segment
  IN  Registered(p)' /\ Busy(p)' /\ l \in ResultKeys /\ Shown(l.of) /\ obj'[p].boundary = "none" =>
        /\ FileStays(obj'[p].id)
        /\ \/ Registered(p) /\ Busy(p) /\ obj[p].segment = l /\ obj[p].boundary = "none"
           \/ HomeOf(l.of) # obj'[p].id
           \/ ~NotAwaited(l)
           \/ StoredFor(obj'[p].id, l) /\ sessions[obj'[p].id] = None

AsksStay(p) ==
  /\ obj'[p].boundary = "tools" =>
       \/ obj[p].boundary = "tools" /\ obj'[p].open = obj[p].open /\ obj'[p].rounds = obj[p].rounds
       \/ obj'[p].open = BatchOf(p, obj'[p].rounds)
  /\ obj'[p].segment \in ResultKeys => obj'[p].segment = obj[p].segment \/ Shown(obj'[p].segment.of)

TakenStays(p) ==
  LET l == obj'[p].segment
  IN  Busy(p)' /\ l \in ResultKeys \ unshared' /\ Shown(l.of) =>
        \/ HomeOf(l.of) = obj'[p].id \/ transcriptRecoveries'[l] = p
        \/ /\ Busy(p) /\ obj[p].segment = l /\ obj'[p].id = obj[p].id
           /\ transcriptRecoveries[l] = p => transcriptRecoveries'[l] = p

ObjectStays(p) ==
  LiveOk(p)' /\ WaitingStays(p) /\ AnsweringStays(p) /\ WorkStays(p) /\ AsksStay(p) /\ TakenStays(p)

FilesStay == \A i \in Ids : FileStays(i) \/ FileIsNew(i)

ToolsStay ==
  \A b \in Batches : toolIndex'[b] # None =>
    /\ toolIndex'[b] = toolIndex[b] \/ BatchIn(b, toolIndex'[b])
    /\ forgotten'[toolIndex'[b]] = {} => sessions'[toolIndex'[b]] # None

\* What is so of results when their transcript is sent, and ever after.
Safe(k) ==
  Shown(k.of) /\ NotAwaited(k) /\ (k \notin unshared' => NotStored(k) /\ NotTaken(k))

LEMMA HomeKept ==
  ASSUME Base, KeepsIds, NEW b, Shown(b)
  PROVE  HomeOf(b)' = HomeOf(b)
BY ShownFacts DEF HomeOf, KeepsIds, AskedBy

LEMMA SameLive ==
  ASSUME Base, Base', KeepsIds, unshared \subseteq unshared', AsksInv, LiveInv,
         NEW p \in Objects, Same(p)
  PROVE  LiveOk(p)'
<1> DEFINE i == obj[p].id
           k == obj[p].digest
<1> SUFFICES ASSUME Registered(p)' PROVE LiveOk(p)'
  BY DEF LiveOk
<1>1. obj'[p] = obj[p] /\ Steady(p) /\ Registered(p) /\ i \in Ids /\ p \in Objects
  BY DEF Same, Steady, Registered, Base, SessionsInv
<1>2. WaitsOk(p) /\ WorksOk(p) /\ SendsOk(p) /\ FileOk(p) /\ MineOk(p)
  BY <1>1 DEF LiveInv, LiveOk
<1>3. obj[p].open \in Batches \cup {NoBatch} /\ k \in ResultKeys \cup {NoKey}
  BY DEF Base, Typed, ObjectsTyped, Object
<1>4. WaitsOk(p)'
  BY <1>1, <1>2, <1>3 DEF WaitsOk, Steady
<1>5. WorksOk(p)'
  BY <1>1, <1>2, KeyFacts DEF WorksOk, Steady
<1>6. SendsOk(p)'
  <2> SUFFICES ASSUME obj[p].st = "resuming", obj[p].run = "none"
               PROVE  SendsOk(p)'
    BY <1>1 DEF SendsOk
  <2>1. k \in ResultKeys /\ pendingRecoveries[i] = [key |-> k, obj |-> p]
    BY <1>2 DEF SendsOk
  <2>2. pendingRecoveries'[i] = [key |-> k, obj |-> p] /\ pendingRecoveries[i].key = k
    BY <1>1, <2>1 DEF Steady
  <2>3. \A r \in Requests : req'[r].pc = "opening" /\ req'[r].obj = p =>
          req'[r].mode = "pending" /\ req'[r].key = k
    BY <1>2 DEF SendsOk, Same
  <2>4. ASSUME forgotten'[i] = {}
        PROVE  (\A b \in Batches : toolIndex'[b] # i) /\ (k \in unshared' \/ StoredFor(i, k)')
    <3>1. forgotten[i] = {} /\ \A b \in Batches : toolIndex'[b] = i => toolIndex[b] = i
      BY <1>1, <2>4 DEF Steady, FileStays
    <3>2. (\A b \in Batches : toolIndex[b] # i) /\ (k \in unshared \/ StoredFor(i, k))
      BY <1>2, <3>1 DEF SendsOk
    <3>3. lineage'[i] = lineage[i] \/ k \in unshared'
      BY <1>1, <2>1, <2>2, <2>4, KeyFacts DEF Steady, FileStays
    <3> QED BY <1>1, <3>1, <3>2, <3>3 DEF StoredFor
  <2> QED BY <1>1, <2>1, <2>2, <2>3, <2>4 DEF SendsOk
<1>7. FileOk(p)'
  <2> SUFFICES ASSUME Certain(i)', lineage'[i].st = "awaiting" PROVE FileOk(p)'
    BY <1>1 DEF FileOk
  <2>1. FileStays(i) /\ forgotten'[i] = {} /\ i \notin unrecorded'
    BY <1>1 DEF Steady, Certain
  <2>2. lineage'[i] = lineage[i] /\ Certain(i)
    BY <2>1 DEF FileStays, Certain, NoFile
  <2> QED BY <1>1, <1>2, <2>2 DEF FileOk
<1>8. MineOk(p)'
  <2> DEFINE l == obj[p].segment
  <2> SUFFICES ASSUME Busy(p)', l \in ResultKeys, obj[p].boundary = "none", i = HomeOf(l.of)'
               PROVE  obj[p].st = "resuming" /\ k = l
    BY <1>1 DEF MineOk
  <2>1. Busy(p)
    BY <1>1 DEF Busy, Opening, Same
  <2>2. Shown(l.of)
    BY DEF AsksInv, AsksOk
  <2>3. HomeOf(l.of)' = HomeOf(l.of)
    BY <1>1, <2>2, HomeKept
  <2> QED BY <1>2, <2>1, <2>3 DEF MineOk
<1> QED BY <1>4, <1>5, <1>6, <1>7, <1>8 DEF LiveOk

LEMMA SameStays ==
  ASSUME Base, Base', KeepsIds, unshared \subseteq unshared', AsksInv, LiveInv,
         NEW p \in Objects, Same(p)
  PROVE  ObjectStays(p)
<1>1. LiveOk(p)'
  BY SameLive
<1>2. obj'[p] = obj[p] /\ (Registered(p)' => Steady(p)) /\ (Busy(p)' => Busy(p))
  BY DEF Same, Busy, Opening
<1>3. WaitingStays(p) /\ AsksStay(p)
  BY <1>2 DEF WaitingStays, Steady, AsksStay
<1>4. AnsweringStays(p)
  <2> SUFFICES ASSUME Answering(p), ~Registered(p)' PROVE FileIsNew(obj[p].id)
    BY <1>2 DEF AnsweringStays, Answering
  <2> QED BY DEF Same, FileIsNew, Certain
<1>5. WorkStays(p)
  BY <1>2 DEF WorkStays, Steady
<1>6. TakenStays(p)
  BY <1>2 DEF TakenStays, Same
<1> QED BY <1>1, <1>3, <1>4, <1>5, <1>6 DEF ObjectStays

-----------------------------------------------------------------------------
(* They are enough                                                            *)

LEMMA ToolsKept ==
  ASSUME Base, KeepsIds, ToolsInv, ToolsStay PROVE ToolsInv'
<1> SUFFICES ASSUME NEW b \in Batches, NEW i, i = toolIndex'[b], i # None
             PROVE  BatchIn(b, i)' /\ (forgotten'[i] = {} => sessions'[i] # None)
  BY DEF ToolsInv, BatchIn
<1>1. BatchIn(b, i)
  BY DEF ToolsStay, ToolsInv
<1>2. BatchIn(b, i)'
  BY <1>1 DEF BatchIn, KeepsIds, Exists, AskedFor, BatchOf
<1> QED BY <1>2 DEF ToolsStay

LEMMA AsksKept ==
  ASSUME Base, Base', KeepsIds, ShownGrows, AsksInv, \A p \in Objects : AsksStay(p)
  PROVE  AsksInv'
<1> SUFFICES ASSUME NEW p \in Objects PROVE AsksOk(p)'
  BY DEF AsksInv
<1>1. obj'[p].boundary = "tools" => obj'[p].open = BatchOf(p, obj'[p].rounds)
  BY DEF AsksStay, AsksInv, AsksOk
<1>2. ASSUME NEW l \in ResultKeys, l = obj'[p].segment PROVE Shown(l.of)'
  BY <1>2, ShownKept DEF AsksStay, AsksInv, AsksOk
<1> QED BY <1>1, <1>2 DEF AsksOk, BatchOf, Shown

LEMMA TakenKept ==
  ASSUME Base, KeepsIds, unshared \subseteq unshared', AsksInv, TakenInv,
         \A p \in Objects : AsksStay(p) /\ TakenStays(p)
  PROVE  TakenInv'
<1> SUFFICES ASSUME NEW p \in Objects, NEW l \in ResultKeys \ unshared', l = obj'[p].segment,
                    Busy(p)', obj'[p].id # HomeOf(l.of)'
             PROVE  transcriptRecoveries'[l] = p
  BY DEF TakenInv, TakenOk
<1>1. Shown(l.of)
  BY DEF AsksStay, AsksInv, AsksOk
<1>2. HomeOf(l.of)' = HomeOf(l.of)
  BY <1>1, HomeKept
<1>3. \/ transcriptRecoveries'[l] = p
      \/ /\ Busy(p) /\ obj[p].segment = l /\ obj'[p].id = obj[p].id
         /\ transcriptRecoveries[l] = p => transcriptRecoveries'[l] = p
  BY <1>1, <1>2 DEF TakenStays
<1> QED BY <1>2, <1>3 DEF TakenInv, TakenOk

LEMMA SafeKept ==
  ASSUME Base, Base', KeepsIds, ShownGrows, unshared \subseteq unshared', FilesStay,
         \A p \in Objects : WaitingStays(p) /\ AnsweringStays(p) /\ WorkStays(p),
         NEW k \in ResultKeys, Safe(k)
  PROVE  RecoveredOk(k)'
<1>0. PICK h : h = HomeOf(k.of)
  OBVIOUS
<1>1. /\ Shown(k.of) /\ Shown(k.of)' /\ HomeOf(k.of)' = h
      /\ h \in Ids /\ BatchIn(k.of, h)
  BY <1>0, ShownFacts, ShownKept DEF Safe
<1>2. NotAwaited(k)'
  <2> SUFFICES ASSUME NEW p \in Objects, Registered(p)', obj'[p].st = "awaiting",
                      obj'[p].open = k.of, obj'[p].credential = k.by
               PROVE  FALSE
    BY DEF NotAwaited
  <2>1. Registered(p) /\ obj[p].st = "awaiting" /\ obj[p].open = k.of /\ obj[p].credential = k.by
    BY <1>1 DEF WaitingStays
  <2> QED BY <2>1 DEF Safe, NotAwaited
<1>3. NotStored(k)'
  <2> SUFFICES ASSUME k \notin unshared', Certain(h)', StoredFor(h, k)'
               PROVE  \E p \in Objects : obj'[p].id = h /\ Answering(p)'
    BY <1>1 DEF NotStored, StoredFor, Certain
  <2>2. lineage'[h].st = "awaiting" /\ lineage'[h].pending = {k.of} /\ Certain(h)'
        /\ lineage'[h].credential = k.by
    BY DEF StoredFor, Certain
  <2>3. FileStays(h)
    BY <1>1, <2>2 DEF FilesStay, FileIsNew
  <2>4. Certain(h) /\ lineage'[h] = lineage[h] /\ forgotten'[h] = {}
    BY <2>2, <2>3 DEF FileStays, Certain, NoFile
  <2>5. StoredFor(h, k)
    BY <2>2, <2>4 DEF StoredFor
  <2>6. PICK p \in Objects : obj[p].id = h /\ Answering(p)
    BY <1>0, <2>4, <2>5 DEF Safe, NotStored
  <2>7. ~FileIsNew(h)
    BY <1>1, <2>2 DEF FileIsNew
  <2> QED BY <2>6, <2>7 DEF AnsweringStays
<1>4. NotTaken(k)'
  <2> SUFFICES ASSUME k \notin unshared', Certain(h)'
               PROVE  \A p \in Objects :
                        Registered(p)' /\ Busy(p)' /\ obj'[p].id = h /\ obj'[p].segment = k =>
                          obj'[p].boundary # "none"
    BY <1>1 DEF NotTaken, Certain
  <2> SUFFICES ASSUME NEW p \in Objects, Registered(p)', Busy(p)', obj'[p].id = h, obj'[p].segment = k,
                      obj'[p].boundary = "none"
               PROVE  FALSE
    OBVIOUS
  <2>1. /\ FileStays(obj'[p].id)
        /\ \/ Registered(p) /\ Busy(p) /\ obj[p].segment = k /\ obj[p].boundary = "none"
           \/ HomeOf(k.of) # obj'[p].id
           \/ ~NotAwaited(k)
           \/ StoredFor(obj'[p].id, k) /\ sessions[obj'[p].id] = None
    BY <1>1 DEF WorkStays
  <2>2. FileStays(h) /\ forgotten'[h] = {} /\ h \notin unrecorded'
    BY <2>1 DEF Certain
  <2>3. Certain(h)
    BY <2>2 DEF FileStays, Certain
  <2>4. NotAwaited(k) /\ NotStored(k) /\ NotTaken(k)
    BY DEF Safe
  <2>5. CASE Registered(p) /\ Busy(p) /\ obj[p].segment = k /\ obj[p].boundary = "none"
    <3>1. obj[p].id = h
      BY <2>5 DEF KeepsIds, Registered
    <3> QED BY <1>0, <2>3, <2>4, <2>5, <3>1 DEF NotTaken
  <2>6. CASE StoredFor(h, k) /\ sessions[h] = None
    <3>1. PICK q \in Objects : obj[q].id = h /\ Answering(q)
      BY <1>0, <2>3, <2>4, <2>6 DEF NotStored
    <3> QED BY <2>6, <3>1, NoneFacts DEF Answering, Registered
  <2> QED BY <2>1, <2>4, <2>5, <2>6, <1>0
<1> QED BY <1>1, <1>2, <1>3, <1>4 DEF RecoveredOk

LEMMA StaysGive ==
  ASSUME Base, Base', KeepsIds, ShownGrows, unshared \subseteq unshared', ResultsInv, FilesStay,
         ToolsStay, \A p \in Objects : ObjectStays(p),
         \A k \in ResultKeys : transcriptRecoveries'[k] # None => transcriptRecoveries[k] # None \/ Safe(k)
  PROVE  ResultsInv'
<1>1. \A p \in Objects : /\ LiveOk(p)' /\ WaitingStays(p) /\ AnsweringStays(p) /\ WorkStays(p)
                         /\ AsksStay(p) /\ TakenStays(p)
  BY DEF ObjectStays
<1>2. ToolsInv' /\ AsksInv' /\ TakenInv'
  BY <1>1, ToolsKept, AsksKept, TakenKept DEF ResultsInv
<1>3. LiveInv'
  BY <1>1 DEF LiveInv
<1>4. RecoveredInv'
  <2> SUFFICES ASSUME NEW k \in ResultKeys, transcriptRecoveries'[k] # None PROVE RecoveredOk(k)'
    BY DEF RecoveredInv, RecoveredOk
  <2>1. Safe(k)
    BY DEF ResultsInv, RecoveredInv, RecoveredOk, Safe
  <2> QED BY <1>1, <2>1, SafeKept
<1> QED BY <1>2, <1>3, <1>4 DEF ResultsInv

LEMMA SamesGive ==
  ASSUME Base, Base', KeepsIds, ShownGrows, unshared \subseteq unshared', ResultsInv, FilesStay,
         ToolsStay, \A p \in Objects : Same(p) \/ ObjectStays(p),
         \A k \in ResultKeys : transcriptRecoveries'[k] # None => transcriptRecoveries[k] # None \/ Safe(k)
  PROVE  ResultsInv'
<1>1. \A p \in Objects : ObjectStays(p)
  BY SameStays DEF ResultsInv
<1> QED BY <1>1, StaysGive

LEMMA FilesUnmoved ==
  ASSUME UNCHANGED <<lineage, forgotten, unrecorded>>
  PROVE  FilesStay /\ \A i \in Ids : FileStays(i)
BY DEF FileStays, FilesStay

LEMMA ToolsUnmoved ==
  ASSUME Base, ToolsInv, UNCHANGED <<toolIndex, forgotten>>,
         \A i \in Ids : sessions[i] # None => sessions'[i] # None
  PROVE  ToolsStay
BY DEF ToolsStay, ToolsInv, Base, Typed, RegistryTyped

LEMMA UnmovedSame ==
  ASSUME Base, Unmoved, OpeningsStay, UNCHANGED <<toolIndex, pendingRecoveries>>,
         \A i \in Ids : FileStays(i),
         \A k \in ResultKeys : transcriptRecoveries'[k] = transcriptRecoveries[k] \/ k \in unshared',
         NEW p \in Objects, obj[p].st = "resuming" /\ Driving(p) # {} => Driving(p)' # {}
  PROVE  Same(p)
<1>1. obj'[p] = obj[p] /\ (Registered(p)' <=> Registered(p))
  BY DEF Unmoved
<1>2. ASSUME Registered(p) PROVE Steady(p)
  BY <1>2 DEF Steady, Registered, Base, SessionsInv
<1> QED BY <1>1, <1>2 DEF Same, OpeningsStay, Answering

LEMMA UnmovedGives ==
  ASSUME Base, Base', Unmoved, OpeningsStay, ResultsInv, unshared \subseteq unshared',
         UNCHANGED <<toolIndex, sessions, pendingRecoveries, forgotten>>, \A i \in Ids : FileStays(i),
         \A k \in ResultKeys : transcriptRecoveries'[k] \in {transcriptRecoveries[k], None},
         \A k \in ResultKeys : transcriptRecoveries'[k] = transcriptRecoveries[k] \/ k \in unshared',
         \A p \in Objects : obj[p].st = "resuming" /\ Driving(p) # {} => Driving(p)' # {}
  PROVE  ResultsInv'
<1>1. KeepsIds
  BY UnmovedKeepsIds
<1>2. ShownGrows
  <2>1. NothingShown
    BY SameShown DEF Unmoved, NothingShown, Unshown
  <2> QED BY <2>1, NothingGrows
<1>3. ToolsStay /\ FilesStay
  BY ToolsUnmoved DEF ResultsInv, FilesStay
<1>4. \A p \in Objects : Same(p)
  BY UnmovedSame
<1> QED BY <1>1, <1>2, <1>3, <1>4, SamesGive

LEMMA QuietResults ==
  ASSUME Base, ResultsInv, NEW r \in Requests, NEW new, QuietStep(r, new)
  PROVE  ResultsInv'
<1>1. Base' /\ req'[r] = new /\ \A q \in Requests : q # r => req'[q] = req[q]
  BY QuietBase
<1>2. Unmoved /\ OpeningsStay
  BY UnmovedSteps, QuietStay
<1>3. /\ UNCHANGED <<toolIndex, sessions, pendingRecoveries, transcriptRecoveries>>
      /\ UNCHANGED <<lineage, forgotten, unrecorded, unshared>> /\ req[r].pc = "idle"
  BY DEF QuietStep, registryVars, disk, maps, history, Arrives
<1>4. \A p \in Objects : Driving(p) # {} => Driving(p)' # {}
  BY <1>1, <1>3 DEF Driving
<1> QED BY <1>1, <1>2, <1>3, <1>4, FilesUnmoved, UnmovedGives

LEMMA AgeResults ==
  ASSUME Base, ResultsInv, AgeStep PROVE ResultsInv'
<1>1. CalmStep
  BY DEF AgeStep
<1>2. Base' /\ Unmoved
  BY <1>1, CalmBase, UnmovedSteps
<1>3. /\ OpeningsStay /\ \A p \in Objects : Driving(p)' = Driving(p)
      /\ UNCHANGED <<toolIndex, sessions, pendingRecoveries, forgotten>> /\ unshared \subseteq unshared'
      /\ \A k \in ResultKeys : transcriptRecoveries'[k] \in {transcriptRecoveries[k], None}
  BY <1>1 DEF CalmStep, OpeningsStay, Driving
<1> QED BY <1>2, <1>3, UnmovedGives DEF AgeStep

LEMMA ReleaseResults ==
  ASSUME Base, ResultsInv, NEW o \in Objects, ReleaseStep(o) PROVE ResultsInv'
<1>1. Base' /\ Unmoved /\ OpeningsStay
  BY ReleaseBase, UnmovedSteps, FreedStay DEF ReleaseStep
<1>2. /\ UNCHANGED <<toolIndex, sessions, pendingRecoveries, transcriptRecoveries>>
      /\ UNCHANGED <<lineage, forgotten, unrecorded, unshared>>
  BY DEF ReleaseStep, registryVars, disk, maps, history
<1>3. ASSUME NEW p \in Objects, obj[p].st = "resuming", Driving(p) # {} PROVE Driving(p)' # {}
  <2>1. p # o
    BY <1>3 DEF ReleaseStep, Base, StatesInv, StateOk, ActiveStates
  <2>2. DrivesKept(p)
    BY <2>1, FreedFacts DEF ReleaseStep
  <2> QED BY <1>3, <2>2, StillDriven
<1> QED BY <1>1, <1>2, <1>3, FilesUnmoved, UnmovedGives

-----------------------------------------------------------------------------
(* One session moves                                                          *)

LEMMA MovesSame ==
  ASSUME NEW o, NEW new, Moves(o, new), UNCHANGED transcriptRecoveries,
         \A r \in Requests : req'[r].pc = "opening" /\ req'[r].obj # o => req'[r] = req[r],
         NEW p \in Objects, p # o, Registered(p) => Steady(p)
  PROVE  Same(p)
BY DEF Moves, Same, Answering

LEMMA CalmSteady ==
  ASSUME UNCHANGED <<toolIndex, pendingRecoveries, lineage, forgotten, unrecorded>>,
         NEW p, Registered(p), DrivesKept(p)
  PROVE  Steady(p)
BY FilesUnmoved, StillDriven DEF Steady, FileStays

LEMMA MovesGive ==
  ASSUME Base, Base', ResultsInv, NEW o \in Objects, NEW new, Moves(o, new), ShownGrows,
         UNCHANGED <<transcriptRecoveries, unshared>>, FilesStay, ToolsStay, ObjectStays(o),
         \A r \in Requests : req'[r].pc = "opening" /\ req'[r].obj # o => req'[r] = req[r],
         \A p \in Objects : p # o /\ Registered(p) => Steady(p)
  PROVE  ResultsInv'
<1>1. \A p \in Objects : Same(p) \/ ObjectStays(p)
  BY MovesSame
<1>2. KeepsIds
  BY MovesKeepsIds
<1> QED BY ONLY <1>1, <1>2, SamesGive, Base, Base', ResultsInv, ShownGrows, FilesStay, ToolsStay,
              UNCHANGED <<transcriptRecoveries, unshared>>

LEMMA AskFocal ==
  ASSUME Base, ResultsInv, NEW o \in Objects, NEW new, AsksStep(o, new), Moves(o, new)
  PROVE  ObjectStays(o)
<1>1. /\ obj[o].run = "live" /\ obj[o].boundary = "none" /\ new.run = "live" /\ new.st = obj[o].st
      /\ new.segment = obj[o].segment /\ new.digest = obj[o].digest /\ new.boundary = "tools"
      /\ new.open = BatchOf(o, new.rounds) /\ new.id = obj[o].id /\ obj'[o] = new
      /\ UNCHANGED <<sessions, toolIndex, lineage, req, forgotten, unrecorded, transcriptRecoveries>>
      /\ Registered(o)' <=> Registered(o)
  BY DEF AsksStep, AskStep, disk, maps, history, Moves
<1>2. obj[o].st # "awaiting"
  BY <1>1 DEF Base, StatesInv, StateOk
<1>3. LiveOk(o)'
  <2>1. CASE Registered(o)
    <3>1. WorksOk(o) /\ FileOk(o)
      BY <2>1 DEF ResultsInv, LiveInv, LiveOk
    <3>2. WorksOk(o)'
      BY <1>1, <3>1 DEF WorksOk, Driving
    <3>3. FileOk(o)'
      BY <1>1, <3>1 DEF FileOk, Certain
    <3>4. WaitsOk(o)' /\ SendsOk(o)' /\ MineOk(o)'
      BY <1>1, <1>2 DEF WaitsOk, SendsOk, MineOk
    <3> QED BY <3>2, <3>3, <3>4 DEF LiveOk
  <2> QED BY <1>1, <2>1 DEF LiveOk
<1>4. WaitingStays(o) /\ AnsweringStays(o) /\ WorkStays(o) /\ AsksStay(o)
  BY <1>1, <1>2 DEF WaitingStays, AnsweringStays, Answering, WorkStays, AsksStay
<1>5. TakenStays(o)
  BY <1>1 DEF TakenStays, Busy
<1> QED BY <1>3, <1>4, <1>5 DEF ObjectStays

LEMMA AskResults ==
  ASSUME Base, ResultsInv, NEW o \in Objects, NEW new, AsksStep(o, new)
  PROVE  ResultsInv'
<1>1. AskStep(o, new)
  BY DEF AsksStep
<1>2. Base' /\ Moves(o, new) /\ ShownGrows
  BY <1>1, AskBase, AskMoves, AskShown, NothingGrows
<1>3. UNCHANGED <<sessions, toolIndex, lineage, req, forgotten, unrecorded, unshared,
                  pendingRecoveries, transcriptRecoveries>>
  BY <1>1 DEF AskStep, disk, maps, history
<1>4. FilesStay /\ ToolsStay
  BY <1>3, FilesUnmoved, ToolsUnmoved DEF ResultsInv
<1>5. \A p \in Objects : p # o /\ Registered(p) => Steady(p)
  BY <1>3, CalmSteady DEF DrivesKept
<1>6. ObjectStays(o)
  BY <1>2, AskFocal
<1> QED BY <1>2, <1>3, <1>4, <1>5, <1>6, MovesGive

LEMMA EndFocal ==
  ASSUME Base, ResultsInv, NEW o \in Objects, NEW new, EndsStep(o, new), Moves(o, new)
  PROVE  ObjectStays(o)
<1>1. /\ obj[o].run \in {"live", "cancelled"} /\ new.id = obj[o].id /\ obj'[o] = new
      /\ UNCHANGED <<sessions, toolIndex, lineage, req, forgotten, unrecorded, transcriptRecoveries>>
      /\ Registered(o)' <=> Registered(o)
  BY DEF EndsStep, EndStep, disk, maps, history, Moves
<1>2. ~Opening(o) /\ (Opening(o)' <=> Opening(o))
  BY <1>1 DEF Opening, Base, ReqInv, OpeningOk
<1>3. CASE new = Gone(o)
  <2>1. /\ new.run = "none" /\ new.boundary = "none" /\ new.segment = NoKey
        /\ NoKey \notin ResultKeys
    BY <1>3, GoneFacts, KeyFacts
  <2>2. ~Registered(o)
    <3>1. Registered(o) => obj[o].run = "live"
      BY <1>1 DEF Base, StatesInv, DrivenOk
    <3>2. obj[o].run = "cancelled" \/ new.run = "over"
      BY DEF EndsStep, EndStep
    <3> QED BY <2>1, <3>1, <3>2
  <2> QED BY <1>1, <2>1, <2>2
          DEF ObjectStays, LiveOk, WaitingStays, AnsweringStays, Answering, WorkStays, AsksStay, TakenStays
<1>4. CASE /\ new.digest = obj[o].digest /\ new.open = obj[o].open /\ new.run = "over"
           /\ new # Gone(o)
  <2>1. /\ new.st = obj[o].st /\ new.segment = obj[o].segment /\ new.boundary \in {"final", "error"}
        /\ new.credential = obj[o].credential
    BY <1>4 DEF EndsStep, EndStep
  <2>2. LiveOk(o)'
    <3>1. CASE Registered(o)
      <4>1. WaitsOk(o) /\ WorksOk(o) /\ FileOk(o)
        BY <3>1 DEF ResultsInv, LiveInv, LiveOk
      <4>2. WaitsOk(o)'
        BY <1>1, <1>4, <2>1, <4>1 DEF WaitsOk
      <4>3. WorksOk(o)'
        BY <1>1, <1>4, <2>1, <4>1 DEF WorksOk, Driving
      <4>4. FileOk(o)'
        BY <1>1, <1>4, <2>1, <4>1 DEF FileOk, Certain
      <4>5. SendsOk(o)' /\ MineOk(o)'
        BY <1>1, <1>4, <2>1 DEF SendsOk, MineOk
      <4> QED BY <4>2, <4>3, <4>4, <4>5 DEF LiveOk
    <3> QED BY <1>1, <3>1 DEF LiveOk
  <2>3. WaitingStays(o) /\ AnsweringStays(o) /\ WorkStays(o) /\ AsksStay(o)
    BY <1>1, <1>4, <2>1 DEF WaitingStays, AnsweringStays, Answering, WorkStays, AsksStay
  <2>4. TakenStays(o)
    BY <1>1, <1>2, <1>4 DEF TakenStays, Busy
  <2> QED BY <2>2, <2>3, <2>4 DEF ObjectStays
<1> QED BY <1>3, <1>4 DEF EndsStep

LEMMA EndResults ==
  ASSUME Base, ResultsInv, NEW o \in Objects, NEW new, EndsStep(o, new)
  PROVE  ResultsInv'
<1>1. EndStep(o, new)
  BY DEF EndsStep
<1>2. Base' /\ Moves(o, new) /\ ShownGrows
  BY <1>1, EndBase, EndMoves, EndShown, NothingGrows
<1>3. UNCHANGED <<sessions, toolIndex, lineage, req, forgotten, unrecorded, unshared,
                  pendingRecoveries, transcriptRecoveries>>
  BY <1>1 DEF EndStep, disk, maps, history
<1>4. FilesStay /\ ToolsStay
  BY <1>3, FilesUnmoved, ToolsUnmoved DEF ResultsInv
<1>5. \A p \in Objects : p # o /\ Registered(p) => Steady(p)
  BY <1>3, CalmSteady DEF DrivesKept
<1>6. ObjectStays(o)
  BY <1>2, EndFocal
<1> QED BY <1>2, <1>3, <1>4, <1>5, <1>6, MovesGive

LEMMA AcceptFocal ==
  ASSUME Known, ResultsInv, NEW r \in Requests, NEW o \in Objects, NEW new, NEW ask,
         AcceptsStep(r, o, new, ask), Moves(o, new)
  PROVE  ObjectStays(o)
<1> DEFINE k == ask.key
<1>1. /\ Base /\ FileInv /\ Registered(o) /\ (Registered(o)' <=> Registered(o)) /\ obj'[o] = new
      /\ new.id = obj[o].id /\ obj[o].id \in Ids
      /\ UNCHANGED <<sessions, toolIndex, lineage, forgotten, unrecorded>>
  BY DEF Known, AcceptsStep, AcceptStep, disk, maps, history, Moves, Base, SessionsInv, Registered
<1>2. /\ k \in ResultKeys /\ k.of \in Batches /\ Shown(k.of) /\ toolIndex[k.of] = obj[o].id
      /\ Accepts(o, k)
      /\ new.st = "resuming" /\ new.digest = k /\ new.segment = k /\ new.boundary = "none"
      /\ new.run = obj[o].run /\ new.pending = obj[o].pending
  BY KeyFacts DEF AcceptsStep, AcceptStep
<1> HIDE DEF k
<1>3. obj[o].st = "awaiting" /\ obj[o].open = k.of /\ obj[o].credential = k.by
  BY <1>2 DEF Accepts
<1>4. obj[o].run # "none" /\ k.of \in obj[o].pending
  BY <1>1, <1>2, <1>3, NoneFacts DEF Base, StatesInv, StateOk, Typed, ObjectsTyped
<1>5. Driving(o)' # {}
  <2>1. req'[r] = ask /\ ask.pc = "driving" /\ ask.obj = o
    BY <1>1, AskTyped DEF AcceptsStep, AcceptStep, Base, Typed
  <2> QED BY <2>1 DEF Driving
<1>6. WaitsOk(o)' /\ WorksOk(o)' /\ SendsOk(o)' /\ MineOk(o)'
  BY <1>1, <1>2, <1>4, <1>5 DEF WaitsOk, WorksOk, SendsOk, MineOk
<1>7. FileOk(o)'
  <2> SUFFICES ASSUME Certain(obj[o].id), lineage[obj[o].id].st = "awaiting"
               PROVE  k.of \in lineage[obj[o].id].pending
    BY <1>1, <1>2 DEF FileOk, Certain
  <2>1. lineage[obj[o].id] = RecordOf(o, "awaiting")
    BY <1>1, <1>3 DEF FileInv, AtRest, Recorded, Certain, NoFile
  <2> QED BY <1>4, <2>1 DEF RecordOf
<1>8. WaitingStays(o) /\ AnsweringStays(o) /\ AsksStay(o)
  BY <1>1, <1>2, <1>3 DEF WaitingStays, AnsweringStays, Answering, AsksStay
<1>9. WorkStays(o)
  <2>1. ~NotAwaited(k)
    BY <1>1, <1>3 DEF NotAwaited
  <2>2. FileStays(obj[o].id)
    BY <1>1, FilesUnmoved
  <2> QED BY <1>1, <1>2, <2>1, <2>2 DEF WorkStays
<1>10. TakenStays(o)
  <2>1. HomeOf(k.of) = obj[o].id
    BY <1>1, <1>2, HomeOfBatch, NoneFacts DEF ResultsInv, ToolsInv
  <2> QED BY <1>1, <1>2, <2>1 DEF TakenStays
<1> QED BY <1>6, <1>7, <1>8, <1>9, <1>10 DEF ObjectStays, LiveOk

LEMMA AcceptResultsKept ==
  ASSUME Known, ResultsInv, NEW r \in Requests, NEW o \in Objects, NEW new, NEW ask,
         AcceptsStep(r, o, new, ask)
  PROVE  ResultsInv'
<1>1. AcceptStep(r, o, new, ask) /\ Base
  BY DEF AcceptsStep, Known
<1>2. Base' /\ Moves(o, new) /\ OpeningsStay
  BY <1>1, AcceptBase, AcceptMoves, AcceptStay
<1>3. /\ UNCHANGED <<sessions, toolIndex, lineage, forgotten, unrecorded, unshared,
                     pendingRecoveries, transcriptRecoveries>>
      /\ new.rounds = obj[o].rounds /\ new.boundary = "none" /\ Drained /\ req[r].pc = "idle"
  BY <1>1 DEF AcceptStep, disk, maps, history, Arrives
<1>4. FilesStay /\ ToolsStay
  BY <1>1, <1>3, FilesUnmoved, ToolsUnmoved DEF ResultsInv
<1>5. ShownGrows
  BY <1>1, <1>2, <1>3, DrainedShown, MovesShown, NothingGrows
<1>6. \A q \in Requests : q # r => req'[q] = req[q]
  BY <1>1, AskTyped DEF AcceptStep, Base, Typed
<1>7. \A p \in Objects : p # o /\ Registered(p) => Steady(p)
  BY <1>3, <1>6, CalmSteady DEF DrivesKept
<1>8. ObjectStays(o)
  BY <1>2, AcceptFocal
<1> QED BY <1>1, <1>2, <1>3, <1>4, <1>5, <1>7, <1>8, MovesGive DEF OpeningsStay

LEMMA FollowFocal ==
  ASSUME Known, NEW r \in Requests, NEW o \in Objects, NEW new, NEW ask,
         FollowsStep(r, o, new, ask), Moves(o, new)
  PROVE  ObjectStays(o)
<1>1. /\ Base /\ FileInv /\ Registered(o) /\ (Registered(o)' <=> Registered(o)) /\ obj'[o] = new
      /\ new.id = obj[o].id /\ obj[o].id \in Ids /\ obj[o].st = "completed"
      /\ new.st = "running" /\ new.boundary = "none" /\ new.segment = NextKey(obj[o].id)
      /\ UNCHANGED <<lineage, forgotten, unrecorded>>
  BY DEF Known, FollowsStep, FollowStep, disk, maps, history, Moves, Base, SessionsInv, Registered
<1>2. new.segment \notin ResultKeys
  BY <1>1, KeyFacts
<1>3. FileOk(o)'
  <2> SUFFICES ASSUME Certain(obj[o].id) PROVE lineage[obj[o].id].st # "awaiting"
    BY <1>1 DEF FileOk, Certain
  <2>1. lineage[obj[o].id] \in {NoFile, RecordOf(o, "completed")}
    BY <1>1 DEF FileInv, AtRest, Recorded, Certain
  <2> QED BY <2>1 DEF NoFile, RecordOf
<1>4. LiveOk(o)'
  BY <1>1, <1>2, <1>3 DEF LiveOk, WaitsOk, WorksOk, SendsOk, MineOk
<1> QED BY <1>1, <1>2, <1>4
        DEF ObjectStays, WaitingStays, AnsweringStays, Answering, WorkStays, AsksStay, TakenStays

LEMMA FollowResults ==
  ASSUME Known, ResultsInv, NEW r \in Requests, NEW o \in Objects, NEW new, NEW ask,
         FollowsStep(r, o, new, ask)
  PROVE  ResultsInv'
<1>1. FollowStep(r, o, new, ask) /\ Base /\ BatchesInv
  BY DEF FollowsStep, Known
<1>2. Base' /\ Moves(o, new)
  BY <1>1, FollowBase, FollowMoves
<1>3. /\ UNCHANGED <<sessions, lineage, forgotten, unrecorded, unshared, pendingRecoveries,
                     transcriptRecoveries>>
      /\ new.rounds = obj[o].rounds /\ new.boundary = "none" /\ Drained /\ req[r].pc = "idle"
      /\ Registered(o) /\ ask.obj = o
  BY <1>1 DEF FollowStep, disk, maps, history, Arrives
<1>4. toolIndex' = [b \in Batches |-> IF b \in obj[o].pending THEN None ELSE toolIndex[b]]
  BY DEF FollowsStep
<1>5. FilesStay /\ (\A i \in Ids : FileStays(i)) /\ ToolsStay
  <2>1. FilesStay /\ \A i \in Ids : FileStays(i)
    BY <1>3, FilesUnmoved
  <2>2. ToolsStay
    BY <1>3, <1>4 DEF ToolsStay, ResultsInv, ToolsInv
  <2> QED BY <2>1, <2>2
<1>6. ShownGrows
  BY <1>1, <1>2, <1>3, DrainedShown, MovesShown, NothingGrows
<1>7. req'[r] = ask /\ \A q \in Requests : q # r => req'[q] = req[q]
  BY <1>1, AskTyped DEF FollowStep, Base, Typed
<1>8. ASSUME NEW p \in Objects, p # o, Registered(p) PROVE Steady(p)
  <2>1. PICK i \in Ids : i = obj[p].id
    BY <1>1, <1>8 DEF Registered, Base, SessionsInv
  <2>2. ASSUME NEW b \in Batches, toolIndex[b] = i PROVE b \notin obj[o].pending
    <3>1. HomeOf(b) = i
      BY <1>1, <2>1, <2>2, HomeOfBatch, NoneFacts DEF ResultsInv, ToolsInv
    <3>2. b \in obj[o].pending => HomeOf(b) = obj[o].id
      BY <1>1, HomeOfPending
    <3> QED BY <1>3, <1>8, <2>1, <3>1, <3>2, RegisteredAlone
  <2>3. \A b \in Batches : toolIndex'[b] = i <=> toolIndex[b] = i
    BY <1>4, <2>2, <2>1, NoneFacts
  <2>4. DrivesKept(p)
    BY <1>3, <1>7 DEF DrivesKept
  <2> QED BY <1>3, <1>5, <1>8, <2>1, <2>3, <2>4, StillDriven DEF Steady
<1>9. ObjectStays(o)
  BY <1>2, FollowFocal
<1>10. \A q \in Requests : req'[q].pc = "opening" /\ req'[q].obj # o => req'[q] = req[q]
  BY <1>3, <1>7
<1> QED BY <1>1, <1>2, <1>3, <1>5, <1>6, <1>8, <1>9, <1>10, MovesGive

LEMMA OpensFocal ==
  ASSUME Known, ResultsInv, NEW r \in Requests, NEW o \in Objects, NEW new,
         OpensStep(r, o, new), Moves(o, new), OpeningOk(r)
  PROVE  ObjectStays(o)
<1>1. /\ Base /\ req[r].pc = "opening" /\ req[r].obj = o /\ (Registered(o)' <=> Registered(o))
      /\ obj'[o] = new /\ new.id = obj[o].id /\ new.run = "live" /\ new.digest = obj[o].digest
      /\ new.segment = obj[o].segment /\ new.boundary = obj[o].boundary
      /\ new.st = IF req[r].mode \in {"start", "transcript"} THEN "running" ELSE obj[o].st
      /\ UNCHANGED <<lineage, forgotten, unrecorded, transcriptRecoveries>> /\ GoesOnStep(r, o)
  BY DEF Known, OpensStep, OpenedStep, history, Moves, GoesOnStep
<1>2. /\ obj[o].run = "none" /\ obj[o].boundary # "tools" /\ Busy(o)
      /\ obj[o].st \in {"creating", "running", "resuming", "closed"}
      /\ obj[o].st = "resuming" => req[r].mode \notin {"start", "transcript"}
  BY <1>1 DEF OpeningOk, Base, StatesInv, StateOk, Busy, Opening
<1>3. new.st # "awaiting" /\ (new.st = "resuming" <=> obj[o].st = "resuming")
  BY <1>1, <1>2
<1>4. ASSUME Registered(o), obj[o].st = "resuming"
      PROVE  /\ obj[o].digest \in ResultKeys /\ toolIndex'[obj[o].digest.of] = obj[o].id
             /\ Driving(o)' # {}
  <2>1. SendsOk(o)
    BY <1>4 DEF ResultsInv, LiveInv, LiveOk
  <2>2. obj[o].digest \in ResultKeys /\ req[r].mode = "pending" /\ req[r].key = obj[o].digest
    BY <1>1, <1>2, <1>4, <2>1 DEF SendsOk
  <2>3. obj[o].digest.of \in Batches /\ toolIndex' = [toolIndex EXCEPT ![obj[o].digest.of] = obj[o].id]
    BY <2>2, KeyFacts DEF OpensStep
  <2>4. toolIndex'[obj[o].digest.of] = obj[o].id
    BY <1>1, <2>3 DEF Base, Typed, RegistryTyped
  <2>5. req'[r].pc = "driving" /\ req'[r].obj = o
    BY <1>1, GoesOn DEF Resolved
  <2> QED BY <2>2, <2>4, <2>5 DEF Driving
<1>5. LiveOk(o)'
  <2>1. CASE Registered(o)
    <3>1. FileOk(o) /\ MineOk(o)
      BY <2>1 DEF ResultsInv, LiveInv, LiveOk
    <3>2. WaitsOk(o)' /\ WorksOk(o)' /\ SendsOk(o)'
      BY <1>1, <1>3, <1>4, <2>1 DEF WaitsOk, WorksOk, SendsOk
    <3>3. FileOk(o)'
      BY <1>1, <1>2, <1>3, <3>1 DEF FileOk, Certain
    <3>4. MineOk(o)'
      <4> SUFFICES ASSUME NEW l \in ResultKeys, l = new.segment, obj[o].boundary = "none",
                          obj[o].id = HomeOf(l.of)'
                   PROVE  new.st = "resuming" /\ new.digest = l
        BY <1>1 DEF MineOk
      <4>1. Shown(l.of)
        BY <1>1 DEF ResultsInv, AsksInv, AsksOk
      <4>2. HomeOf(l.of)' = HomeOf(l.of)
        BY <1>1, <4>1, MovesKeepsIds, HomeKept
      <4> QED BY <1>1, <1>2, <1>3, <3>1, <4>2 DEF MineOk
    <3> QED BY <3>2, <3>3, <3>4 DEF LiveOk
  <2> QED BY <1>1, <2>1 DEF LiveOk
<1>6. WaitingStays(o) /\ AnsweringStays(o) /\ AsksStay(o)
  BY <1>1, <1>2, <1>3 DEF WaitingStays, AnsweringStays, Answering, AsksStay
<1>7. WorkStays(o) /\ TakenStays(o)
  <2>1. Registered(o) => FileStays(obj[o].id)
    BY <1>1, FilesUnmoved DEF Registered, Base, SessionsInv
  <2> QED BY <1>1, <1>2, <2>1 DEF WorkStays, TakenStays
<1> QED BY <1>5, <1>6, <1>7 DEF ObjectStays

LEMMA OpensOthers ==
  ASSUME Known, ToolsInv, NEW r \in Requests, NEW o \in Objects, NEW new, OpensStep(r, o, new),
         NEW p \in Objects, p # o, Registered(p)
  PROVE  Steady(p)
<1>1. /\ Base /\ UseInv /\ BatchesInv /\ req[r].pc = "opening" /\ req[r].obj = o
      /\ UNCHANGED <<lineage, forgotten, unrecorded>> /\ Resolve(r, o, TRUE) /\ GoesOnStep(r, o)
      /\ toolIndex' = IF req[r].mode = "pending" THEN [toolIndex EXCEPT ![req[r].key.of] = obj[o].id]
                      ELSE toolIndex
  BY DEF Known, OpensStep, OpenedStep, history, GoesOnStep
<1>2. PICK i \in Ids : i = obj[p].id
  BY <1>1 DEF Registered, Base, SessionsInv
<1>3. \A q \in Requests : ~Resolved(r, o, q) => req'[q] = req[q]
  BY <1>1, GoesOnRest
<1>4. DrivesKept(p)
  BY <1>1, <1>3 DEF DrivesKept, Resolved
<1>5. pendingRecoveries[i].obj = p => pendingRecoveries'[i] = pendingRecoveries[i]
  BY <1>1, <1>2 DEF Resolve
<1>6. /\ \A b \in Batches : toolIndex[b] = i => toolIndex'[b] = i
      /\ forgotten[i] = {} => \A b \in Batches : toolIndex'[b] = i => toolIndex[b] = i
  <2>1. CASE req[r].mode = "pending"
    <3>1. BatchIn(req[r].key.of, obj[o].id) /\ req[r].key.of \in Batches
      BY <1>1, <2>1, KeyFacts DEF BatchesInv, Base, Typed, RequestsTyped
    <3>2. PICK k \in Batches : k = req[r].key.of
      BY <3>1
    <3>3. toolIndex'[k] = obj[o].id /\ \A b \in Batches : b # k => toolIndex'[b] = toolIndex[b]
      BY <1>1, <2>1, <3>2 DEF Base, Typed, RegistryTyped
    <3>4. toolIndex[k] = i => obj[o].id = i
      BY <1>1, <3>1, <3>2, HomeOfBatch, NoneFacts DEF ToolsInv
    <3>5. obj[o].id = i => forgotten[i] # {}
      <4>1. Busy(o) /\ Exists(o)
        BY <1>1 DEF Busy, Opening, Base, ReqInv
      <4>2. obj[o].id = i => ~Registered(o)
        BY <1>2, RegisteredAlone
      <4> QED BY <1>1, <4>1, <4>2 DEF UseInv
    <3> QED BY <3>3, <3>4, <3>5
  <2>2. CASE req[r].mode # "pending"
    BY <1>1, <2>2
  <2> QED BY <2>1, <2>2
<1>7. FileStays(i)
  BY <1>1, FilesUnmoved
<1> QED BY <1>1, <1>2, <1>4, <1>5, <1>6, <1>7, StillDriven DEF Steady

LEMMA OpensResults ==
  ASSUME Known, ResultsInv, NEW r \in Requests, NEW o \in Objects, NEW new, OpensStep(r, o, new)
  PROVE  ResultsInv'
<1>1. OpenedStep(r, o, new) /\ Base /\ BatchesInv /\ UseInv /\ ToolsInv
  BY DEF OpensStep, Known, ResultsInv
<1>2. Base' /\ Moves(o, new) /\ OpeningsStay /\ OpeningOk(r)
  BY <1>1, OpenedBase, OpenedMoves, OpenedStay
<1>3. /\ UNCHANGED <<sessions, lineage, forgotten, unrecorded, unshared, transcriptRecoveries>>
      /\ new.rounds = obj[o].rounds /\ new.boundary = obj[o].boundary /\ new.applied = obj[o].applied
      /\ req[r].pc = "opening" /\ req[r].obj = o
      /\ toolIndex' = IF req[r].mode = "pending" THEN [toolIndex EXCEPT ![req[r].key.of] = obj[o].id]
                      ELSE toolIndex
  BY <1>1 DEF OpenedStep, history, OpensStep
<1>4. FilesStay /\ ShownGrows
  BY <1>1, <1>2, <1>3, FilesUnmoved, MovesShown, NothingGrows
<1>5. ToolsStay
  <2> SUFFICES ASSUME NEW b \in Batches, toolIndex'[b] # None
               PROVE  /\ toolIndex'[b] = toolIndex[b] \/ BatchIn(b, toolIndex'[b])
                      /\ forgotten[toolIndex'[b]] = {} => sessions[toolIndex'[b]] # None
    BY <1>3 DEF ToolsStay
  <2>1. CASE toolIndex'[b] = toolIndex[b]
    BY <1>1, <2>1 DEF ToolsInv
  <2>2. CASE toolIndex'[b] # toolIndex[b]
    <3>1. req[r].mode = "pending" /\ b = req[r].key.of /\ toolIndex'[b] = obj[o].id
      BY <1>1, <1>3, <2>2 DEF Base, Typed, RegistryTyped
    <3>2. BatchIn(b, obj[o].id)
      BY <1>1, <1>3, <3>1 DEF BatchesInv
    <3>3. Busy(o) /\ Exists(o)
      BY <1>1, <1>3 DEF Busy, Opening, Base, ReqInv
    <3>4. forgotten[obj[o].id] = {} => Registered(o)
      BY <1>1, <3>3 DEF UseInv
    <3> QED BY <3>1, <3>2, <3>4, NoneFacts DEF Registered
  <2> QED BY <2>1, <2>2
<1>6. \A p \in Objects : p # o /\ Registered(p) => Steady(p)
  BY <1>1, OpensOthers
<1>7. ObjectStays(o)
  BY <1>2, OpensFocal
<1> QED BY <1>1, <1>2, <1>3, <1>4, <1>5, <1>6, <1>7, MovesGive DEF OpeningsStay

\* Answering gives the file of the session, if any, only what was not shown.
LEMMA AnswersFile ==
  ASSUME Known, NEW o \in Objects, NEW new, AnswersStep(o, new), Moves(o, new)
  PROVE  /\ obj[o].id \in Ids
         /\ \A i \in Ids : i # obj[o].id => FileStays(i)
         /\ FileIsNew(obj[o].id)
         /\ obj[o].id \in unrecorded' \/ lineage'[obj[o].id] = RecordOf(o, new.st)
         /\ new.st = "awaiting" =>
              /\ obj[o].boundary = "tools" /\ BatchOf(o, obj[o].rounds) \in obj[o].pending
              /\ ~Shown(BatchOf(o, obj[o].rounds))
<1>1. /\ Base /\ BatchesInv /\ Exists(o) /\ PersistLineage(o, new.st) /\ ~obj[o].applied
      /\ new.st = StateAfter(obj[o].boundary) /\ obj[o].boundary \in {"tools", "final", "error"}
      /\ forgotten' = forgotten /\ obj'[o].id = obj[o].id
  BY DEF Known, AnswersStep, AnswerStep, Moves, Base, Typed, ObjectsTyped, Object
<1>2. new.st \in {"awaiting", "completed", "failed"}
  BY <1>1 DEF StateAfter
<1>3. /\ obj[o].id \in Ids
      /\ \A i \in Ids : i # obj[o].id => lineage'[i] = lineage[i] /\ (i \in unrecorded' <=> i \in unrecorded)
      /\ (lineage'[obj[o].id] = RecordOf(o, new.st) /\ obj[o].id \notin unrecorded')
         \/ obj[o].id \in unrecorded'
  BY <1>1, <1>2, WriteFacts
<1>4. ASSUME new.st = "awaiting"
      PROVE  /\ obj[o].boundary = "tools" /\ BatchOf(o, obj[o].rounds) \in obj[o].pending
             /\ ~Shown(BatchOf(o, obj[o].rounds))
  <2>1. obj[o].boundary = "tools"
    BY <1>1, <1>4 DEF StateAfter
  <2>2. Unshown(o) /\ obj[o].rounds > 0
    BY <1>1, <2>1 DEF Unshown, Base, Typed, ObjectsTyped
  <2> QED BY <1>1, <2>1, <2>2, UnshownBatch DEF BatchesInv
<1>5. FileIsNew(obj[o].id)
  <2> SUFFICES ASSUME Certain(obj[o].id)', lineage'[obj[o].id].st = "awaiting"
               PROVE  \E b \in lineage'[obj[o].id].pending : ~Shown(b)
    BY DEF FileIsNew, Certain
  <2>1. lineage'[obj[o].id] = RecordOf(o, new.st)
    <3>1. obj'[o].id \notin unrecorded'
      BY DEF Certain
    <3> QED BY <1>1, <1>3, <3>1
  <2>2. new.st = "awaiting" /\ lineage'[obj[o].id].pending = obj[o].pending
    BY <2>1 DEF RecordOf
  <2> QED BY <1>4, <2>2
<1>6. \A i \in Ids : i # obj[o].id => FileStays(i)
  BY <1>1, <1>3 DEF FileStays
<1> QED BY <1>3, <1>4, <1>5, <1>6

LEMMA AnswersFocal ==
  ASSUME Known, ResultsInv, NEW o \in Objects, NEW new, AnswersStep(o, new), Moves(o, new)
  PROVE  ObjectStays(o)
<1>1. /\ Base /\ (Registered(o)' <=> Registered(o)) /\ obj'[o] = new /\ new.id = obj[o].id
      /\ new.open = obj[o].open /\ new.segment = obj[o].segment /\ new.boundary = obj[o].boundary
      /\ new.rounds = obj[o].rounds /\ new.run = obj[o].run /\ obj[o].boundary # "none"
      /\ new.st = "awaiting" => new.digest = NoKey
      /\ new.st \in {"awaiting", "completed", "failed"} /\ Freed(o)
      /\ UNCHANGED transcriptRecoveries
  BY AnswerMoves DEF Known, AnswersStep, AnswerStep, Moves, maps
<1>2. PICK i \in Ids : i = obj[o].id
  BY AnswersFile
<1>3. /\ FileIsNew(i) /\ (i \in unrecorded' \/ lineage'[i] = RecordOf(o, new.st))
      /\ new.st = "awaiting" =>
           /\ obj[o].boundary = "tools" /\ BatchOf(o, obj[o].rounds) \in obj[o].pending
           /\ ~Shown(BatchOf(o, obj[o].rounds))
  BY <1>2, AnswersFile
<1>4. ASSUME new.st = "awaiting"
      PROVE  /\ obj[o].open = BatchOf(o, obj[o].rounds) /\ obj[o].open \in Batches
             /\ obj[o].open # NoBatch /\ toolIndex'[obj[o].open] = i /\ ~Shown(obj[o].open)
  <2>1. obj[o].open = BatchOf(o, obj[o].rounds)
    BY <1>3, <1>4 DEF ResultsInv, AsksInv, AsksOk
  <2>2. obj[o].open \in obj[o].pending /\ obj[o].pending \subseteq Batches
    BY <1>1, <1>3, <1>4, <2>1 DEF Base, Typed, ObjectsTyped, Object
  <2>3. toolIndex' = [b \in Batches |-> IF new.st = "awaiting" /\ b \in obj[o].pending THEN obj[o].id
                                        ELSE toolIndex[b]]
    BY DEF AnswersStep
  <2>4. toolIndex'[obj[o].open] = i
    BY <1>2, <1>4, <2>2, <2>3
  <2> QED BY <1>3, <1>4, <2>1, <2>2, <2>4, NoneFacts
<1>5. FileOk(o)'
  <2> SUFFICES ASSUME Certain(i)', lineage'[i].st = "awaiting" PROVE new.st = "awaiting"
    BY <1>1, <1>2 DEF FileOk
  <2>1. lineage'[i] = RecordOf(o, new.st)
    BY <1>3 DEF Certain
  <2> QED BY <2>1 DEF RecordOf
<1>6. LiveOk(o)'
  BY <1>1, <1>2, <1>4, <1>5 DEF LiveOk, WaitsOk, WorksOk, SendsOk, MineOk
<1>7. WaitingStays(o) /\ AnsweringStays(o) /\ WorkStays(o) /\ AsksStay(o)
  BY <1>1, <1>2, <1>3, <1>4 DEF WaitingStays, AnsweringStays, WorkStays, AsksStay
<1>8. TakenStays(o)
  <2>1. Busy(o)' => Busy(o)
    BY <1>1, FreedStay, StayOpenings DEF Busy
  <2> QED BY <1>1, <2>1 DEF TakenStays
<1> QED BY <1>6, <1>7, <1>8 DEF ObjectStays

LEMMA AnswersOthers ==
  ASSUME Known, ToolsInv, NEW o \in Objects, NEW new, AnswersStep(o, new), Moves(o, new),
         NEW p \in Objects, p # o, Registered(p)
  PROVE  Steady(p)
<1>1. /\ Base /\ LeftInv /\ BatchesInv /\ Freed(o) /\ Exists(o) /\ Driving(o) # {}
      /\ UNCHANGED <<pendingRecoveries, forgotten>>
  BY DEF Known, AnswersStep, AnswerStep, Moves, maps
<1>2. PICK i \in Ids : i = obj[p].id
  BY <1>1 DEF Registered, Base, SessionsInv
<1>3. DrivesKept(p)
  BY <1>1, FreedFacts
<1>4. CASE obj[o].id = i
  <2>1. ~Registered(o) /\ Held(o)
    BY <1>1, <1>2, <1>4, RegisteredAlone DEF Held, Driving
  <2>2. forgotten[i] # {}
    BY <1>1, <1>4, <2>1 DEF LeftInv
  <2>3. \A b \in Batches : toolIndex[b] = i => toolIndex'[b] = i
    BY <1>4 DEF AnswersStep
  <2> QED BY <1>1, <1>2, <1>3, <2>2, <2>3, StillDriven DEF Steady, FileStays
<1>5. CASE obj[o].id # i
  <2>1. \A b \in Batches : toolIndex'[b] = i => toolIndex[b] = i
    BY <1>5 DEF AnswersStep
  <2>2. ASSUME NEW b \in Batches, toolIndex[b] = i PROVE b \notin obj[o].pending
    <3>1. HomeOf(b) = i
      BY <1>1, <1>2, <2>2, HomeOfBatch, NoneFacts DEF ToolsInv
    <3>2. b \in obj[o].pending => HomeOf(b) = obj[o].id
      BY <1>1, HomeOfPending
    <3> QED BY <1>5, <3>1, <3>2
  <2>3. \A b \in Batches : toolIndex[b] = i => toolIndex'[b] = i
    BY <2>2 DEF AnswersStep
  <2>4. FileStays(i)
    BY <1>5, AnswersFile
  <2> QED BY <1>1, <1>2, <1>3, <2>1, <2>3, <2>4, StillDriven DEF Steady
<1> QED BY <1>4, <1>5

LEMMA AnswersResults ==
  ASSUME Known, ResultsInv, NEW o \in Objects, NEW new, AnswersStep(o, new)
  PROVE  ResultsInv'
<1>1. AnswerStep(o, new) /\ Base /\ BatchesInv /\ LeftInv /\ ToolsInv
  BY DEF AnswersStep, Known, ResultsInv
<1>2. Base' /\ Moves(o, new) /\ OpeningsStay
  BY <1>1, AnswerBase, AnswerMoves, FreedStay DEF AnswerStep
<1>3. /\ UNCHANGED <<sessions, forgotten, unshared, pendingRecoveries, transcriptRecoveries>>
      /\ new.rounds = obj[o].rounds /\ new.applied /\ Driving(o) # {} /\ Exists(o)
      /\ toolIndex' = [b \in Batches |-> IF new.st = "awaiting" /\ b \in obj[o].pending THEN obj[o].id
                                         ELSE toolIndex[b]]
  BY <1>1, <1>2 DEF AnswerStep, maps, AnswersStep, Moves
<1>4. FilesStay
  BY <1>2, AnswersFile DEF FilesStay
<1>5. ShownGrows
  <2> SUFFICES ASSUME NEW p \in Objects PROVE ShownRounds(p)' >= ShownRounds(p)
    BY DEF ShownGrows
  <2>1. obj[p].rounds \in Int /\ obj'[p].rounds = obj[p].rounds
    BY <1>1, <1>2, <1>3, RoundsFacts DEF Moves
  <2>2. Unshown(p)' => Unshown(p)
    BY <1>2, <1>3 DEF Moves, Unshown
  <2> QED BY <2>1, <2>2 DEF ShownRounds
<1>6. ToolsStay
  <2> SUFFICES ASSUME NEW b \in Batches, toolIndex'[b] # None
               PROVE  /\ toolIndex'[b] = toolIndex[b] \/ BatchIn(b, toolIndex'[b])
                      /\ forgotten[toolIndex'[b]] = {} => sessions[toolIndex'[b]] # None
    BY <1>3 DEF ToolsStay
  <2>1. CASE toolIndex'[b] = toolIndex[b]
    BY <1>1, <2>1 DEF ToolsInv
  <2>2. CASE toolIndex'[b] # toolIndex[b]
    <3>1. b \in obj[o].pending /\ toolIndex'[b] = obj[o].id
      BY <1>3, <2>2
    <3>2. BatchIn(b, obj[o].id)
      BY <1>1, <1>3, <3>1 DEF BatchesInv, BatchIn
    <3>3. forgotten[obj[o].id] = {} => Registered(o)
      BY <1>1, <1>3 DEF LeftInv, Held, Driving
    <3> QED BY <3>1, <3>2, <3>3, NoneFacts DEF Registered
  <2> QED BY <2>1, <2>2
<1>7. \A p \in Objects : p # o /\ Registered(p) => Steady(p)
  BY <1>1, <1>2, AnswersOthers
<1>8. ObjectStays(o)
  BY <1>2, AnswersFocal
<1> QED BY <1>1, <1>2, <1>3, <1>4, <1>5, <1>6, <1>7, <1>8, MovesGive DEF OpeningsStay

-----------------------------------------------------------------------------
(* A request makes an object                                                  *)

LEMMA CreateLeaves ==
  ASSUME Base, NEW r \in Requests, NEW o \in Objects, NEW i \in Ids, NEW new, CreateStep(r, o, i, new)
  PROVE  /\ UNCHANGED <<toolIndex, lineage, forgotten, unrecorded>>
         /\ \A j \in Ids : FileStays(j)
         /\ new.id = i /\ new.run = "none" /\ new.boundary = "none" /\ new.rounds = 0
         /\ new.st \in ActiveStates /\ req[r].pc = "idle"
         /\ \A q \in Requests : q # r => req'[q] = req[q]
         /\ req'[r].pc \in {"idle", "opening"} /\ (req'[r].pc = "opening" => req'[r].obj = o)
<1>1. /\ UNCHANGED <<toolIndex, lineage, forgotten, unrecorded>>
      /\ new.id = i /\ new.run = "none" /\ new.boundary = "none" /\ new.rounds = 0
      /\ new.st \in ActiveStates
  BY DEF CreateStep, disk, IsNew
<1>2. \A j \in Ids : FileStays(j)
  BY <1>1, FilesUnmoved
<1>3. /\ req[r].pc = "idle"
      /\ \A q \in Requests : q # r => req'[q] = req[q]
      /\ req'[r].pc \in {"idle", "opening"} /\ (req'[r].pc = "opening" => req'[r].obj = o)
  BY CreateRequest, ZenonT(30)
<1> QED BY <1>1, <1>2, <1>3

LEMMA CreateSame ==
  ASSUME Base, NEW r \in Requests, NEW o \in Objects, NEW i \in Ids, NEW new, CreateStep(r, o, i, new),
         \A j \in Ids : j # i => pendingRecoveries'[j] = pendingRecoveries[j],
         \A l \in ResultKeys : transcriptRecoveries[l] # None =>
           transcriptRecoveries'[l] = transcriptRecoveries[l],
         NEW p \in Objects, p # o
  PROVE  Same(p)
<1>1. /\ obj'[p] = obj[p] /\ sessions'[i] = o /\ sessions[i] = None
      /\ \A j \in Ids : j # i => sessions'[j] = sessions[j]
  BY CreateFacts
<1>2. /\ UNCHANGED <<toolIndex, lineage, forgotten, unrecorded>> /\ req[r].pc = "idle"
      /\ \A j \in Ids : FileStays(j)
      /\ \A q \in Requests : q # r => req'[q] = req[q]
      /\ req'[r].pc \in {"idle", "opening"} /\ (req'[r].pc = "opening" => req'[r].obj = o)
  BY CreateLeaves
<1>3. Exists(p) => obj[p].id \in Ids
  BY DEF Base, SessionsInv
<1>4. Registered(p) => obj[p].id # i
  BY <1>1, NoneFacts DEF Registered
<1>5. Registered(p)' <=> Registered(p)
  BY <1>1, <1>3, <1>4 DEF Registered, Exists
<1>6. \A q \in Requests : req'[q].pc = "opening" /\ req'[q].obj = p => req'[q] = req[q]
  BY <1>2
<1>7. DrivesKept(p)
  BY <1>2 DEF DrivesKept
<1>8. Registered(p) => Steady(p)
  BY <1>2, <1>3, <1>4, <1>7, StillDriven DEF Steady, Registered
<1>9. \A l \in ResultKeys : transcriptRecoveries[l] = p => transcriptRecoveries'[l] = p
  BY NoneFacts
<1> QED BY <1>1, <1>5, <1>6, <1>8, <1>9 DEF Same, Answering

LEMMA CreateGives ==
  ASSUME Base, ResultsInv,
         NEW r \in Requests, NEW o \in Objects, NEW i \in Ids, NEW new, CreateStep(r, o, i, new),
         \A j \in Ids : j # i => pendingRecoveries'[j] = pendingRecoveries[j],
         \A l \in ResultKeys : transcriptRecoveries[l] # None =>
           transcriptRecoveries'[l] = transcriptRecoveries[l],
         \A k \in ResultKeys : transcriptRecoveries'[k] # None => transcriptRecoveries[k] # None \/ Safe(k),
         ObjectStays(o)
  PROVE  ResultsInv'
<1>1. Base' /\ KeepsIds /\ unshared \subseteq unshared'
  BY CreateBase, CreateKeepsIds DEF CreateStep
<1>2. ShownGrows
  BY CreateShown, NothingGrows
<1>3. FilesStay
  BY CreateLeaves DEF FilesStay
<1>4. ToolsStay
  <2>1. \A j \in Ids : sessions[j] # None => sessions'[j] # None
    BY CreateFacts
  <2> QED BY <2>1, CreateLeaves, ToolsUnmoved DEF ResultsInv
<1>5. \A p \in Objects : Same(p) \/ ObjectStays(p)
  BY CreateSame
<1> QED BY <1>1, <1>2, <1>3, <1>4, <1>5, SamesGive

LEMMA PlainResults ==
  ASSUME Base, ResultsInv,
         NEW r \in Requests, NEW o \in Objects, NEW i \in Ids, NEW new, PlainStep(r, o, i, new)
  PROVE  ResultsInv'
<1>1. /\ CreateStep(r, o, i, new) /\ new.segment \notin ResultKeys /\ new.st # "resuming"
      /\ lineage[i].st # "awaiting" /\ UNCHANGED <<pendingRecoveries, transcriptRecoveries, unshared>>
  BY DEF PlainStep, maps
<1>2. /\ obj'[o] = new /\ ~Exists(o) /\ new.st # "awaiting" /\ new.id = i /\ new.boundary = "none"
      /\ lineage' = lineage
  BY <1>1, CreateFacts, CreateLeaves DEF ActiveStates
<1>3. LiveOk(o)'
  BY <1>1, <1>2 DEF LiveOk, WaitsOk, WorksOk, SendsOk, FileOk, MineOk
<1>4. ObjectStays(o)
  BY <1>1, <1>2, <1>3
     DEF ObjectStays, WaitingStays, AnsweringStays, Answering, Registered, WorkStays, AsksStay, TakenStays
<1> QED BY <1>1, <1>4, CreateGives

LEMMA PendingFocal ==
  ASSUME Known, ToolsInv,
         NEW r \in Requests, NEW o \in Objects, NEW i \in Ids, NEW new, PendingStep(r, o, i, new)
  PROVE  ObjectStays(o)
<1> PICK k : k = new.segment
  OBVIOUS
<1>1. /\ Base /\ BatchesInv /\ CreateStep(r, o, i, new) /\ k \in ResultKeys /\ new.digest = k
      /\ new.st = "resuming" /\ Shown(k.of) /\ StoredFor(i, k)
      /\ req'[r].pc = "opening" /\ req'[r].obj = o /\ req'[r].mode = "pending" /\ req'[r].key = k
      /\ pendingRecoveries'[i] = [key |-> k, obj |-> o]
  BY DEF Known, PendingStep, Base, Typed, FilesTyped
<1>2. /\ obj'[o] = new /\ ~Exists(o) /\ sessions[i] = None
      /\ UNCHANGED <<toolIndex, lineage, forgotten, unrecorded>> /\ FileStays(i)
      /\ new.id = i /\ new.run = "none" /\ new.boundary = "none"
      /\ \A q \in Requests : q # r => req'[q] = req[q]
  BY <1>1, CreateFacts, CreateLeaves
<1>3. SendsOk(o)'
  <2>1. ASSUME NEW q \in Requests, req'[q].pc = "opening", req'[q].obj = o PROVE q = r
    BY <1>1, <1>2, <2>1 DEF Base, ReqInv
  <2>2. forgotten[i] = {} => \A b \in Batches : toolIndex[b] # i
    BY <1>2, NoneFacts DEF ToolsInv
  <2>3. StoredFor(i, k)'
    BY <1>1, <1>2 DEF StoredFor
  <2> QED BY <1>1, <1>2, <2>1, <2>2, <2>3 DEF SendsOk
<1>4. FileOk(o)'
  BY <1>1, <1>2 DEF FileOk, StoredFor
<1>5. LiveOk(o)'
  BY <1>1, <1>2, <1>3, <1>4 DEF LiveOk, WaitsOk, WorksOk, MineOk
<1>6. HomeOf(k.of) = i
  BY <1>1, HomeOfBatch DEF BatchesInv, StoredFor
<1> QED BY <1>1, <1>2, <1>5, <1>6
        DEF ObjectStays, WaitingStays, AnsweringStays, Answering, Registered, WorkStays, AsksStay, TakenStays

LEMMA PendingResults ==
  ASSUME Known, ResultsInv,
         NEW r \in Requests, NEW o \in Objects, NEW i \in Ids, NEW new, PendingStep(r, o, i, new)
  PROVE  ResultsInv'
<1>1. /\ Base /\ CreateStep(r, o, i, new) /\ UNCHANGED <<transcriptRecoveries, unshared>>
      /\ pendingRecoveries' = [pendingRecoveries EXCEPT ![i] = [key |-> new.segment, obj |-> o]]
  BY DEF Known, PendingStep
<1>2. \A j \in Ids : j # i => pendingRecoveries'[j] = pendingRecoveries[j]
  BY <1>1 DEF Base, Typed, FilesTyped
<1>3. ObjectStays(o)
  BY PendingFocal DEF ResultsInv
<1> QED BY <1>1, <1>2, <1>3, CreateGives

\* The results that a request sends with their transcript, because nobody takes them, are worked on
\* by nobody and stored for nobody.
LEMMA UnroutedIsSafe ==
  ASSUME Known, ToolsInv, LiveInv, NEW k \in ResultKeys, Shown(k.of), Unrouted(k),
         unshared \subseteq unshared', TakenByOthers(k) => k \in unshared'
  PROVE  Safe(k)
<1>1. Base /\ UseInv /\ FileInv
  BY DEF Known
<1>2. PICK h : h = HomeOf(k.of)
  OBVIOUS
<1>3. /\ h \in Ids /\ BatchIn(k.of, h) /\ k.of \in Batches /\ k \in Keys
  BY <1>1, <1>2, ShownFacts, KeyFacts
<1>4. toolIndex[k.of] \in {None, h}
  BY <1>1, <1>2, <1>3, HomeOfBatch DEF ToolsInv
<1>5. ASSUME NEW p \in Objects, Registered(p)
      PROVE  WaitsOk(p) /\ WorksOk(p) /\ SendsOk(p) /\ FileOk(p) /\ MineOk(p)
  BY <1>5 DEF LiveInv, LiveOk
<1>6. ASSUME NEW p \in Objects, Registered(p), toolIndex[k.of] = obj[p].id
      PROVE  OwnerOf(k.of) = p /\ p # None
  <2>1. obj[p].id \in Ids /\ sessions[obj[p].id] = p
    BY <1>1, <1>6 DEF Registered, Base, SessionsInv
  <2> QED BY <1>6, <2>1, NoneFacts DEF OwnerOf
<1>7. ASSUME NEW p \in Objects, OwnerOf(k.of) = p
      PROVE  Registered(p) /\ obj[p].id = h /\ toolIndex[k.of] = h /\ p # None
             /\ ~(Accepts(p, k) \/ Continues(p, k) \/ Repeats(p, k))
  <2>1. p # None /\ toolIndex[k.of] # None /\ sessions[toolIndex[k.of]] = p
    BY <1>7, NoneFacts DEF OwnerOf
  <2>2. toolIndex[k.of] = h
    BY <1>4, <2>1
  <2>3. Registered(p) /\ obj[p].id = h
    BY <1>1, <1>3, <2>1, <2>2, SessionFacts
  <2> QED BY <1>7, <2>1, <2>2, <2>3 DEF Unrouted
<1>8. OwnerOf(k.of) = None => \A i \in Stored(k.of) : ~Resumable(i, k)
  BY DEF Unrouted
<1>9. NotAwaited(k)
  <2> SUFFICES ASSUME NEW p \in Objects, Registered(p), obj[p].st = "awaiting", obj[p].open = k.of,
                      obj[p].credential = k.by
               PROVE  FALSE
    BY DEF NotAwaited
  <2>1. toolIndex[k.of] = obj[p].id /\ obj[p].digest = NoKey
    BY <1>5 DEF WaitsOk
  <2>2. OwnerOf(k.of) = p
    BY <1>6, <2>1
  <2>3. Accepts(p, k)
    BY <2>1 DEF Accepts
  <2> QED BY <1>7, <2>2, <2>3
<1>10. ASSUME k \notin unshared', Certain(h), StoredFor(h, k)
       PROVE  \E p \in Objects : obj[p].id = h /\ Answering(p)
  <2>1. h \in Stored(k.of) /\ lineage[h].st = "awaiting" /\ lineage[h].credential = k.by
        /\ lineage[h].pending = {k.of} /\ forgotten[h] = {} /\ h \notin unrecorded
    BY <1>3, <1>10 DEF Stored, StoredFor, Certain
  <2>2. pendingRecoveries[h].key \in {NoKey, k}
    BY <1>10, <2>1 DEF TakenByOthers
  <2>3. ASSUME NEW p \in Objects, Registered(p), obj[p].id = h
        PROVE  /\ obj[p].st \in {"awaiting", "resuming"}
               /\ obj[p].st = "awaiting" => toolIndex[k.of] = h /\ OwnerOf(k.of) = p /\ Accepts(p, k)
               /\ obj[p].st = "resuming" => obj[p].digest.of = k.of
    <3>1. FileOk(p) /\ WaitsOk(p)
      BY <1>5, <2>3
    <3>2. /\ obj[p].st \in {"awaiting", "resuming"}
          /\ obj[p].st = "resuming" => obj[p].digest.of = k.of
      BY <1>10, <2>1, <2>3, <3>1 DEF FileOk
    <3>3. ASSUME obj[p].st = "awaiting" PROVE toolIndex[k.of] = h /\ OwnerOf(k.of) = p /\ Accepts(p, k)
      <4>1. lineage[h] = RecordOf(p, "awaiting")
        BY <1>1, <2>1, <2>3, <3>3 DEF FileInv, AtRest, Recorded, NoFile
      <4>2. obj[p].pending = {k.of} /\ obj[p].credential = k.by
        BY <2>1, <4>1 DEF RecordOf
      <4>3. obj[p].open # NoBatch /\ toolIndex[obj[p].open] = h /\ obj[p].digest = NoKey
        BY <2>3, <3>1, <3>3 DEF WaitsOk
      <4>4. obj[p].open = k.of
        BY <1>1, <4>2, <4>3 DEF Base, Typed, ObjectsTyped
      <4>5. Accepts(p, k)
        BY <3>3, <4>2, <4>3, <4>4 DEF Accepts
      <4> QED BY <1>6, <2>3, <4>3, <4>4, <4>5
    <3> QED BY <3>2, <3>3
  <2>4. CASE OwnerOf(k.of) = None
    <3>1. ~Resumable(h, k)
      BY <1>8, <2>1, <2>4
    <3>2. pendingRecoveries[h].key = NoKey /\ sessions[h] # None
      BY <2>1, <2>2, <3>1 DEF Resumable
    <3>3. PICK p \in Objects : p = sessions[h] /\ Registered(p) /\ obj[p].id = h
      BY <1>1, <1>3, <3>2, SessionFacts
    <3>4. obj[p].st = "resuming" /\ obj[p].digest.of = k.of
      BY <1>7, <2>3, <3>3
    <3>5. CASE obj[p].run = "none"
      <4>1. SendsOk(p)
        BY <1>5, <3>3
      <4>2. obj[p].digest \in ResultKeys /\ pendingRecoveries[h] = [key |-> obj[p].digest, obj |-> p]
        BY <3>3, <3>4, <3>5, <4>1 DEF SendsOk
      <4>3. pendingRecoveries[h].key # NoKey
        BY <4>2, KeyFacts
      <4> QED BY <3>2, <4>3
    <3>6. CASE obj[p].run # "none"
      BY <1>5, <1>6, <2>4, <3>3, <3>4, <3>6 DEF WorksOk
    <3> QED BY <3>5, <3>6
  <2>5. CASE OwnerOf(k.of) # None
    <3>1. PICK p \in Objects : p = OwnerOf(k.of)
      BY <1>1, <1>3, <2>5, OwnerFacts DEF Base
    <3>2. Registered(p) /\ obj[p].id = h /\ toolIndex[k.of] = h /\ ~Accepts(p, k)
      BY <1>7, <3>1
    <3>3. obj[p].st = "resuming"
      BY <2>3, <3>2
    <3>4. obj[p].run # "none"
      <4>1. SendsOk(p)
        BY <1>5, <3>2
      <4> QED BY <1>3, <2>1, <3>2, <3>3, <4>1 DEF SendsOk
    <3> QED BY <3>2, <3>3, <3>4 DEF Answering
  <2> QED BY <2>4, <2>5
<1>11. ASSUME k \notin unshared', Certain(h), NEW p \in Objects, Registered(p), Busy(p),
              obj[p].id = h, obj[p].segment = k, obj[p].boundary = "none"
       PROVE  FALSE
  <2>1. obj[p].st = "resuming" /\ obj[p].digest = k
    BY <1>2, <1>5, <1>11 DEF MineOk
  <2>2. forgotten[h] = {} /\ k \notin unshared
    BY <1>11 DEF Certain
  <2>3. CASE obj[p].run = "none"
    <3>1. /\ pendingRecoveries[h] = [key |-> k, obj |-> p] /\ StoredFor(h, k)
          /\ \A b \in Batches : toolIndex[b] # h
      BY <1>5, <1>11, <2>1, <2>2, <2>3 DEF SendsOk
    <3>2. OwnerOf(k.of) = None
      BY <1>3, <1>4, <3>1 DEF OwnerOf
    <3>3. h \in Stored(k.of)
      BY <1>3, <3>1 DEF Stored, StoredFor
    <3>4. Resumable(h, k)
      BY <1>3, <3>1, KeyFacts DEF Resumable, StoredFor
    <3> QED BY <1>8, <3>2, <3>3, <3>4
  <2>4. CASE obj[p].run # "none"
    <3>1. toolIndex[k.of] = obj[p].id
      BY <1>5, <1>11, <2>1, <2>4 DEF WorksOk
    <3>2. OwnerOf(k.of) = p /\ Continues(p, k)
      BY <1>6, <1>11, <2>1, <2>4, <3>1 DEF Continues, HasPump
    <3> QED BY <1>7, <3>2
  <2> QED BY <2>3, <2>4
<1>12. k \notin unshared' => NotStored(k) /\ NotTaken(k)
  BY <1>2, <1>10, <1>11 DEF NotStored, NotTaken
<1> QED BY <1>9, <1>12 DEF Safe

LEMMA TranscriptFocal ==
  ASSUME Base, NEW r \in Requests, NEW o \in Objects, NEW new, TranscriptStep(r, o, new)
  PROVE  ObjectStays(o)
<1> PICK k : k = new.segment
  OBVIOUS
<1>1. /\ CreateStep(r, o, o, new) /\ k \in ResultKeys /\ new.st = "creating" /\ Shown(k.of)
      /\ transcriptRecoveries'[k] = o
  BY DEF TranscriptStep, Base, Typed, FilesTyped
<1>2. o \in Ids
  BY NoneFacts
<1>3. /\ obj'[o] = new /\ ~Exists(o) /\ UNCHANGED <<lineage, forgotten, unrecorded>> /\ FileStays(o)
      /\ new.id = o /\ new.run = "none" /\ new.boundary = "none"
  BY <1>1, <1>2, CreateFacts, CreateLeaves
<1>4. lineage[o] = NoFile
  BY <1>2, <1>3 DEF Base, SessionsInv
<1>5. HomeOf(k.of) # o /\ HomeOf(k.of)' = HomeOf(k.of)
  <2>1. KeepsIds
    BY <1>1, <1>2, CreateKeepsIds
  <2> QED BY <1>1, <1>3, <2>1, ShownFacts, HomeKept
<1>6. LiveOk(o)'
  <2>1. MineOk(o)'
    <3> SUFFICES ASSUME NEW l \in ResultKeys, l = new.segment, o = HomeOf(l.of)' PROVE FALSE
      BY <1>3 DEF MineOk
    <3> QED BY <1>5
  <2> QED BY <1>1, <1>3, <1>4, <2>1 DEF LiveOk, WaitsOk, WorksOk, SendsOk, FileOk, NoFile
<1> QED BY <1>1, <1>3, <1>5, <1>6
        DEF ObjectStays, WaitingStays, AnsweringStays, Answering, Registered, WorkStays, AsksStay, TakenStays

LEMMA TranscriptResults ==
  ASSUME Known, ResultsInv, NEW r \in Requests, NEW o \in Objects, NEW new, TranscriptStep(r, o, new)
  PROVE  ResultsInv'
<1> PICK k : k = new.segment
  OBVIOUS
<1>1. /\ Base /\ CreateStep(r, o, o, new) /\ k \in ResultKeys /\ o \in Ids
      /\ Shown(k.of) /\ Unrouted(k) /\ transcriptRecoveries[k] = None
      /\ \A l \in ResultKeys : l # k => transcriptRecoveries'[l] = transcriptRecoveries[l]
      /\ unshared \subseteq unshared' /\ (TakenByOthers(k) => k \in unshared')
      /\ UNCHANGED pendingRecoveries
  BY NoneFacts DEF Known, TranscriptStep, Base, Typed, FilesTyped
<1>2. Safe(k)
  BY <1>1, UnroutedIsSafe DEF ResultsInv
<1>3. ObjectStays(o)
  BY <1>1, TranscriptFocal
<1> QED BY <1>1, <1>2, <1>3, CreateGives

-----------------------------------------------------------------------------
(* Sessions are forgotten                                                     *)

LEMMA ForgetTools ==
  ASSUME Base, Base', ToolsInv, NEW os, Forget(os), Remembers
  PROVE  /\ ToolsStay
         /\ \A p \in Objects : Registered(p)' =>
              \A b \in Batches : toolIndex'[b] = obj'[p].id <=> toolIndex[b] = obj'[p].id
<1>1. PICK gone : gone = {obj[o].id : o \in os}
  OBVIOUS
<1>2. /\ \A i \in Ids : sessions'[i] = IF i \in gone THEN None ELSE sessions[i]
      /\ \A b \in Batches : toolIndex'[b] = IF toolIndex[b] \in gone THEN None ELSE toolIndex[b]
  BY <1>1 DEF Forget
<1>3. ToolsStay
  <2> SUFFICES ASSUME NEW b \in Batches, toolIndex'[b] # None
               PROVE  /\ toolIndex'[b] = toolIndex[b]
                      /\ forgotten'[toolIndex'[b]] = {} => sessions'[toolIndex'[b]] # None
    BY DEF ToolsStay
  <2>1. toolIndex'[b] = toolIndex[b] /\ toolIndex[b] \notin gone /\ toolIndex[b] \in Ids
    BY <1>2 DEF Base, Typed, RegistryTyped
  <2>2. forgotten'[toolIndex[b]] = {} => sessions[toolIndex[b]] # None
    BY <2>1 DEF ToolsInv, Remembers
  <2> QED BY <1>2, <2>1, <2>2
<1>4. ASSUME NEW p \in Objects, Registered(p)', NEW b \in Batches
      PROVE  toolIndex'[b] = obj'[p].id <=> toolIndex[b] = obj'[p].id
  <2>1. sessions'[obj'[p].id] = p
    BY <1>4 DEF Registered
  <2>2. obj'[p].id \in Ids
    BY <1>4 DEF Registered, Base, SessionsInv
  <2>3. toolIndex[b] \in Ids \cup {None}
    BY DEF Base, Typed, RegistryTyped
  <2> QED BY <1>2, <2>1, <2>2, <2>3, NoneFacts
<1> QED BY <1>3, <1>4

LEMMA CutStays ==
  ASSUME Base, NEW os, Leaves(os), NEW p \in os, AnsweringStays(p), TakenStays(p)
  PROVE  ObjectStays(p)
<1>1. p \in Objects /\ Cut(p, obj'[p]) /\ ~Registered(p)'
  BY DEF Leaves
<1>2. NoKey \notin ResultKeys
  BY KeyFacts
<1>3. AsksStay(p)
  BY <1>1, <1>2 DEF AsksStay, Cut
<1> QED BY <1>1, <1>3 DEF ObjectStays, LiveOk, WaitingStays, WorkStays

LEMMA ForgetResults ==
  ASSUME Base, ResultsInv, NEW os, ForgetStep(os) PROVE ResultsInv'
<1>1. /\ os \in SUBSET Objects /\ (\A o \in os : Registered(o)) /\ Forget(os) /\ Remember(os)
      /\ UNCHANGED <<lineage, req, unrecorded, unshared, pendingRecoveries, transcriptRecoveries>>
  BY DEF ForgetStep, disk, maps
<1>2. Base' /\ Leaves(os) /\ Remembers
  BY ForgetBase, ForgetStepLeaves, ForgetHeld
<1>3. KeepsIds
  BY <1>2, LeavesKeepsIds
<1>4. ShownGrows
  BY <1>2, LeavesShown, NothingGrows
<1>5. ToolsStay
  BY <1>1, <1>2, ForgetTools DEF ResultsInv
<1>6. \A i \in Ids : FileStays(i)
  BY <1>1, <1>2 DEF FileStays, Remembers
<1>7. ASSUME NEW p \in Objects, p \notin os PROVE Same(p)
  <2>1. obj'[p] = obj[p] /\ (Registered(p)' => Registered(p))
    BY <1>2, <1>7 DEF Leaves
  <2>2. Registered(p) => Registered(p)'
    BY <1>1, <1>2, <1>7, RegisteredAlone DEF Leaves
  <2>3. ASSUME Registered(p)' PROVE Steady(p)
    <3>1. PICK i \in Ids : i = obj[p].id /\ obj'[p].id = i
      BY <2>1, <2>3 DEF Registered, Base, SessionsInv
    <3>2. \A b \in Batches : toolIndex'[b] = i <=> toolIndex[b] = i
      BY <1>1, <1>2, <2>3, <3>1, ForgetTools DEF ResultsInv
    <3>3. Driving(p)' = Driving(p)
      BY <1>1 DEF Driving
    <3> QED BY <1>1, <1>6, <2>1, <2>3, <3>1, <3>2, <3>3 DEF Steady
  <2> QED BY <1>1, <2>1, <2>2, <2>3 DEF Same, Answering
<1>8. ASSUME NEW p \in Objects, p \in os PROVE ObjectStays(p)
  <2>1. Cut(p, obj'[p]) /\ Registered(p) /\ obj[p].id \in Ids
    BY <1>1, <1>2, <1>8 DEF Leaves, Registered, Base, SessionsInv
  <2>2. obj'[p].id = obj[p].id
    BY <2>1 DEF Cut
  <2>3. AnsweringStays(p)
    <3> SUFFICES ASSUME Answering(p) PROVE FileIsNew(obj[p].id)
      BY DEF AnsweringStays
    <3>1. Driving(p) # {}
      BY DEF Answering, ResultsInv, LiveInv, LiveOk, WorksOk
    <3>2. "driven" \in forgotten'[obj[p].id]
      BY <1>1, <1>8, <2>1, <3>1 DEF Remember
    <3> QED BY <2>2, <3>2 DEF FileIsNew, Certain
  <2>4. TakenStays(p)
    <3>1. Busy(p)' => Busy(p)
      BY <1>1, <2>1 DEF Busy, Opening, Cut
    <3>2. obj'[p].segment \in ResultKeys => obj'[p].segment = obj[p].segment
      BY <2>1, KeyFacts DEF Cut
    <3> QED BY <1>1, <2>2, <3>1, <3>2 DEF TakenStays
  <2> QED BY <1>2, <1>8, <2>3, <2>4, CutStays
<1>9. FilesStay /\ \A p \in Objects : Same(p) \/ ObjectStays(p)
  BY <1>6, <1>7, <1>8 DEF FilesStay
<1> QED BY <1>1, <1>2, <1>3, <1>4, <1>5, <1>9, SamesGive

LEMMA OpenFailsOthers ==
  ASSUME Base, Base', UseInv, ToolsInv, NEW r \in Requests, OpenFails(r), NEW p \in Objects, p # req[r].obj
  PROVE  Same(p)
<1> PICK o : o = req[r].obj
  OBVIOUS
<1>1. /\ o \in Objects /\ Opening(o) /\ Leaves({o}) /\ OpeningsStay
      /\ Forget({o}) /\ GivesUpStep(r, o) /\ Resolve(r, o, FALSE) /\ req[r].pc = "opening"
      /\ UNCHANGED <<lineage, forgotten, unrecorded>>
      /\ \A k \in ResultKeys : transcriptRecoveries[k] = p => transcriptRecoveries'[k] = p
  BY OpenFailsLeaves, OpenFailsStay DEF OpenFails, GivesUpStep, disk, history
<1>2. Remembers
  BY <1>1 DEF Remembers
<1>3. obj'[p] = obj[p] /\ (Registered(p)' => Registered(p))
  BY <1>1 DEF Leaves
<1>4. ASSUME Registered(p)' PROVE Steady(p)
  <2>1. PICK i \in Ids : i = obj[p].id /\ obj'[p].id = i
    BY <1>3, <1>4 DEF Registered, Base, SessionsInv
  <2>2. \A b \in Batches : toolIndex'[b] = i <=> toolIndex[b] = i
    BY <1>1, <1>2, <1>4, <2>1, ForgetTools
  <2>3. DrivesKept(p)
    BY <1>1, GivesUpRest DEF DrivesKept, Resolved
  <2>4. pendingRecoveries[i].obj = p => pendingRecoveries'[i] = pendingRecoveries[i]
    BY <1>1, <2>1 DEF Resolve
  <2>5. FileStays(i)
    BY <1>1, FilesUnmoved
  <2> QED BY <1>3, <1>4, <2>1, <2>2, <2>3, <2>4, <2>5, StillDriven DEF Steady
<1>5. ASSUME Registered(p), ~Registered(p)' PROVE forgotten'[obj[p].id] # {}
  <2>1. obj[o].id = obj[p].id
    BY <1>1, <1>5 DEF Leaves
  <2>2. ~Registered(o) /\ Exists(o) /\ Busy(o)
    BY <1>1, <1>5, <2>1, RegisteredAlone DEF Leaves, Busy
  <2> QED BY <1>1, <2>1, <2>2 DEF UseInv
<1> QED BY <1>1, <1>3, <1>4, <1>5 DEF Same, OpeningsStay, Answering

LEMMA OpenFailsResults ==
  ASSUME Known, ResultsInv, NEW r \in Requests, OpenFails(r) PROVE ResultsInv'
<1> PICK o : o = req[r].obj
  OBVIOUS
<1>1. Base /\ UseInv /\ Base'
  BY OpenFailsBase DEF Known
<1>2. /\ o \in Objects /\ Opening(o) /\ Leaves({o}) /\ Forget({o}) /\ req[r].pc = "opening"
      /\ UNCHANGED <<lineage, forgotten, unrecorded, unshared>>
      /\ \A q \in Requests : req'[q].pc = "opening" => req[q].obj # o /\ req'[q] = req[q]
      /\ \A k \in ResultKeys : transcriptRecoveries'[k] # None => transcriptRecoveries[k] # None
  BY <1>1, OpenFailsLeaves, OpenFailsStay DEF OpenFails, disk, history, OpeningsStay
<1>3. KeepsIds
  BY <1>2, LeavesKeepsIds
<1>4. ShownGrows
  BY <1>1, <1>2, LeavesShown, NothingGrows
<1>5. ToolsStay
  BY <1>1, <1>2, ForgetTools DEF ResultsInv, Remembers
<1>6. ObjectStays(o)
  <2>1. AnsweringStays(o)
    BY <1>1, <1>2 DEF AnsweringStays, Answering, Base, ReqInv, OpeningOk
  <2>2. TakenStays(o)
    <3>1. obj'[o].run # "live"
      BY <1>2 DEF Leaves, Cut
    <3>2. ~Busy(o)'
      BY <1>2, <3>1 DEF Busy, Opening
    <3> QED BY <3>2 DEF TakenStays
  <2> QED BY <1>1, <1>2, <2>1, <2>2, CutStays
<1>7. \A p \in Objects : Same(p) \/ ObjectStays(p)
  BY <1>1, <1>6, OpenFailsOthers DEF ResultsInv
<1>8. FilesStay
  BY <1>2, FilesUnmoved
<1> QED BY <1>1, <1>2, <1>3, <1>4, <1>5, <1>7, <1>8, SamesGive

LEMMA RestartResults ==
  ASSUME Base, Restart PROVE ResultsInv'
<1>1. /\ \A p \in Objects : /\ ~Registered(p)' /\ obj'[p].run = "none" /\ obj'[p].boundary = "none"
                            /\ obj'[p].segment = NoKey
      /\ \A q \in Requests : req'[q].pc = "idle"
      /\ \A b \in Batches : toolIndex'[b] = None
      /\ \A k \in ResultKeys : transcriptRecoveries'[k] = None
  BY RestartLeaves, RestartStay DEF Restart
<1>2. NoKey \notin ResultKeys
  BY KeyFacts
<1>3. ToolsInv' /\ AsksInv'
  BY <1>1, <1>2 DEF ToolsInv, AsksInv, AsksOk
<1>4. LiveInv' /\ TakenInv' /\ RecoveredInv'
  BY <1>1, <1>2 DEF LiveInv, LiveOk, TakenInv, TakenOk, RecoveredInv, RecoveredOk
<1> QED BY <1>3, <1>4 DEF ResultsInv

-----------------------------------------------------------------------------
(* The theorem                                                                *)

LEMMA InitResults ==
  ASSUME Init PROVE ResultsInv
<1>1. /\ \A p \in Objects : obj[p] = NoObject
      /\ \A b \in Batches : toolIndex[b] = None
      /\ \A k \in ResultKeys : transcriptRecoveries[k] = None
  BY DEF Init, RegistryInit
<1>2. /\ \A p \in Objects : ~Registered(p) /\ obj[p].boundary = "none" /\ obj[p].segment = NoKey
      /\ NoKey \notin ResultKeys
  BY <1>1, KeyFacts DEF Registered, Exists, NoObject
<1>3. ToolsInv /\ AsksInv
  BY <1>1, <1>2 DEF ToolsInv, AsksInv, AsksOk
<1>4. LiveInv /\ TakenInv /\ RecoveredInv
  BY <1>1, <1>2 DEF LiveInv, LiveOk, TakenInv, TakenOk, RecoveredInv, RecoveredOk
<1> QED BY <1>3, <1>4 DEF ResultsInv

LEMMA ResultsKept ==
  ASSUME Known, ResultsInv, ResultsStep PROVE ResultsInv'
<1>0. Base
  BY DEF Known
<1>1. ASSUME NEW r \in Requests, NEW new, QuietStep(r, new) PROVE ResultsInv'
  BY <1>0, <1>1, QuietResults
<1>2. ASSUME NEW r \in Requests, NEW o \in Objects, NEW i \in Ids, NEW new, PlainStep(r, o, i, new)
      PROVE  ResultsInv'
  BY <1>0, <1>2, PlainResults
<1>3. ASSUME NEW r \in Requests, NEW o \in Objects, NEW i \in Ids, NEW new, PendingStep(r, o, i, new)
      PROVE  ResultsInv'
  BY <1>3, PendingResults
<1>4. ASSUME NEW r \in Requests, NEW o \in Objects, NEW new, TranscriptStep(r, o, new)
      PROVE  ResultsInv'
  BY <1>4, TranscriptResults
<1>5. ASSUME NEW r \in Requests, NEW o \in Objects, NEW new, NEW ask, FollowsStep(r, o, new, ask)
      PROVE  ResultsInv'
  BY <1>5, FollowResults
<1>6. ASSUME NEW r \in Requests, NEW o \in Objects, NEW new, NEW ask, AcceptsStep(r, o, new, ask)
      PROVE  ResultsInv'
  BY <1>6, AcceptResultsKept
<1>7. ASSUME NEW r \in Requests, NEW o \in Objects, NEW new, OpensStep(r, o, new) PROVE ResultsInv'
  BY <1>7, OpensResults
<1>8. ASSUME NEW r \in Requests, OpenFails(r) PROVE ResultsInv'
  BY <1>8, OpenFailsResults
<1>9. ASSUME NEW o \in Objects, NEW new, AsksStep(o, new) PROVE ResultsInv'
  BY <1>0, <1>9, AskResults
<1>10. ASSUME NEW o \in Objects, NEW new, EndsStep(o, new) PROVE ResultsInv'
  BY <1>0, <1>10, EndResults
<1>11. ASSUME NEW o \in Objects, ReleaseStep(o) PROVE ResultsInv'
  BY <1>0, <1>11, ReleaseResults
<1>12. ASSUME NEW o \in Objects, NEW new, AnswersStep(o, new) PROVE ResultsInv'
  BY <1>12, AnswersResults
<1>13. ASSUME NEW os, ForgetStep(os) PROVE ResultsInv'
  BY <1>0, <1>13, ForgetResults
<1>14. CASE AgeStep
  BY <1>0, <1>14, AgeResults
<1>15. CASE Restart
  BY <1>0, <1>15, RestartResults
<1> QED BY ONLY <1>1, <1>2, <1>3, <1>4, <1>5, <1>6, <1>7, <1>8, <1>9, <1>10, <1>11, <1>12, <1>13,
              <1>14, <1>15, ResultsStep DEF ResultsStep

LEMMA ResultsHold == Spec => []ResultsInv
<1>1. Init => ResultsInv
  BY InitResults
<1>2. Known /\ ResultsInv /\ [Next]_vars => ResultsInv'
  <2>1. Known => Base
    BY DEF Known
  <2> QED BY <2>1, ResultsCases, ResultsKept
<1>3. Base /\ UseInv /\ LeftInv /\ FileInv /\ BatchesInv => Known
  BY DEF Known
<1> QED BY <1>1, <1>2, <1>3, BaseHolds, UseHolds, LeftHolds, FilesHold, BatchesHold, PTL DEF Spec

\* The same results never make two runs go at a time: a client that retries them finds the live
\* session, the stored session or the recovery of its transcript, whichever took them first,
\* whatever timeouts, sweeps, failed opens and restarts come between; with the exceptions that the
\* property names.
THEOREM ResultsRunOnce == Spec => []OneRunPerResults
<1>1. Base /\ UseInv /\ ResultsInv => OneRunPerResults
  BY ResultsGive DEF ResultsInv
<1> QED BY <1>1, BaseHolds, UseHolds, ResultsHold, PTL
=============================================================================
