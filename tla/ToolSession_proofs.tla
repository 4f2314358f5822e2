------------------------- MODULE ToolSession_proofs -------------------------
(***************************************************************************)
(* Theorems about ToolSession for every set of calls, requests and answers *)
(* and every number of runs: type correctness, and that a request is       *)
(* answered with the boundary of the segment it joined while two different *)
(* result batches are never accepted for the same calls.  The second part  *)
(* follows the calls of a batch until they are settled.                    *)
(***************************************************************************)
EXTENDS ToolSession, FiniteSetTheorems, TLAPS

-----------------------------------------------------------------------------
(* Type correctness *)

\* The number of early calls, compared with maxEarlyCalls, is a number.
LEMMA EarlyCount ==
  ASSUME TypeOK
  PROVE  Cardinality(early) \in Nat
  BY CallsAssumption, FS_Subset, FS_CardinalityType DEF TypeOK

\* What a request that waits for a boundary is given to drive has its type.
LEMMA DrivingType ==
  ASSUME NEW kind \in DriveKind, NEW s \in Nat, NEW d \in Digest \cup {NoDigest},
         NEW b \in Boundary
  PROVE  Driving(kind, s, d, b) \in Drive
  BY DEF Driving, Drive, DriveState, DriveKind

\* Waking the waiters of a boundary keeps the type of the drives.
LEMMA WokenType ==
  ASSUME TypeOK, NEW b \in Boundary
  PROVE  Woken(b) \in [Requests -> Drive]
  BY DEF TypeOK, Woken, Waiters, Drive, DriveState

\* The pump before its first boundary has its type.
LEMMA NoBoundaryType == NoBoundary \in Boundary
  BY DEF NoBoundary, Boundary

\* A request that starts a send has its type.
LEMMA StartingType ==
  ASSUME NEW s \in Nat
  PROVE  Starting(s) \in Drive
  BY NoBoundaryType DEF Starting, Drive, DriveState, DriveKind

\* A request that does nothing has its type.
LEMMA IdleDriveType == IdleDrive \in Drive
  BY NoBoundaryType DEF IdleDrive, Drive, DriveState, DriveKind

\* registry.forget leaves session, tool index and calls of their types.
LEMMA ForgetType ==
  ASSUME TypeOK, Forget
  PROVE  /\ st' \in SessionState /\ registered' \in BOOLEAN /\ index' \subseteq Calls
         /\ cancelled' \in BOOLEAN /\ call' \in [Calls -> CallState]
  BY DEF TypeOK, Forget, SessionState, CallState

\* The session the gateway creates, before any request, has its type.
THEOREM InitType == Init => TypeOK
<1> SUFFICES ASSUME Init PROVE TypeOK
  OBVIOUS
<1>1. call \in [Calls -> CallState] /\ drive \in [Requests -> Drive]
  BY IdleDriveType DEF Init, CallState
<1>2. lastDigest \in Digest \cup {NoDigest} /\ gen \in Nat /\ seg \in Nat /\ runs \in Nat
  BY DEF Init
<1> QED BY <1>1, <1>2, NoBoundaryType
  DEF Init, TypeOK, SessionState, LoopState, RunState

\* No handler, SDK callback, timer or sweep leaves the types.
THEOREM NextType == TypeOK /\ [Next]_vars => TypeOK'
<1> SUFFICES ASSUME TypeOK, [Next]_vars PROVE TypeOK'
  OBVIOUS
<1> USE NoBoundaryType
<1>1. ASSUME NEW r \in Requests, StartTurn(r) PROVE TypeOK'
  <2>1. Starting(seg) \in Drive
    BY StartingType DEF TypeOK
  <2> QED BY <1>1, <2>1
    DEF StartTurn, TypeOK, SessionState, RunState, callVars, pumpVars, history
<1>2. ASSUME NEW r \in Requests, FollowUp(r) PROVE TypeOK'
  <2>1. Starting(seg + 1) \in Drive
    BY StartingType DEF TypeOK
  <2>2. call' \in [Calls -> CallState]
    BY <1>2 DEF FollowUp, TypeOK, CallState
  <2>3. drive' \in [Requests -> Drive]
    BY <1>2, <2>1 DEF FollowUp, TypeOK
  <2>4. seg' \in Nat /\ keySeg' \in Nat /\ runs' \in Nat /\ gen' \in Nat
    BY <1>2 DEF FollowUp, TypeOK
  <2>5. lastDigest' \in Digest \cup {NoDigest} /\ index' \subseteq Calls
    BY <1>2 DEF FollowUp, TypeOK
  <2> QED BY <1>2, <2>2, <2>3, <2>4, <2>5
    DEF FollowUp, TypeOK, SessionState, RunState, LoopState, history
<1>3. ASSUME NEW c \in Calls, EarlyCall(c) PROVE TypeOK'
  BY <1>3 DEF EarlyCall, TypeOK, CallState, sessionVars, pumpVars, runVars, history
<1>4. ASSUME NEW r \in Requests, StartBound(r) PROVE TypeOK'
  <2>1. Driving("start", seg, NoDigest, NoBoundary) \in Drive
    BY DrivingType DEF TypeOK, DriveKind
  <2>2. [Driving("start", seg, NoDigest, NoBoundary) EXCEPT !.gone = drive[r].gone] \in Drive
    BY <2>1 DEF TypeOK, Drive
  <2>3. gen' \in Nat /\ timers' \subseteq Nat
    BY <1>4, EarlyCount DEF StartBound, IngestEarly
  <2> QED BY <1>4, <2>2, <2>3
    DEF StartBound, IngestEarly, TypeOK, SessionState, RunState, LoopState, history
<1>5. ASSUME NEW r \in Requests, StartFails(r) PROVE TypeOK'
  <2>1. drive' \in [Requests -> Drive]
    BY <1>5 DEF StartFails, TypeOK, Drive, DriveState
  <2> QED BY <1>5, <2>1, ForgetType DEF StartFails, TypeOK, RunState, pumpVars, history
<1>6. ASSUME NEW semantic \in BOOLEAN, SdkEvent(semantic) PROVE TypeOK'
  BY <1>6 DEF SdkEvent, TypeOK, callVars, runVars, history
<1>7. ASSUME NEW c \in Calls, ToolCall(c) PROVE TypeOK'
  BY <1>7 DEF ToolCall, TypeOK, CallState, runVars, history
<1>8. ErrorBoundary \in Boundary
  BY DEF ErrorBoundary, Boundary, TypeOK
<1>9. ASSUME NEW c \in Calls, LateToolCall(c) PROVE TypeOK'
  BY <1>9, <1>8, WokenType DEF LateToolCall, Publish, TypeOK, CallState, SessionState, history
<1>10. ASSUME NEW g \in timers, Settle(g) PROVE TypeOK'
  <2>1. [type |-> "tools", seg |-> seg, ids |-> openBatch] \in Boundary
    BY DEF Boundary, TypeOK
  <2> QED BY <1>10, <2>1, WokenType
    DEF Settle, Publish, TypeOK, sessionVars, callVars, runVars, history
<1>11. CASE FirstEventTimeout
  BY <1>11, <1>8, WokenType
  DEF FirstEventTimeout, Publish, TypeOK, sessionVars, callVars, runVars, history
<1>12. CASE RunFinishes
  <2>1. [type |-> "final", seg |-> seg, ids |-> {}] \in Boundary
    BY DEF Boundary, TypeOK
  <2> QED BY <1>12, <2>1, WokenType
    DEF RunFinishes, Publish, TypeOK, RunState, LoopState, callVars, history
<1>13. CASE RunFails
  BY <1>13, <1>8, WokenType
  DEF RunFails, Publish, TypeOK, RunState, LoopState, sessionVars, callVars, history
<1>14. ASSUME NEW r \in Requests, ApplyBoundary(r) PROVE TypeOK'
  <2> DEFINE b == drive[r].got
  <2>1. b \in Boundary /\ BoundaryId(b) \in Boundary
    BY DEF TypeOK, Drive, Boundary, BoundaryId
  <2>2. drive' \in [Requests -> Drive]
    BY <1>14 DEF ApplyBoundary, TypeOK, Drive, DriveState
  <2>3. /\ hasOutput' = hasOutput /\ keySeg' = keySeg /\ early' = early
        /\ openBatch' = openBatch /\ gen' = gen /\ timers' = timers /\ pub' = pub
        /\ firstEvent' = firstEvent /\ loop' = loop /\ seg' = seg /\ run' = run
        /\ closing' = closing /\ runs' = runs /\ ledgerV2' = ledgerV2
        /\ accepted' = accepted
    BY <1>14 DEF ApplyBoundary, pumpVars
  <2>4. shown' \subseteq Calls
    BY <1>14, <2>1 DEF ApplyBoundary, TypeOK, Boundary
  <2> HIDE DEF b
  <2>5. CASE ApplyFirst(r, b)
    <3>1. b.seg \in Nat /\ index \cup Used \subseteq Calls
      BY <2>1 DEF Boundary, Used, TypeOK
    <3>2. CASE ApplyError(r, b)
      BY <2>1, <2>2, <2>3, <2>4, <2>5, <3>2, ForgetType
      DEF ApplyFirst, ApplyError, ForgottenUnanswered, TypeOK, SessionState
    <3>3. CASE ApplyTools(b)
      BY <2>1, <2>2, <2>3, <2>4, <2>5, <3>1, <3>3
      DEF ApplyFirst, ApplyTools, IndexTools, TypeOK, SessionState
    <3>4. CASE ApplyFinal(b)
      BY <2>1, <2>2, <2>3, <2>4, <2>5, <3>1, <3>4
      DEF ApplyFirst, ApplyFinal, TypeOK, SessionState
    <3> QED BY <2>5, <3>2, <3>3, <3>4 DEF ApplyFirst
  <2>6. CASE ApplyShared(r, b)
    BY <2>2, <2>3, <2>4, <2>6, ForgetType DEF ApplyShared, ForgottenUnanswered, TypeOK
  <2> QED BY <1>14, <2>5, <2>6 DEF ApplyBoundary, b
<1>15. ASSUME NEW r \in Requests, NEW d \in Digest, PostResults(r, d) PROVE TypeOK'
  <2>1. CASE AcceptResults(r, d)
    <3>1. Driving("results", seg + 1, d, NoBoundary) \in Drive
      BY DrivingType DEF TypeOK, DriveKind
    <3>2. call' \in [Calls -> CallState]
      BY <2>1 DEF AcceptResults, TypeOK, CallState
    <3>3. accepted' \subseteq [seg : Nat, digest : Digest]
      BY <2>1 DEF AcceptResults, TypeOK
    <3> QED BY <2>1, <3>1, <3>2, <3>3
      DEF AcceptResults, BeginNextSegment, TypeOK, SessionState, runVars
  <2>2. CASE JoinResuming(r, d)
    <3>1. Driving("results", seg, d, pub) \in Drive
      BY DrivingType DEF TypeOK, DriveKind
    <3> QED BY <2>2, <3>1
      DEF JoinResuming, TypeOK, sessionVars, callVars, pumpVars, runVars, history
  <2>3. CASE ReplayResults(r, d)
    <3>1. Driving("results", replay.seg, d, replay) \in Drive
      BY DrivingType DEF TypeOK, DriveKind, Boundary
    <3>2. [Driving("results", replay.seg, d, replay) EXCEPT !.pc = "replayed"] \in Drive
      BY <3>1 DEF Drive, DriveState
    <3> QED BY <2>3, <3>2
      DEF ReplayResults, TypeOK, sessionVars, callVars, pumpVars, runVars, history
  <2>4. CASE Reroute(r, d)
    <3>1. Driving("results", 0, d, NoBoundary) \in Drive
      BY DrivingType DEF DriveKind
    <3>2. [Driving("results", 0, d, NoBoundary) EXCEPT !.pc = "rerouted"] \in Drive
      BY <3>1 DEF Drive, DriveState
    <3> QED BY <2>4, <3>2
      DEF Reroute, TypeOK, sessionVars, callVars, pumpVars, runVars, history
  <2> QED BY <1>15, <2>1, <2>2, <2>3, <2>4 DEF PostResults
<1>16. ASSUME NEW r \in Requests, Reconnect(r) PROVE TypeOK'
  <2>1. /\ Driving("reconnect", keySeg, NoDigest, pub) \in Drive
        /\ Driving("reconnect", keySeg, NoDigest, replay) \in Drive
    BY DrivingType DEF TypeOK, DriveKind
  <2>2. [Driving("reconnect", keySeg, NoDigest, replay) EXCEPT !.pc = "replayed"] \in Drive
    BY <2>1 DEF Drive, DriveState
  <2>3. replay.ids \subseteq Calls
    BY DEF TypeOK, Boundary
  <2> QED BY <1>16, <2>1, <2>2, <2>3
    DEF Reconnect, TypeOK, sessionVars, callVars, pumpVars, runVars
<1>17. ASSUME NEW r \in Requests, Disconnect(r) PROVE TypeOK'
  <2>1. drive' \in [Requests -> Drive]
    BY <1>17 DEF Disconnect, TypeOK, Drive
  <2> QED BY <1>17, <2>1 DEF Disconnect, TypeOK, sessionVars, callVars, pumpVars, history
<1>18. CASE CancelForgets
  BY <1>18, ForgetType DEF CancelForgets, TypeOK, pumpVars, history
<1>19. CASE SweepForgets
  BY <1>19, ForgetType DEF SweepForgets, TypeOK, pumpVars, history
<1>20. CASE UNCHANGED vars
  BY <1>20 DEF vars, TypeOK, sessionVars, callVars, pumpVars, runVars, history
<1> QED BY <1>1, <1>2, <1>3, <1>4, <1>5, <1>6, <1>7, <1>9, <1>10, <1>11, <1>12, <1>13,
           <1>14, <1>15, <1>16, <1>17, <1>18, <1>19, <1>20 DEF Next

\* Every reachable state of the session, its pump, its calls and its requests
\* has its type.
THEOREM TypeCorrect == Spec => []TypeOK
  BY InitType, NextType, PTL DEF Spec

-----------------------------------------------------------------------------
(* The inductive invariant behind SegmentFidelity and DigestFidelity *)

Starters == {r \in Requests : drive[r].pc = "starting"}

\* Until a send is bound nothing of its pump exists and nobody waits on it.
QuietUntilBound ==
  /\ run \in {"none", "starting"} =>
       /\ pub.type = "none" /\ timers = {} /\ loop = "idle"
       /\ \A r \in Requests : drive[r].pc \notin {"waiting", "woken"}
  /\ run = "starting" => st \in {"creating", "running", "closed"}
  /\ run = "none" => st = "none" /\ ~registered /\ ~closing
  /\ st = "none" => run = "none"

\* One request at a time awaits a send, the one that started the run.
OneStarter ==
  /\ \A r \in Requests : drive[r].pc = "starting" => run = "starting"
  /\ \A r, q \in Starters : r = q

\* A published boundary, and a boundary a woken drive carries, is the one of the
\* segment being built; whoever waits does so because nothing is published.
CurrentBoundary ==
  /\ pub.type # "none" => pub.seg = seg
  /\ \A r \in Requests :
       /\ drive[r].pc = "waiting" => pub.type = "none"
       /\ drive[r].pc = "woken" => pub.type # "none" /\ drive[r].got.seg = seg
  /\ st \in {"awaiting", "completed"} => pub.type # "none"
  /\ st = "completed" /\ replay.type # "none" => replay.seg = seg

\* A request on its way to an answer belongs to the segment being built.
CurrentDrive ==
  \A r \in Requests :
    drive[r].kind \in {"start", "results"} /\ drive[r].pc \in {"starting", "waiting", "woken"}
      => drive[r].seg = seg

\* What was accepted is over, and the last digest is the one this segment took.
AcceptedIsOver ==
  /\ \A a \in accepted :
       /\ a.seg <= seg
       /\ a.digest.ids # {}
       /\ \A c \in a.digest.ids : call[c] \notin {"unused", "parked"}
  /\ lastDigest # NoDigest => [seg |-> seg, digest |-> lastDigest] \in accepted

SegmentInv ==
  /\ TypeOK
  /\ QuietUntilBound
  /\ OneStarter
  /\ CurrentBoundary
  /\ CurrentDrive
  /\ AcceptedIsOver
  /\ SegmentFidelity
  /\ DigestFidelity

\* The parts of the invariant that a step has to establish beside its types.
Parts ==
  /\ QuietUntilBound /\ OneStarter /\ CurrentBoundary /\ CurrentDrive
  /\ AcceptedIsOver /\ SegmentFidelity /\ DigestFidelity

\* A call that is over stays over.
CallsOnlyEnd ==
  \A c \in Calls : call[c] \notin {"unused", "parked"} => call'[c] \notin {"unused", "parked"}

LEMMA OverStaysOver ==
  ASSUME SegmentInv, CallsOnlyEnd, accepted' = accepted, seg' = seg, lastDigest' = lastDigest
  PROVE  AcceptedIsOver'
<1>1. \A a \in accepted : a.digest.ids \subseteq Calls
  BY DEF SegmentInv, TypeOK, Digest
<1> QED BY <1>1 DEF SegmentInv, AcceptedIsOver, CallsOnlyEnd

\* A step that touches neither the requests nor the segment.
LEMMA QuietStep ==
  ASSUME SegmentInv, CallsOnlyEnd,
         UNCHANGED <<st, registered, replay, lastDigest, pub, loop, seg, run, closing, drive, accepted>>,
         timers' = timers \/ run \notin {"none", "starting"}
  PROVE  Parts'
<1>1. AcceptedIsOver'
  BY OverStaysOver
<1> QED BY <1>1
  DEF Parts, SegmentInv, QuietUntilBound, OneStarter, Starters, CurrentBoundary, CurrentDrive,
      SegmentFidelity, Answered, DigestFidelity

\* publish() wakes the requests that wait on the segment and nobody else.
LEMMA PublishStep ==
  ASSUME SegmentInv, CallsOnlyEnd,
         NEW b \in Boundary, b.type # "none", b.seg = seg, Publish(b),
         UNCHANGED <<registered, replay, lastDigest, seg, closing, accepted>>,
         st' \in {st, "failed"},
         run \notin {"none", "starting"}, run' \notin {"none", "starting"}
  PROVE  Parts'
<1>1. AcceptedIsOver'
  BY OverStaysOver
<1>2. \A r \in Requests :
        /\ drive[r].pc = "waiting" => drive'[r] = [drive[r] EXCEPT !.pc = "woken", !.got = b]
        /\ drive[r].pc # "waiting" => drive'[r] = drive[r]
  BY DEF Publish, Woken, Waiters
<1>3. \A r \in Requests :
        /\ drive'[r].seg = drive[r].seg /\ drive'[r].kind = drive[r].kind
        /\ drive'[r].digest = drive[r].digest
        /\ drive'[r].pc # "waiting"
        /\ drive[r].pc = "waiting" => drive'[r].pc = "woken" /\ drive'[r].got = b
        /\ drive[r].pc # "waiting" => drive'[r].pc = drive[r].pc /\ drive'[r].got = drive[r].got
  <2> SUFFICES ASSUME NEW r \in Requests
      PROVE  /\ drive'[r].seg = drive[r].seg /\ drive'[r].kind = drive[r].kind
             /\ drive'[r].digest = drive[r].digest
             /\ drive'[r].pc # "waiting"
             /\ drive[r].pc = "waiting" => drive'[r].pc = "woken" /\ drive'[r].got = b
             /\ drive[r].pc # "waiting"
                  => drive'[r].pc = drive[r].pc /\ drive'[r].got = drive[r].got
    OBVIOUS
  <2>1. drive[r] \in Drive
    BY DEF SegmentInv, TypeOK
  <2> QED BY <1>2, <2>1 DEF Drive
<1>4. pub' = b
  BY DEF Publish
<1>5. QuietUntilBound'
  BY DEF SegmentInv, QuietUntilBound
<1>6. OneStarter'
  BY <1>3 DEF SegmentInv, OneStarter, Starters
<1>7. CurrentBoundary'
  BY <1>3, <1>4 DEF SegmentInv, CurrentBoundary
<1>8. CurrentDrive'
  BY <1>3 DEF SegmentInv, CurrentDrive
<1>9. SegmentFidelity'
  BY <1>3 DEF SegmentInv, SegmentFidelity, Answered
<1>10. DigestFidelity'
  BY <1>3 DEF SegmentInv, DigestFidelity
<1> QED BY <1>1, <1>5, <1>6, <1>7, <1>8, <1>9, <1>10 DEF Parts

\* Only the progress of request r changes.
LEMMA PcOnly ==
  ASSUME drive \in [Requests -> Drive], NEW r \in Requests, NEW pc,
         drive' = [drive EXCEPT ![r].pc = pc]
  PROVE  \A q \in Requests :
           /\ drive'[q].kind = drive[q].kind /\ drive'[q].seg = drive[q].seg
           /\ drive'[q].got = drive[q].got /\ drive'[q].digest = drive[q].digest
           /\ drive'[q].pc = IF q = r THEN pc ELSE drive[q].pc
<1> SUFFICES ASSUME NEW q \in Requests
    PROVE  /\ drive'[q].kind = drive[q].kind /\ drive'[q].seg = drive[q].seg
           /\ drive'[q].got = drive[q].got /\ drive'[q].digest = drive[q].digest
           /\ drive'[q].pc = IF q = r THEN pc ELSE drive[q].pc
  OBVIOUS
<1>1. drive[q] \in Drive
  OBVIOUS
<1>2. drive'[q] = IF q = r THEN [drive[q] EXCEPT !.pc = pc] ELSE drive[q]
  OBVIOUS
<1> QED BY <1>1, <1>2 DEF Drive

\* A request enters with drive x, or the drive of a request moves on to x.
LEMMA DriveStep ==
  ASSUME SegmentInv, NEW r \in Requests, NEW x \in Drive,
         drive' = [drive EXCEPT ![r] = x],
         UNCHANGED <<seg, lastDigest, accepted, pub, replay, timers, loop, closing>>,
         CallsOnlyEnd,
         x.pc # "starting",
         QuietUntilBound', 
         \A q \in Requests : drive'[q].pc = "starting" => run' = "starting",
         st' \in {"awaiting", "completed"} => pub.type # "none",
         st' = "completed" => st = "completed",
         x.pc = "waiting" => pub.type = "none",
         x.pc = "woken" => pub.type # "none" /\ x.got.seg = seg,
         x.kind \in {"start", "results"} /\ x.pc \in {"waiting", "woken"} => x.seg = seg,
         x.kind \in {"start", "results"} /\ x.pc \in {"answered", "replayed"} => x.got.seg = x.seg,
         x.kind = "results" /\ x.pc \in {"waiting", "woken", "answered", "replayed"}
           => [seg |-> x.seg, digest |-> x.digest] \in accepted
  PROVE  Parts'
<1>1. AcceptedIsOver'
  BY OverStaysOver
<1>2. \A q \in Requests : drive'[q] = IF q = r THEN x ELSE drive[q]
  BY DEF SegmentInv, TypeOK
<1>3. OneStarter'
  BY <1>2 DEF SegmentInv, OneStarter, Starters
<1>4. CurrentBoundary'
  BY <1>2 DEF SegmentInv, CurrentBoundary
<1>5. CurrentDrive'
  BY <1>2 DEF SegmentInv, CurrentDrive
<1>6. SegmentFidelity'
  BY <1>2 DEF SegmentInv, SegmentFidelity, Answered
<1>7. DigestFidelity'
  BY <1>2 DEF SegmentInv, DigestFidelity
<1> QED BY <1>1, <1>3, <1>4, <1>5, <1>6, <1>7 DEF Parts

\* registry.forget touches nothing SegmentInv speaks of.
LEMMA ForgetStep ==
  ASSUME SegmentInv, Forget, run # "none", run' = run,
         UNCHANGED <<pub, seg, loop, timers, replay, lastDigest, accepted, drive>>
  PROVE  Parts'
<1>1. CallsOnlyEnd
  BY DEF Forget, CallsOnlyEnd, SegmentInv, TypeOK
<1>2. AcceptedIsOver'
  BY <1>1, OverStaysOver
<1> QED BY <1>2
  DEF Parts, SegmentInv, Forget, QuietUntilBound, OneStarter, Starters, CurrentBoundary,
      CurrentDrive, SegmentFidelity, Answered, DigestFidelity

\* The segment invariant holds before any request.
LEMMA InitSegmentInv == Init => SegmentInv
<1> SUFFICES ASSUME Init PROVE SegmentInv
  OBVIOUS
<1>1. TypeOK
  BY InitType
<1>2. \A r \in Requests : drive[r] = IdleDrive
  BY DEF Init
<1> QED BY <1>1, <1>2
  DEF Init, SegmentInv, QuietUntilBound, OneStarter, Starters, CurrentBoundary, CurrentDrive,
      AcceptedIsOver, SegmentFidelity, Answered, DigestFidelity, IdleDrive, NoBoundary

\* Every step of the session keeps the segment invariant.
LEMMA NextSegmentInv == SegmentInv /\ [Next]_vars => SegmentInv'
<1> SUFFICES ASSUME SegmentInv, [Next]_vars PROVE SegmentInv'
  OBVIOUS
<1>0. TypeOK'
  BY NextType DEF SegmentInv
<1> SUFFICES Parts'
  BY <1>0 DEF SegmentInv, Parts
<1>t. TypeOK
  BY DEF SegmentInv
<1>drives. drive \in [Requests -> Drive]
  BY <1>t DEF TypeOK
<1>1. ASSUME NEW r \in Requests, StartTurn(r) PROVE Parts'
  <2>1. \A q \in Requests : drive'[q] = IF q = r THEN Starting(seg) ELSE drive[q]
    BY <1>1, <1>t DEF StartTurn, TypeOK
  <2>2. run = "none" /\ pub.type = "none" /\ \A q \in Requests : drive[q].pc # "starting"
    BY <1>1 DEF StartTurn, SegmentInv, QuietUntilBound, OneStarter
  <2> QED BY <1>1, <2>1, <2>2
    DEF StartTurn, Starting, callVars, pumpVars, history, Parts, SegmentInv, QuietUntilBound,
        OneStarter, Starters, CurrentBoundary, CurrentDrive, AcceptedIsOver, SegmentFidelity,
        Answered, DigestFidelity
<1>2. ASSUME NEW r \in Requests, FollowUp(r) PROVE Parts'
  <2>1. \A q \in Requests : drive'[q] = IF q = r THEN Starting(seg + 1) ELSE drive[q]
    BY <1>2, <1>t DEF FollowUp, TypeOK
  <2>2. \A q \in Requests : drive[q].pc \notin {"starting", "waiting", "woken"}
    BY <1>2
    DEF FollowUp, MicrotasksDrained, SegmentInv, CurrentBoundary, QuietUntilBound, OneStarter
  <2>3. AcceptedIsOver'
    <3>1. CallsOnlyEnd
      BY <1>2, <1>t DEF FollowUp, CallsOnlyEnd, Used, TypeOK
    <3>2. \A a \in accepted : a.digest.ids \subseteq Calls /\ a.seg \in Nat
      BY <1>t DEF TypeOK, Digest
    <3> QED BY <1>2, <1>t, <3>1, <3>2
      DEF FollowUp, history, SegmentInv, AcceptedIsOver, CallsOnlyEnd, TypeOK
  <2>4. QuietUntilBound' /\ OneStarter'
    BY <1>2, <2>1, <2>2
    DEF FollowUp, Starting, NoBoundary, QuietUntilBound, OneStarter, Starters
  <2>5. CurrentBoundary' /\ CurrentDrive'
    BY <1>2, <2>1, <2>2
    DEF FollowUp, Starting, NoBoundary, CurrentBoundary, CurrentDrive
  <2>6. SegmentFidelity' /\ DigestFidelity'
    BY <1>2, <2>1, <2>2
    DEF FollowUp, Starting, history, SegmentInv, SegmentFidelity, Answered, DigestFidelity
  <2> QED BY <2>3, <2>4, <2>5, <2>6 DEF Parts
<1>3. ASSUME NEW c \in Calls, EarlyCall(c) PROVE Parts'
  <2>1. CallsOnlyEnd
    BY <1>3, <1>t DEF EarlyCall, CallsOnlyEnd, TypeOK
  <2> QED BY <1>3, <2>1, QuietStep
    DEF EarlyCall, sessionVars, pumpVars, runVars, history
<1>4. ASSUME NEW r \in Requests, StartBound(r) PROVE Parts'
  <2> DEFINE x == [Driving("start", seg, NoDigest, NoBoundary) EXCEPT !.gone = drive[r].gone]
  <2>1. x.pc = "waiting" /\ x.kind = "start" /\ x.seg = seg
    BY DEF Driving, NoBoundary
  <2>2. \A q \in Requests : drive'[q] = IF q = r THEN x ELSE drive[q]
    BY <1>4, <1>t DEF StartBound, TypeOK
  <2>3. /\ run = "starting" /\ pub.type = "none"
        /\ st \in {"creating", "running", "closed"}
        /\ \A q \in Requests : drive[q].pc \notin {"waiting", "woken"}
        /\ \A q \in Requests : drive[q].pc = "starting" => q = r
    BY <1>4 DEF StartBound, SegmentInv, QuietUntilBound, OneStarter, Starters
  <2> HIDE DEF x
  <2>4. AcceptedIsOver'
    BY <1>4, OverStaysOver DEF StartBound, history, CallsOnlyEnd
  <2>5. QuietUntilBound' /\ OneStarter'
    BY <1>4, <2>1, <2>2, <2>3, ZenonT(30) DEF StartBound, QuietUntilBound, OneStarter, Starters
  <2>6. CurrentBoundary' /\ CurrentDrive'
    BY <1>4, <2>1, <2>2, <2>3, ZenonT(30) DEF StartBound, SegmentInv, CurrentBoundary, CurrentDrive
  <2>7. SegmentFidelity' /\ DigestFidelity'
    <3>1. accepted' = accepted
      BY <1>4 DEF StartBound, history
    <3> QED BY <2>1, <2>2, <3>1
      DEF SegmentInv, SegmentFidelity, Answered, DigestFidelity
  <2> QED BY <2>4, <2>5, <2>6, <2>7 DEF Parts
<1>5. ASSUME NEW r \in Requests, StartFails(r) PROVE Parts'
  <2>1. \A q \in Requests :
          /\ drive'[q].kind = drive[q].kind /\ drive'[q].seg = drive[q].seg
          /\ drive'[q].got = drive[q].got /\ drive'[q].digest = drive[q].digest
          /\ drive'[q].pc = IF q = r THEN "failed" ELSE drive[q].pc
    BY <1>5, <1>drives, PcOnly DEF StartFails
  <2>2. /\ run = "starting"
        /\ \A q \in Requests : drive[q].pc = "starting" => q = r
    BY <1>5 DEF StartFails, SegmentInv, OneStarter, Starters
  <2>3. CallsOnlyEnd
    BY <1>5, <1>t DEF StartFails, Forget, CallsOnlyEnd, TypeOK
  <2>4. AcceptedIsOver'
    BY <1>5, <2>3, OverStaysOver DEF StartFails, pumpVars, history
  <2> QED BY <1>5, <2>1, <2>2, <2>4
    DEF StartFails, Forget, pumpVars, history, Parts, SegmentInv, QuietUntilBound, OneStarter,
        Starters, CurrentBoundary, CurrentDrive, SegmentFidelity, Answered, DigestFidelity
<1>6. ASSUME NEW semantic \in BOOLEAN, SdkEvent(semantic) PROVE Parts'
  BY <1>6, QuietStep DEF SdkEvent, callVars, runVars, history, CallsOnlyEnd
<1>7. ASSUME NEW c \in Calls, ToolCall(c) PROVE Parts'
  <2>1. CallsOnlyEnd
    BY <1>7, <1>t DEF ToolCall, CallsOnlyEnd, TypeOK
  <2> QED BY <1>7, <2>1, QuietStep DEF ToolCall, runVars, history
<1>8. ErrorBoundary \in Boundary /\ ErrorBoundary.type # "none" /\ ErrorBoundary.seg = seg
  BY <1>t DEF ErrorBoundary, Boundary, TypeOK
<1>9. ASSUME NEW c \in Calls, LateToolCall(c) PROVE Parts'
  <2>1. CallsOnlyEnd
    BY <1>9, <1>t DEF LateToolCall, CallsOnlyEnd, TypeOK
  <2> QED BY <1>9, <1>8, <2>1, PublishStep DEF LateToolCall, history
<1>10. ASSUME NEW g \in timers, Settle(g) PROVE Parts'
  <2>1. run \notin {"none", "starting"}
    BY DEF SegmentInv, QuietUntilBound
  <2>2. CallsOnlyEnd
    BY <1>10 DEF Settle, callVars, CallsOnlyEnd
  <2>3. CASE openBatch' = openBatch /\ UNCHANGED <<pub, drive>>
    BY <1>10, <2>1, <2>2, <2>3, QuietStep DEF Settle, sessionVars, runVars, history
  <2>4. CASE Publish([type |-> "tools", seg |-> seg, ids |-> openBatch])
    <3>1. [type |-> "tools", seg |-> seg, ids |-> openBatch] \in Boundary
      BY <1>t DEF Boundary, TypeOK
    <3> QED BY <1>10, <2>1, <2>2, <2>4, <3>1, PublishStep
      DEF Settle, sessionVars, runVars, history
  <2> QED BY <1>10, <2>3, <2>4 DEF Settle
<1>11. CASE FirstEventTimeout
  <2>1. run \notin {"none", "starting"}
    BY <1>11 DEF FirstEventTimeout, SegmentInv, QuietUntilBound
  <2> QED BY <1>11, <1>8, <2>1, PublishStep
    DEF FirstEventTimeout, sessionVars, callVars, runVars, history, CallsOnlyEnd
<1>12. CASE RunFinishes
  <2>1. [type |-> "final", seg |-> seg, ids |-> {}] \in Boundary
    BY <1>t DEF Boundary, TypeOK
  <2> QED BY <1>12, <2>1, PublishStep DEF RunFinishes, callVars, history, CallsOnlyEnd
<1>13. CASE RunFails
  BY <1>13, <1>8, PublishStep
  DEF RunFails, sessionVars, callVars, history, CallsOnlyEnd
<1>14. ASSUME NEW r \in Requests, ApplyBoundary(r) PROVE Parts'
  <2> DEFINE b == drive[r].got
             pc == IF b.type = "error" THEN "failed" ELSE "answered"
  <2>1. /\ pub.type # "none" /\ b.seg = seg
        /\ run \notin {"none", "starting"}
        /\ \A q \in Requests : drive[q].pc \notin {"starting", "waiting"}
    BY <1>14
    DEF ApplyBoundary, SegmentInv, CurrentBoundary, QuietUntilBound, OneStarter
  <2>2. \A q \in Requests :
          /\ drive'[q].kind = drive[q].kind /\ drive'[q].seg = drive[q].seg
          /\ drive'[q].got = drive[q].got /\ drive'[q].digest = drive[q].digest
          /\ drive'[q].pc = IF q = r THEN pc ELSE drive[q].pc
    BY <1>14, <1>drives, PcOnly DEF ApplyBoundary
  <2>3. /\ UNCHANGED <<pub, seg, loop, timers, run, closing, accepted>>
        /\ drive[r].pc = "woken"
    BY <1>14 DEF ApplyBoundary, pumpVars
  <2>4. /\ st' \in {st, "closed", "failed", "awaiting", "completed"} /\ st' # "none"
        /\ registered' => registered
        /\ lastDigest' \in {lastDigest, NoDigest}
        /\ st' = "completed" => replay' = b \/ (st = "completed" /\ replay' = replay)
        /\ CallsOnlyEnd
    <3>1. st # "none"
      BY <2>1 DEF SegmentInv, QuietUntilBound
    <3>2. Forget => st' = "closed" /\ ~registered' /\ CallsOnlyEnd
      BY <1>t DEF Forget, CallsOnlyEnd, TypeOK
    <3>3. call' = call => CallsOnlyEnd
      BY DEF CallsOnlyEnd
    <3>4. CASE ApplyFirst(r, b)
      BY <3>1, <3>2, <3>3, <3>4
      DEF ApplyFirst, ApplyError, ApplyTools, ApplyFinal, ForgottenUnanswered
    <3>5. CASE ApplyShared(r, b)
      BY <3>1, <3>2, <3>3, <3>5 DEF ApplyShared, ForgottenUnanswered
    <3> QED BY <1>14, <3>4, <3>5 DEF ApplyBoundary
  <2> HIDE DEF b
  <2>5. QuietUntilBound' /\ OneStarter'
    BY <2>1, <2>2, <2>3, <2>4 DEF QuietUntilBound, OneStarter, Starters
  <2>6. CurrentBoundary'
    BY <2>1, <2>2, <2>3, <2>4 DEF SegmentInv, CurrentBoundary
  <2>7. CurrentDrive' /\ SegmentFidelity' /\ DigestFidelity'
    BY <2>1, <2>2, <2>3
    DEF SegmentInv, CurrentDrive, SegmentFidelity, Answered, DigestFidelity, b
  <2>8. AcceptedIsOver'
    <3>1. \A a \in accepted : a.digest.ids \subseteq Calls
      BY <1>t DEF TypeOK, Digest
    <3> QED BY <2>3, <2>4, <3>1 DEF SegmentInv, AcceptedIsOver, CallsOnlyEnd
  <2> QED BY <2>5, <2>6, <2>7, <2>8 DEF Parts
<1>15. ASSUME NEW r \in Requests, NEW d \in Digest, PostResults(r, d) PROVE Parts'
  <2>1. CASE AcceptResults(r, d)
    <3> DEFINE x == Driving("results", seg + 1, d, NoBoundary)
               a == [seg |-> seg + 1, digest |-> d]
    <3>1. /\ x.pc = "waiting" /\ x.kind = "results" /\ x.seg = seg + 1 /\ x.digest = d
          /\ pub' = NoBoundary /\ NoBoundary.type = "none" /\ seg' = seg + 1
      BY <2>1 DEF AcceptResults, BeginNextSegment, Driving, NoBoundary
    <3>2. \A q \in Requests : drive'[q] = IF q = r THEN x ELSE drive[q]
      BY <2>1, <3>1, <1>drives DEF AcceptResults
    <3>3. /\ run \notin {"none", "starting"}
          /\ \A q \in Requests : drive[q].pc \notin {"starting", "waiting", "woken"}
      BY <1>15, <2>1
      DEF PostResults, AcceptResults, MicrotasksDrained, SegmentInv, CurrentBoundary,
          QuietUntilBound, OneStarter
    <3>4. accepted' = accepted \cup {a} /\ d.ids = Unresolved /\ d.ids # {}
      BY <1>15, <2>1 DEF PostResults, AcceptResults
    <3>5. \A e \in accepted : e.seg # a.seg /\ e.digest.ids # d.ids
      <4> SUFFICES ASSUME NEW e \in accepted PROVE e.seg # a.seg /\ e.digest.ids # d.ids
        OBVIOUS
      <4>1. e.seg \in Nat /\ seg \in Nat /\ e.seg <= seg
        BY <1>t DEF TypeOK, SegmentInv, AcceptedIsOver
      <4>2. PICK c \in d.ids : call[c] = "parked"
        BY <3>4 DEF Unresolved
      <4>3. c \notin e.digest.ids
        BY <4>2 DEF SegmentInv, AcceptedIsOver
      <4> QED BY <4>1, <4>2, <4>3
    <3>6. AcceptedIsOver'
      <4>1. \A e \in accepted : e.seg \in Nat /\ e.digest.ids \subseteq Calls
        BY <1>t DEF TypeOK, Digest
      <4>2. \A c \in Calls : call'[c] = IF c \in d.ids THEN "resolved" ELSE call[c]
        BY <2>1, <1>t DEF AcceptResults, TypeOK
      <4>3. d.ids \subseteq Calls /\ seg \in Nat
        BY <1>t DEF Digest, TypeOK
      <4>4. lastDigest' = d
        BY <2>1 DEF AcceptResults
      <4> QED BY <3>1, <3>4, <4>1, <4>2, <4>3, <4>4 DEF SegmentInv, AcceptedIsOver
    <3> HIDE DEF x
    <3>7. QuietUntilBound' /\ OneStarter' /\ CurrentBoundary' /\ CurrentDrive'
      BY <2>1, <3>1, <3>2, <3>3
      DEF AcceptResults, runVars, QuietUntilBound, OneStarter, Starters, CurrentBoundary,
          CurrentDrive
    <3>8. SegmentFidelity'
      BY <3>1, <3>2 DEF SegmentInv, SegmentFidelity, Answered
    <3>9. DigestFidelity'
      BY <3>1, <3>2, <3>4, <3>5 DEF SegmentInv, DigestFidelity
    <3> QED BY <3>6, <3>7, <3>8, <3>9 DEF Parts
  <2>2. CASE JoinResuming(r, d)
    <3> DEFINE x == Driving("results", seg, d, pub)
    <3>1. /\ x.kind = "results" /\ x.seg = seg /\ x.digest = d /\ x.got = pub
          /\ x.pc = IF pub.type = "none" THEN "waiting" ELSE "woken"
          /\ x \in Drive
      BY <1>t, DrivingType DEF Driving, TypeOK, DriveKind
    <3>2. /\ st = "resuming" /\ drive' = [drive EXCEPT ![r] = x]
          /\ UNCHANGED <<sessionVars, callVars, pumpVars, runVars, ledgerV2, history>>
          /\ [seg |-> seg, digest |-> d] \in accepted
      BY <2>2, NoDigestAssumption
      DEF JoinResuming, SegmentInv, AcceptedIsOver, Digest
    <3>3. run \notin {"none", "starting"}
      BY <3>2 DEF SegmentInv, QuietUntilBound
    <3> HIDE DEF x
    <3> QED BY <1>drives, <3>1, <3>2, <3>3, DriveStep
      DEF sessionVars, callVars, pumpVars, runVars, history, CallsOnlyEnd, SegmentInv,
          QuietUntilBound, OneStarter, CurrentBoundary
  <2>3. CASE ReplayResults(r, d)
    <3> DEFINE x == [Driving("results", replay.seg, d, replay) EXCEPT !.pc = "replayed"]
    <3>1. /\ x.kind = "results" /\ x.seg = replay.seg /\ x.digest = d /\ x.got = replay
          /\ x.pc = "replayed"
      BY DEF Driving
    <3>2. x \in Drive
      <4>1. Driving("results", replay.seg, d, replay) \in Drive
        BY <1>t, DrivingType DEF TypeOK, DriveKind, Boundary
      <4> QED BY <4>1 DEF Drive, DriveState
    <3>3. /\ st = "completed" /\ drive' = [drive EXCEPT ![r] = x]
          /\ UNCHANGED <<sessionVars, callVars, pumpVars, runVars, ledgerV2, history>>
          /\ [seg |-> replay.seg, digest |-> d] \in accepted
      BY <2>3, NoDigestAssumption
      DEF ReplayResults, SegmentInv, AcceptedIsOver, CurrentBoundary, Digest
    <3> HIDE DEF x
    <3> QED BY <1>drives, <3>1, <3>2, <3>3, DriveStep
      DEF sessionVars, callVars, pumpVars, runVars, history, CallsOnlyEnd, SegmentInv,
          QuietUntilBound, OneStarter, CurrentBoundary
  <2>4. CASE Reroute(r, d)
    <3> DEFINE x == [Driving("results", 0, d, NoBoundary) EXCEPT !.pc = "rerouted"]
    <3>1. x.pc = "rerouted"
      BY DEF Driving
    <3>2. x \in Drive
      <4>1. Driving("results", 0, d, NoBoundary) \in Drive
        BY DrivingType, NoBoundaryType DEF DriveKind
      <4> QED BY <4>1 DEF Drive, DriveState
    <3> HIDE DEF x
    <3>3. /\ drive' = [drive EXCEPT ![r] = x]
          /\ UNCHANGED <<sessionVars, callVars, pumpVars, runVars, ledgerV2, history>>
      BY <2>4 DEF Reroute, x
    <3> QED BY <1>drives, <3>1, <3>2, <3>3, DriveStep
      DEF sessionVars, callVars, pumpVars, runVars, history, CallsOnlyEnd, SegmentInv,
          QuietUntilBound, OneStarter, CurrentBoundary
  <2> QED BY <1>15, <2>1, <2>2, <2>3, <2>4 DEF PostResults
<1>16. ASSUME NEW r \in Requests, Reconnect(r) PROVE Parts'
  <2>1. /\ run \notin {"none", "starting"}
        /\ UNCHANGED <<sessionVars, callVars, pumpVars, runVars, accepted>>
    BY <1>16 DEF Reconnect
  <2>2. CASE drive' = [drive EXCEPT ![r] = Driving("reconnect", keySeg, NoDigest, pub)]
    <3> DEFINE x == Driving("reconnect", keySeg, NoDigest, pub)
    <3>1. /\ x.kind = "reconnect" /\ x.got = pub
          /\ x.pc = IF pub.type = "none" THEN "waiting" ELSE "woken"
          /\ x \in Drive
      BY <1>t, DrivingType DEF Driving, TypeOK, DriveKind
    <3> HIDE DEF x
    <3>2. drive' = [drive EXCEPT ![r] = x]
      BY <2>2 DEF x
    <3> QED BY <1>drives, <2>1, <3>1, <3>2, DriveStep
      DEF sessionVars, callVars, pumpVars, runVars, CallsOnlyEnd, SegmentInv, QuietUntilBound,
          OneStarter, CurrentBoundary
  <2>3. CASE drive' = [drive EXCEPT ![r] = [Driving("reconnect", keySeg, NoDigest, replay)
                                              EXCEPT !.pc = "replayed"]]
    <3> DEFINE x == [Driving("reconnect", keySeg, NoDigest, replay) EXCEPT !.pc = "replayed"]
    <3>1. x.kind = "reconnect" /\ x.pc = "replayed"
      BY DEF Driving
    <3>2. x \in Drive
      <4>1. Driving("reconnect", keySeg, NoDigest, replay) \in Drive
        BY <1>t, DrivingType DEF TypeOK, DriveKind
      <4> QED BY <4>1 DEF Drive, DriveState
    <3> HIDE DEF x
    <3>3. drive' = [drive EXCEPT ![r] = x]
      BY <2>3 DEF x
    <3> QED BY <1>drives, <2>1, <3>1, <3>2, <3>3, DriveStep
      DEF sessionVars, callVars, pumpVars, runVars, CallsOnlyEnd, SegmentInv, QuietUntilBound,
          OneStarter, CurrentBoundary
  <2> QED BY <1>16, <2>2, <2>3 DEF Reconnect
<1>17. ASSUME NEW r \in Requests, Disconnect(r) PROVE Parts'
  <2>1. \A q \in Requests :
          /\ drive'[q].pc = drive[q].pc /\ drive'[q].kind = drive[q].kind
          /\ drive'[q].seg = drive[q].seg /\ drive'[q].got = drive[q].got
          /\ drive'[q].digest = drive[q].digest
    <3> SUFFICES ASSUME NEW q \in Requests
        PROVE  /\ drive'[q].pc = drive[q].pc /\ drive'[q].kind = drive[q].kind
               /\ drive'[q].seg = drive[q].seg /\ drive'[q].got = drive[q].got
               /\ drive'[q].digest = drive[q].digest
      OBVIOUS
    <3>1. drive'[q] = IF q = r THEN [drive[q] EXCEPT !.gone = TRUE] ELSE drive[q]
      BY <1>17, <1>drives DEF Disconnect
    <3>2. drive[q] \in Drive
      BY <1>drives
    <3> QED BY <3>1, <3>2 DEF Drive
  <2>2. /\ UNCHANGED <<sessionVars, callVars, pumpVars, run, accepted>>
        /\ closing' = closing \/ drive[r].pc = "waiting"
    BY <1>17 DEF Disconnect, history
  <2>3. run = "none" => \A q \in Requests : drive[q].pc # "waiting"
    BY DEF SegmentInv, QuietUntilBound
  <2>4. AcceptedIsOver'
    BY <2>2, OverStaysOver DEF sessionVars, callVars, pumpVars, CallsOnlyEnd
  <2>5. QuietUntilBound' /\ OneStarter'
    BY <2>1, <2>2, <2>3
    DEF sessionVars, pumpVars, SegmentInv, QuietUntilBound, OneStarter, Starters
  <2>6. CurrentBoundary' /\ CurrentDrive' /\ SegmentFidelity' /\ DigestFidelity'
    BY <2>1, <2>2
    DEF sessionVars, pumpVars, SegmentInv, CurrentBoundary, CurrentDrive, SegmentFidelity,
        Answered, DigestFidelity
  <2> QED BY <2>4, <2>5, <2>6 DEF Parts
<1>18. CASE CancelForgets
  BY <1>18, ForgetStep DEF CancelForgets, pumpVars, history, SegmentInv, QuietUntilBound
<1>19. CASE SweepForgets
  BY <1>19, ForgetStep DEF SweepForgets, pumpVars, history, SegmentInv, QuietUntilBound
<1>20. CASE UNCHANGED vars
  BY <1>20, QuietStep
  DEF vars, sessionVars, callVars, pumpVars, runVars, history, CallsOnlyEnd
<1> QED BY <1>1, <1>2, <1>3, <1>4, <1>5, <1>6, <1>7, <1>9, <1>10, <1>11, <1>12, <1>13,
           <1>14, <1>15, <1>16, <1>17, <1>18, <1>19, <1>20 DEF Next

\* The strengthening of the two properties below holds in every reachable state:
\* the published boundary, the requests that wait for it and the calls an accepted
\* batch resolved always belong to the current segment.
THEOREM SegmentInvariant == Spec => []SegmentInv
  BY InitSegmentInv, NextSegmentInv, PTL DEF Spec

\* Every answered request got the boundary of the segment it joined, in every
\* interleaving of sends, SDK callbacks, timers, retries and disconnects.
THEOREM AnswersAreOfTheirSegment == Spec => []SegmentFidelity
<1>1. SegmentInv => SegmentFidelity
  BY DEF SegmentInv
<1> QED BY <1>1, SegmentInvariant, PTL

\* No two different result batches are accepted for one segment or one set of
\* calls, and whoever shares a segment carried the batch that resolved it.
THEOREM OneBatchPerSegment == Spec => []DigestFidelity
<1>1. SegmentInv => DigestFidelity
  BY DEF SegmentInv
<1> QED BY <1>1, SegmentInvariant, PTL

-----------------------------------------------------------------------------
(***************************************************************************)
(* Second part: the effects of a boundary are applied once, a shown batch  *)
(* is exactly the set of open calls, and no open call is left without      *)
(* somebody who moves it.  The proofs rest on SegmentInv and on one more   *)
(* inductive invariant: who waits for a boundary and who carries it, and   *)
(* where the open calls are between their parking and their end.           *)
(***************************************************************************)

Carriers == {r \in Requests : drive[r].pc = "woken"}

\* The consumer reads while the run lives, and timers exist only once there is a pump.
PumpReads ==
  /\ run = "live" <=> loop = "reading"
  /\ loop = "idle" => timers = {}

\* Whoever carries a boundary carries the same one, the first of the segment.  It is
\* still published unless an error or the end of the run took its place.
SharedBoundary ==
  /\ \A r, q \in Carriers : drive[r].got = drive[q].got
  /\ \A r \in Carriers :
       /\ drive[r].got.type \in {"tools", "final", "error"}
       /\ drive[r].got.type = "tools" => pub = drive[r].got \/ pub.type # "tools"
       /\ drive[r].got.type = "final" => loop = "finished"
       /\ drive[r].got.type # "tools" => drive[r].got.ids = {}
  /\ pub.type # "tools" => pub.ids = {}

\* Somebody waits for the boundary of every segment, and carries it until the session
\* has left its state: who comes later finds nothing published or another state.
SomebodyTakesIt ==
  /\ loop # "idle" /\ pub.type = "none" => Waiters # {}
  /\ st \in {"running", "resuming"} /\ pub.type # "none" => Carriers # {}
  /\ st = "failed" => pub.type # "none"

\* A segment at work has applied nothing of its own; once its effects are applied,
\* everybody who still carries its boundary finds that it was.
FirstApplies ==
  /\ pub.type = "none" \/ st \in {"running", "resuming"} =>
       applied.type = "none" \/ (applied.type = "tools" /\ applied.seg < seg)
  /\ st = "awaiting" => applied.type = "tools" /\ seg \in effects
  /\ applied.seg <= seg
  /\ \A s \in effects : s <= seg
  /\ seg \in effects =>
       pub.type # "none" /\ \A r \in Carriers : applied = BoundaryId(drive[r].got)
  /\ reapplied = {}

\* The open calls of a registered session are parked for the send; then, unless its run
\* was cancelled, they are the open batch, the batch that was published, and the batch
\* whose results are awaited.
OpenCallsAreExact ==
  /\ run = "none" => early = {} /\ Unresolved = {}
  /\ registered /\ run = "starting" => Unresolved = early
  /\ registered /\ ~cancelled =>
       /\ loop # "idle" /\ pub.type = "none" => Unresolved = openBatch
       /\ \A r \in Carriers : drive[r].got.type = "tools" =>
            Unresolved = drive[r].got.ids /\ openBatch = {} /\ (pub.type = "tools" \/ run = "ended")
       /\ st = "awaiting" =>
            Unresolved = replay.ids /\ openBatch = {} /\ (pub.type = "tools" \/ run = "ended")

Watched(c) ==
  \/ c \in early \/ c \in openBatch \/ c \in pub.ids
  \/ \E r \in Carriers : c \in drive[r].got.ids
  \/ st = "awaiting" /\ c \in replay.ids

\* Every open call is in one of these places, also while the session has failed but
\* somebody carries the batch that will make it await results.
CallsAreWatched ==
  /\ openBatch # {} => gen \in timers \/ loop = "finished"
  /\ pub.type = "tools" => openBatch = {}
  /\ registered => \A r \in Carriers :
       drive[r].got.type = "tools" /\ applied = drive[r].got =>
         st = "failed" \/ (st = "awaiting" /\ replay = drive[r].got)
  /\ registered /\ loop # "finished"
     /\ (st # "failed" \/ \E r \in Carriers : drive[r].got.type = "tools")
       => \A c \in Unresolved : Watched(c)

CallsParts ==
  /\ PumpReads /\ SharedBoundary /\ SomebodyTakesIt /\ FirstApplies
  /\ OpenCallsAreExact /\ CallsAreWatched

CallsInv == SegmentInv /\ CallsParts

-----------------------------------------------------------------------------
(* Steps by what they do to the boundary *)

\* Who carries a boundary goes on carrying it, and who waits goes on waiting.
RequestsStay ==
  /\ Carriers' = Carriers /\ \A r \in Carriers : drive'[r].got = drive[r].got
  /\ Waiters \subseteq Waiters'

\* The watchers of a call.
LEMMA WatchedStays ==
  ASSUME NEW c, RequestsStay, Watched(c), early' = early, openBatch' = openBatch, pub' = pub,
         st' = st, replay' = replay
  PROVE  Watched(c)'
BY DEF RequestsStay, Watched

\* A step that moves no boundary and no call.
LEMMA UnmovedStep ==
  ASSUME CallsParts, RequestsStay, cancelled => cancelled',
         UNCHANGED <<st, registered, call, early, openBatch, gen, timers, pub, loop, run,
                     applied, replay, seg, effects, reapplied>>
  PROVE  CallsParts'
<1>1. PumpReads'
  BY DEF CallsParts, PumpReads
<1>2. SharedBoundary'
  BY DEF CallsParts, SharedBoundary, RequestsStay
<1>3. SomebodyTakesIt'
  BY DEF CallsParts, SomebodyTakesIt, RequestsStay
<1>4. FirstApplies'
  BY DEF CallsParts, FirstApplies, RequestsStay, BoundaryId
<1>5. Unresolved' = Unresolved
  BY DEF Unresolved
<1>6. OpenCallsAreExact'
  BY <1>5 DEF CallsParts, OpenCallsAreExact, RequestsStay
<1>7. ASSUME NEW c \in Unresolved, Watched(c) PROVE Watched(c)'
  BY <1>7, WatchedStays
<1>8. CallsAreWatched'
  BY <1>5, <1>7 DEF CallsParts, CallsAreWatched, RequestsStay
<1> QED BY <1>1, <1>2, <1>3, <1>4, <1>6, <1>8 DEF CallsParts

\* The registry forgets the session: no call is left open.
LEMMA LostStep ==
  ASSUME CallsInv, RequestsStay, Forget, run' = run \/ (run = "starting" /\ run' = "ended"),
         UNCHANGED <<early, openBatch, gen, timers, pub, loop, applied, replay, seg, effects,
                     reapplied>>
  PROVE  CallsParts'
<1>0. ~registered' /\ st' = "closed" /\ Unresolved' = {}
  BY DEF Forget, Unresolved, CallsInv, SegmentInv, TypeOK
<1>1. PumpReads'
  BY DEF CallsInv, CallsParts, PumpReads, SegmentInv, QuietUntilBound
<1>2. SharedBoundary'
  BY DEF CallsInv, CallsParts, SharedBoundary, RequestsStay
<1>3. SomebodyTakesIt'
  BY <1>0 DEF CallsInv, CallsParts, SomebodyTakesIt, RequestsStay
<1>4. FirstApplies'
  BY <1>0 DEF CallsInv, CallsParts, FirstApplies, RequestsStay, BoundaryId
<1>5. OpenCallsAreExact'
  BY <1>0 DEF CallsInv, CallsParts, OpenCallsAreExact
<1>6. CallsAreWatched'
  BY <1>0 DEF CallsInv, CallsParts, CallsAreWatched
<1> QED BY <1>1, <1>2, <1>3, <1>4, <1>5, <1>6 DEF CallsParts

\* A boundary that may be published now.
Publishable(b) ==
  /\ b \in Boundary /\ b.seg = seg /\ b.type \in {"tools", "final", "error"}
  /\ b.type # "tools" => b.ids = {}
  /\ b.type = "tools" => MicrotasksDrained

\* publish() makes carriers of those who wait, if anybody waits.
LEMMA PublishRequests ==
  ASSUME SegmentInv, NEW b \in Boundary, Publish(b)
  PROVE  /\ pub' = b /\ Carriers' = Carriers \cup Waiters
         /\ \A r \in Carriers : drive'[r].got = drive[r].got
         /\ \A r \in Waiters : drive'[r].got = b
         /\ pub.type # "none" => Waiters = {}
         /\ pub.type = "none" => Carriers = {}
<1>1. drive \in [Requests -> Drive]
  BY DEF SegmentInv, TypeOK
<1>2. \A r \in Requests :
        /\ r \in Waiters => drive'[r] = [drive[r] EXCEPT !.pc = "woken", !.got = b]
        /\ r \notin Waiters => drive'[r] = drive[r]
  BY DEF Publish, Woken
<1>3. \A r \in Requests :
        /\ r \in Waiters => drive'[r].pc = "woken" /\ drive'[r].got = b
        /\ r \notin Waiters => drive'[r] = drive[r]
  BY <1>1, <1>2, ZenonT(30) DEF Drive
<1>4. Carriers' = Carriers \cup Waiters
  BY <1>3 DEF Carriers, Waiters
<1>5. pub' = b
  BY DEF Publish
<1>6. \A r \in Carriers : r \notin Waiters
  BY DEF Carriers, Waiters
<1>7. \A r \in Requests : /\ drive[r].pc = "waiting" => pub.type = "none"
                          /\ drive[r].pc = "woken" => pub.type # "none"
  BY DEF SegmentInv, CurrentBoundary
<1> QED BY <1>3, <1>4, <1>5, <1>6, <1>7 DEF Carriers, Waiters

LEMMA PublishParts ==
  ASSUME CallsInv, NEW b, Publishable(b), Publish(b), loop # "idle", st' \in {st, "failed"},
         b.type = "final" => loop' = "finished", loop' \in {loop, "finished"},
         UNCHANGED <<applied, seg, effects, reapplied>>
  PROVE  SharedBoundary' /\ SomebodyTakesIt' /\ FirstApplies'
<1>1. b \in Boundary
  BY DEF Publishable
<1>2. /\ pub' = b /\ Carriers' = Carriers \cup Waiters
      /\ \A r \in Carriers : drive'[r].got = drive[r].got
      /\ \A r \in Waiters : drive'[r].got = b
      /\ pub.type # "none" => Waiters = {}
      /\ pub.type = "none" => Carriers = {}
  BY <1>1, PublishRequests DEF CallsInv
<1>3. b.type = "tools" => Carriers = {}
  BY DEF Publishable, MicrotasksDrained, Carriers
<1>4. SharedBoundary'
  BY <1>2, <1>3 DEF CallsInv, CallsParts, SharedBoundary, Publishable
<1>5. SomebodyTakesIt'
  BY <1>2 DEF CallsInv, CallsParts, SomebodyTakesIt, Publishable
<1>6. FirstApplies'
  BY <1>2 DEF CallsInv, CallsParts, FirstApplies, Publishable, BoundaryId
<1> QED BY <1>4, <1>5, <1>6


\* The session before any request.
LEMMA InitCallsInv == Init => CallsInv
<1> SUFFICES ASSUME Init PROVE CallsInv
  OBVIOUS
<1>1. Carriers = {} /\ Waiters = {} /\ Unresolved = {}
  BY DEF Init, Carriers, Waiters, Unresolved, IdleDrive
<1> QED BY <1>1, InitSegmentInv
  DEF Init, CallsInv, CallsParts, PumpReads, SharedBoundary, SomebodyTakesIt, FirstApplies,
      OpenCallsAreExact, CallsAreWatched, NoBoundary

-----------------------------------------------------------------------------
(* The actions *)

\* While a request of the session waits for a send nobody carries anything.
LEMMA QuietFacts ==
  ASSUME SegmentInv, run \in {"none", "starting"}
  PROVE  /\ pub.type = "none" /\ timers = {} /\ loop = "idle" /\ Carriers = {} /\ Waiters = {}
         /\ st \in {"none", "creating", "running", "closed"}
BY DEF SegmentInv, QuietUntilBound, Carriers, Waiters

\* Only the request r, which neither waits nor carries, moves, and not to "woken".
LEMMA OneRequestMoves ==
  ASSUME TypeOK, NEW r \in Requests, NEW d, drive' = [drive EXCEPT ![r] = d],
         drive[r].pc \notin {"waiting", "woken"}, d.pc # "woken"
  PROVE  RequestsStay
<1>1. \A q \in Requests : drive'[q] = IF q = r THEN d ELSE drive[q]
  BY DEF TypeOK
<1> QED BY <1>1 DEF RequestsStay, Carriers, Waiters

LEMMA StartTurnCalls ==
  ASSUME CallsInv, NEW r \in Requests, StartTurn(r) PROVE CallsParts'
<1>1. /\ run = "none" /\ run' = "starting" /\ st' = "creating"
      /\ UNCHANGED <<index, hasOutput, applied, replay, lastDigest, keySeg, call, early, openBatch,
                     gen, timers, pub, firstEvent, loop, seg, effects, reapplied>>
  BY DEF StartTurn, CallsInv, SegmentInv, QuietUntilBound, callVars, pumpVars, history
<1>2. RequestsStay
  <2>1. Starting(seg).pc = "starting"
    BY DEF Starting
  <2>2. TypeOK /\ drive[r].pc = "idle" /\ drive' = [drive EXCEPT ![r] = Starting(seg)]
    BY DEF StartTurn, CallsInv, SegmentInv
  <2> QED BY <2>1, <2>2, OneRequestMoves
<1>3. pub.type = "none" /\ timers = {} /\ loop = "idle" /\ Carriers = {} /\ Carriers' = {}
  BY <1>1, <1>2, QuietFacts DEF CallsInv, RequestsStay
<1>4. Unresolved' = Unresolved /\ Unresolved = {} /\ early = {}
  BY <1>1 DEF Unresolved, CallsInv, CallsParts, OpenCallsAreExact
<1>5. PumpReads' /\ SharedBoundary' /\ SomebodyTakesIt'
  BY <1>1, <1>3 DEF CallsInv, CallsParts, PumpReads, SharedBoundary, SomebodyTakesIt
<1>6. FirstApplies'
  BY <1>1, <1>3 DEF CallsInv, CallsParts, FirstApplies
<1>7. OpenCallsAreExact'
  BY <1>1, <1>3, <1>4 DEF OpenCallsAreExact
<1>8. CallsAreWatched'
  BY <1>1, <1>3, <1>4 DEF CallsInv, CallsParts, CallsAreWatched
<1> QED BY <1>5, <1>6, <1>7, <1>8 DEF CallsParts

LEMMA FollowUpCalls ==
  ASSUME CallsInv, NEW r \in Requests, FollowUp(r) PROVE CallsParts'
<1>1. /\ run' = "starting" /\ st' = "running" /\ seg' = seg + 1 /\ seg \in Nat
      /\ applied' = NoBoundary /\ replay' = NoBoundary /\ early' = {} /\ openBatch' = {}
      /\ timers' = {} /\ pub' = NoBoundary /\ loop' = "idle"
      /\ effects' = effects /\ reapplied' = reapplied
  BY DEF FollowUp, history, CallsInv, SegmentInv, TypeOK
<1>2. Carriers' = {}
  <2>1. RequestsStay
    <3>1. Starting(seg + 1).pc = "starting"
      BY DEF Starting
    <3>2. TypeOK /\ drive[r].pc = "idle" /\ drive' = [drive EXCEPT ![r] = Starting(seg + 1)]
      BY DEF FollowUp, CallsInv, SegmentInv
    <3> QED BY <3>1, <3>2, OneRequestMoves
  <2> QED BY <2>1 DEF RequestsStay, FollowUp, MicrotasksDrained, Carriers
<1>3. Unresolved' = {}
  <2>1. \A c \in Calls : call'[c] = IF c \in Used THEN "dropped" ELSE call[c]
    BY DEF FollowUp
  <2> QED BY <2>1 DEF Unresolved, Used
<1>4. PumpReads' /\ SharedBoundary' /\ SomebodyTakesIt'
  BY <1>1, <1>2 DEF PumpReads, SharedBoundary, SomebodyTakesIt, NoBoundary
<1>5. FirstApplies'
  <2>1. effects \subseteq Nat /\ \A s \in effects : s <= seg /\ s <= seg + 1 /\ s # seg + 1
    BY <1>1 DEF CallsInv, SegmentInv, TypeOK, CallsParts, FirstApplies
  <2> QED BY <1>1, <1>2, <2>1 DEF CallsInv, CallsParts, FirstApplies, NoBoundary
<1>6. OpenCallsAreExact'
  BY <1>1, <1>2, <1>3 DEF OpenCallsAreExact
<1>7. CallsAreWatched'
  BY <1>1, <1>2, <1>3 DEF CallsAreWatched, NoBoundary
<1> QED BY <1>4, <1>5, <1>6, <1>7 DEF CallsParts

LEMMA EarlyCallCalls ==
  ASSUME CallsInv, NEW c \in Calls, EarlyCall(c) PROVE CallsParts'
<1>1. /\ run = "starting" /\ run' = run /\ early' = early \cup {c}
      /\ UNCHANGED <<st, registered, applied, replay, openBatch, gen, timers, pub, loop, seg,
                     cancelled, drive, effects, reapplied>>
  BY DEF EarlyCall, sessionVars, pumpVars, runVars, history
<1>2. Unresolved' = Unresolved \cup {c}
  BY DEF EarlyCall, Unresolved, CallsInv, SegmentInv, TypeOK
<1>3. Carriers' = Carriers /\ Waiters' = Waiters
  BY <1>1 DEF Carriers, Waiters
<1>4. pub.type = "none" /\ loop = "idle" /\ Carriers = {} /\ st \in {"creating", "running", "closed"}
  BY <1>1, QuietFacts DEF CallsInv, SegmentInv, QuietUntilBound
<1>5. PumpReads' /\ SharedBoundary' /\ SomebodyTakesIt' /\ FirstApplies'
  BY <1>1, <1>3, <1>4 DEF CallsInv, CallsParts, PumpReads, SharedBoundary, SomebodyTakesIt, FirstApplies
<1>6. OpenCallsAreExact'
  BY <1>1, <1>2, <1>3, <1>4 DEF CallsInv, CallsParts, OpenCallsAreExact
<1>7. CallsAreWatched'
  <2>1. ASSUME registered PROVE \A e \in Unresolved' : Watched(e)'
    BY <1>1, <1>2, <2>1 DEF CallsInv, CallsParts, OpenCallsAreExact, Watched
  <2> QED BY <1>1, <1>3, <1>4, <2>1 DEF CallsInv, CallsParts, CallsAreWatched
<1> QED BY <1>5, <1>6, <1>7 DEF CallsParts

LEMMA StartBoundCalls ==
  ASSUME CallsInv, NEW r \in Requests, StartBound(r) PROVE CallsParts'
<1>1. run = "starting"
  BY DEF StartBound, CallsInv, SegmentInv, OneStarter
<1>2. /\ pub.type = "none" /\ loop = "idle" /\ Carriers = {}
      /\ st \in {"creating", "running", "closed"}
  BY <1>1, QuietFacts DEF CallsInv, SegmentInv, QuietUntilBound
<1>3. /\ run' = "live" /\ loop' = "reading" /\ st' \in {"creating", "running", "closed"}
      /\ early' = {} /\ openBatch' = early /\ gen' = Cardinality(early)
      /\ timers' = 1 .. Cardinality(early)
      /\ UNCHANGED <<registered, applied, replay, call, pub, seg, cancelled, effects, reapplied>>
  BY <1>2 DEF StartBound, IngestEarly, history
<1>4. Carriers' = {} /\ r \in Waiters'
  <2>1. \A q \in Requests : q # r => drive'[q] = drive[q]
    BY DEF StartBound
  <2>2. drive'[r].pc = "waiting"
    BY DEF StartBound, Driving, NoBoundary, CallsInv, SegmentInv, TypeOK
  <2> QED BY <1>2, <2>1, <2>2 DEF Carriers, Waiters
<1>5. Unresolved' = Unresolved
  BY <1>3 DEF Unresolved
<1>6. PumpReads' /\ SharedBoundary' /\ SomebodyTakesIt'
  BY <1>2, <1>3, <1>4 DEF CallsInv, CallsParts, PumpReads, SharedBoundary, SomebodyTakesIt
<1>7. FirstApplies'
  BY <1>2, <1>3, <1>4 DEF CallsInv, CallsParts, FirstApplies
<1>8. OpenCallsAreExact'
  BY <1>1, <1>2, <1>3, <1>4, <1>5 DEF CallsInv, CallsParts, OpenCallsAreExact
<1>9. CallsAreWatched'
  <2>1. early # {} => gen' \in timers'
    <3>1. IsFiniteSet(early) /\ Cardinality(early) \in Nat
      BY CallsAssumption, FS_Subset, FS_CardinalityType DEF CallsInv, SegmentInv, TypeOK
    <3>2. early # {} => Cardinality(early) # 0
      BY <3>1, FS_EmptySet
    <3> QED BY <1>3, <3>1, <3>2
  <2>2. ASSUME registered PROVE \A c \in Unresolved' : Watched(c)'
    BY <1>1, <1>3, <1>5, <2>2 DEF CallsInv, CallsParts, OpenCallsAreExact, Watched
  <2> QED BY <1>2, <1>3, <1>4, <2>1, <2>2 DEF CallsAreWatched
<1> QED BY <1>6, <1>7, <1>8, <1>9 DEF CallsParts

LEMMA StartFailsCalls ==
  ASSUME CallsInv, NEW r \in Requests, StartFails(r) PROVE CallsParts'
<1>1. run = "starting" /\ run' = "ended"
  BY DEF StartFails, CallsInv, SegmentInv, OneStarter
<1>2. RequestsStay
  <2>1. \A q \in Requests : q # r => drive'[q] = drive[q]
    BY DEF StartFails
  <2>2. drive'[r].pc = "failed" /\ drive[r].pc = "starting"
    BY DEF StartFails, CallsInv, SegmentInv, TypeOK, Drive
  <2> QED BY <2>1, <2>2 DEF RequestsStay, Carriers, Waiters
<1>3. /\ Forget
      /\ UNCHANGED <<early, openBatch, gen, timers, pub, loop, applied, replay, seg, effects,
                     reapplied>>
  BY DEF StartFails, pumpVars, history
<1> QED BY <1>1, <1>2, <1>3, LostStep

LEMMA ToolCallCalls ==
  ASSUME CallsInv, NEW c \in Calls, ToolCall(c) PROVE CallsParts'
<1>1. /\ run = "live" /\ run' = run /\ pub.type # "tools"
      /\ openBatch' = openBatch \cup {c} /\ gen' = gen + 1 /\ timers' = timers \cup {gen + 1}
      /\ UNCHANGED <<st, registered, applied, replay, early, pub, loop, seg, cancelled, drive,
                     effects, reapplied>>
  BY DEF ToolCall, BatchClosed, runVars, history
<1>2. Unresolved' = Unresolved \cup {c}
  BY DEF ToolCall, Unresolved, CallsInv, SegmentInv, TypeOK
<1>3. Carriers' = Carriers /\ Waiters' = Waiters
  BY <1>1 DEF Carriers, Waiters
<1>4. loop = "reading"
  BY <1>1 DEF CallsInv, CallsParts, PumpReads
<1>5. PumpReads' /\ SharedBoundary' /\ SomebodyTakesIt'
  BY <1>1, <1>3, <1>4 DEF CallsInv, CallsParts, PumpReads, SharedBoundary, SomebodyTakesIt
<1>6. FirstApplies'
  BY <1>1, <1>3 DEF CallsInv, CallsParts, FirstApplies, BoundaryId
<1>7. OpenCallsAreExact'
  BY <1>1, <1>2, <1>3 DEF CallsInv, CallsParts, OpenCallsAreExact
<1>8. CallsAreWatched'
  <2>1. \A e \in Calls : Watched(e) \/ e = c => Watched(e)'
    BY <1>1, <1>3 DEF Watched
  <2> QED BY <1>1, <1>2, <1>3, <2>1 DEF CallsInv, CallsParts, CallsAreWatched, Unresolved
<1> QED BY <1>5, <1>6, <1>7, <1>8 DEF CallsParts

LEMMA ErrorPublishable ==
  ASSUME TypeOK
  PROVE  Publishable(ErrorBoundary) /\ ErrorBoundary.type = "error" /\ ErrorBoundary.ids = {}
BY DEF TypeOK, Publishable, ErrorBoundary, Boundary

LEMMA LateToolCallCalls ==
  ASSUME CallsInv, NEW c \in Calls, LateToolCall(c) PROVE CallsParts'
<1> DEFINE b == ErrorBoundary
<1>0. Publishable(b) /\ b.type = "error" /\ b.ids = {} /\ b \in Boundary
  BY ErrorPublishable DEF CallsInv, SegmentInv, Publishable
<1> HIDE DEF b
<1>1. /\ run = "live" /\ run' = run /\ pub.type = "tools" /\ st' = "failed" /\ cancelled'
      /\ Publish(b)
      /\ UNCHANGED <<registered, applied, replay, early, openBatch, gen, timers, loop, seg,
                     effects, reapplied>>
  BY DEF LateToolCall, BatchClosed, history, b
<1>2. Unresolved' = Unresolved
  BY DEF LateToolCall, Unresolved, CallsInv, SegmentInv, TypeOK
<1>3. loop = "reading"
  BY <1>1 DEF CallsInv, CallsParts, PumpReads
<1>4. SharedBoundary' /\ SomebodyTakesIt' /\ FirstApplies'
  BY <1>0, <1>1, <1>3, PublishParts
<1>5. Carriers' = Carriers /\ (\A r \in Carriers : drive'[r].got = drive[r].got) /\ pub' = b
  BY <1>0, <1>1, PublishRequests DEF CallsInv
<1>6. PumpReads'
  BY <1>1 DEF CallsInv, CallsParts, PumpReads
<1>7. OpenCallsAreExact'
  BY <1>1 DEF CallsInv, CallsParts, OpenCallsAreExact
<1>8. CallsAreWatched'
  <2>1. ASSUME registered, NEW r \in Carriers, drive[r].got.type = "tools",
               NEW e \in Unresolved, Watched(e)
        PROVE  Watched(e)'
    <3>1. pub = drive[r].got /\ openBatch = {}
      BY <1>1, <2>1 DEF CallsInv, CallsParts, SharedBoundary, CallsAreWatched
    <3>2. ASSUME st = "awaiting", e \in replay.ids PROVE e \in drive[r].got.ids
      <4>1. applied = drive[r].got
        BY <2>1, <3>2 DEF CallsInv, CallsParts, FirstApplies, BoundaryId
      <4>2. replay = drive[r].got
        BY <2>1, <3>2, <4>1 DEF CallsInv, CallsParts, CallsAreWatched
      <4> QED BY <3>2, <4>2
    <3> QED BY <1>1, <1>5, <2>1, <3>1, <3>2 DEF Watched
  <2> QED BY <1>0, <1>1, <1>2, <1>5, <2>1 DEF CallsInv, CallsParts, CallsAreWatched
<1> QED BY <1>4, <1>6, <1>7, <1>8 DEF CallsParts

LEMMA SettleCalls ==
  ASSUME CallsInv, NEW g \in timers, Settle(g) PROVE CallsParts'
<1>1. /\ timers' = timers \ {g} /\ Carriers = {} /\ loop # "idle"
      /\ UNCHANGED <<st, registered, applied, replay, call, early, gen, loop, seg, run, cancelled,
                     effects, reapplied>>
  BY DEF Settle, sessionVars, callVars, runVars, history, MicrotasksDrained, Carriers,
         CallsInv, CallsParts, PumpReads
<1>2. Unresolved' = Unresolved
  BY <1>1 DEF Unresolved
<1>3. PumpReads'
  BY <1>1 DEF CallsInv, CallsParts, PumpReads
<1>4. CASE g = gen /\ loop # "finished" /\ openBatch # {}
  <2> DEFINE b == [type |-> "tools", seg |-> seg, ids |-> openBatch]
  <2>0. Publishable(b) /\ b.type = "tools" /\ b.ids = openBatch /\ b \in Boundary
    BY DEF CallsInv, SegmentInv, TypeOK, Boundary, Publishable, Settle
  <2>1. Publish(b) /\ openBatch' = {}
    BY <1>4 DEF Settle
  <2> HIDE DEF b
  <2>2. SharedBoundary' /\ SomebodyTakesIt' /\ FirstApplies'
    BY <1>1, <2>0, <2>1, PublishParts
  <2>3. /\ pub' = b /\ Carriers' = Waiters /\ (\A r \in Waiters : drive'[r].got = b)
        /\ pub.type # "none" => Waiters = {}
    BY <1>1, <2>0, <2>1, PublishRequests DEF CallsInv
  <2>4. OpenCallsAreExact'
    <3>1. pub.type # "tools"
      BY <1>4 DEF CallsInv, CallsParts, CallsAreWatched
    <3> QED BY <1>1, <1>2, <1>4, <2>0, <2>1, <2>3, <3>1
      DEF CallsInv, CallsParts, OpenCallsAreExact
  <2>5. CallsAreWatched'
    <3>1. \A c \in Unresolved : Watched(c) => Watched(c)'
      BY <1>1, <1>4, <2>0, <2>1, <2>3 DEF CallsInv, CallsParts, CallsAreWatched, SharedBoundary, Watched
    <3>2. Waiters # {} => st # "failed"
      BY <2>3 DEF CallsInv, CallsParts, SomebodyTakesIt
    <3>3. \A r \in Waiters : applied # b
      BY <2>0, <2>3 DEF CallsInv, CallsParts, FirstApplies, Publishable, SegmentInv, TypeOK, Boundary
    <3> QED BY <1>1, <1>2, <1>4, <2>0, <2>1, <2>3, <3>1, <3>2, <3>3
      DEF CallsInv, CallsParts, CallsAreWatched
  <2> QED BY <1>3, <2>2, <2>4, <2>5 DEF CallsParts
<1>5. CASE ~(g = gen /\ loop # "finished" /\ openBatch # {})
  <2>1. UNCHANGED <<pub, drive, openBatch>>
    BY <1>5 DEF Settle
  <2>2. Carriers' = Carriers /\ Waiters' = Waiters
    BY <2>1 DEF Carriers, Waiters
  <2>3. SharedBoundary' /\ SomebodyTakesIt'
    BY <1>1, <2>1, <2>2 DEF CallsInv, CallsParts, SharedBoundary, SomebodyTakesIt
  <2>4. FirstApplies'
    BY <1>1, <2>1, <2>2 DEF CallsInv, CallsParts, FirstApplies
  <2>5. OpenCallsAreExact'
    BY <1>1, <1>2, <2>1, <2>2 DEF CallsInv, CallsParts, OpenCallsAreExact
  <2>6. \A c \in Unresolved : Watched(c) => Watched(c)'
    BY <1>1, <2>1, <2>2 DEF Watched
  <2>7. CallsAreWatched'
    BY <1>1, <1>2, <1>5, <2>1, <2>2, <2>6 DEF CallsInv, CallsParts, CallsAreWatched
  <2> QED BY <1>3, <2>3, <2>4, <2>5, <2>7 DEF CallsParts
<1> QED BY <1>4, <1>5

LEMMA FirstEventTimeoutCalls ==
  ASSUME CallsInv, FirstEventTimeout PROVE CallsParts'
<1> DEFINE b == ErrorBoundary
<1>0. Publishable(b) /\ b.type = "error" /\ b.ids = {} /\ b \in Boundary
  BY ErrorPublishable DEF CallsInv, SegmentInv, Publishable
<1> HIDE DEF b
<1>1. /\ loop = "reading" /\ pub.type = "none" /\ Publish(b) /\ Carriers = {}
      /\ UNCHANGED <<st, registered, applied, replay, call, early, openBatch, gen, timers, loop,
                     seg, run, cancelled, effects, reapplied>>
  BY DEF FirstEventTimeout, sessionVars, callVars, runVars, history, MicrotasksDrained, Carriers, b
<1>2. Unresolved' = Unresolved
  BY <1>1 DEF Unresolved
<1>3. SharedBoundary' /\ SomebodyTakesIt' /\ FirstApplies'
  BY <1>0, <1>1, PublishParts
<1>4. pub' = b /\ Carriers' = Waiters /\ \A r \in Waiters : drive'[r].got = b
  BY <1>0, <1>1, PublishRequests DEF CallsInv
<1>5. PumpReads'
  BY <1>1 DEF CallsInv, CallsParts, PumpReads
<1>6. st # "awaiting"
  BY <1>1 DEF CallsInv, CallsParts, FirstApplies
<1>7. OpenCallsAreExact'
  BY <1>0, <1>1, <1>2, <1>4, <1>6 DEF CallsInv, CallsParts, OpenCallsAreExact
<1>8. CallsAreWatched'
  <2>1. pub.ids = {}
    BY <1>1 DEF CallsInv, CallsParts, SharedBoundary
  <2>2. \A c \in Unresolved : Watched(c) => Watched(c)'
    BY <1>1, <2>1 DEF Watched
  <2> QED BY <1>0, <1>1, <1>2, <1>4, <2>2 DEF CallsInv, CallsParts, CallsAreWatched
<1> QED BY <1>3, <1>5, <1>7, <1>8 DEF CallsParts

\* The consumer finishes with boundary b.
LEMMA RunEndsCalls ==
  ASSUME CallsInv, NEW b \in Boundary, Publishable(b), b.type # "tools", Publish(b),
         run = "live", loop = "reading", run' = "ended", loop' = "finished",
         UNCHANGED <<st, registered, applied, replay, call, early, openBatch, gen, timers, seg,
                     cancelled, effects, reapplied>>
  PROVE  CallsParts'
<1>1. Unresolved' = Unresolved
  BY DEF Unresolved
<1>2. SharedBoundary' /\ SomebodyTakesIt' /\ FirstApplies'
  BY PublishParts
<1>3. /\ pub' = b /\ Carriers' = Carriers \cup Waiters
      /\ \A r \in Carriers : drive'[r].got = drive[r].got
      /\ \A r \in Waiters : drive'[r].got = b
  BY PublishRequests DEF CallsInv
<1>4. PumpReads'
  BY DEF PumpReads
<1>5. OpenCallsAreExact'
  BY <1>1, <1>3 DEF CallsInv, CallsParts, OpenCallsAreExact, Publishable
<1>6. CallsAreWatched'
  BY <1>3 DEF CallsInv, CallsParts, CallsAreWatched
<1> QED BY <1>2, <1>4, <1>5, <1>6 DEF CallsParts

LEMMA RunFinishesCalls ==
  ASSUME CallsInv, RunFinishes PROVE CallsParts'
<1> DEFINE b == [type |-> "final", seg |-> seg, ids |-> {}]
<1>1. b \in Boundary /\ Publishable(b) /\ b.type # "tools"
  BY DEF Publishable, Boundary, CallsInv, SegmentInv, TypeOK
<1>2. /\ Publish(b) /\ run = "live" /\ loop = "reading" /\ run' = "ended" /\ loop' = "finished"
      /\ UNCHANGED <<st, registered, applied, replay, call, early, openBatch, gen, timers, seg,
                     cancelled, effects, reapplied>>
  BY DEF RunFinishes, callVars, history
<1> HIDE DEF b
<1> QED BY <1>1, <1>2, RunEndsCalls

LEMMA RunFailsCalls ==
  ASSUME CallsInv, RunFails PROVE CallsParts'
<1> DEFINE b == ErrorBoundary
<1>1. b \in Boundary /\ Publishable(b) /\ b.type # "tools"
  BY ErrorPublishable DEF Publishable, CallsInv, SegmentInv
<1>2. /\ Publish(b) /\ run = "live" /\ loop = "reading" /\ run' = "ended" /\ loop' = "finished"
      /\ UNCHANGED <<st, registered, applied, replay, call, early, openBatch, gen, timers, seg,
                     cancelled, effects, reapplied>>
  BY DEF RunFails, sessionVars, callVars, history
<1> HIDE DEF b
<1> QED BY <1>1, <1>2, RunEndsCalls

\* What the continuation of a drive leaves alone, and whom it leaves carrying.
LEMMA ApplyRequests ==
  ASSUME CallsInv, NEW r \in Requests, ApplyBoundary(r)
  PROVE  /\ r \in Carriers /\ Carriers' = Carriers \ {r} /\ Waiters' = Waiters
         /\ \A q \in Carriers' : drive'[q].got = drive[q].got
         /\ \A q \in Carriers : drive[q].got = drive[r].got
         /\ drive[r].got.seg = seg /\ drive[r].got \in Boundary /\ pub.type # "none"
         /\ drive[r].got.type \in {"tools", "final", "error"}
         /\ UNCHANGED <<early, openBatch, gen, timers, pub, loop, seg, run>>
<1>1. drive[r].pc = "woken" /\ drive \in [Requests -> Drive]
  BY DEF ApplyBoundary, CallsInv, SegmentInv, TypeOK
<1>2. \A q \in Requests : q # r => drive'[q] = drive[q]
  BY DEF ApplyBoundary
<1>3. drive'[r].pc \in {"failed", "answered"}
  BY <1>1 DEF ApplyBoundary, Drive
<1>4. r \in Carriers /\ Carriers' = Carriers \ {r} /\ Waiters' = Waiters
  BY <1>1, <1>2, <1>3 DEF Carriers, Waiters
<1>5. drive[r].got.seg = seg /\ drive[r].got \in Boundary /\ pub.type # "none"
  BY <1>1 DEF CallsInv, SegmentInv, CurrentBoundary, Drive
<1>6. /\ \A q \in Carriers : drive[q].got = drive[r].got
      /\ drive[r].got.type \in {"tools", "final", "error"}
  BY <1>4 DEF CallsInv, CallsParts, SharedBoundary
<1>7. UNCHANGED <<early, openBatch, gen, timers, pub, loop, seg, run>>
  BY DEF ApplyBoundary, pumpVars
<1> QED BY <1>2, <1>4, <1>5, <1>6, <1>7 DEF Carriers

LEMMA ApplyKeepsBoundary ==
  ASSUME CallsInv, NEW r \in Requests, ApplyBoundary(r) PROVE PumpReads' /\ SharedBoundary'
<1>1. /\ Carriers' \subseteq Carriers /\ \A q \in Carriers' : drive'[q].got = drive[q].got
      /\ UNCHANGED <<timers, pub, loop, run>>
  BY ApplyRequests
<1> QED BY <1>1 DEF CallsInv, CallsParts, PumpReads, SharedBoundary

\* Who finds the boundary applied.
LEMMA ApplySharedCalls ==
  ASSUME CallsInv, NEW r \in Requests, ApplyBoundary(r),
         ~FirstToApply(drive[r].got), ApplyShared(r, drive[r].got)
  PROVE  CallsParts'
<1> DEFINE b == drive[r].got
<1>1. /\ r \in Carriers /\ Carriers' = Carriers \ {r} /\ Waiters' = Waiters
      /\ \A q \in Carriers' : drive'[q].got = drive[q].got
      /\ \A q \in Carriers : drive[q].got = b
      /\ b.seg = seg /\ b \in Boundary /\ pub.type # "none"
      /\ b.type \in {"tools", "final", "error"}
      /\ UNCHANGED <<early, openBatch, gen, timers, pub, loop, seg, run>>
  BY ApplyRequests
<1>2. PumpReads' /\ SharedBoundary'
  BY ApplyKeepsBoundary
<1>3. applied = BoundaryId(b) /\ UNCHANGED <<applied, replay, effects, reapplied>>
  BY DEF FirstToApply, ApplyShared
<1> HIDE DEF b
<1>4. st \notin {"running", "resuming"}
  <2>1. applied.type = b.type /\ (b.type = "tools" => applied.seg = seg)
    BY <1>1, <1>3 DEF BoundaryId, Boundary
  <2>2. seg \in Nat
    BY DEF CallsInv, SegmentInv, TypeOK
  <2> QED BY <1>1, <2>1, <2>2 DEF CallsInv, CallsParts, FirstApplies
<1>5. ASSUME UNCHANGED <<st, registered, index, cancelled, call>> PROVE CallsParts'
  <2>1. Unresolved' = Unresolved
    BY <1>5 DEF Unresolved
  <2>2. SomebodyTakesIt' /\ FirstApplies'
    BY <1>1, <1>3, <1>4, <1>5 DEF CallsInv, CallsParts, SomebodyTakesIt, FirstApplies, BoundaryId
  <2>3. OpenCallsAreExact'
    BY <1>1, <1>3, <1>5, <2>1 DEF CallsInv, CallsParts, OpenCallsAreExact
  <2>4. ASSUME registered, loop # "finished",
               st # "failed" \/ \E q \in Carriers' : drive'[q].got.type = "tools",
               NEW c \in Unresolved, Watched(c)
        PROVE  Watched(c)'
    <3>1. CASE \E q \in Carriers' : TRUE
      BY <1>1, <1>3, <1>5, <3>1, <2>4 DEF Watched
    <3>2. CASE Carriers' = {}
      <4>1. Carriers = {r} /\ st # "failed"
        BY <1>1, <2>4, <3>2
      <4>2. ASSUME c \in b.ids PROVE st = "awaiting" /\ c \in replay.ids
        <5>1. b.type = "tools"
          BY <1>1, <4>2 DEF CallsInv, CallsParts, SharedBoundary
        <5>2. applied = b
          BY <1>3, <5>1 DEF BoundaryId
        <5>3. st = "awaiting" /\ replay = b
          BY <1>1, <2>4, <4>1, <5>1, <5>2 DEF CallsInv, CallsParts, CallsAreWatched
        <5> QED BY <4>2, <5>3
      <4> QED BY <1>1, <1>3, <1>5, <2>4, <4>1, <4>2 DEF Watched
    <3> QED BY <3>1, <3>2
  <2>5. CallsAreWatched'
    BY <1>1, <1>3, <1>5, <2>1, <2>4 DEF CallsInv, CallsParts, CallsAreWatched
  <2> QED BY <1>2, <2>2, <2>3, <2>5 DEF CallsParts
<1>6. ASSUME Forget PROVE CallsParts'
  <2>1. ~registered' /\ st' = "closed" /\ Unresolved' = {}
    BY <1>6 DEF Forget, Unresolved, CallsInv, SegmentInv, TypeOK
  <2>2. SomebodyTakesIt' /\ FirstApplies'
    BY <1>1, <1>3, <2>1 DEF CallsInv, CallsParts, SomebodyTakesIt, FirstApplies, BoundaryId
  <2>3. OpenCallsAreExact'
    BY <1>1, <2>1 DEF CallsInv, CallsParts, OpenCallsAreExact
  <2>4. CallsAreWatched'
    BY <1>1, <2>1 DEF CallsInv, CallsParts, CallsAreWatched
  <2> QED BY <1>2, <2>2, <2>3, <2>4 DEF CallsParts
<1>7. Forget \/ UNCHANGED <<st, registered, index, cancelled, call>>
  BY DEF ApplyShared, ForgottenUnanswered
<1> QED BY <1>5, <1>6, <1>7

\* Who finds it not applied.
LEMMA ApplyFirstCalls ==
  ASSUME CallsInv, NEW r \in Requests, ApplyBoundary(r),
         FirstToApply(drive[r].got), ApplyFirst(r, drive[r].got)
  PROVE  CallsParts'
<1> DEFINE b == drive[r].got
<1>1. /\ r \in Carriers /\ Carriers' = Carriers \ {r} /\ Waiters' = Waiters
      /\ \A q \in Carriers' : drive'[q].got = drive[q].got
      /\ \A q \in Carriers : drive[q].got = b
      /\ b.seg = seg /\ b \in Boundary /\ pub.type # "none"
      /\ b.type \in {"tools", "final", "error"}
      /\ UNCHANGED <<early, openBatch, gen, timers, pub, loop, seg, run>>
  BY ApplyRequests
<1>2. PumpReads' /\ SharedBoundary'
  BY ApplyKeepsBoundary
<1>3. applied' = BoundaryId(b) /\ applied # BoundaryId(b)
  BY DEF FirstToApply, ApplyFirst
<1>4. ApplyError(r, b) \/ ApplyTools(b) \/ ApplyFinal(b)
  BY DEF ApplyFirst
<1> HIDE DEF b
<1>5. seg \notin effects /\ st # "awaiting" /\ seg \in Nat
  BY <1>1, <1>3 DEF CallsInv, CallsParts, FirstApplies, SegmentInv, TypeOK
<1>6. BoundaryId(b).type = b.type /\ BoundaryId(b).seg <= seg /\ (b.type # "error" => BoundaryId(b) = b)
  BY <1>1, <1>5 DEF BoundaryId, Boundary
<1>7. CASE ApplyError(r, b)
  <2>1. b.type = "error" /\ UNCHANGED <<replay, effects, reapplied>>
    BY <1>7 DEF ApplyError
  <2>2. /\ st' \in {"closed", "failed"} /\ (st' = "closed" => ~registered')
        /\ registered' => registered /\ cancelled' = cancelled /\ call' = call
    BY <1>7 DEF ApplyError, ForgottenUnanswered, Forget
  <2>3. Unresolved' \subseteq Unresolved /\ (registered' => Unresolved' = Unresolved)
    BY <1>7, <2>2 DEF ApplyError, ForgottenUnanswered, Forget, Unresolved, CallsInv, SegmentInv, TypeOK
  <2>4. SomebodyTakesIt'
    BY <1>1, <2>2 DEF CallsInv, CallsParts, SomebodyTakesIt
  <2>5. FirstApplies'
    BY <1>1, <1>3, <1>5, <1>6, <2>1, <2>2 DEF CallsInv, CallsParts, FirstApplies
  <2>6. OpenCallsAreExact'
    BY <1>1, <2>1, <2>2, <2>3 DEF CallsInv, CallsParts, OpenCallsAreExact
  <2>7. CallsAreWatched'
    BY <1>1, <2>1, <2>2 DEF CallsInv, CallsParts, CallsAreWatched
  <2> QED BY <1>2, <2>4, <2>5, <2>6, <2>7 DEF CallsParts
<1>8. CASE ApplyTools(b)
  <2>1. /\ b.type = "tools" /\ st' = "awaiting" /\ replay' = b
        /\ effects' = effects \cup {seg} /\ reapplied' = reapplied \cup ({seg} \cap effects)
        /\ UNCHANGED <<registered, cancelled, call>>
    BY <1>1, <1>8 DEF ApplyTools
  <2>2. Unresolved' = Unresolved
    BY <2>1 DEF Unresolved
  <2>3. SomebodyTakesIt'
    BY <1>1, <2>1 DEF CallsInv, CallsParts, SomebodyTakesIt
  <2>4. FirstApplies'
    BY <1>1, <1>3, <1>5, <1>6, <2>1 DEF CallsInv, CallsParts, FirstApplies, BoundaryId
  <2>5. OpenCallsAreExact'
    BY <1>1, <2>1, <2>2 DEF CallsInv, CallsParts, OpenCallsAreExact
  <2>6. \A c \in Unresolved : Watched(c) => Watched(c)'
    BY <1>1, <1>5, <2>1 DEF Watched
  <2>7. CallsAreWatched'
    BY <1>1, <2>1, <2>2, <2>6 DEF CallsInv, CallsParts, CallsAreWatched
  <2> QED BY <1>2, <2>3, <2>4, <2>5, <2>7 DEF CallsParts
<1>9. CASE ApplyFinal(b)
  <2>1. /\ b.type = "final" /\ st' = "completed"
        /\ effects' = effects \cup {seg} /\ reapplied' = reapplied \cup ({seg} \cap effects)
        /\ UNCHANGED <<registered, cancelled, call>>
    BY <1>1, <1>9 DEF ApplyFinal
  <2>2. Unresolved' = Unresolved
    BY <2>1 DEF Unresolved
  <2>3. loop = "finished"
    BY <1>1, <2>1 DEF CallsInv, CallsParts, SharedBoundary
  <2>4. SomebodyTakesIt'
    BY <1>1, <2>1 DEF CallsInv, CallsParts, SomebodyTakesIt
  <2>5. FirstApplies'
    BY <1>1, <1>3, <1>5, <1>6, <2>1 DEF CallsInv, CallsParts, FirstApplies
  <2>6. OpenCallsAreExact'
    BY <1>1, <2>1, <2>2 DEF CallsInv, CallsParts, OpenCallsAreExact
  <2>7. CallsAreWatched'
    BY <1>1, <2>1, <2>2, <2>3 DEF CallsInv, CallsParts, CallsAreWatched
  <2> QED BY <1>2, <2>4, <2>5, <2>6, <2>7 DEF CallsParts
<1> QED BY <1>4, <1>7, <1>8, <1>9

LEMMA ApplyBoundaryCalls ==
  ASSUME CallsInv, NEW r \in Requests, ApplyBoundary(r) PROVE CallsParts'
<1>1. CASE FirstToApply(drive[r].got)
  BY <1>1, ApplyFirstCalls DEF ApplyBoundary
<1>2. CASE ~FirstToApply(drive[r].got)
  BY <1>2, ApplySharedCalls DEF ApplyBoundary
<1> QED BY <1>1, <1>2

LEMMA AcceptResultsCalls ==
  ASSUME CallsInv, NEW r \in Requests, NEW d \in Digest, MicrotasksDrained, AcceptResults(r, d),
         drive[r].pc = "idle"
  PROVE  CallsParts'
<1>1. /\ registered /\ st = "awaiting" /\ d.ids = Unresolved /\ st' = "resuming"
      /\ seg' = seg + 1 /\ pub' = NoBoundary /\ seg \in Nat
      /\ UNCHANGED <<registered, applied, replay, early, openBatch, gen, timers, loop, run,
                     cancelled, effects, reapplied>>
  BY DEF AcceptResults, Lookup, BeginNextSegment, runVars, CallsInv, SegmentInv, TypeOK
<1>2. Carriers' = {} /\ r \in Waiters'
  <2>1. Carriers = {}
    BY DEF MicrotasksDrained, Carriers
  <2>2. /\ drive \in [Requests -> Drive]
        /\ drive' = [drive EXCEPT ![r] = Driving("results", seg + 1, d, NoBoundary)]
    BY <1>1 DEF AcceptResults, CallsInv, SegmentInv, TypeOK
  <2>3. Driving("results", seg + 1, d, NoBoundary).pc = "waiting"
    BY DEF Driving, NoBoundary
  <2>4. drive'[r].pc = "waiting" /\ \A q \in Requests : q # r => drive'[q] = drive[q]
    BY <2>2, <2>3
  <2> QED BY <2>1, <2>4 DEF Carriers, Waiters
<1>3. Unresolved' = {}
  <2>1. \A c \in Calls : call'[c] = IF c \in d.ids THEN "resolved" ELSE call[c]
    BY DEF AcceptResults
  <2> QED BY <1>1, <2>1 DEF Unresolved
<1>4. PumpReads' /\ SharedBoundary' /\ SomebodyTakesIt'
  BY <1>1, <1>2 DEF CallsInv, CallsParts, PumpReads, SharedBoundary, SomebodyTakesIt, NoBoundary
<1>5. FirstApplies'
  <2>1. applied.type = "tools" /\ applied.seg <= seg /\ applied.seg \in Nat
    BY <1>1 DEF CallsInv, CallsParts, FirstApplies, SegmentInv, TypeOK, Boundary
  <2>2. effects \subseteq Nat /\ \A s \in effects : s <= seg /\ s <= seg + 1 /\ s # seg + 1
    BY <1>1 DEF CallsInv, SegmentInv, TypeOK, CallsParts, FirstApplies
  <2> QED BY <1>1, <1>2, <2>1, <2>2 DEF CallsInv, CallsParts, FirstApplies, NoBoundary
<1>6. run \notin {"none", "starting"}
  BY <1>1 DEF CallsInv, SegmentInv, QuietUntilBound
<1>7. OpenCallsAreExact'
  BY <1>1, <1>2, <1>3, <1>6 DEF CallsInv, CallsParts, OpenCallsAreExact
<1>8. CallsAreWatched'
  BY <1>1, <1>2, <1>3 DEF CallsInv, CallsParts, CallsAreWatched, NoBoundary
<1> QED BY <1>4, <1>5, <1>7, <1>8 DEF CallsParts

\* Nobody joins a segment whose boundary is published: those who carry it are done, and
\* have brought the session out of the states in which a request may join.
LEMMA JoinersWait ==
  ASSUME CallsInv, NEW r \in Requests, MicrotasksDrained, drive[r].pc = "idle",
         st \in {"running", "resuming"}, NEW kind, NEW s, NEW d,
         drive' = [drive EXCEPT ![r] = Driving(kind, s, d, pub)]
  PROVE  RequestsStay
<1>1. pub.type = "none"
  BY DEF CallsInv, CallsParts, SomebodyTakesIt, MicrotasksDrained, Carriers
<1>2. Driving(kind, s, d, pub).pc = "waiting"
  BY <1>1 DEF Driving
<1>3. TypeOK /\ drive[r].pc \notin {"waiting", "woken"}
  BY DEF CallsInv, SegmentInv
<1> QED BY <1>2, <1>3, OneRequestMoves

LEMMA PostResultsCalls ==
  ASSUME CallsInv, NEW r \in Requests, NEW d \in Digest, PostResults(r, d) PROVE CallsParts'
<1>1. MicrotasksDrained /\ drive[r].pc = "idle" /\ TypeOK
  BY DEF PostResults, CallsInv, SegmentInv
<1>2. CASE AcceptResults(r, d)
  BY <1>1, <1>2, AcceptResultsCalls
<1>3. ASSUME RequestsStay, UNCHANGED <<sessionVars, callVars, pumpVars, runVars, ledgerV2, history>>
      PROVE  CallsParts'
  BY <1>3, UnmovedStep DEF CallsInv, sessionVars, callVars, pumpVars, runVars, history
<1>4. CASE JoinResuming(r, d)
  <2>1. RequestsStay
    BY <1>1, <1>4, JoinersWait DEF JoinResuming
  <2> QED BY <1>3, <1>4, <2>1 DEF JoinResuming
<1>5. CASE ReplayResults(r, d)
  <2> DEFINE e == [Driving("results", replay.seg, d, replay) EXCEPT !.pc = "replayed"]
  <2>1. e.pc = "replayed"
    BY DEF Driving
  <2>2. drive' = [drive EXCEPT ![r] = e]
    BY <1>5 DEF ReplayResults
  <2> HIDE DEF e
  <2>3. RequestsStay
    BY <1>1, <2>1, <2>2, OneRequestMoves
  <2> QED BY <1>3, <1>5, <2>3 DEF ReplayResults
<1>6. CASE Reroute(r, d)
  <2> DEFINE e == [Driving("results", 0, d, NoBoundary) EXCEPT !.pc = "rerouted"]
  <2>1. e.pc = "rerouted"
    BY DEF Driving
  <2>2. drive' = [drive EXCEPT ![r] = e]
    BY <1>6 DEF Reroute
  <2> HIDE DEF e
  <2>3. RequestsStay
    BY <1>1, <2>1, <2>2, OneRequestMoves
  <2> QED BY <1>3, <1>6, <2>3 DEF Reroute
<1> QED BY <1>2, <1>4, <1>5, <1>6 DEF PostResults

LEMMA ReconnectCalls ==
  ASSUME CallsInv, NEW r \in Requests, Reconnect(r) PROVE CallsParts'
<1>1. MicrotasksDrained /\ drive[r].pc = "idle" /\ TypeOK
  BY DEF Reconnect, CallsInv, SegmentInv
<1>2. RequestsStay
  <2>1. CASE /\ st \in {"running", "resuming"}
             /\ drive' = [drive EXCEPT ![r] = Driving("reconnect", keySeg, NoDigest, pub)]
    BY <1>1, <2>1, JoinersWait
  <2>2. CASE drive' = [drive EXCEPT ![r] = [Driving("reconnect", keySeg, NoDigest, replay)
                                              EXCEPT !.pc = "replayed"]]
    <3> DEFINE e == [Driving("reconnect", keySeg, NoDigest, replay) EXCEPT !.pc = "replayed"]
    <3>1. e.pc = "replayed"
      BY DEF Driving
    <3>2. drive' = [drive EXCEPT ![r] = e]
      BY <2>2
    <3> HIDE DEF e
    <3> QED BY <1>1, <3>1, <3>2, OneRequestMoves
  <2> QED BY <2>1, <2>2 DEF Reconnect
<1>3. UNCHANGED <<st, registered, call, early, openBatch, gen, timers, pub, loop, run, cancelled,
                  applied, replay, seg, effects, reapplied>>
  BY DEF Reconnect, sessionVars, callVars, pumpVars, runVars
<1> QED BY <1>2, <1>3, UnmovedStep DEF CallsInv

LEMMA DisconnectCalls ==
  ASSUME CallsInv, NEW r \in Requests, Disconnect(r) PROVE CallsParts'
<1>1. RequestsStay
  <2>1. drive \in [Requests -> Drive]
    BY DEF CallsInv, SegmentInv, TypeOK
  <2>2. \A q \in Requests : drive'[q].pc = drive[q].pc /\ drive'[q].got = drive[q].got
    BY <2>1 DEF Disconnect, Drive
  <2> QED BY <2>2 DEF RequestsStay, Carriers, Waiters
<1>2. /\ UNCHANGED <<st, registered, call, early, openBatch, gen, timers, pub, loop, run,
                     applied, replay, seg, effects, reapplied>>
      /\ cancelled => cancelled'
  BY DEF Disconnect, sessionVars, callVars, pumpVars, history
<1> QED BY <1>1, <1>2, UnmovedStep DEF CallsInv

-----------------------------------------------------------------------------
(* The theorems *)

LEMMA NextCallsInv == CallsInv /\ [Next]_vars => CallsInv'
<1> SUFFICES ASSUME CallsInv, [Next]_vars PROVE CallsInv'
  OBVIOUS
<1>0. SegmentInv'
  BY NextSegmentInv DEF CallsInv
<1> SUFFICES CallsParts'
  BY <1>0 DEF CallsInv
<1>a. ASSUME UNCHANGED drive PROVE RequestsStay
  BY <1>a DEF RequestsStay, Carriers, Waiters
<1>1. ASSUME NEW r \in Requests, StartTurn(r) PROVE CallsParts'
  BY <1>1, StartTurnCalls
<1>2. ASSUME NEW r \in Requests, FollowUp(r) PROVE CallsParts'
  BY <1>2, FollowUpCalls
<1>3. ASSUME NEW c \in Calls, EarlyCall(c) PROVE CallsParts'
  BY <1>3, EarlyCallCalls
<1>4. ASSUME NEW r \in Requests, StartBound(r) PROVE CallsParts'
  BY <1>4, StartBoundCalls
<1>5. ASSUME NEW r \in Requests, StartFails(r) PROVE CallsParts'
  BY <1>5, StartFailsCalls
<1>6. ASSUME NEW semantic \in BOOLEAN, SdkEvent(semantic) PROVE CallsParts'
  BY <1>6, <1>a, UnmovedStep DEF SdkEvent, callVars, runVars, history, CallsInv
<1>7. ASSUME NEW c \in Calls, ToolCall(c) PROVE CallsParts'
  BY <1>7, ToolCallCalls
<1>8. ASSUME NEW c \in Calls, LateToolCall(c) PROVE CallsParts'
  BY <1>8, LateToolCallCalls
<1>9. ASSUME NEW g \in timers, Settle(g) PROVE CallsParts'
  BY <1>9, SettleCalls
<1>10. CASE FirstEventTimeout
  BY <1>10, FirstEventTimeoutCalls
<1>11. CASE RunFinishes
  BY <1>11, RunFinishesCalls
<1>12. CASE RunFails
  BY <1>12, RunFailsCalls
<1>13. ASSUME NEW r \in Requests, ApplyBoundary(r) PROVE CallsParts'
  BY <1>13, ApplyBoundaryCalls
<1>14. ASSUME NEW r \in Requests, NEW d \in Digest, PostResults(r, d) PROVE CallsParts'
  BY <1>14, PostResultsCalls
<1>15. ASSUME NEW r \in Requests, Reconnect(r) PROVE CallsParts'
  BY <1>15, ReconnectCalls
<1>16. ASSUME NEW r \in Requests, Disconnect(r) PROVE CallsParts'
  BY <1>16, DisconnectCalls
<1>17. CASE CancelForgets
  BY <1>17, <1>a, LostStep DEF CancelForgets, pumpVars, history
<1>18. CASE SweepForgets
  BY <1>18, <1>a, LostStep DEF SweepForgets, pumpVars, history
<1>19. CASE UNCHANGED vars
  BY <1>19, <1>a, UnmovedStep
  DEF vars, sessionVars, callVars, pumpVars, runVars, history, CallsInv
<1> QED BY <1>1, <1>2, <1>3, <1>4, <1>5, <1>6, <1>7, <1>8, <1>9, <1>10, <1>11, <1>12, <1>13,
           <1>14, <1>15, <1>16, <1>17, <1>18, <1>19 DEF Next

\* Who waits for a boundary, who carries it and where the open calls are: the
\* strengthening of the three properties below holds in every reachable state.
THEOREM CallsInvariant == Spec => []CallsInv
  BY InitCallsInv, NextCallsInv, PTL DEF Spec

\* However many requests share a segment, and whatever the SDK calls between the
\* publication of its boundary and their continuations, the first of them applies its
\* effects and no other.
THEOREM EffectsAreAppliedOnce == Spec => []AppliedOnce
<1>1. CallsInv => AppliedOnce
  BY DEF CallsInv, CallsParts, FirstApplies, AppliedOnce
<1> QED BY <1>1, CallsInvariant, PTL

\* While a session whose run was not cancelled awaits results, the batch the client was
\* given names exactly the open calls, early calls and late ones included.
THEOREM ShownBatchesAreExact == Spec => []ShownBatchIsExact
<1>1. CallsInv => ShownBatchIsExact
  BY DEF CallsInv, CallsParts, OpenCallsAreExact, ShownBatchIsExact
<1> QED BY <1>1, CallsInvariant, PTL

\* An open call of a session at work waits for the send, for an armed settle timer or
\* for a client that can be given it.
THEOREM NoCallIsStranded == Spec => []NoStrandedCall
<1>1. CallsInv => NoStrandedCall
  <2> SUFFICES ASSUME CallsInv, registered, MicrotasksDrained, st # "failed", loop # "finished",
                      NEW c \in Unresolved
               PROVE  \/ c \in early
                      \/ c \in openBatch /\ gen \in timers
                      \/ c \in pub.ids \/ (st = "awaiting" /\ c \in replay.ids)
    BY DEF NoStrandedCall
  <2>1. Carriers = {}
    BY DEF MicrotasksDrained, Carriers
  <2>2. Watched(c)
    BY DEF CallsInv, CallsParts, CallsAreWatched
  <2> QED BY <2>1, <2>2 DEF Watched, CallsInv, CallsParts, CallsAreWatched
<1> QED BY <1>1, CallsInvariant, PTL
=============================================================================
