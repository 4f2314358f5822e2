---------------------------- MODULE ToolSession ----------------------------
(***************************************************************************)
(* One gateway session: the Session object, the EventPump of its SDK run,  *)
(* the tool-id index entries it owns, and the HTTP requests that are       *)
(* driven by it (src/core/run-coordinator.ts, event-pump.ts, session.ts,   *)
(* sdk-run-driver.ts, tool-bridge.ts).                                     *)
(*                                                                         *)
(* The process is one JavaScript thread, so everything between two awaits  *)
(* is one action.  A promise that resolves schedules a microtask: requests *)
(* arrive, timers fire and sockets close only when no woken drive is left  *)
(* (MicrotasksDrained), while the SDK, whose callbacks are microtasks too, *)
(* may run between the waking of a drive and its continuation.             *)
(***************************************************************************)
EXTENDS Naturals, FiniteSets

CONSTANTS
  Calls,      \* tool calls the SDK may make, one id each
  Requests,   \* HTTP requests, each used once
  Answers,    \* what distinguishes two result batches for the same ids
  MaxRuns,    \* bound: start plus follow-up sends of the session
  NoDigest    \* session.lastResultDigest is undefined

ASSUME CallsAssumption == IsFiniteSet(Calls)
ASSUME NoDigestAssumption == NoDigest \notin [ids : SUBSET Calls, answer : Answers]
ASSUME MaxRunsAssumption == MaxRuns \in Nat \ {0}

VARIABLES
  st,          \* session.state, "none" before registry.create
  registered,  \* the session is in registry.sessions
  index,       \* the ids registry.toolIndex maps to this session
  call,        \* the settlement of each PendingCall promise
  early,       \* session.earlyCalls
  openBatch,   \* pump.openBatch
  gen,         \* pump.settleGeneration
  timers,      \* generations with an armed settle timer
  pub,         \* pump.publishedBoundary
  firstEvent,  \* pump.firstEvent
  loop,        \* the pump's consumer: "idle", "reading", or "finished"
  run,         \* the SDK run: "none", "starting", "live", "ended"
  cancelled,   \* run.cancel() was called
  closing,     \* coordinator.cancel awaits run.cancel()
  hasOutput,   \* session.hasSemanticOutput
  applied,     \* session.appliedBoundaryId
  replay,      \* session.replay (the boundary whose turn it holds)
  lastDigest,  \* session.lastResultDigest
  seg,         \* the response segment the pump builds (its messageId)
  keySeg,      \* the segment opened by the request session.logicalKey names
  runs,        \* sends so far
  drive,       \* what each HTTP request is doing
  ledgerV2,    \* config.runtimeLedgerV2, fixed for the process
  accepted,    \* history: the result batches that resolved the calls
  effects,     \* history: segments whose boundary effects were applied
  reapplied,   \* history: segments whose boundary effects were applied again
  shown        \* history: ids some client has been given

sessionVars == <<st, registered, index, hasOutput, applied, replay, lastDigest, keySeg>>
callVars    == <<call, early>>
pumpVars    == <<openBatch, gen, timers, pub, firstEvent, loop, seg>>
runVars     == <<run, cancelled, closing, runs>>
history     == <<accepted, effects, reapplied, shown>>
vars == <<sessionVars, callVars, pumpVars, runVars, drive, ledgerV2, history>>

-----------------------------------------------------------------------------
(* Types *)

SessionState ==
  {"none", "creating", "running", "awaiting", "resuming", "completed", "failed", "closed"}
CallState    == {"unused", "parked", "resolved", "rejected", "dropped"}
RunState     == {"none", "starting", "live", "ended"}
LoopState    == {"idle", "reading", "finished"}
DriveState   ==
  {"idle", "starting", "waiting", "woken", "answered", "failed", "replayed", "rerouted"}
DriveKind    == {"none", "start", "results", "reconnect"}

Digest   == [ids : SUBSET Calls, answer : Answers]
Boundary == [type : {"none", "tools", "final", "error"}, seg : Nat, ids : SUBSET Calls]

NoBoundary == [type |-> "none", seg |-> 0, ids |-> {}]
IdleDrive  == [pc |-> "idle", kind |-> "none", seg |-> 0, digest |-> NoDigest,
               got |-> NoBoundary, gone |-> FALSE]
Drive      == [pc : DriveState, kind : DriveKind, seg : Nat,
               digest : Digest \cup {NoDigest}, got : Boundary, gone : BOOLEAN]

TypeOK ==
  /\ st \in SessionState
  /\ registered \in BOOLEAN
  /\ index \subseteq Calls
  /\ call \in [Calls -> CallState]
  /\ early \subseteq Calls
  /\ openBatch \subseteq Calls
  /\ gen \in Nat
  /\ timers \subseteq Nat
  /\ pub \in Boundary
  /\ firstEvent \in BOOLEAN
  /\ loop \in LoopState
  /\ run \in RunState
  /\ cancelled \in BOOLEAN
  /\ closing \in BOOLEAN
  /\ hasOutput \in BOOLEAN
  /\ applied \in Boundary
  /\ replay \in Boundary
  /\ lastDigest \in Digest \cup {NoDigest}
  /\ seg \in Nat
  /\ keySeg \in Nat
  /\ runs \in Nat
  /\ drive \in [Requests -> Drive]
  /\ ledgerV2 \in BOOLEAN
  /\ accepted \subseteq [seg : Nat, digest : Digest]
  /\ effects \subseteq Nat
  /\ reapplied \subseteq Nat
  /\ shown \subseteq Calls

-----------------------------------------------------------------------------
(* Helpers *)

Used       == {c \in Calls : call[c] \in {"parked", "resolved", "rejected"}}
Unresolved == {c \in Calls : call[c] = "parked"}
Waiters    == {r \in Requests : drive[r].pc = "waiting"}

MicrotasksDrained == \A r \in Requests : drive[r].pc # "woken"

\* boundaryIdentity: the type and message id; every failure of a run carries
\* one error here.
BoundaryId(b) == IF b.type = "error" THEN [b EXCEPT !.seg = 0] ELSE b

\* (mutant: the failure is published under a type nobody expects)
ErrorBoundaryMistyped == [type |-> "failed", seg |-> seg, ids |-> {}]

\* EventPump.fail publishes the error in the segment being built.
ErrorBoundary == [type |-> "error", seg |-> seg, ids |-> {}]

\* (mutant: only one of the requests that share the segment is woken)
WokenOne(b) ==
  LET first == CHOOSE r \in Waiters : TRUE
  IN  IF Waiters = {} THEN drive
      ELSE [drive EXCEPT ![first].pc = "woken", ![first].got = b]

\* EventPump.publish, the waiters: each one resolves with the boundary.
Woken(b) ==
  [r \in Requests |->
     IF r \in Waiters THEN [drive[r] EXCEPT !.pc = "woken", !.got = b] ELSE drive[r]]

\* A request that opens segment s and awaits the send.
Starting(s) ==
  [pc |-> "starting", kind |-> "start", seg |-> s, digest |-> NoDigest,
   got |-> NoBoundary, gone |-> FALSE]

\* RunCoordinator.drive up to its await: the request joins segment s of the
\* pump, and waitForBoundary answers at once when a boundary is published.
Driving(kind, s, d, published) ==
  [pc |-> IF published.type = "none" THEN "waiting" ELSE "woken",
   kind |-> kind, seg |-> s, digest |-> d, got |-> published, gone |-> FALSE]

\* SessionRegistry.forget: the ids are unindexed, the bound run is cancelled,
\* parked promises are rejected and the session leaves the map.
Forget ==
  /\ st' = "closed"
  /\ registered' = FALSE
  /\ index' = {}
  /\ cancelled' = (cancelled \/ run \in {"live", "ended"})
  /\ call' = [c \in Calls |-> IF call[c] = "parked" THEN "rejected" ELSE call[c]]

Init ==
  /\ st = "none" /\ registered = FALSE /\ index = {}
  /\ hasOutput = FALSE /\ applied = NoBoundary /\ replay = NoBoundary
  /\ lastDigest = NoDigest /\ keySeg = 0
  /\ call = [c \in Calls |-> "unused"] /\ early = {}
  /\ openBatch = {} /\ gen = 0 /\ timers = {} /\ pub = NoBoundary
  /\ firstEvent = FALSE /\ loop = "idle" /\ seg = 0
  /\ run = "none" /\ cancelled = FALSE /\ closing = FALSE /\ runs = 0
  /\ drive = [r \in Requests |-> IdleDrive]
  /\ ledgerV2 \in BOOLEAN
  /\ accepted = {} /\ effects = {} /\ reapplied = {} /\ shown = {}

-----------------------------------------------------------------------------
(* Sending: startTurn, followUp and SdkRunDriver.start *)

\* startTurn up to the await of startAndBind: registry.create puts the session
\* in the map in state creating.
StartTurn(r) ==
  /\ MicrotasksDrained
  /\ st = "none" /\ drive[r].pc = "idle"
  /\ st' = "creating" /\ registered' = TRUE
  /\ run' = "starting" /\ runs' = runs + 1
  /\ drive' = [drive EXCEPT ![r] = Starting(seg)]
  /\ UNCHANGED <<index, hasOutput, applied, replay, lastDigest, keySeg, callVars,
                 pumpVars, cancelled, closing, ledgerV2, history>>

\* followUp on the live session: a completed session with its Agent is
\* activated and everything the previous turn left on it is cleared.
FollowUp(r) ==
  /\ MicrotasksDrained
  /\ registered /\ st = "completed" /\ runs < MaxRuns /\ drive[r].pc = "idle"
  /\ st' = "running"
  /\ hasOutput' = FALSE
  /\ index' = index \ Used
  /\ call' = [c \in Calls |-> IF c \in Used THEN "dropped" ELSE call[c]]
  /\ early' = {}
  /\ lastDigest' = NoDigest /\ replay' = NoBoundary /\ applied' = NoBoundary
  /\ run' = "starting" /\ cancelled' = FALSE /\ runs' = runs + 1
  /\ seg' = seg + 1
  /\ keySeg' = seg + 1
  /\ openBatch' = {} /\ gen' = 0 /\ timers' = {} /\ pub' = NoBoundary
  /\ firstEvent' = FALSE /\ loop' = "idle"
  /\ drive' = [drive EXCEPT ![r] = Starting(seg + 1)]
  /\ UNCHANGED <<registered, closing, ledgerV2, history>>

\* execute() of a client tool before the pump exists: the call is parked on
\* session.earlyCalls.
EarlyCall(c) ==
  /\ run = "starting" /\ call[c] = "unused"
  /\ call' = [call EXCEPT ![c] = "parked"]
  /\ early' = early \cup {c}
  /\ UNCHANGED <<sessionVars, pumpVars, runVars, drive, ledgerV2, history>>

\* (mutant: the early calls are not handed to the pump)
IngestNothing ==
  /\ openBatch' = {} /\ gen' = 0 /\ timers' = {}
  /\ firstEvent' = FALSE /\ hasOutput' = FALSE

\* EventPump.ingestEarly: notifyTool for every call parked before the pump.
IngestEarly ==
  /\ openBatch' = early
  /\ gen' = Cardinality(early) /\ timers' = 1 .. Cardinality(early)
  /\ firstEvent' = (early # {}) /\ hasOutput' = (early # {})

\* agent.send resolved: the run and its pump are attached to the session, the
\* early calls join the open batch, and the request drives the first segment.
\* startTurn then overwrites the state whatever became of the session in between.
StartBound(r) ==
  /\ drive[r].pc = "starting"
  /\ run' = "live"
  /\ st' = IF runs = 1 THEN "running" ELSE st
  /\ IngestEarly /\ early' = {}
  /\ loop' = "reading"
  /\ drive' = [drive EXCEPT ![r] = [Driving("start", seg, NoDigest, NoBoundary)
                                        EXCEPT !.gone = drive[r].gone]]
  /\ UNCHANGED <<registered, index, applied, replay, lastDigest, keySeg, call, pub, seg,
                 cancelled, closing, runs, ledgerV2, history>>

\* create, resume or send threw: no response was written, so the session is
\* forgotten.
StartFails(r) ==
  /\ drive[r].pc = "starting"
  /\ Forget
  /\ run' = "ended"
  /\ drive' = [drive EXCEPT ![r].pc = "failed"]
  /\ UNCHANGED <<hasOutput, applied, replay, lastDigest, keySeg, early, pumpVars, closing,
                 runs, ledgerV2, history>>

-----------------------------------------------------------------------------
(* The SDK run and the event pump *)

\* EventPump.publish: same-segment waiters all read the boundary.
Publish(b) ==
  /\ pub' = b
  /\ drive' = Woken(b)

\* onDelta or a stream event; only text and thinking are semantic output.
SdkEvent(semantic) ==
  /\ run = "live"
  /\ ~firstEvent \/ (semantic /\ ~hasOutput)
  /\ firstEvent' = TRUE
  /\ hasOutput' = (hasOutput \/ semantic)
  /\ UNCHANGED <<st, registered, index, applied, replay, lastDigest, keySeg, callVars,
                 openBatch, gen, timers, pub, loop, seg, runVars, drive, ledgerV2, history>>

\* (mutant: a call after the published batch silently joins the next one)
BatchNeverCloses == FALSE

\* notifyTool: the batch of this segment has been published.
BatchClosed == pub.type = "tools"

\* execute() and EventPump.notifyTool while the segment is open: the call joins
\* the batch and restarts the settle timer.
ToolCall(c) ==
  /\ run = "live" /\ call[c] = "unused" /\ ~BatchClosed
  /\ call' = [call EXCEPT ![c] = "parked"]
  /\ openBatch' = openBatch \cup {c}
  /\ gen' = gen + 1
  /\ timers' = timers \cup {gen + 1}
  /\ firstEvent' = TRUE /\ hasOutput' = TRUE
  /\ UNCHANGED <<st, registered, index, applied, replay, lastDigest, keySeg, early, pub,
                 loop, seg, runVars, drive, ledgerV2, history>>

\* notifyTool after the batch of this segment was published: the call cannot be
\* shown any more, so it is rejected and the run is failed and cancelled.
LateToolCall(c) ==
  /\ run = "live" /\ call[c] = "unused" /\ BatchClosed
  /\ call' = [call EXCEPT ![c] = "rejected"]
  /\ st' = "failed"
  /\ cancelled' = TRUE
  /\ Publish(ErrorBoundary)
  /\ UNCHANGED <<registered, index, hasOutput, applied, replay, lastDigest, keySeg, early,
                 openBatch, gen, timers, firstEvent, loop, seg, run, closing, runs,
                 ledgerV2, history>>

\* The settle timer of a generation fires; only the latest one flushes the
\* batch, and not once the consumer has finished.
Settle(g) ==
  /\ MicrotasksDrained
  /\ g \in timers
  /\ timers' = timers \ {g}
  /\ IF g = gen /\ loop # "finished" /\ openBatch # {}
       THEN /\ Publish([type |-> "tools", seg |-> seg, ids |-> openBatch])
            /\ openBatch' = {}
       ELSE UNCHANGED <<pub, drive, openBatch>>
  /\ UNCHANGED <<sessionVars, callVars, gen, firstEvent, loop, seg, runVars, ledgerV2, history>>

\* No event arrived in firstEventTimeoutMs.  The consumer keeps reading.
FirstEventTimeout ==
  /\ MicrotasksDrained
  /\ loop = "reading" /\ ~firstEvent /\ pub.type = "none"
  /\ Publish(ErrorBoundary)
  /\ UNCHANGED <<sessionVars, callVars, openBatch, gen, timers, firstEvent, loop, seg,
                 runVars, ledgerV2, history>>

\* The stream ends and run.wait() reports a finished run: the consumer publishes
\* the final turn.  The SDK does not finish a run whose tool calls are open.
RunFinishes ==
  /\ run = "live" /\ loop = "reading" /\ Unresolved = {}
  /\ run' = "ended" /\ loop' = "finished"
  /\ firstEvent' = TRUE /\ hasOutput' = TRUE
  /\ Publish([type |-> "final", seg |-> seg, ids |-> {}])
  /\ UNCHANGED <<st, registered, index, applied, replay, lastDigest, keySeg, callVars,
                 openBatch, gen, timers, seg, cancelled, closing, runs, ledgerV2, history>>

\* The stream throws, or wait() reports an error, a cancelled run or an empty
\* turn: an upstream failure may come at any time, tool calls open or not.
RunFails ==
  /\ run = "live" /\ loop = "reading"
  /\ run' = "ended" /\ loop' = "finished"
  /\ firstEvent' = TRUE
  /\ Publish(ErrorBoundary)
  /\ UNCHANGED <<sessionVars, callVars, openBatch, gen, timers, seg, cancelled, closing, runs,
                 ledgerV2, history>>

-----------------------------------------------------------------------------
(* Boundaries: the continuation of drive *)

\* (mutant: every drive that shares the boundary applies it)
AlwaysFirst(b) == TRUE

\* session.appliedBoundaryId tells the first drive from those that share it.
FirstToApply(b) == applied # BoundaryId(b)

\* Every call the session still holds becomes routable.
IndexTools == index' = index \cup Used

\* The catch of startTurn and followUp: a failed first segment whose response
\* was never begun, its client being gone, forgets the session.
ForgottenUnanswered(r) == drive[r].kind = "start" /\ drive[r].gone /\ Forget

\* What the first drive that reads a boundary does to the session.
ApplyError(r, b) ==
  /\ b.type = "error"
  /\ \/ ForgottenUnanswered(r)
     \/ st' = "failed" /\ UNCHANGED <<registered, index, cancelled, call>>
  /\ UNCHANGED <<replay, lastDigest, effects, reapplied>>

ApplyTools(b) ==
  /\ b.type = "tools"
  /\ st' = "awaiting"
  /\ replay' = b
  /\ lastDigest' = NoDigest
  /\ IndexTools
  /\ effects' = effects \cup {b.seg}
  /\ reapplied' = reapplied \cup ({b.seg} \cap effects)
  /\ UNCHANGED <<registered, cancelled, call>>

ApplyFinal(b) ==
  /\ b.type = "final"
  /\ st' = "completed"
  /\ replay' = b
  /\ effects' = effects \cup {b.seg}
  /\ reapplied' = reapplied \cup ({b.seg} \cap effects)
  /\ UNCHANGED <<registered, index, cancelled, call, lastDigest>>

ApplyFirst(r, b) ==
  /\ applied' = BoundaryId(b)
  /\ ApplyError(r, b) \/ ApplyTools(b) \/ ApplyFinal(b)

\* The other drives that share the boundary only write their response.
ApplyShared(r, b) ==
  /\ \/ b.type = "error" /\ ForgottenUnanswered(r)
     \/ UNCHANGED <<st, registered, index, cancelled, call>>
  /\ UNCHANGED <<applied, replay, lastDigest, effects, reapplied>>

\* The continuation of drive after its await: applyBoundary, then the response.
ApplyBoundary(r) ==
  /\ drive[r].pc = "woken"
  /\ IF FirstToApply(drive[r].got)
       THEN ApplyFirst(r, drive[r].got) ELSE ApplyShared(r, drive[r].got)
  /\ shown' = IF drive[r].gone THEN shown ELSE shown \cup drive[r].got.ids
  /\ drive' = [drive EXCEPT ![r].pc = IF drive[r].got.type = "error" THEN "failed" ELSE "answered"]
  /\ UNCHANGED <<hasOutput, keySeg, early, pumpVars, run, closing, runs, ledgerV2, accepted>>

-----------------------------------------------------------------------------
(* Tool results: continueTurn and continueLiveSession *)

Lookup(ids) == registered /\ ids \subseteq index /\ st \notin {"closed", "failed"}

Conflicting(d) == lastDigest # NoDigest /\ lastDigest # d

\* (mutant: the boundary of the previous segment stays published)
KeepOldBoundary == seg' = seg + 1 /\ pub' = pub

\* EventPump.beginNextSegment: a new message id and no boundary yet.
BeginNextSegment == seg' = seg + 1 /\ pub' = NoBoundary

\* The first batch that names exactly the unresolved calls opens the next
\* segment and resolves their promises, after its drive has joined the segment.
AcceptResults(r, d) ==
  /\ Lookup(d.ids) /\ ~Conflicting(d)
  /\ st = "awaiting" /\ d.ids = Unresolved
  /\ st' = "resuming"
  /\ lastDigest' = d
  /\ BeginNextSegment
  /\ drive' = [drive EXCEPT ![r] = Driving("results", seg + 1, d, pub')]
  /\ call' = [c \in Calls |-> IF c \in d.ids THEN "resolved" ELSE call[c]]
  /\ accepted' = accepted \cup {[seg |-> seg + 1, digest |-> d]}
  /\ UNCHANGED <<registered, index, hasOutput, applied, replay, keySeg, early, openBatch,
                 gen, timers, firstEvent, loop, runVars, ledgerV2, effects, reapplied, shown>>

\* (mutant: any batch for the open ids shares the segment)
JoinAnyDigest(r, d) ==
  /\ Lookup(d.ids) /\ st = "resuming"
  /\ drive' = [drive EXCEPT ![r] = Driving("results", seg, d, pub)]
  /\ UNCHANGED <<sessionVars, callVars, pumpVars, runVars, ledgerV2, history>>

\* The same batch again while its segment is being built shares the segment.
JoinResuming(r, d) ==
  /\ Lookup(d.ids) /\ st = "resuming" /\ lastDigest = d
  /\ drive' = [drive EXCEPT ![r] = Driving("results", seg, d, pub)]
  /\ UNCHANGED <<sessionVars, callVars, pumpVars, runVars, ledgerV2, history>>

\* The same batch again after the turn completed reads the stored turn.
ReplayResults(r, d) ==
  /\ Lookup(d.ids) /\ st = "completed" /\ lastDigest = d /\ replay.type # "none"
  /\ drive' = [drive EXCEPT ![r] = [Driving("results", replay.seg, d, replay) EXCEPT !.pc = "replayed"]]
  /\ UNCHANGED <<sessionVars, callVars, pumpVars, runVars, ledgerV2, history>>

\* Every routing error of the live path is recoverable: the request goes on to
\* the stored lineage and to transcript recovery, outside this session.
Reroute(r, d) ==
  /\ \/ ~Lookup(d.ids)
     \/ Conflicting(d)
     \/ st = "awaiting" /\ d.ids # Unresolved
     \/ st \notin {"awaiting", "resuming", "completed"}
     \/ st \in {"resuming", "completed"} /\ lastDigest # d
  /\ drive' = [drive EXCEPT ![r] = [Driving("results", 0, d, NoBoundary) EXCEPT !.pc = "rerouted"]]
  /\ UNCHANGED <<sessionVars, callVars, pumpVars, runVars, ledgerV2, history>>

PostResults(r, d) ==
  /\ MicrotasksDrained
  /\ drive[r].pc = "idle" /\ d.ids # {} /\ d.ids \subseteq shown
  /\ \/ AcceptResults(r, d)
     \/ JoinResuming(r, d)
     \/ ReplayResults(r, d)
     \/ Reroute(r, d)

\* tryReconnectLogicalRun, with the runtime ledger on: a retry of the request
\* the session's logical key names joins the live pump or reads the stored turn.
Reconnect(r) ==
  /\ MicrotasksDrained
  /\ ledgerV2 /\ registered /\ drive[r].pc = "idle" /\ run \in {"live", "ended"}
  /\ \/ /\ st \in {"running", "resuming"}
        /\ drive' = [drive EXCEPT ![r] = Driving("reconnect", keySeg, NoDigest, pub)]
        /\ UNCHANGED shown
     \/ /\ st \in {"completed", "awaiting"} /\ replay.type # "none"
        /\ drive' = [drive EXCEPT ![r] = [Driving("reconnect", keySeg, NoDigest, replay)
                                            EXCEPT !.pc = "replayed"]]
        /\ shown' = shown \cup replay.ids
  /\ UNCHANGED <<sessionVars, callVars, pumpVars, runVars, ledgerV2, accepted, effects, reapplied>>

-----------------------------------------------------------------------------
(* Disconnects, deadlines and shutdown *)

\* watchDisconnect: before any semantic output a lost client cancels the run,
\* unless the ledger keeps observing it.  The listener exists only once drive
\* has begun; a client lost while the send is pending is not noticed.
Disconnect(r) ==
  /\ MicrotasksDrained
  /\ drive[r].pc \in {"starting", "waiting"} /\ ~drive[r].gone
  /\ drive' = [drive EXCEPT ![r].gone = TRUE]
  /\ IF /\ drive[r].pc = "waiting" /\ ~ledgerV2
        /\ ~hasOutput /\ st \in {"running", "creating"}
       THEN cancelled' = TRUE /\ closing' = TRUE
       ELSE UNCHANGED <<cancelled, closing>>
  /\ UNCHANGED <<sessionVars, callVars, pumpVars, run, runs, ledgerV2, history>>

\* The await of run.cancel() in coordinator.cancel returned.
CancelForgets ==
  /\ closing /\ closing' = FALSE
  /\ Forget
  /\ UNCHANGED <<hasOutput, applied, replay, lastDigest, keySeg, early, pumpVars, run, runs,
                 drive, ledgerV2, history>>

\* SessionRegistry.sweep (run deadline, awaiting and replay TTL) and the drain
\* deadline.  Time is abstract: a deadline may pass in any registered state.
SweepForgets ==
  /\ MicrotasksDrained
  /\ registered
  /\ Forget
  /\ UNCHANGED <<hasOutput, applied, replay, lastDigest, keySeg, early, pumpVars, run, closing,
                 runs, drive, ledgerV2, history>>

-----------------------------------------------------------------------------
(* The specification *)

Next ==
  \/ \E r \in Requests :
       \/ StartTurn(r) \/ FollowUp(r) \/ StartBound(r) \/ StartFails(r)
       \/ ApplyBoundary(r) \/ Reconnect(r) \/ Disconnect(r)
       \/ \E d \in Digest : PostResults(r, d)
  \/ \E c \in Calls : EarlyCall(c) \/ ToolCall(c) \/ LateToolCall(c)
  \/ \E semantic \in BOOLEAN : SdkEvent(semantic)
  \/ \E g \in timers : Settle(g)
  \/ FirstEventTimeout
  \/ RunFinishes \/ RunFails
  \/ CancelForgets \/ SweepForgets

\* The gateway runs every promise continuation and timer, the periodic sweep ends
\* every session by its run deadline, and the SDK settles every send and ends a
\* run that is cancelled or has no open tool call.  What clients do, further tool
\* calls and upstream failures are never promised.
Fairness ==
  /\ \A r \in Requests :
       /\ WF_vars(ApplyBoundary(r))
       /\ WF_vars(StartBound(r) \/ StartFails(r))
  /\ WF_vars(\E g \in timers : Settle(g))
  /\ WF_vars(RunFinishes \/ (cancelled /\ RunFails))
  /\ WF_vars(CancelForgets)
  /\ WF_vars(SweepForgets)

Spec     == Init /\ [][Next]_vars
FairSpec == Spec /\ Fairness

-----------------------------------------------------------------------------
(* Properties *)

Answered(r) == drive[r].pc \in {"answered", "replayed"}

\* A request that starts, continues or retries a turn is answered with the
\* boundary of the segment it joined, never with an earlier or a later one:
\* beginNextSegment forgets the old boundary before the new drive waits.
SegmentFidelity ==
  \A r \in Requests :
    Answered(r) /\ drive[r].kind \in {"start", "results"} => drive[r].got.seg = drive[r].seg

\* Requests that share a segment carried the very batch that resolved its
\* calls: two different results for one tool call are never both accepted.
DigestFidelity ==
  /\ \A a, b \in accepted : a.seg = b.seg \/ a.digest.ids = b.digest.ids => a = b
  /\ \A r \in Requests :
       drive[r].kind = "results" /\ drive[r].pc \in {"waiting", "woken", "answered", "replayed"}
         => [seg |-> drive[r].seg, digest |-> drive[r].digest] \in accepted

\* However many requests wait for a boundary, its effects (state change, replay
\* record, journal, lineage and ledger writes) are applied once.
AppliedOnce == reapplied = {}

\* While the session of a run that was not cancelled awaits tool results, the
\* batch the client was given is exactly the set of calls whose promises are
\* open, so its results can be accepted and no call of the run is left waiting.
ShownBatchIsExact ==
  registered /\ st = "awaiting" /\ ~cancelled => Unresolved = replay.ids

\* An open call of a live session always has somebody who will move it: the
\* send that will drain it, the settle timer that will publish it, or the client.
NoStrandedCall ==
  registered /\ MicrotasksDrained /\ st # "failed" /\ loop # "finished" =>
    \A c \in Unresolved :
      \/ c \in early
      \/ c \in openBatch /\ gen \in timers
      \/ c \in pub.ids \/ (st = "awaiting" /\ c \in replay.ids)

\* A request that waits on a run whose consumer is still reading gets its
\* boundary: a tool batch, a final turn or an error.
WaiterOnLiveRunAnswered ==
  \A r \in Requests :
    (drive[r].pc = "waiting" /\ loop # "finished") ~> (drive[r].pc # "waiting")

\* cursor_timeout is promised for a tool wait, a resume and the run deadline, so
\* no request whose client stays may wait for ever.
EveryRequestAnswered ==
  \A r \in Requests :
    (drive[r].pc = "waiting") ~> (drive[r].pc # "waiting" \/ drive[r].gone)
=============================================================================
