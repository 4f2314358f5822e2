# Verification of cursor-sdk2api

TLA+ models of the gateway: its sessions, ordinary turns, ledger, restart
recovery, HTTP application with its accounts and console, and the reading and
writing of the three protocols; the TLC runs that check them on small
instances, and the theorems TLAPS proves about them for every instance. Paths
below are relative to the repository; the implementation is TypeScript under
`src/`.

## 1. The system

The gateway answers Anthropic and OpenAI requests by driving Agents of the
Cursor SDK. One process, one JavaScript thread: what runs between two awaits is
atomic, and everything that can interleave does so at an await, a promise
continuation, a timer, an SDK callback or a socket event. State survives a
restart only in the journal, the lineage files, the ledger and the stores of
the SDK.

| Component | State | Operations | Talks to | Hard parts |
| --- | --- | --- | --- | --- |
| **Coordinator** `core/run-coordinator.ts` | ordinary claims and replays, transcript and pending recoveries | new turn, follow-up, tool results, recovery, drive, apply boundary, cancel, drain | all of core | several requests on one session; awaits inside every handler |
| **Event pump** `core/event-pump.ts` | open tool batch, settle generation, published boundary, delta history, waiters | consume the SDK run, batch tool calls, publish a boundary, next segment, attach a late response | session, SDK run, writers | timers against callbacks against results |
| **Session, registry** `core/session.ts`, `session-registry.ts` | sessions, tool-id index, limits | create, index, look up, activate, forget, sweep, adopt, drain | coordinator | capacity, expiry in the middle of a turn |
| **SDK run driver, tool bridge** `core/sdk-run-driver.ts`, `tool-bridge.ts` | early calls | create or resume an Agent, send, park tool calls | SDK | tools that run before `send` returns |
| **Ordinary turns** `core/ordinary-turn.ts`, `ordinary-turn-journal.ts`, `cursor-agent-turn.ts` | journal file of running and completed turns | decide (join, replay, fail, resume, rebuild), claim, complete, expire | coordinator, registry | forks, singleflight, restarts |
| **Runtime ledger** `core/runtime-ledger.ts`, `runtime-ledger/` | SQLite tables of agents, runs, interactions, receipts | upsert, claim, offset, interactions, finalize, import | coordinator, other processes | owners that come late, repeated calls |
| **Lineage store, transcript recovery** `core/lineage-store.ts`, `transcript-recovery.ts` | one JSON file per session | put, find by tool ids, sweep | coordinator | crash between two writes |
| **Application** `server/app.ts`, `auth/`, `sdk/catalog.ts` | probes under way, round-robin cursors, model catalogs | choose an account, probe, retry, go to another account, console calls | coordinator, accounts, Cursor | no retry after output began; lists that are stale when used |
| **Accounts** `account/file-store.ts`, `service.ts` | one file per account | add, edit, batch, proxy, default profile, verify, remove | application, console | writes that come after an await |
| **Onboarding, dashboard** `account/cursor-*.ts` | token exchanges under way, granted quotas | quota of a key, onboarding from a session token | Cursor's web API | a failure after the key was made |
| **Settings** `core/settings/` | `config.json` and its copy in memory | load, seed, validate, update | console, operator | hand edits, failed writes |
| **Compaction anchors** `core/compact-anchor.ts` | one record per token | mint, verify, sweep | application | token, record and account must agree |
| **Protocols** `protocols/` | one writer per response | parse, write JSON or SSE frames | application, coordinator, pump | late and replayed answers, echoed items |
| **Console, logs** `server/console-auth.ts`, `log-routes.ts`, `core/log-sink.ts`, `request-telemetry.ts` | login tokens, two ring buffers, their streams | login, follow a ring, set its capacity | browser | trimming while somebody reads |
| **SDK adapter, sand runtime** `sdk/` | loaded bundles, proxies | create, resume, send, stream | SDK | external code; not modelled |
| **Web front end, console pages** `web/`, `server/console.ts` | | | browser | not modelled |

A text request goes from its route in `app.ts` (choice of an account, retries)
to `handleMessages` → `handleOrdinaryTurn` → (claim) → `startTurn` or `followUp`
→ `SdkRunDriver.start` → `drive`, which waits for the pump's boundary and applies
it: a tool batch (the session awaits results), a final turn (completed) or an
error (failed). A tool-result request goes `continueTurn` → registry look-up →
`continueLiveSession`, which opens the next segment of the same run; if the
session is gone the request goes on to the lineage file (`resumePendingLineage`)
and then to transcript recovery, which starts a new Agent with the transcript
the client sent. With `runtimeLedgerV2` each send and boundary is also recorded
in the ledger, and a repeated request reconnects to its run. The console edits
the accounts and settings that the model routes read.

### What makes each part correct

* **Session and pump.** A request gets the boundary of its own segment; one
  batch is accepted for a set of calls; the effects of a boundary are applied
  once; what the client was shown is exactly what its results must name; no tool
  call is left without someone who moves it; who waits on a live run is answered.
* **Ordinary turns.** The last message alone is sent only to an agent that holds
  the rest of the transcript; one send per turn at a time; a replay is the answer
  its record was made from; no record of a failed claim stays behind.
* **Ledger.** One run per logical request; a late owner writes nothing; a run
  is settled once with one receipt of its own; a repeated record forgets nothing.
* **Registry.** Limits hold at every activation; nothing begins after drain.
* **Recovery.** An SDK agent has one run at a time and the same results start one
  run, whichever of live session, lineage file and transcript takes them; the
  file of a session at rest says what the session is; a stored agent is given
  results of its last batch only; a text that the ledger calls running is not
  sent again.
* **Application.** Nothing is run again once the answer has begun; at most two
  runs on the first account and one on another; a disabled account gets no new
  work; a compact token stays with its account and profile.
* **Accounts, onboarding.** A late answer of Cursor undoes no edit; a key that was
  made is stored whatever fails afterwards.
* **Logs.** Who follows a ring sees every entry once, in order.
* **Protocols.** Every client reads the whole answer in well-formed frames,
  whenever it joined; sending it back finds the agent of that answer, and results
  continue exactly their batch.

The hazards behind these properties are listed in `PROJECT.json`, each at its
line.

## 2. Modules

| Module | Models | State |
| --- | --- | --- |
| `ToolSession` | one session in detail: its pump, its run, its tool ids and its HTTP requests | 29 variables, named as in the source |
| `OrdinaryTurns` | decision, journal, claims, replays, agents, expiry, restart | journal, expiry order, inflight, replay map, sessions, what agents hold |
| `RuntimeLedger` | the ledger's writing methods and the legacy import | the four tables |
| `Settlement` | abstract: a logical request is opened once and settled once, with a receipt of its own; refined by `RuntimeLedger` | `outcome`, `receiptOf` |
| `SessionRegistry` | session objects, look-up, limits, forget, drain | `obj`, `sessions`, `toolIndex`, `draining` |
| `Recovery` (extends it) | requests on several sessions, lineage files, ledger rows, recoveries, restart | + `lineage`, `pendingRecoveries`, `transcriptRecoveries`, `ledger`, `req` |
| `Writers` | the three response writers as a record and its operators | none |
| `Transcripts` | `parse.ts` of the three protocols, continuations, lineage keys | none |
| `Conversation` (extends both) | one segment: what the run makes and how it reaches the pump, the boundary, and the responses that read it | `runtime`, `made`, `early`, `history`, `batch`, `phase`, `answer`, `applied`, `writer` |
| `Accounts` | account files, round-robin pool, model catalogs | `files`, `added`, `cursors`, `catalog`, `now` |
| `Anchors` (extends it) | compact tokens | `issued`, `anchors` |
| `Rings` | ring buffers and their event streams | `rings`, `capacity`, `streams` |
| `Failover` (extends these) | model requests: account, probe, retry, alternate | `req`, `probes`, `left` |
| `CursorWeb` (extends Accounts, Rings) | quota calls and onboarding | `web`, `exchanges`, `sandCache`, histories |
| `Settings` | settings and `config.json` | `settings`, `configFile` |
| `Gateway` (extends the last three) | the application: login, console calls, process | + `tokens` |
| `MC*` | instances for TLC: symmetry, constraints, budgets | |
| `ToolSession_proofs`, `OrdinaryTurns_proofs`, `RuntimeLedger_proofs`, `Recovery_proofs`, `Results_proofs`, `Gateway_proofs`, `Conversation_proofs` | theorems, see 5 | |
| `LeftFolds` | theorems about left folds, see 5 | |

### ToolSession

`st`, `registered`, `index`, `call`, `early`, `replay`, `lastDigest`, `applied`,
`hasOutput` are fields of the `Session` and its registry entries; `openBatch`,
`gen`, `timers`, `pub`, `firstEvent`, `loop`, `seg` are the pump; `run`,
`cancelled`, `closing` the SDK run; `drive[r]` is the point request `r` has
reached in `drive` (starting, waiting, woken, answered, …).

* A response segment is named by a number instead of a message id;
  `BoundaryId` keeps `boundaryIdentity`'s collision of equal error messages.
* `MicrotasksDrained` guards what arrives as a macrotask (requests, timers,
  sockets), because a resolved promise continues before them. SDK callbacks are
  not guarded: they may be microtasks themselves.
* Time is abstract: a timer may fire whenever it is armed, a deadline or sweep
  may hit in any registered state. This covers every setting of the limits.
* The SDK is external: it may call any tool at any time while its run lives,
  fail at any time, and finishes only without open calls.
* Requests that leave the session (`Reroute`) end here; `Recovery` follows them.
  A follow-up opens a new pump, so a stream event of
  an earlier run that arrives late is not modelled.
* `ledgerV2` is fixed at start, both values are explored.

### OrdinaryTurns

`held[a]` is what SDK agent `a` holds, as the lineage key of the transcript, or
`Mixed` when no transcript of the model matches. It is external state and
survives a restart, as does the journal; `inflight`, `replay` and the sessions
do not. `order` replaces expiry times: each record lives equally long from its
last write, so records expire in the order of their last writes. A refusal by
the capacity limits may come at any activation. Records of hash keys are
compared as keys: tenant, model, tool catalogue and policy are part of the
lineage key, so a mismatch is another key. So is the number of user messages
(`turnIndex` of `nextCursorAgentTurnLineageKey`), which the constant `TurnIndex`
gives for each key: it orders the turns of an agent.

Assumption on the SDK: a run that fails leaves its agent as it was. (A run that
had finished when the process died may have stored its answer: `Restart`.)

### RuntimeLedger

A caller is any process with any arguments; `gen` is the generation it passes.
What an owner writes (`observe_offset`, the last record of a tool call, a receipt
and with it the outcome of the run) is abstracted to the generation of its writer,
the field `gen` or `offset` of the row; digests and usage are whether they are
there. `LateOwnerWritesNothing` compares these fields with the generation of the run
in every step: dropping the check of the owner from any one of the three methods
that have it breaks the property, as three mutants show. The schema's unique
indexes are left out, so the properties hold by the checks of the methods.

### SessionRegistry and Recovery

A session object is a number and so are the SDK agent and the id made with it;
an object that takes over a stored session carries the old id, so `Registered`
tells which of them the registry finds. A tool batch is one id. `Opened` and
`OpenFails` are the two ends of `startAndBind`, between which anything may
happen; `Answer` is what all drives of a session do with a boundary. What
`SessionRegistry.sweep` decides by clocks is the action `ForgetSession`, at any
time; expiry of files and recoveries likewise. `Restart` may come between any two
steps and leaves the lineage files, the ledger and the agents.

Properties name their exceptions, and each exception is a way in which the code
really departs from them, see "Known divergences": `forgotten`, `unrecorded` and
`unshared` are histories that say which ids and keys an exception covers. Objects
that nothing can find or reach any more are collapsed (`Gone`).

### Conversation, Writers and Transcripts

A fragment has the number of the delta that brings it, so that loss, repetition
and order show. It comes up to three times: by `onDelta` (before `send` has returned
it waits in the driver's bridge, `early`), as an event of the run's stream, and in
the result. The SDK adapter leaves text out of the stream; a direct Sand run keeps
its events for the end of the response, and there the pump drops them because it
has heard deltas (`Handle`).
Frames are cut down to start, open, delta, close, end and error; a block is a
content block of Messages and an output item of Responses. A client puts the
answer together from the frames (`Assembled`), sends it back in the form of its
protocol (`EchoItems`) and `Parse` reads it; the lineage keys are compared as the
values that the code digests. Assumptions: the SDK sends no text while a published
batch waits for results, and `result.result` is either what was streamed or the
only text.

### Gateway and what it is made of

One key stands for its fingerprint, one model for all models, two settings with
a range for all settings. `Failover.req[r]` is a request between two awaits:
`listing` (the catalogs), `running`, `probing`, and `seen` is the account list as
it was read before the await. `CursorWeb.web[c]` is a console call at the answer
it waits for; every answer of Cursor is a choice. Console calls need a login
(`Call`). The process may be restarted at any point.

Budgets. The kinds of acts multiply, so each behavior has one of several budgets
(`MCBudgets`): how many requests, compactions, edits, calls to Cursor, settings,
ring operations, ticks and restarts there may be. What interacts is budgeted
together; steps of the gateway itself cost nothing. `ran`, `barred`, `edits`,
`received`, `stored`, `cut` and `whole` are histories.

The runs of an account are counted by the requests that are running on it
(`ActiveRunCount`); the code counts the sessions that are being created, running
or resuming (`session-registry.ts:199`), so this is an approximation; the states of
sessions and the limits on them are the subject of `SessionRegistry`.

## 3. Runs

| Run | Instance | Shows |
| --- | --- | --- |
| `ToolSession` | 3 calls, 3 requests, 2 answers, 2 runs | six invariants |
| `ToolSessionLive` | 2 calls, 2 requests, 2 runs, fairness | `WaiterOnLiveRunAnswered` |
| `RuntimeLedger` | 2 runs, 2 keys, 2 policies, generations 0 and 1 | six invariants and action properties, refinement of `Settlement` |
| `OrdinaryTurns` | turns askA → {askB, askC} and askD, 3 requests, 2 sessions, 1 restart | six invariants |
| `Recovery` | 2 session objects of 2 batches, 2 requests, ledger on, 1 fault, 1 restart | capacity, drain, lineage files, ledger fence |
| `RecoveryRuns` | 3 session objects of 1 batch, 2 requests, ledger off, 1 restart | one run per agent and per results |
| `Conversation` | 2 clients, 2 calls, 4 deltas, 3 protocols, streamed or not, SDK and direct runs | four invariants |
| `Gateway` | 2 keys, 3 accounts, 2 requests, 2 console calls, 13 budgets | seven invariants, one action property |
| `ToolSessionRunDiesAwaiting` | 1 call, 2 requests, fairness | *violated:* `EveryRequestAnswered` |
| `OrdinaryTurnsStaleOwner` | as `OrdinaryTurns` | *violated:* `ReplayIsOwnAnswer` |
| `ConversationEcho` | as `Conversation`, 3 deltas | *violated:* `EveryEchoFindsItsAgent` |
| `OnboardingLosesKey` | as `Gateway` | *violated:* `ClaimNeverLosesTheKey` |

Bounds. Three calls give a batch of two and one that comes late or in the next
round; three requests give the owner of a segment, a duplicate and a conflicting
one; two runs give a follow-up that must not see the first turn. In the ledger
two runs of two keys compete for two receipts; two generations give a late and a
current owner, also of a run that is behind its agent (checks compare two
generations at a time; the theorems hold for any number). The constraint
`CallsOfOneRun` keeps interactions to one run at a time, since they never cross
runs, and `CallsOrReceipts` lets both runs have receipts only while no call is
recorded, since receipts and calls never look at each other. In `OrdinaryTurns` two
successors of one answer give the fork, two sessions the original and the
rebuilt agent, three requests a claim, a joiner and a follow-up; the constraint
`HeaderOnly` reserves turn askD for the session header. One restart shows a crash;
after it the model starts from everything a crash can leave.

`Recovery`: two objects are a session and what takes it over, two rounds a batch
that was answered and the one that is open, one fault a sweep, a drain, a failed
write or an expiry, with a restart before or after it. The limit of one run for
the one credential, under a global limit of two, makes the two limits differ.
`RecoveryRuns` has the third object that a second, unshared recovery needs, and
no faults, so that its properties hold there without exceptions.
`Conversation`: four deltas let thinking and text alternate twice; two clients are
the one that asked and the one that joins late or asks again.
`Gateway`: two requests share a probe or compete for the one run an account may
have; two keys and a seed give a bound, an alternate and a returning account; a
capacity of one or two entries trims at every step; settings from one below to
one above their range.

Deadlock is not checked: requests are bounded, and a gateway without requests
rightly does nothing.

Fairness (`FairSpec` of `ToolSession`): promise continuations and timers run, a
send settles, a run that is cancelled or has no open call ends, the sweep timer
(`server/app.ts:456`) runs every few seconds and ends each session by its
deadline. Clients and upstream success are never assumed. The liveness run of a
session without symmetry uses two requests.

### What the violated runs say

1. **A run that dies while results are awaited** (`event-pump.ts:70`). Its error
   boundary is published to nobody. The results are accepted afterwards,
   `beginNextSegment` erases the error, and the drive waits for a pump that has
   finished; forgetting the session does not wake it.
2. **Stale replay owner** (`run-coordinator.ts:378`): set before the capacity
   check, never taken back.
3. **Echo of a Responses answer** (`openai-responses/parse.ts:379`): its reasoning
   and message items become two assistant messages, the recorded answer was one,
   so the next turn opens a new agent.
4. **Onboarding loses a key** (`cursor-onboarding.ts:118`): the body of an answer
   breaks off outside the `try`, and the call fails after the key was made.

### Known divergences

Behaviours the models have, which the properties except or do not speak of. They
are listed for whoever changes this code.

* *Session.* The same results are recognised until the next tool batch only
  (`run-coordinator.ts:1050`, against docs/PROTOCOL_COMPATIBILITY.md:57). A
  reconnect is given the session's latest turn, not that of its request (`:1424`).
  A client lost during the send is not noticed, since `drive` installs the listener
  afterwards (`:1018`).
* *Ordinary turns.* A follow-up by header moves an agent that the journal still
  offers to successors (`:402`); and when a process dies after an agent stored its
  answer, a retry that is refused by a limit removes the running record
  (`:349`). `ResumeIsExact` leaves out these agents (variable `strayed`).
* *Registry and recovery.* A session forgotten during its send lives on
  unregistered (`:604`). The late end of a swept run overwrites the lineage file of
  the object that took over. A forgotten object stays in `transcriptRecoveries`,
  and retries drive it (`:845`). After a failed lineage write the old file may be
  resumed beside a transcript recovery. Results that conflict with others which are
  resuming the same stored batch are recovered from the transcript at once
  (`:1588`); when the others fail, a retry of the same results finds the stored
  session free again (`:929`, `:939`) and they run twice. A session in its second round cannot be
  resumed from its file, which still lists the first batch (`:1174`, against
  docs/PROTOCOL_COMPATIBILITY.md:59). A refused `resumeCompletedLineage` leaves a
  session in state creating (`:1138`).
* *Application.* An account that is disabled or removed while the catalogs are
  awaited is still picked from the list that was read before (`app.ts:337`);
  `DisabledAccountsGetNoNewWork` is about those disabled before the request came. A
  continuation whose run fails goes to another account by
  transcript (docs/SECURITY.md:31 says it cannot). A compact token is refused when
  round robin picks another account than its own, and no retry looks for its own
  (docs/TYPE62_FULL_SYNC_PLAN.md:384). Verification records a failure for a partly
  readable account (`app.ts:914`). The seed key comes back after a restart
  (`file-store.ts:97`). A slow older catalog overwrites a newer one; a slow granted
  quota is cached after its grant was removed. A failed write leaves settings in
  memory only (`settings/store.ts:72`).
* *Protocols.* Messages clients whose stream alternates thinking and text do not
  find their agent by echo, as in 3. Chat looks for results in the last user
  message, also when an assistant message follows it.

## 4. What is checked by mutation

`PROJECT.json` names for every property a change of a modelled definition that a
plausible bug would make (operators marked *mutant* in the modules) and that
breaks the property: the generation of a settle timer, the digest comparison of
a shared segment, the order of unique checks in the ledger, the kept answer of a
session, and so on.

## 5. Proofs

All for every value of the constants, under the assumptions named in the
modules (`CallsAssumption`: the tool calls are finitely many;
`NoDigestAssumption`, `NoReceiptAssumption`: the "undefined" values are not
values; `ProfileAssumption`, `GenerationAssumption`, `MaxRunsAssumption`,
`KeyAssumption`, `SwitchAssumption` and both `BoundAssumption`s: types;
`NoTurnAssumption`, `MixedAssumption`: "none" and "mixed" are not values;
`TurnIndexAssumption`: the transcript after a turn has one user message more than
the one before it; `LimitAssumption`: the capacity limits are numbers;
`AccountsAssumption`: finitely many account files, numeric priorities with a lowest
one, "no key" and "none" are not values; `AnchorsAssumption`: the lifetime of a
compact record is a number; `RingsAssumption`: the ring capacities are numbers and
one of them is the largest; `GatewayAssumption`: the files on disk and the seed
hold keys; `BoundsAssumption`: there is an id for each file on disk and the seed,
and every budget is a number of acts of each kind).

`ToolSession_proofs`
* `TypeCorrect`: `Spec => []TypeOK`.
* `SegmentInvariant`: `SegmentFidelity` and `DigestFidelity` are not inductive.
  They rest on `QuietUntilBound` (no pump before the send returned), `OneStarter`,
  `CurrentBoundary` (what is published, and what a woken request carries, belongs
  to the current segment, and nobody waits while something is published),
  `CurrentDrive` (a request on its way belongs to the current segment) and
  `AcceptedIsOver` (calls of an accepted batch are over for good, so the same ids
  are never accepted again). One lemma per kind of step (`QuietStep`,
  `PublishStep`, `DriveStep`, `ForgetStep`), then one step per action.
* `AnswersAreOfTheirSegment`, `OneBatchPerSegment`: its two consequences.

Its second part proves the other three safety properties of the session.
`CallsInv` is `SegmentInv` and
* `PumpReads`: the consumer reads exactly while the run lives;
* `SharedBoundary`, `SomebodyTakesIt`: everybody who carries a boundary carries the
  first of the segment; a pump that has published nothing has somebody who waits,
  and a boundary of a segment at work has somebody who carries it;
* `FirstApplies`: a segment at work has applied nothing of its own, and once its
  effects are applied everybody who still carries the boundary finds that it was.
  This is what `AppliedOnce` needs: with several requests on one segment nothing
  but the comparison with the applied boundary keeps the second from applying it;
* `OpenCallsAreExact`, `CallsAreWatched`: where the open calls are from their
  parking to their end: parked for the send, in the open batch with a timer armed,
  in the published batch, with whoever carries it, in the batch that is awaited.
  Neither `ShownBatchIsExact` nor `NoStrandedCall` says anything about the time in
  which a request carries a batch, which is what they depend on.
* `EffectsAreAppliedOnce`, `ShownBatchesAreExact`, `NoCallIsStranded`: its
  consequences.

`OrdinaryTurns_proofs` proves all six invariants of the run. The inductive
invariant `IInv` is built up in parts, each of which needs those before it:
* `TypeInv`: types, and that `order` lists every recorded turn once. That a
  recorded turn has one place makes "a later record" an order (`TypeCorrect`).
* `SendsInv`: whoever sends has a session of its own that no other request sends
  through and holds the claim of its turn; `ClaimsAreOne` follows.
* `AnswersInv`: the joined, running and replayed answers, by themselves inductive
  over the above (`JoinedAnswersAreOwn`, `RunningRecordsAreInFlight`,
  `ReplaysAreRecorded`).
* `AgentsInv`: an agent is the one of a session, and one that a rebuild is still
  making is named by no record, session or other request. Without it a rebuilt
  agent could already hold something.
* `RecordsInv`: what the journal says of an agent. A completed record `p` of an agent
  that has not strayed tells the truth, or a later turn of the same agent is settled
  or holds the agent: this is the code's "a successor exists" (`Succeeds`), and needs
  `TurnIndex` to see that an agent only moves forward.
* `ResumesInv`: a request that resumes an agent is alone with it, the agent holds
  just what the turn continues, and no record still offers it elsewhere
  (`ResumesAreExact`).

`RuntimeLedger_proofs`
* `LedgerTypeCorrect`; `LedgerInvariant`: types, `OneRunPerKey`,
  `ReceiptsMatchRuns` and the half of `AgentFencesRuns` that is about runs
  (`RunsAreFenced`) are inductive together (`requireGenerationOwner` compares with
  the run, `claimRun` with the agent: the fence needs both).
* `LateOwnersAreFenced`: every step writes offsets, outcomes, tool calls and
  receipts in the generation their run is in, and takes no generation back. From
  this follows the other half of `AgentFencesRuns`, that no call and no receipt is
  ahead of its run (`WritesStayFenced`, `AgentIsAheadOfItsRuns`).
* `CallHistoryOutlivesRetries`: an action property, without an invariant.
* `LedgerSettles`: the ledger implements `Settlement`. A claim or import of a new
  key opens, the first receipt settles, everything else stutters; uniqueness of
  runs and of receipts is needed for the mapping to be a function of the key.

`Recovery_proofs` is about `Recovery` with the registry it extends.
* `Base`: types (`Typed`); which objects the maps and the registry name
  (`SessionsInv`: objects are made in their order, and what is registered for an id
  is the latest object of that id); which states, runs and boundaries go together, and
  that a live run is driven by somebody (`StatesInv`); what a request may be doing with
  its object (`ReqInv`). The proof does not follow the actions of the module but a list
  of steps by what they do to an object (`NextStep`: create, follow up, accept, join,
  open, ask, end, answer, forget, restart, and steps that move nothing); one lemma per
  action shows that it is one of them, and every later invariant is proved for the list.
* `TypeCorrect`; `RunsWithinLimits` from `LimitsInv` (the cardinality of the counted
  runs grows only where `AssertActive` has looked); `DrainedIsIdle` from `DrainInv`.
* `AgentsRunOnce`: `OneRunPerAgent`, from `AgentsInv` (an agent belongs to one id,
  whoever names it: object, file or request) and `UseInv` (an object that the registry
  has lost is busy only if it was forgotten during its send).
* `FilesAreCurrent`: `LineageIsCurrent`, from `LeftInv` (nobody holds a lost object
  unless it was forgotten while in use) and `FileInv`.
* `BoundTextsAreSentOnce`: the action property `BoundTextIsNotResent`.
* `ResumesTheLastBatch`: `ResumedBatchIsTheLast`, from `BatchesInv` (every batch that is
  named was asked for by an object of that session) and `LastInv` (the batch of an
  awaiting file is the last one anybody of that session was shown).

`Results_proofs` (extends it) is about one property, `OneRunPerResults`
(`ResultsRunOnce`). Three places can take the same results: the live session, its
lineage file and the recovery of a transcript; each decides by its own state, so the
invariant `ResultsInv` says what each knows of the other two.
* `ToolsInv`: a batch of the index was asked for in that session, which is registered
  unless it was forgotten in use. `AsksInv`: what an object works on was shown.
* `LiveInv`, for registered objects: one that waits is in the index with its batch and
  has no digest (`WaitsOk`); one that runs on results is in the index with the batch of
  its digest, and a request waits for it (`WorksOk`); one whose prompt is on the way is
  in `pendingRecoveries` with its key and in no index yet (`SendsOk`); the file of a
  session takes results only for a batch that its object waits for or works on
  (`FileOk`); results of a session's own batch are worked on as its digest (`MineOk`).
* `TakenInv`: an object that works on results of another session's batch is the one in
  `transcriptRecoveries`. `RecoveredInv`: while results are there, the session that
  asked for them does not wait for them, its file does not take them, and nothing in
  it works on them. `UnroutedIsSafe` shows this at the moment of the recovery (from
  `Unrouted`, the routing errors of `continueLiveSession` and `resumePendingLineage`);
  it lasts because a session comes to wait only for batches that nobody was shown.
* The proof has one list of steps again (`ResultsStep`) and frame lemmas: a step
  leaves every object as it was (`Same`) or moves it in one of the permitted ways
  (`ObjectStays`), which is enough (`SamesGive`, `MovesGive`, `CreateGives`).

Every conjunct of these invariants was checked by TLC on the instances of the runs
before it was proved.

`Gateway_proofs` has one inductive invariant for each question, because the parts
of `Gateway` hardly share state; one lemma for each group of actions
(`RequestSteps`, `WebSteps`) says what the group does to that part.
* `GatewayStreams`: `StreamsAreWhole`. It needs `RingsInv`: a buffer ends with the
  latest entry and has no gap, and the last entry of a stream is the latest of its
  ring (what a stream got so far says nothing about what it gets next). Every
  step of the gateway is one `RingStep` (`NextIsRingStep`).
* `GatewayEdits`: `LateResultsKeepEdits`, from `FilesInv`. The calls that end late
  write through `Mutate`, which reads the file again; that a file has all its
  fields is part of the invariant, or an update of a missing field would be none.
* `GatewayKeys`: `SoftFailuresKeepTheKey`, from `KeysInv`: only an onboarding call
  takes the steps of onboarding, it has no key before one was made, and then
  carries it until the store has it or the body of an answer breaks off.
* `GatewayAnswers`: the action property `BegunAnswerIsNotRunAgain`, from
  `AnswersInv`: an answer has begun only in a request that is running.

Its second part is about accounts and types.
* The pool: `NthIsMember` (the ranks of a finite set of numbers are 0 to its
  cardinality less one, by the pigeonhole principle), so a cursor taken modulo the
  size of a tier always picks an account of it (`PickedIsEligible`).
* `FilesTyped`, with the above: account files have numeric priorities, so a
  nonempty set of candidates has a first tier (`TierIsThere`).
* `GatewayFailover`: the invariant `FailoverInv`. It says for each place a request
  can be in which accounts it has run on and which of them its next attempt may
  take (first attempt, retry on the same account, alternate), that a token holds
  a request to one account and profile, and that whoever is picked was enabled
  when the list was read or is the account the client bound.
* `GatewayRuns`, `GatewayDisabled`, `GatewayHome`: `FailoverIsBounded`,
  `DisabledAccountsGetNoNewWork` and `CompactedTurnsStayHome`, its consequences.
* `GatewayTypes`: `TypeOK` of `Gateway`. The invariants above give most of the types;
  `RestTyped` adds what they leave open. The parts that need an argument: a cursor
  stays within the accounts because it is taken modulo a tier of them; a ring stays
  within its capacity through every push and resize (`RingStepFits`); a key is sent
  to Cursor, cached or stored only as the key of a listed account or one that Cursor
  made (`CallTyped`); and what a hand-edited file or the environment gives is in range
  once it is loaded (`StartSettingsTyped`).

`Conversation_proofs` proves the four invariants of the run, for every number of
deltas, clients and calls. They are about whole sequences: what a client makes of a
stream of frames, what a parser makes of a list of items. All of these are folds, and
what a fold returns is shown by induction, which the theorems of the library offer for
an operator that the provers cannot be given. Two detours replace it:
* `LeftFolds` proves `FoldEmpty` and `FoldAppend` (the fold of a sequence and one
  element more is one step after the fold of the sequence) once, for a constant
  operator, of the definition that `FoldLeft` has in the community modules; it is
  instantiated for each of the nine folds, and `NumberInduction` discharges the
  induction that it takes as a hypothesis.
* What holds of every sequence is the set of those of which it holds, which has the
  empty sequence and with a sequence each that is longer by one (`SequenceInduction`).

The invariant `IInv` is inductive under all actions (`Invariance`). It says
* `TypeOK`; `AllHeard`: fragments wait while the send is under way, and afterwards the
  pump has heard each of them once and in order, by delta or by stream event;
  `AnswerIsMade`: a published answer has the fragments that were made, or the text of
  the result, in the order thinking, text, calls;
* `IsServed` for each client: its response is `WellFormed` (blocks nest, the end comes
  when they are closed, and nothing but an error follows it); while it takes deltas it
  was given what the pump has heard (`IsGiven`: what the client reads of each kind is
  what the history has of it, and is a block of thinking and one of text for as long as
  the deltas come in that order); when it is finished the client reads the answer
  (`IsWhole`).

A joining client is brought up by the same fold that the deltas take one by one
(`DeltasFollow`), and `FinishReads` shows that what a response was given and what the
answer has in excess is the answer, whatever the protocol.
* `FramesAlwaysNest`, `AnswersAreAlwaysWhole`: its consequences.
* `ResultsAlwaysContinue`: the parser of each protocol, by induction over the results
  that come back, gathers exactly them in its last message, in any order; a message
  after them or a block beside them is seen.
* `EchoesAlwaysFind`: under the two exceptions of the property a client's reading is
  the recorded answer block by block (with thinking and text in turns it has the same
  fragments, but other blocks), and of an answer with one block, or in a protocol with
  one assistant message, each parser makes the message whose key was recorded.

Model-checked only: the liveness property of `ToolSession`, which the prover cannot
do. The four violated runs are counterexamples and have nothing to prove.

## 6. Plan

Done: all modules of the table in section 2. Left, in this order:

1. `Recovery` with two credentials and three rounds, if the state space allows.
2. An abstract specification of a conversation (every turn is executed at most
   once for each time it is recorded) that `Recovery` and `OrdinaryTurns` refine.

## 7. Not modelled

* BYOK mode (one account, no choice), read-only endpoints, requests that fail
  before they are parsed, `accounts/run`, settings backups, labels and notes of
  accounts, cookies, the second quota call that only fills the reply of
  `default_profile`.
* The bytes of compact tokens and their signature; usage, ids and headers of
  responses; tools, tool choice, images, model parameters, hosted search and
  compaction items in requests.
* Quarantine of unreadable files, opening, backup and migration of the ledger.
* The SDK bundle, its loading and patching, wire formats and proxies: external code
  or calls into it, which the modules take as their environment. The history that
  a direct Sand agent keeps in memory over several turns: it is lost when the agent
  is resumed (`sand-runtime.ts:38`; the plan of that feature lists this as open), so
  the claims of `OrdinaryTurns` about what an agent holds are about SDK agents.
* The web front end and the static console: no state that the gateway depends on.
