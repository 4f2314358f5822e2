------------------------------- MODULE Recovery -------------------------------
(***************************************************************************)
(* Requests on several sessions, what survives a restart, and how a result *)
(* batch or a follow-up finds its agent again (run-coordinator.ts with     *)
(* lineage-store.ts and transcript-recovery.ts): the live session, else    *)
(* the lineage file of its session, else a new agent that is given the     *)
(* transcript the client sent.  The session registry is SessionRegistry.   *)
(*                                                                         *)
(* One session is modelled in detail in ToolSession; here a tool batch is  *)
(* one id, a run publishes a boundary, and all drives that wait for it     *)
(* take it in one step (Answer), before anything else arrives (Drained).   *)
(* Time is abstract: what has a deadline may end whenever it exists.       *)
(***************************************************************************)
EXTENDS SessionRegistry

CONSTANTS
  Requests,      \* HTTP exchanges at a time
  Prompts,       \* texts that open a conversation
  Values,        \* results a client may send for a batch
  LedgerV2,      \* runtimeLedgerV2
  MaxFaults,     \* bound: sessions swept, drains, failed file writes, files and
                 \* recoveries out of time
  MaxRestarts    \* bound: restarts of the process

ASSUME SwitchAssumption ==
  LedgerV2 \in BOOLEAN /\ MaxFaults \in Nat /\ MaxRestarts \in Nat

VARIABLES
  lineage,               \* LineageStore: the file of each session, on disk
  pendingRecoveries,     \* of each stored session: results and object of its recovery
  transcriptRecoveries,  \* of each result key: the object opened for it
  ledger,                \* runtime_runs of each text, on disk (those of results block nothing)
  req,                   \* what each HTTP exchange is doing
  faults, restarts,
  forgotten,             \* history: of each id, what still used an object of it that was
                         \* forgotten: the send of its prompt, a request or a recovery
  unrecorded,            \* history: ids whose last lineage write failed
  unshared               \* history: result keys whose recovery was dropped by age, or runs
                         \* beside that of other results for the same stored batch

vars == <<registryVars, lineage, pendingRecoveries, transcriptRecoveries, ledger, req,
          faults, restarts, forgotten, unrecorded, unshared>>

\* What a request asks: a text that opens a conversation, the text that follows up
\* session of (its owner's; others are refused), or results for batch of.
OpenKeys   == [kind : {"open"}, by : Credentials, of : {0}, value : Prompts]
NextKey(i) == [kind |-> "next", by |-> None, of |-> i, value |-> 0]
ResultKeys == [kind : {"results"}, by : Credentials, of : Batches, value : Values]
TextKeys   == OpenKeys \cup {NextKey(i) : i \in Ids}
Keys       == TextKeys \cup ResultKeys

NoFile    == [st |-> "none", agent |-> None, credential |-> None, pending |-> {}]
NoRun     == [st |-> "none", agent |-> None]
NoPending == [key |-> NoKey, obj |-> None]
Idle      == [pc |-> "idle", obj |-> None, key |-> NoKey, mode |-> "none",
              agent |-> None]

Modes == {"start", "follow", "resume", "pending", "transcript"}

TypeOK ==
  /\ RegistryTypeOK
  /\ \A i \in Ids :
       /\ lineage[i].st \in {"none", "awaiting", "completed", "failed"}
       /\ lineage[i].agent \in Agents \cup {None} /\ lineage[i].pending \subseteq Batches
  /\ pendingRecoveries \in [Ids -> [key : ResultKeys \cup {NoKey}, obj : Objects \cup {None}]]
  /\ transcriptRecoveries \in [ResultKeys -> Objects \cup {None}]
  /\ ledger \in [TextKeys -> [st : {"none", "running", "finished", "error"},
                          agent : Agents \cup {None}]]
  /\ \A r \in Requests :
       /\ req[r].pc \in {"idle", "opening", "joined", "driving"}
       /\ req[r].key \in Keys \cup {NoKey}
       /\ req[r].mode \in Modes \cup {"none"}
  /\ faults \in 0 .. MaxFaults /\ restarts \in 0 .. MaxRestarts

Init ==
  /\ RegistryInit
  /\ lineage = [i \in Ids |-> NoFile]
  /\ pendingRecoveries = [i \in Ids |-> NoPending]
  /\ transcriptRecoveries = [k \in ResultKeys |-> None]
  /\ ledger = [k \in TextKeys |-> NoRun]
  /\ req = [r \in Requests |-> Idle]
  /\ faults = 0 /\ restarts = 0 /\ forgotten = [i \in Ids |-> {}] /\ unrecorded = {} /\ unshared = {}

disk == <<lineage, ledger>>
maps == <<pendingRecoveries, transcriptRecoveries>>
history == <<faults, restarts, forgotten, unrecorded, unshared>>

Opening(o) == \E r \in Requests : req[r].pc = "opening" /\ req[r].obj = o
Driving(o) == {r \in Requests : req[r].pc = "driving" /\ req[r].obj = o}

\* Promise continuations run before the next request, timer or socket event.
Drained == \A r \in Requests : req[r].pc = "driving" => obj[req[r].obj].boundary = "none"

Arrives(r) == req[r].pc = "idle" /\ Drained

Opens(r, o, k, mode, a) ==
  req' = [req EXCEPT ![r] = [Idle EXCEPT !.pc = "opening", !.obj = o, !.key = k,
                                         !.mode = mode, !.agent = a]]
Joins(r, o, k)   == req' = [req EXCEPT ![r] = [Idle EXCEPT !.pc = "joined", !.obj = o, !.key = k]]
Attaches(r, o, k) == req' = [req EXCEPT ![r] = [Idle EXCEPT !.pc = "driving", !.obj = o, !.key = k]]
Replays(r)       == req' = [req EXCEPT ![r] = Idle]       \* from memory, at once

Fault == faults < MaxFaults /\ faults' = faults + 1

-----------------------------------------------------------------------------
(* tryReconnectLogicalRun *)

\* findSessionByLogicalKey: the first in the order of the map.
LiveOf(k) ==
  LET os == {o \in Objects : Registered(o) /\ obj[o].logicalKey = k}
  IN  IF os = {} THEN None ELSE CHOOSE o \in os : \A q \in os : o <= q

HasPump(o) == obj[o].run # "none"

ReconnectDrives(k) ==
  LiveOf(k) # None /\ obj[LiveOf(k)].st \in ActiveStates /\ HasPump(LiveOf(k))
ReconnectReplays(k) == LiveOf(k) # None /\ obj[LiveOf(k)].st \in {"completed", "awaiting"}

Reconnect(r, k) ==
  /\ Arrives(r) /\ LedgerV2
  /\ \/ ReconnectDrives(k) /\ Attaches(r, LiveOf(k), k)
     \/ ReconnectReplays(k) /\ Replays(r)
  /\ UNCHANGED <<registryVars, disk, maps, history>>

\* (mutant: a run that the ledger knows but this process does not is sent again)
SendsAgain(k) == ~LedgerV2 \/ ~(ReconnectDrives(k) \/ ReconnectReplays(k))

\* The request is neither answered by a session that has it nor refused because its
\* run was bound by a process that died.
Proceeds(k) ==
  ~LedgerV2 \/ ~(ReconnectDrives(k) \/ ReconnectReplays(k) \/ ledger[k].st = "running")

-----------------------------------------------------------------------------
(* Text requests *)

NewObject(i, c, st, k) ==
  [NoObject EXCEPT !.st = st, !.id = i, !.credential = c, !.segment = k, !.logicalKey = k,
                   !.digest = IF k.kind = "results" THEN k ELSE NoKey]

StartTurn(r, k) ==
  /\ Arrives(r) /\ Proceeds(k) /\ CanCreate(k.by)
  /\ \E o \in Objects :
       /\ Fresh(o)
       /\ obj' = [obj EXCEPT ![o] = NewObject(o, k.by, "creating", k)]
       /\ sessions' = [sessions EXCEPT ![o] = o]
       /\ Opens(r, o, k, "start", None)
  /\ UNCHANGED <<toolIndex, draining, disk, maps, history>>

\* followUp from activateRun to the send.
Activated(o, k) ==
  [o EXCEPT !.st = "running", !.pending = {}, !.open = NoBatch, !.digest = NoKey,
            !.boundary = "none", !.applied = FALSE, !.run = "none", !.segment = k,
            !.continued = FALSE, !.logicalKey = k]

\* A session header names a registered session.
FollowUp(r, i) ==
  LET o == sessions[i]
      k == NextKey(i)
  IN  /\ Arrives(r) /\ o # None
      /\ Proceeds(k) /\ obj[o].st = "completed"
      /\ CanActivate(obj[o].credential, o)
      /\ obj' = [obj EXCEPT ![o] = Activated(@, k)]
      /\ toolIndex' = [b \in Batches |-> IF b \in obj[o].pending THEN None ELSE toolIndex[b]]
      /\ Opens(r, o, k, "follow", obj[o].agent)
      /\ UNCHANGED <<sessions, draining, disk, maps, history>>

\* resumeCompletedLineage: the session is adopted first; followUp may then refuse it
\* (another profile in the header, a run known to the ledger) and it stays creating.
ResumeCompleted(r, i) ==
  LET k == NextKey(i)
      c == lineage[i].credential
  IN  /\ Arrives(r) /\ sessions[i] = None
      /\ lineage[i].st = "completed" /\ CanActivate(c, None)
      /\ \E o \in Objects :
           /\ Fresh(o)
           /\ sessions' = [sessions EXCEPT ![i] = o]
           /\ \/ /\ Proceeds(k)
                 /\ obj' = [obj EXCEPT ![o] = Activated(NewObject(i, c, "creating", k), k)]
                 /\ Opens(r, o, k, "resume", lineage[i].agent)
              \/ /\ obj' = [obj EXCEPT ![o] = NewObject(i, c, "creating", NoKey)]
                 /\ req' = [req EXCEPT ![r] = Idle]
      /\ UNCHANGED <<toolIndex, draining, disk, maps, history>>

-----------------------------------------------------------------------------
(* Result batches: continueTurn *)

\* continueLiveSession; what is none of the three is a routing error.
Accepts(o, k) ==
  /\ obj[o].credential = k.by /\ obj[o].digest = NoKey
  /\ obj[o].st = "awaiting" /\ obj[o].open = k.of
Continues(o, k) == obj[o].digest = k /\ obj[o].st = "resuming" /\ HasPump(o)
Repeats(o, k)   == obj[o].digest = k /\ obj[o].st = "completed"

Results(r, k) == Arrives(r) /\ Shown(k.of)

AcceptResults(r, k) ==
  LET o == OwnerOf(k.of)
  IN  /\ Results(r, k) /\ o # None /\ Accepts(o, k)
      /\ obj' = [obj EXCEPT ![o].st = "resuming", ![o].digest = k, ![o].segment = k,
                            ![o].open = NoBatch, ![o].boundary = "none",
                            ![o].applied = FALSE, ![o].continued = TRUE]
      /\ Attaches(r, o, k)
      /\ UNCHANGED <<sessions, toolIndex, draining, disk, maps, history>>

RepeatResults(r, k) ==
  LET o == OwnerOf(k.of)
  IN  /\ Results(r, k) /\ o # None
      /\ \/ Continues(o, k) /\ Attaches(r, o, k)
         \/ Repeats(o, k) /\ Replays(r)
      /\ UNCHANGED <<registryVars, disk, maps, history>>

\* findByToolIds and the checks of resumePendingLineage.
Stored(b) == {i \in Ids : lineage[i].st = "awaiting" /\ b \in lineage[i].pending}

\* (mutant: one of the stored calls is enough)
ResumableByAny(i, k) ==
  /\ lineage[i].credential = k.by /\ k.of \in lineage[i].pending
  /\ pendingRecoveries[i].key \in {NoKey, k}
  /\ pendingRecoveries[i].key = NoKey => sessions[i] = None

Resumable(i, k) ==
  /\ lineage[i].credential = k.by /\ lineage[i].pending = {k.of}
  /\ pendingRecoveries[i].key \in {NoKey, k}
  /\ pendingRecoveries[i].key = NoKey => sessions[i] = None    \* adopt

\* (mutant: recoveries of one stored session are not shared)
OpenAlways(i, k) == lineage[i].st = "awaiting"

OpenNow(i, k) == pendingRecoveries[i].key = NoKey

ResumePending(r, k) ==
  /\ Results(r, k) /\ OwnerOf(k.of) = None
  /\ \E i \in Stored(k.of) :
       /\ Resumable(i, k)
       /\ \/ /\ OpenNow(i, k) /\ CanActivate(k.by, None)
             /\ \E o \in Objects :
                  /\ Fresh(o)
                  /\ obj' = [obj EXCEPT ![o] = NewObject(i, k.by, "resuming", k)]
                  /\ sessions' = [sessions EXCEPT ![i] = o]
                  /\ pendingRecoveries' = [pendingRecoveries EXCEPT ![i] = [key |-> k, obj |-> o]]
                  /\ Opens(r, o, k, "pending", lineage[i].agent)
          \/ /\ ~OpenNow(i, k)
             /\ Joins(r, pendingRecoveries[i].obj, k)
             /\ UNCHANGED <<obj, sessions, pendingRecoveries>>
  /\ UNCHANGED <<toolIndex, draining, disk, transcriptRecoveries, history>>

\* What neither a live session nor a stored one takes.
Unrouted(k) ==
  LET o == OwnerOf(k.of)
  IN  IF o # None
        THEN ~(Accepts(o, k) \/ Continues(o, k) \/ Repeats(o, k))
        ELSE \A i \in Stored(k.of) : ~Resumable(i, k)

\* (mutant: recoveries of the same transcript are not shared)
NoRecovery(k) == None

KnownRecovery(k) == transcriptRecoveries[k]

\* Other results for a stored batch of k are resuming it: a conflict, for which k is
\* recovered from its transcript at the same time.
TakenByOthers(k) == \E i \in Stored(k.of) : pendingRecoveries[i].key \notin {NoKey, k}

\* recoverFromTranscript, for a client that sent a complete transcript.
RecoverFromTranscript(r, k) ==
  LET known == KnownRecovery(k)
  IN  /\ Results(r, k) /\ Unrouted(k)
      /\ \/ /\ known = None /\ CanCreate(k.by)
            /\ \E o \in Objects :
                 /\ Fresh(o)
                 /\ obj' = [obj EXCEPT ![o] = NewObject(o, k.by, "creating", k)]
                 /\ sessions' = [sessions EXCEPT ![o] = o]
                 /\ transcriptRecoveries' = [transcriptRecoveries EXCEPT ![k] = o]
                 /\ Opens(r, o, k, "transcript", None)
            /\ unshared' = IF TakenByOthers(k) THEN unshared \cup {k} ELSE unshared
         \/ /\ known # None
            /\ IF Opening(known) THEN Joins(r, known, k) ELSE Attaches(r, known, k)
            /\ UNCHANGED <<obj, sessions, transcriptRecoveries, unshared>>
      /\ UNCHANGED <<toolIndex, draining, disk, pendingRecoveries, faults, restarts, forgotten,
                     unrecorded>>

-----------------------------------------------------------------------------
(* startAndBind and its continuations *)

\* bindLedgerAfterSend: the claim fails when the key belongs to another agent.
Bind(k, a) ==
  ledger' = IF LedgerV2 /\ k \in TextKeys /\ ledger[k].st = "none"
            THEN [ledger EXCEPT ![k] = [st |-> "running", agent |-> a]] ELSE ledger

Bound(k, a) == LedgerV2 /\ k \in TextKeys /\ (ledger[k].st = "none" \/ ledger[k].agent = a)

\* The opening of o is over: those that joined it go on with it or fail with it.
Resolve(r, o, goesOn) ==
  /\ req' = [q \in Requests |->
               IF q = r \/ (req[q].pc = "joined" /\ req[q].obj = o)
               THEN IF goesOn THEN [Idle EXCEPT !.pc = "driving", !.obj = o, !.key = req[q].key]
                    ELSE Idle
               ELSE req[q]]
  /\ pendingRecoveries' = [i \in Ids |-> IF pendingRecoveries[i].obj = o THEN NoPending
                                         ELSE pendingRecoveries[i]]

\* A session that was closed meanwhile is not noticed: startTurn and the transcript
\* recovery even call it running again.
Opened(r) ==
  LET o == req[r].obj
      k == req[r].key
      a == IF req[r].agent = None THEN o ELSE req[r].agent
  IN  /\ req[r].pc = "opening" /\ Drained
      /\ obj' = [obj EXCEPT ![o].agent = a, ![o].run = "live",
                            ![o].st = IF req[r].mode \in {"start", "transcript"}
                                      THEN "running" ELSE @,
                            ![o].ledgerKey = IF Bound(k, a) THEN k ELSE @]
      /\ Bind(k, a)
      /\ toolIndex' = IF req[r].mode = "pending"
                      THEN [toolIndex EXCEPT ![k.of] = obj[o].id] ELSE toolIndex
      /\ Resolve(r, o, TRUE)
      /\ UNCHANGED <<sessions, draining, lineage, transcriptRecoveries, history>>

OpenFails(r) ==
  LET o == req[r].obj
  IN  /\ req[r].pc = "opening" /\ Drained
      /\ Forget({o})
      /\ Resolve(r, o, FALSE)
      /\ transcriptRecoveries' = [k \in ResultKeys |->
                                    IF transcriptRecoveries[k] = o THEN None
                                    ELSE transcriptRecoveries[k]]
      /\ UNCHANGED <<draining, disk, history>>

-----------------------------------------------------------------------------
(* The SDK run (external) and its boundaries *)

AskForTools(o) ==
  LET b == BatchOf(o, obj[o].rounds + 1)
  IN  /\ Drained /\ obj[o].run = "live" /\ obj[o].boundary = "none" /\ obj[o].rounds < MaxRounds
      /\ obj' = [obj EXCEPT ![o].rounds = @ + 1, ![o].pending = @ \cup {b}, ![o].open = b,
                            ![o].boundary = "tools", ![o].applied = FALSE]
      /\ UNCHANGED <<sessions, toolIndex, draining, disk, maps, req, history>>

\* The run ends well or with an error: an upstream error, a timeout, or because it was
\* told to end (which it may also ignore).
RunEnds(o, boundary) ==
  /\ Drained /\ obj[o].run \in {"live", "cancelled"}
  /\ boundary = "final" => obj[o].boundary = "none"
  /\ obj' = [obj EXCEPT ![o] = IF obj[o].run = "cancelled" /\ Driving(o) = {} THEN Gone(o)
                               ELSE [@ EXCEPT !.run = "over", !.boundary = boundary,
                                              !.applied = FALSE]]
  /\ UNCHANGED <<sessions, toolIndex, draining, disk, maps, req, history>>

Finish(o) == RunEnds(o, "final")
Die(o)    == RunEnds(o, "error")

StateAfter(boundary) ==
  CASE boundary = "tools" -> "awaiting"
    [] boundary = "final" -> "completed"
    [] boundary = "error" -> "failed"

\* persistLineage
RecordOf(o, st) ==
  [st |-> st, agent |-> obj[o].agent, credential |-> obj[o].credential,
   pending |-> IF st = "awaiting" THEN obj[o].pending ELSE {}]

Writes(i, record) ==
  \/ /\ lineage' = [lineage EXCEPT ![i] = record]
     /\ unrecorded' = unrecorded \ {i} /\ UNCHANGED faults
  \/ /\ Fault                   \* put threw
     /\ unrecorded' = unrecorded \cup {i} /\ UNCHANGED lineage

\* (mutant: only turns that end well are persisted)
PersistGoodTurns(o, st) ==
  IF st = "failed" THEN UNCHANGED <<lineage, unrecorded, faults>>
  ELSE Writes(obj[o].id, RecordOf(o, st))

PersistLineage(o, st) == Writes(obj[o].id, RecordOf(o, st))

\* persistLedgerBoundary
PersistLedgerBoundary(o, boundary) ==
  LET k == obj[o].ledgerKey
  IN  ledger' = IF boundary = "tools" \/ k = NoKey \/ ledger[k].st # "running" THEN ledger
                ELSE [ledger EXCEPT ![k].st = IF boundary = "final" THEN "finished" ELSE "error"]

\* applyBoundary: the first drive that takes a boundary applies it; all answer with it.
Answer(o) ==
  LET boundary == obj[o].boundary
      st == StateAfter(boundary)
  IN  /\ Driving(o) # {} /\ boundary # "none"
      /\ IF obj[o].applied THEN UNCHANGED <<obj, toolIndex, lineage, ledger, unrecorded, faults>>
         ELSE /\ obj' = [obj EXCEPT ![o].applied = TRUE, ![o].st = st,
                                    ![o].digest = IF st = "awaiting" THEN NoKey ELSE @]
              /\ toolIndex' = [b \in Batches |->
                                 IF st = "awaiting" /\ b \in obj[o].pending THEN obj[o].id
                                 ELSE toolIndex[b]]
              /\ PersistLineage(o, st)
              /\ PersistLedgerBoundary(o, boundary)
      /\ req' = [r \in Requests |-> IF r \in Driving(o) THEN Idle ELSE req[r]]
      /\ UNCHANGED <<sessions, draining, maps, forgotten, unshared, restarts>>

-----------------------------------------------------------------------------
(* Sweeps, drain, restart *)

Remember(os) ==
  forgotten' = [i \in Ids |-> forgotten[i]
                  \cup (IF \E o \in os : obj[o].id = i /\ Opening(o) THEN {"sending"} ELSE {})
                  \cup (IF \E o \in os : obj[o].id = i /\ Driving(o) # {} THEN {"driven"} ELSE {})
                  \cup (IF \E o \in os, k \in ResultKeys :
                            obj[o].id = i /\ transcriptRecoveries[k] = o
                        THEN {"recovered"} ELSE {})]

\* The sweep of the registry by deadline or age, or the cancellation of a run whose
\* client went away.
ForgetSession(o) ==
  /\ Drained /\ Registered(o) /\ Fault
  /\ Forget({o})
  /\ Remember({o})
  /\ UNCHANGED <<draining, disk, maps, req, unrecorded, unshared, restarts>>

BeginDrain ==
  /\ Drained /\ Fault /\ draining = "no" /\ draining' = "waiting"
  /\ UNCHANGED <<obj, sessions, toolIndex, disk, maps, req, forgotten, unrecorded, unshared, restarts>>

\* Nothing is active any more, or the deadline has come.
EndDrain ==
  LET left == {o \in Objects : Registered(o)}
  IN  /\ Drained /\ draining = "waiting" /\ draining' = "done"
      /\ IF ActiveCount > 0
           THEN Forget(left) /\ Remember(left)
           ELSE UNCHANGED <<obj, sessions, toolIndex, forgotten>>
      /\ UNCHANGED <<disk, maps, req, faults, unrecorded, unshared, restarts>>

ExpireRecord(i) ==
  /\ Drained /\ lineage[i] # NoFile /\ Fault
  /\ lineage' = [lineage EXCEPT ![i] = NoFile]
  /\ unshared' = IF pendingRecoveries[i].key = NoKey THEN unshared
             ELSE unshared \cup {pendingRecoveries[i].key}
  /\ UNCHANGED <<registryVars, maps, ledger, req, forgotten, unrecorded, restarts>>

ExpireRecovery(k) ==
  /\ Drained /\ transcriptRecoveries[k] # None /\ Fault
  /\ transcriptRecoveries' = [transcriptRecoveries EXCEPT ![k] = None]
  /\ unshared' = unshared \cup {k}
  /\ UNCHANGED <<registryVars, disk, pendingRecoveries, req, forgotten, unrecorded, restarts>>

\* The process is killed at any point and started again.
Restart ==
  /\ restarts < MaxRestarts /\ restarts' = restarts + 1
  /\ obj' = [o \in Objects |-> IF Exists(o) THEN Gone(o) ELSE NoObject]
  /\ sessions' = [i \in Ids |-> None]
  /\ toolIndex' = [b \in Batches |-> None]
  /\ draining' = "no"
  /\ pendingRecoveries' = [i \in Ids |-> NoPending]
  /\ transcriptRecoveries' = [k \in ResultKeys |-> None]
  /\ req' = [r \in Requests |-> Idle]
  /\ UNCHANGED <<disk, faults, forgotten, unrecorded, unshared>>

Next ==
  \/ \E r \in Requests :
       \/ \E k \in OpenKeys : StartTurn(r, k)
       \/ \E i \in Ids : FollowUp(r, i) \/ ResumeCompleted(r, i)
       \/ \E k \in ResultKeys :
            \/ AcceptResults(r, k) \/ RepeatResults(r, k)
            \/ ResumePending(r, k) \/ RecoverFromTranscript(r, k)
  \/ \E r \in Requests, k \in TextKeys : Reconnect(r, k)
  \/ \E r \in Requests : Opened(r) \/ OpenFails(r)
  \/ \E o \in Objects : AskForTools(o) \/ Finish(o) \/ Die(o) \/ Answer(o) \/ ForgetSession(o)
  \/ BeginDrain \/ EndDrain
  \/ \E i \in Ids : ExpireRecord(i)
  \/ \E k \in ResultKeys : ExpireRecovery(k)
  \/ Restart

Spec == Init /\ [][Next]_vars

-----------------------------------------------------------------------------
(* Properties *)

\* The SDK agent that the object is using: its run goes on and was not told to end, or
\* its prompt is on the way.
AgentInUse(o) ==
  IF obj[o].run = "live" THEN obj[o].agent
  ELSE LET sending == {r \in Requests : req[r].pc = "opening" /\ req[r].obj = o}
       IN  IF sending = {} THEN None ELSE req[CHOOSE r \in sending : TRUE].agent

\* One SDK agent never executes two runs at a time, whatever follow-ups, result
\* batches and recoveries of its session arrive together (an agent resumed from a
\* lineage file while another object still uses it).
OneRunPerAgent ==
  \A o, q \in Objects :
    (o # q /\ AgentInUse(o) # None /\ AgentInUse(o) = AgentInUse(q)) => "sending" \in forgotten[obj[o].id]

\* Runs that were counted when they began stay within the limits, although results
\* bring waiting sessions back to work without being counted.
ActivatedRunsWithinLimits ==
  LET counted == {o \in ActiveRuns : ~obj[o].continued}
  IN  /\ Cardinality(counted) <= GlobalActiveRuns
      /\ \A c \in Credentials :
           Cardinality({o \in counted : obj[o].credential = c}) <= PerCredentialActiveRuns

\* When drain has returned no session is at work or waiting, and none begins.
DrainedStaysEmpty == draining = "done" => ActiveRuns \cup Awaiting = {}

\* A registered session at rest is what its lineage file says, so a restart at this
\* moment finds the same agent with the same calls to answer; unless the last write
\* failed, the file is over its time, or the session was once forgotten with a request
\* or a recovery still holding it, which then writes how that run ended.
LineageIsCurrent ==
  \A o \in Objects :
    LET i == obj[o].id
    IN  (/\ Registered(o) /\ obj[o].st \in {"awaiting", "completed", "failed"}
         /\ i \notin unrecorded /\ forgotten[i] = {} /\ lineage[i] # NoFile)
        => lineage[i] = RecordOf(o, obj[o].st)

AskedBy(b) == ((b - 1) \div MaxRounds) + 1

\* Results that are given to a stored agent answer the last batch that it asked for,
\* never one that was answered before the restart; with the same exceptions.
ResumedBatchIsTheLast ==
  \A r \in Requests :
    LET o == AskedBy(req[r].key.of)
        i == obj[o].id
    IN  (req[r].pc = "opening" /\ req[r].mode = "pending"
         /\ i \notin unrecorded /\ forgotten[i] = {})
        => /\ req[r].key.of = BatchOf(o, obj[o].rounds)
           /\ \A q \in Objects : q > o /\ obj[q].id = i => obj[q].rounds = 0

Busy(o) == obj[o].run = "live" \/ Opening(o)

\* The same results never make two runs go at a time: the live session, the stored
\* session and the transcript are alternatives, and each joins the run it started.
\* Not so when a recovery was dropped by age, the results were recovered from their
\* transcript while others for the same stored batch were resuming it (when these fail, a
\* retry finds the stored session free), the session was forgotten with a request waiting
\* for it, or its lineage file did not take its last state.
OneRunPerResults ==
  \A o, q \in Objects :
    LET i == obj[AskedBy(obj[o].segment.of)].id
    IN  ~(/\ o # q /\ Busy(o) /\ Busy(q) /\ obj[o].segment = obj[q].segment
          /\ obj[o].segment \in ResultKeys \ unshared
          /\ i \notin unrecorded /\ forgotten[i] = {}
          /\ obj[o].boundary = "none" /\ obj[q].boundary = "none")

\* While the ledger says that a text is running, also for a process that died, no
\* path sends that text again.
BoundTextIsNotResent ==
  [][\A k \in TextKeys, r \in Requests :
       (ledger[k].st = "running" /\ req'[r].pc = "opening" /\ req'[r].key = k)
       => req[r] = req'[r]]_vars
=============================================================================
