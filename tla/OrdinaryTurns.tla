--------------------------- MODULE OrdinaryTurns ---------------------------
(***************************************************************************)
(* Ordinary turns: text requests that carry their whole transcript and no  *)
(* session header (RunCoordinator.handleOrdinaryTurn, ordinary-turn.ts,    *)
(* ordinary-turn-journal.ts).  The journal on disk maps the transcript a   *)
(* request continues to the SDK agent that already holds it, so that an    *)
(* exact successor sends its last message only; the in-memory maps make    *)
(* identical requests share one send and replay its answer.  Requests with *)
(* a session header pass through the same decision and then follow up on   *)
(* the session they name.                                                  *)
(*                                                                         *)
(* A turn stands for all requests with one ordinaryReplayKey.  Of a        *)
(* transcript the model keeps its lineage key: Key[t] is the transcript t  *)
(* continues, After[t] that transcript with t and the SDK's answer to t.   *)
(* Tenant, model, tools and policy are parts of the lineage key, so the    *)
(* later comparisons of the code with them always succeed and are left     *)
(* out.  The runtime ledger is off; tool batches are in ToolSession.       *)
(***************************************************************************)
EXTENDS Naturals, Sequences, FiniteSets

CONSTANTS
  Turns, NoTurn,
  Keys, Mixed,      \* Mixed: what an agent holds that no transcript matches
  Key, After,       \* of each turn
  TurnIndex,        \* of each key: the user messages up to the turn that continues it
  Requests,         \* HTTP exchanges at a time
  MaxSessions,      \* bound: sessions ever opened
  MaxRestarts       \* bound: restarts of the process

ASSUME NoTurnAssumption == NoTurn \notin Turns
ASSUME KeyAssumption == Key \in [Turns -> Keys] /\ After \in [Turns -> Keys]
ASSUME MixedAssumption == Mixed \notin Keys
\* nextCursorAgentTurnLineageKey: turnIndex is a part of the lineage key.
ASSUME TurnIndexAssumption ==
  /\ TurnIndex \in [Keys -> Nat]
  /\ \A t \in Turns : TurnIndex[After[t]] = TurnIndex[Key[t]] + 1
ASSUME BoundAssumption == MaxSessions \in Nat /\ MaxRestarts \in Nat

VARIABLES
  journal,    \* OrdinaryTurnJournal.records, on disk
  order,      \* the recorded turns, next to expire first
  inflight,   \* ordinaryInflight
  replay,     \* ordinaryReplay
  sess,       \* sessions in the order they were opened
  held,       \* external: the transcript each SDK agent holds, on disk
  req,        \* what each HTTP exchange is doing
  restarts,
  survivors,  \* history: running records an earlier process left
  strayed     \* history: agents that were sent what the journal has no record of

vars == <<journal, order, inflight, replay, sess, held, req, restarts, survivors, strayed>>

\* An agent is named by the session that created it.
Sessions == 1 .. MaxSessions
NoSession == 0
NoAgent == 0
AgentIds == 0 .. MaxSessions

NoRecord  == [state |-> "none", agent |-> NoAgent, answer |-> NoTurn]
NoSess    == [state |-> "none", registered |-> FALSE, agent |-> NoAgent, owner |-> NoTurn]
NoRequest == [pc |-> "idle", turn |-> NoTurn, mode |-> "none", sess |-> NoSession,
              agent |-> NoAgent, got |-> NoTurn]

Recorded == {t \in Turns : journal[t].state # "none"}

Busy == {"joined", "sending", "running"}
Over == {"idle", "shared"}

TypeOK ==
  /\ journal \in [Turns -> [state : {"none", "running", "completed"}, agent : AgentIds,
                            answer : Turns \cup {NoTurn}]]
  /\ order \in Seq(Turns) /\ Len(order) = Cardinality(Recorded)
  /\ inflight \subseteq Turns
  /\ replay \in [Turns -> Turns \cup {NoTurn}]
  /\ sess \in [Sessions -> [state : {"none", "creating", "running", "completed", "failed", "closed"},
                            registered : BOOLEAN, agent : AgentIds, owner : Turns \cup {NoTurn}]]
  /\ held \in [Sessions -> Keys \cup {Mixed}]
  /\ req \in [Requests -> [pc : Busy \cup Over, turn : Turns \cup {NoTurn},
                           mode : {"none", "rebuild", "resume", "hinted"},
                           sess : Sessions \cup {NoSession}, agent : AgentIds,
                           got : Turns \cup {NoTurn}]]
  /\ restarts \in 0 .. MaxRestarts
  /\ survivors \subseteq Turns
  /\ strayed \subseteq Sessions

Init ==
  /\ journal = [t \in Turns |-> NoRecord] /\ order = <<>>
  /\ inflight = {} /\ replay = [t \in Turns |-> NoTurn]
  /\ sess = [s \in Sessions |-> NoSess] /\ held = [s \in Sessions |-> Mixed]
  /\ req = [r \in Requests |-> NoRequest]
  /\ restarts = 0 /\ survivors = {} /\ strayed = {}

-----------------------------------------------------------------------------
(* The journal *)

\* A turn has one place in the order at most.
Without(t) ==
  IF \E i \in 1 .. Len(order) : order[i] = t
  THEN LET place == CHOOSE i \in 1 .. Len(order) : order[i] = t
       IN  [i \in 1 .. Len(order) - 1 |-> order[IF i < place THEN i ELSE i + 1]]
  ELSE order

\* (mutant: a record written again keeps its old place as well)
UpsertAgain(t, record) ==
  /\ journal' = [journal EXCEPT ![t] = record]
  /\ order' = Append(order, t)

\* upsert: every record lives for the same time from its last write.
Upsert(t, record) ==
  /\ journal' = [journal EXCEPT ![t] = record]
  /\ order' = Append(Without(t), t)

\* (mutant: a failed claim leaves its running record behind)
KeepRecord(t) ==
  /\ journal' = [journal EXCEPT ![t].state = "running"]
  /\ order' = IF journal[t].state = "none" THEN Append(order, t) ELSE order

Remove(t) ==
  /\ journal' = [journal EXCEPT ![t] = NoRecord]
  /\ order' = Without(t)

\* nextLineageKey of a completed record.
Continues(t) == IF journal[t].answer = t THEN After[t] ELSE Mixed

-----------------------------------------------------------------------------
(* decideOrdinaryTurn *)

\* (mutant: other successors of the same transcript are not looked for)
NoSiblings(t) == {}

\* findByLineageKey: other requests that continue the same transcript.
Siblings(t) == {u \in Recorded \ {t} : Key[u] = Key[t]}

\* findByNextLineageKey: the turns whose answer t continues.
Parents(t) == {p \in Recorded : journal[p].state = "completed" /\ Continues(p) = Key[t]}

\* (mutant: only a turn whose running record is alive can be joined)
JoinsRecorded(t) == t \in inflight /\ journal[t].state = "running"

Joins(t) == t \in inflight
Replays(t)   == ~Joins(t) /\ journal[t].state = "completed" /\ replay[t] # NoTurn
FailsClosed(t) == ~Joins(t) /\ journal[t].state = "completed" /\ replay[t] = NoTurn

\* singleflight on a record some other process left running: nothing to join.
Reruns(t)    == ~Joins(t) /\ journal[t].state = "running"

Resumes(t) ==
  /\ ~Joins(t) /\ journal[t].state = "none"
  /\ Siblings(t) = {} /\ Cardinality(Parents(t)) = 1

\* Forks, ambiguous parents and unknown or first turns.
Rebuilds(t) ==
  /\ ~Joins(t) /\ journal[t].state = "none"
  /\ Siblings(t) # {} \/ Cardinality(Parents(t)) # 1

-----------------------------------------------------------------------------
(* Sessions *)

Fresh == {s \in Sessions : sess[s].state = "none" /\ \A q \in Sessions : q < s => sess[q].state # "none"}

SessionsOf(a) == {s \in Sessions : sess[s].registered /\ sess[s].agent = a}

\* findSessionByAgentId: the first in the order of the map.
IsSessionOf(s, a) == s \in SessionsOf(a) /\ \A q \in SessionsOf(a) : s <= q

\* registry.forget
Forgotten(s) == [sess EXCEPT ![s].state = "closed", ![s].registered = FALSE]

Free(r) == req[r].pc \in Over

\* An exchange that fails, is answered by its own send or gets a replay leaves no
\* trace here: what a replay shows is in the replay map.
Leaves(r) == req' = [req EXCEPT ![r] = NoRequest]

Given(pc, t, answer) == [NoRequest EXCEPT !.pc = pc, !.turn = t, !.got = answer]

Sends(r, t, mode, s, a) ==
  req' = [req EXCEPT ![r] = [pc |-> "sending", turn |-> t, mode |-> mode, sess |-> s,
                             agent |-> a, got |-> NoTurn]]

-----------------------------------------------------------------------------
(* Requests: handleOrdinaryTurn and claimOrdinaryTurn *)

\* The same request is in flight: it shares the send.
Join(r, t) ==
  /\ Free(r) /\ Joins(t)
  /\ req' = [req EXCEPT ![r] = Given("joined", t, NoTurn)]
  /\ UNCHANGED <<journal, order, inflight, replay, sess, held, restarts, survivors, strayed>>

Replay(r, t) ==
  /\ Free(r) /\ Replays(t)
  /\ Leaves(r)
  /\ UNCHANGED <<journal, order, inflight, replay, sess, held, restarts, survivors, strayed>>

\* Answered before a restart: the answer is not on disk and the turn is not sent
\* again.
FailClosed(r, t) ==
  /\ Free(r) /\ FailsClosed(t)
  /\ Leaves(r)
  /\ UNCHANGED <<journal, order, inflight, replay, sess, held, restarts, survivors, strayed>>

Claim(t, a) ==
  /\ inflight' = inflight \cup {t}
  /\ Upsert(t, [state |-> "running", agent |-> a, answer |-> NoTurn])
  /\ UNCHANGED strayed

\* The record of a failed claim is removed, also when it was found running after
\* a restart and an agent has meanwhile stored the answer to t.
Disclaim(t) ==
  /\ Remove(t)
  /\ strayed' = strayed \cup {a \in Sessions : held[a] = After[t]}

\* The claim failed before anything was sent.
ClaimUndone(r, t) ==
  /\ Disclaim(t)
  /\ Leaves(r)
  /\ UNCHANGED inflight

\* executeOrdinaryClaim, a live and completed session of the parent's agent: the
\* turn becomes its replay owner before followUp asks for capacity.
ResumeLive(r, t) ==
  /\ Free(r) /\ Resumes(t)
  /\ \E p \in Parents(t), s \in Sessions :
       /\ IsSessionOf(s, journal[p].agent) /\ sess[s].state = "completed"
       /\ \/ /\ Claim(t, journal[p].agent)
             /\ sess' = [sess EXCEPT ![s].owner = t, ![s].state = "running"]
             /\ Sends(r, t, "resume", s, journal[p].agent)
          \/ /\ sess' = [sess EXCEPT ![s].owner = t]
             /\ ClaimUndone(r, t)
  /\ survivors' = survivors \ {t}
  /\ UNCHANGED <<replay, held, restarts>>

\* resumeOrdinaryAgent: no such session, so a new one resumes the stored agent.
ResumeStored(r, t) ==
  /\ Free(r) /\ Resumes(t)
  /\ \E p \in Parents(t), s \in Fresh :
       /\ ~\E q \in Sessions : IsSessionOf(q, journal[p].agent) /\ sess[q].state = "completed"
       /\ \/ /\ Claim(t, journal[p].agent)
             /\ sess' = [sess EXCEPT ![s] = [state |-> "running", registered |-> TRUE,
                                             agent |-> NoAgent, owner |-> t]]
             /\ Sends(r, t, "resume", s, journal[p].agent)
          \/ ClaimUndone(r, t) /\ UNCHANGED sess
  /\ survivors' = survivors \ {t}
  /\ UNCHANGED <<replay, held, restarts>>

\* startTurn: a new session and a new agent, which is sent the whole transcript.
StartTurn(r, t) ==
  /\ \E s \in Fresh :
       \/ /\ Claim(t, NoAgent)
          /\ sess' = [sess EXCEPT ![s] = [state |-> "creating", registered |-> TRUE,
                                          agent |-> NoAgent, owner |-> t]]
          /\ Sends(r, t, "rebuild", s, NoAgent)
       \/ ClaimUndone(r, t) /\ UNCHANGED sess
  /\ survivors' = survivors \ {t}
  /\ UNCHANGED <<replay, held, restarts>>

Rebuild(r, t) == Free(r) /\ (Rebuilds(t) \/ Reruns(t)) /\ StartTurn(r, t)

\* followUp on the session a header names, when the decision was to rebuild.  The
\* whole prompt is sent to the agent of that session; nothing is claimed.
HintedFollowUp(r, t, s) ==
  /\ Free(r) /\ Rebuilds(t)
  /\ sess[s].registered
  /\ IF sess[s].state = "completed"
       THEN \/ /\ sess' = [sess EXCEPT ![s].state = "running"]
               /\ Sends(r, t, "hinted", s, sess[s].agent)
            \/ Leaves(r) /\ UNCHANGED sess
       ELSE Leaves(r) /\ UNCHANGED sess
  /\ UNCHANGED <<journal, order, inflight, replay, held, restarts, survivors, strayed>>

-----------------------------------------------------------------------------
(* The send and its end *)

\* The agent is created or resumed and the prompt was accepted.
Sent(r) ==
  /\ req[r].pc = "sending"
  /\ LET s == req[r].sess
         a == IF req[r].agent = NoAgent THEN s ELSE req[r].agent
     IN  /\ sess' = [sess EXCEPT ![s].agent = a,
                                 ![s].state = IF req[r].mode = "rebuild" THEN "running" ELSE @]
         /\ req' = [req EXCEPT ![r].pc = "running", ![r].agent = a]
         /\ strayed' = IF req[r].mode = "hinted" THEN strayed \cup {a} ELSE strayed
  /\ UNCHANGED <<journal, order, inflight, replay, held, restarts, survivors>>

\* What the agent holds once it has answered the prompt of request r.
Answered(r) ==
  LET t == req[r].turn
  IN  IF \/ req[r].mode = "rebuild"
         \/ req[r].mode = "resume" /\ held[req[r].agent] = Key[t]
      THEN After[t] ELSE Mixed

Claimed(r) == req[r].mode \in {"rebuild", "resume"}

\* The exchange of r and of those that joined its claim: they read the replay
\* map once the claim is resolved.
Resolved(r) ==
  LET t == req[r].turn
  IN  [q \in Requests |->
         IF q = r THEN NoRequest
         ELSE IF Claimed(r) /\ req[q].pc = "joined" /\ req[q].turn = t
           THEN IF replay'[t] = NoTurn THEN NoRequest ELSE Given("shared", t, replay'[t])
         ELSE req[q]]

\* (mutant: an answer that is already kept is not replaced)
KeepFirstAnswer(s, answer) ==
  LET t == sess[s].owner
  IN  IF t = NoTurn THEN UNCHANGED <<journal, order, replay>>
      ELSE /\ Upsert(t, [state |-> "completed", agent |-> sess[s].agent, answer |-> answer])
           /\ replay' = [replay EXCEPT ![t] = IF @ = NoTurn THEN answer ELSE @]

\* rememberOrdinaryCompletion: the answer is recorded and kept for the turn the
\* session names as its replay owner.
RememberOrdinaryCompletion(s, answer) ==
  LET t == sess[s].owner
  IN  IF t = NoTurn THEN UNCHANGED <<journal, order, replay>>
      ELSE /\ Upsert(t, [state |-> "completed", agent |-> sess[s].agent, answer |-> answer])
           /\ replay' = [replay EXCEPT ![t] = answer]

\* The final boundary.
Finish(r) ==
  /\ req[r].pc = "running"
  /\ LET s == req[r].sess
     IN  /\ RememberOrdinaryCompletion(s, req[r].turn)
         /\ sess' = [sess EXCEPT ![s].owner = NoTurn, ![s].state = "completed"]
         /\ survivors' = survivors \ {sess[s].owner}
  /\ held' = [held EXCEPT ![req[r].agent] = Answered(r)]
  /\ inflight' = IF Claimed(r) THEN inflight \ {req[r].turn} ELSE inflight
  /\ req' = Resolved(r)
  /\ UNCHANGED <<restarts, strayed>>

\* A send that threw, or an error boundary: a claim is taken back and those that
\* joined it fail with it.
Fail(r) ==
  /\ req[r].pc \in {"sending", "running"}
  /\ LET t == req[r].turn
         s == req[r].sess
     IN  /\ sess' = IF req[r].pc = "sending" THEN Forgotten(s)
                    ELSE [sess EXCEPT ![s].state = "failed"]
         /\ req' = [q \in Requests |->
                      IF q = r \/ (Claimed(r) /\ req[q].pc = "joined" /\ req[q].turn = t)
                      THEN NoRequest ELSE req[q]]
         /\ IF Claimed(r) THEN Disclaim(t) /\ inflight' = inflight \ {t}
            ELSE UNCHANGED <<journal, order, inflight, strayed>>
  /\ UNCHANGED <<replay, held, restarts, survivors>>

-----------------------------------------------------------------------------
(* Expiry and restart *)

\* The registry sweeps or drains a session.
ForgetSession(s) ==
  /\ sess[s].registered
  /\ sess' = Forgotten(s)
  /\ UNCHANGED <<journal, order, inflight, replay, held, req, restarts, survivors, strayed>>

\* sweepExpired and the sweep of the replay map: the oldest record goes with its
\* answer, and so does the session of its agent unless a later record names it.
Expire ==
  /\ order # <<>>
  /\ LET t == Head(order)
         a == journal[t].agent
         kept == a # NoAgent /\ \E u \in Recorded \ {t} : journal[u].agent = a
     IN  /\ Remove(t)
         /\ replay' = [replay EXCEPT ![t] = NoTurn]
         /\ survivors' = survivors \ {t}
         /\ sess' = [s \in Sessions |->
                       IF a # NoAgent /\ ~kept /\ IsSessionOf(s, a)
                       THEN Forgotten(s)[s] ELSE sess[s]]
  /\ UNCHANGED <<inflight, held, req, restarts, strayed>>

\* The process is killed and started again.  An agent whose run had ended may
\* have stored its answer although the gateway had not applied it.
Restart(stored) ==
  /\ restarts < MaxRestarts
  /\ \A r, q \in stored : req[r].agent = req[q].agent => r = q
  /\ restarts' = restarts + 1
  /\ held' = [a \in Sessions |->
                IF \E r \in stored : req[r].agent = a
                THEN Answered(CHOOSE r \in stored : req[r].agent = a) ELSE held[a]]
  /\ sess' = [s \in Sessions |->
                IF sess[s].state = "none" THEN NoSess
                ELSE [sess[s] EXCEPT !.state = "closed", !.registered = FALSE, !.owner = NoTurn]]
  /\ inflight' = {} /\ replay' = [t \in Turns |-> NoTurn]
  /\ req' = [r \in Requests |-> IF req[r].pc \in Busy THEN NoRequest ELSE req[r]]
  /\ survivors' = {t \in Turns : journal[t].state = "running"}
  /\ UNCHANGED <<journal, order, strayed>>

Next ==
  \/ \E r \in Requests, t \in Turns :
       \/ Join(r, t) \/ Replay(r, t) \/ FailClosed(r, t)
       \/ ResumeLive(r, t) \/ ResumeStored(r, t) \/ Rebuild(r, t)
       \/ \E s \in Sessions : HintedFollowUp(r, t, s)
  \/ \E r \in Requests : Sent(r) \/ Finish(r) \/ Fail(r)
  \/ \E s \in Sessions : ForgetSession(s)
  \/ Expire
  \/ \E stored \in SUBSET {r \in Requests : req[r].pc = "running"} : Restart(stored)

Spec == Init /\ [][Next]_vars

-----------------------------------------------------------------------------
(* Properties *)

\* A request that shared the send of an identical one got the answer to its own
\* transcript, whatever else the session of that send was used for.
SharedAnswersAreOwn ==
  \A r \in Requests : req[r].pc = "shared" => req[r].got = req[r].turn

\* A turn is sent as the last message alone only to an agent that holds exactly
\* the transcript it continues: forks, failed sends, answers lost in a restart and
\* expired records never let two branches share an agent.  Left out are agents a
\* session header was used on, and agents that answered a turn whose record a
\* failed retry removed: the journal does not learn of either.
ResumeIsExact ==
  \A r \in Requests :
    req[r].pc \in {"sending", "running"} /\ req[r].mode = "resume" /\ req[r].agent \notin strayed
      => held[req[r].agent] = Key[req[r].turn]

\* The journal says running of a turn that is in flight, or that was when an
\* earlier process died: no claim of this process leaves its record behind, where
\* it would turn every sibling into a fork.
RunningIsInFlight ==
  \A t \in Turns : journal[t].state = "running" => t \in inflight \cup survivors

\* The answer kept for a completed record is the one the record was made from, so
\* what a replay shows is what its successors will be matched against.
ReplayIsTheRecordedAnswer ==
  \A t \in Turns :
    journal[t].state = "completed" /\ replay[t] # NoTurn => replay[t] = journal[t].answer

\* A turn is sent once at a time: identical requests never have two claims under
\* way, also when the running record expires under the claim.
OneClaimPerTurn ==
  \A r, q \in Requests :
    /\ req[r].pc \in {"sending", "running"} /\ Claimed(r)
    /\ req[q].pc \in {"sending", "running"} /\ Claimed(q)
    /\ req[r].turn = req[q].turn
    => r = q

\* An explicit session follow-up never seeds headerless ordinary replay: what
\* would be replayed for a turn is the answer to that turn.
ReplayIsOwnAnswer ==
  \A t \in Turns : journal[t].state = "completed" => replay[t] \in {NoTurn, t}
=============================================================================
