--------------------------- MODULE RuntimeLedger ---------------------------
(***************************************************************************)
(* The SQLite runtime ledger (src/core/runtime-ledger.ts and               *)
(* runtime-ledger/legacy.ts): agents, runs claimed for logical requests,   *)
(* tool interactions and provider receipts.                                *)
(*                                                                         *)
(* Every method is one BEGIN IMMEDIATE transaction that rolls back as a    *)
(* whole when it throws, so one action is one committed call, whichever    *)
(* process makes it, with whatever arguments: a late owner calls with the  *)
(* generation it once held.  The unique indexes of the schema are left     *)
(* out: the properties hold by the checks of the methods alone.            *)
(***************************************************************************)
EXTENDS Naturals

CONSTANTS
  Agents,       \* (credential, profile, SDK agent id) triples, unique in the table
  Profile,      \* the runtime profile in that triple
  Policies,     \* policy digests
  Keys,         \* logical request keys
  Runs,         \* run ids
  ToolCalls,    \* tool call ids of a run
  Receipts, NoReceipt,
  MaxGeneration \* bound on the generations callers pass

Profiles == {"sdk", "sand"}

ASSUME ProfileAssumption == Profile \in [Agents -> Profiles]
ASSUME NoReceiptAssumption == NoReceipt \notin Receipts
ASSUME GenerationAssumption == MaxGeneration \in Nat

VARIABLES
  agent,        \* runtime_agents
  run,          \* runtime_runs
  interaction,  \* runtime_interactions, by run and tool call
  receipt       \* provider_receipts

vars == <<agent, run, interaction, receipt>>

Generations  == 0 .. MaxGeneration
Terminal     == {"finished", "error", "runtime_lost"}
RunStates    == {"running", "awaiting_tool_results"} \cup Terminal
CallStates   == {"pending", "delivered", "acknowledged"}

\* A table is a function from the ids of its rows.  What an owner writes is
\* abstracted to the generation it wrote in: observe_offset, the contents of a
\* tool call (its last record) and of a receipt are the gen of their writer;
\* usage and digests are whether they are there.
AgentRow   == [policy : Policies, gen : Nat]
RunRow     == [state : RunStates, key : Keys, agent : Agents, gen : Nat, offset : Nat,
               usage : BOOLEAN, receipt : Receipts \cup {NoReceipt}]
CallRow    == [state : CallStates, delivered : BOOLEAN, acknowledged : BOOLEAN,
               result : BOOLEAN, gen : Nat]
ReceiptRow == [state : {"provisional", "finalized"}, run : Runs, usage : BOOLEAN, gen : Nat]

TypeOK ==
  /\ DOMAIN agent \subseteq Agents /\ agent \in [DOMAIN agent -> AgentRow]
  /\ DOMAIN run \subseteq Runs /\ run \in [DOMAIN run -> RunRow]
  /\ DOMAIN interaction \subseteq Runs \X ToolCalls
  /\ interaction \in [DOMAIN interaction -> CallRow]
  /\ DOMAIN receipt \subseteq Receipts /\ receipt \in [DOMAIN receipt -> ReceiptRow]

Empty == [x \in {} |-> x]

Init == agent = Empty /\ run = Empty /\ interaction = Empty /\ receipt = Empty

-----------------------------------------------------------------------------
(* Rows *)

\* INSERT of a new row, UPDATE of an old one.
Put(table, id, row) == [x \in DOMAIN table \cup {id} |-> IF x = id THEN row ELSE table[x]]

\* (mutant: only an active run holds its logical key)
ActiveRunsOf(k) ==
  {r \in DOMAIN run : run[r].key = k /\ run[r].state \in {"running", "awaiting_tool_results"}}

RunsOf(k) == {r \in DOMAIN run : run[r].key = k}

\* findRunRowByLogicalKey: a row of that key, whatever its state.
RunOf(k) == CHOOSE r \in RunsOf(k) : TRUE

\* requireGenerationOwner
Owner(r, gen) == r \in DOMAIN run /\ run[r].gen = gen

\* (mutant: a new row is stored in a state the schema does not know)
NewRunQueued(k, a, state, gen) ==
  [state |-> "queued", key |-> k, agent |-> a, gen |-> gen, offset |-> 0, usage |-> FALSE,
   receipt |-> NoReceipt]

NewRun(k, a, state, gen) ==
  [state |-> state, key |-> k, agent |-> a, gen |-> gen, offset |-> 0, usage |-> FALSE,
   receipt |-> NoReceipt]

\* (mutant: the agent keeps its generation)
KeepAgentGeneration(a, gen) == UNCHANGED agent

\* bumpAgentGeneration: the agent never falls behind its runs.
BumpAgentGeneration(a, gen) ==
  agent' = IF agent[a].gen < gen THEN [agent EXCEPT ![a].gen = gen] ELSE agent

-----------------------------------------------------------------------------
(* The methods *)

\* (mutant: the generation of an agent that returns starts again)
UpsertForgets(a, p) ==
  /\ agent' = Put(agent, a, [policy |-> p, gen |-> 0])
  /\ UNCHANGED <<run, interaction, receipt>>

UpsertAgent(a, p) ==
  /\ agent' = Put(agent, a, [policy |-> p,
                            gen |-> IF a \in DOMAIN agent THEN agent[a].gen ELSE 0])
  /\ UNCHANGED <<run, interaction, receipt>>

\* claimRun of a logical request nobody claimed: a running row.
ClaimNew(a, k, gen) ==
  /\ RunsOf(k) = {}
  /\ \E r \in Runs \ DOMAIN run : run' = Put(run, r, NewRun(k, a, "running", gen))
  /\ BumpAgentGeneration(a, gen)

\* claimRun of a claimed one by a later owner: the row is fenced.
ClaimLater(a, k, gen) ==
  LET r == RunOf(k)
  IN  /\ RunsOf(k) # {} /\ run[r].agent = a /\ gen > run[r].gen
      /\ run' = [run EXCEPT ![r].gen = gen]
      /\ BumpAgentGeneration(a, gen)

\* claimRun: the caller's profile is the agent's and its generation is not
\* older than the agent's.  A claim in the generation of the row is a
\* reconnect that reads the row, and every other claim is a conflict.
ClaimRun(a, k, profile, gen) ==
  /\ a \in DOMAIN agent /\ profile = Profile[a] /\ gen >= agent[a].gen
  /\ ClaimNew(a, k, gen) \/ ClaimLater(a, k, gen)
  /\ UNCHANGED <<interaction, receipt>>

\* (mutant: the generation of the caller is not compared)
PersistAnyOffset(r, gen) ==
  /\ r \in DOMAIN run
  /\ run' = [run EXCEPT ![r].offset = gen]
  /\ UNCHANGED <<agent, interaction, receipt>>

PersistObserveOffset(r, gen) ==
  /\ Owner(r, gen)
  /\ run' = [run EXCEPT ![r].offset = gen]
  /\ UNCHANGED <<agent, interaction, receipt>>

\* (mutant: the upsert overwrites what an earlier record stored)
OverwriteCall(id, gen, state, result) ==
  [state |-> state, result |-> result, gen |-> gen,
   delivered |-> state # "pending", acknowledged |-> state = "acknowledged"]

\* ON CONFLICT DO UPDATE: the state is replaced, digests and stamps are kept.
MergedCall(id, gen, state, result) ==
  LET old == id \in DOMAIN interaction
  IN  [state |-> state, gen |-> gen,
       result |-> result \/ (old /\ interaction[id].result),
       delivered |-> state # "pending" \/ (old /\ interaction[id].delivered),
       acknowledged |-> state = "acknowledged" \/ (old /\ interaction[id].acknowledged)]

\* (mutant: a call is recorded for whoever knows its run)
RecordByAnyone(r, gen, t, state, result) ==
  /\ r \in DOMAIN run
  /\ interaction' = Put(interaction, <<r, t>>, MergedCall(<<r, t>>, gen, state, result))
  /\ UNCHANGED <<agent, run, receipt>>

RecordInteractionDigests(r, gen, t, state, result) ==
  /\ Owner(r, gen)
  /\ interaction' = Put(interaction, <<r, t>>, MergedCall(<<r, t>>, gen, state, result))
  /\ UNCHANGED <<agent, run, receipt>>

\* (mutant: only a run that already names another receipt is refused)
ReceiptUnusedByRun(r, c) == run[r].receipt = NoReceipt

\* No receipt of that id and none of that run; a repeated call finds its own
\* receipt and returns it, every other one is a conflict.
ReceiptUnused(r, c) ==
  /\ run[r].receipt = NoReceipt
  /\ c \notin DOMAIN receipt
  /\ \A d \in DOMAIN receipt : receipt[d].run # r

\* The UPDATE of the run and the INSERT of its receipt.
StoreOutcome(r, gen, c, state, usage) ==
  /\ run' = [run EXCEPT ![r].state = state, ![r].usage = usage, ![r].receipt = c]
  /\ receipt' = Put(receipt, c, [run |-> r, usage |-> usage, gen |-> gen,
                                state |-> IF state = "finished" THEN "finalized"
                                          ELSE "provisional"])

\* (mutant: whoever knows the run may settle it)
FinalizeByAnyone(r, gen, c, state, usage) ==
  /\ state = "finished" => usage
  /\ state = "runtime_lost" => ~usage
  /\ r \in DOMAIN run /\ ReceiptUnused(r, c)
  /\ StoreOutcome(r, gen, c, state, usage)
  /\ UNCHANGED <<agent, interaction>>

\* Usage, terminal state and receipt are stored together.
FinalizeRunWithReceipt(r, gen, c, state, usage) ==
  /\ state = "finished" => usage
  /\ state = "runtime_lost" => ~usage
  /\ Owner(r, gen) /\ ReceiptUnused(r, c)
  /\ StoreOutcome(r, gen, c, state, usage)
  /\ UNCHANGED <<agent, interaction>>

\* One legacy record of importLegacyLineage: a logical key nobody claimed, and
\* an agent of the sdk profile that is new or has the same policy (another
\* policy goes to quarantine).  The import is one transaction over all records;
\* one action per record only adds states between them.
ImportRun(k, a, p, state, calls) ==
  /\ Profile[a] = "sdk" /\ RunsOf(k) = {}
  /\ a \in DOMAIN agent => agent[a].policy = p
  /\ agent' = IF a \in DOMAIN agent THEN agent ELSE Put(agent, a, [policy |-> p, gen |-> 0])
  /\ \E r \in Runs \ DOMAIN run :
       /\ run' = Put(run, r, NewRun(k, a, state, 0))
       /\ interaction' =
            [id \in DOMAIN interaction \cup ({r} \X calls) |->
               IF id \in DOMAIN interaction THEN interaction[id]
               ELSE [state |-> "pending", result |-> FALSE, delivered |-> FALSE,
                     acknowledged |-> FALSE, gen |-> 0]]
  /\ UNCHANGED receipt

\* A lineage file: completed, failed, or awaiting with its pending calls.
ImportLineage(k, a, p) ==
  \/ \E state \in {"finished", "error"} : ImportRun(k, a, p, state, {})
  \/ \E calls \in SUBSET ToolCalls : ImportRun(k, a, p, "awaiting_tool_results", calls)

\* A turn of the ordinary journal: completed or still running.
ImportOrdinary(k, a, p) ==
  \E state \in {"finished", "running"} : ImportRun(k, a, p, state, {})

Next ==
  \/ \E a \in Agents, p \in Policies : UpsertAgent(a, p)
  \/ \E a \in Agents, k \in Keys, profile \in Profiles, gen \in Generations :
       ClaimRun(a, k, profile, gen)
  \/ \E a \in Agents, k \in Keys, p \in Policies :
       ImportLineage(k, a, p) \/ ImportOrdinary(k, a, p)
  \/ \E r \in Runs, gen \in Generations :
       \/ PersistObserveOffset(r, gen)
       \/ \E t \in ToolCalls, state \in CallStates, result \in BOOLEAN :
            RecordInteractionDigests(r, gen, t, state, result)
       \/ \E c \in Receipts, state \in Terminal, usage \in BOOLEAN :
            FinalizeRunWithReceipt(r, gen, c, state, usage)

Spec == Init /\ [][Next]_vars

-----------------------------------------------------------------------------
(* Properties *)

\* One logical request has one run, however claims and imports interleave and
\* whatever became of that run.
OneRunPerKey == \A r, q \in DOMAIN run : run[r].key = run[q].key => r = q

\* Runs and receipts point at each other, a receipt says what its run says, and
\* only a finished run has final usage.
ReceiptsMatchRuns ==
  /\ \A c \in DOMAIN receipt :
       LET r == receipt[c].run
       IN  /\ r \in DOMAIN run /\ run[r].receipt = c /\ run[r].state \in Terminal
           /\ receipt[c].usage = run[r].usage
           /\ receipt[c].state = "finalized" <=> run[r].state = "finished"
           /\ receipt[c].state = "finalized" => receipt[c].usage
  /\ \A r \in DOMAIN run :
       run[r].receipt # NoReceipt =>
         run[r].receipt \in DOMAIN receipt /\ receipt[run[r].receipt].run = r

\* The agent fences all its runs: a claim in a generation older than any of them
\* is refused, and no offset was written by an owner later than the current one.
RunsAreFenced ==
  \A r \in DOMAIN run :
    /\ run[r].agent \in DOMAIN agent
    /\ run[r].offset <= run[r].gen
    /\ run[r].gen <= agent[run[r].agent].gen

\* Neither was a tool call or a receipt of the run.
WritesAreFenced ==
  /\ \A id \in DOMAIN interaction :
       id[1] \in DOMAIN run /\ interaction[id].gen <= run[id[1]].gen
  /\ \A c \in DOMAIN receipt :
       receipt[c].run \in DOMAIN run /\ receipt[c].gen <= run[receipt[c].run].gen

\* No run is ahead of its agent, and nothing that was written of a run, whatever
\* claims, imports and retries came between, is ahead of the run.
AgentFencesRuns == RunsAreFenced /\ WritesAreFenced

\* What a run came to.
OutcomeOf(r) == <<run[r].state, run[r].usage, run[r].receipt>>

\* What a step writes of a run, a tool call or a receipt it writes in the
\* generation the run is in.
RunIsOwners(r) ==
  /\ run'[r].offset # run[r].offset => run'[r].offset = run[r].gen
  /\ OutcomeOf(r)' # OutcomeOf(r) => receipt'[run'[r].receipt].gen = run[r].gen

CallIsOwners(id) ==
  \/ id \in DOMAIN interaction /\ interaction'[id] = interaction[id]
  \/ id[1] \in DOMAIN run' /\ interaction'[id].gen = run'[id[1]].gen

ReceiptIsOwners(c) ==
  \/ c \in DOMAIN receipt /\ receipt'[c] = receipt[c]
  \/ receipt'[c].run \in DOMAIN run' /\ receipt'[c].gen = run'[receipt'[c].run].gen

\* A late owner changes nothing: once a later owner has claimed a run, nobody of an
\* earlier generation sets its offset or its outcome, records its tool calls or
\* makes or rewrites its receipt; and no owner, of a run or of an agent, gives way
\* to an earlier one.
LateOwnerWritesNothing ==
  [][/\ \A a \in DOMAIN agent : a \in DOMAIN agent' /\ agent'[a].gen >= agent[a].gen
     /\ \A r \in DOMAIN run :
          r \in DOMAIN run' /\ run'[r].gen >= run[r].gen /\ RunIsOwners(r)
     /\ \A id \in DOMAIN interaction' : CallIsOwners(id)
     /\ \A c \in DOMAIN receipt' : ReceiptIsOwners(c)]_vars

\* What was once recorded of a tool call (its result digest, that it was
\* delivered, that it was acknowledged) is never lost to a repeated record.
CallHistoryIsKept ==
  [][\A id \in DOMAIN interaction :
       /\ id \in DOMAIN interaction'
       /\ interaction[id].result => interaction'[id].result
       /\ interaction[id].delivered => interaction'[id].delivered
       /\ interaction[id].acknowledged => interaction'[id].acknowledged]_vars

\* The ledger implements the settlement of logical requests: open once, settled
\* once with one outcome and a receipt of its own.
outcome ==
  [k \in Keys |-> IF RunsOf(k) = {} THEN "none"
                 ELSE IF run[RunOf(k)].receipt = NoReceipt THEN "open"
                 ELSE run[RunOf(k)].state]
receiptOf ==
  [k \in Keys |-> IF RunsOf(k) = {} THEN NoReceipt ELSE run[RunOf(k)].receipt]

Settled == INSTANCE Settlement WITH outcome <- outcome, receiptOf <- receiptOf
SettlementSpec == Settled!Spec
=============================================================================
