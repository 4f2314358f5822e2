------------------------ MODULE RuntimeLedger_proofs ------------------------
(***************************************************************************)
(* Theorems about RuntimeLedger for every set of agents, keys, runs, calls *)
(* and receipts: its tables stay well formed and related, a late owner     *)
(* changes nothing, and the ledger implements Settlement.                  *)
(***************************************************************************)
EXTENDS RuntimeLedger, TLAPS

-----------------------------------------------------------------------------
(* Rows *)

\* The row of a fresh run is well formed.
LEMMA NewRunType ==
  ASSUME NEW k \in Keys, NEW a \in Agents, NEW state \in RunStates, NEW gen \in Nat
  PROVE  NewRun(k, a, state, gen) \in RunRow
  BY DEF NewRun, RunRow

\* findRunRowByLogicalKey finds a row of the key when there is one.
LEMMA RunOfIsOne ==
  ASSUME NEW k, RunsOf(k) # {}
  PROVE  RunOf(k) \in DOMAIN run /\ run[RunOf(k)].key = k
  BY DEF RunOf, RunsOf

-----------------------------------------------------------------------------
(* Type correctness *)

\* The empty ledger is well formed.
THEOREM LedgerInitType == Init => TypeOK
  BY DEF Init, TypeOK, Empty

\* Every method keeps the tables well formed.
THEOREM LedgerNextType == TypeOK /\ [Next]_vars => TypeOK'
<1> SUFFICES ASSUME TypeOK, [Next]_vars PROVE TypeOK'
  OBVIOUS
<1>bump. ASSUME NEW a \in DOMAIN agent, NEW gen \in Nat, BumpAgentGeneration(a, gen)
         PROVE  DOMAIN agent' \subseteq Agents /\ agent' \in [DOMAIN agent' -> AgentRow]
  BY <1>bump DEF BumpAgentGeneration, TypeOK, AgentRow
<1>1. ASSUME NEW a \in Agents, NEW p \in Policies, UpsertAgent(a, p) PROVE TypeOK'
  <2>1. [policy |-> p, gen |-> IF a \in DOMAIN agent THEN agent[a].gen ELSE 0] \in AgentRow
    BY DEF TypeOK, AgentRow
  <2>2. DOMAIN agent' \subseteq Agents /\ agent' \in [DOMAIN agent' -> AgentRow]
    BY <1>1, <2>1 DEF Put, UpsertAgent, TypeOK
  <2> QED BY <1>1, <2>2 DEF UpsertAgent, TypeOK
<1>2. ASSUME NEW a \in Agents, NEW k \in Keys, NEW gen \in Generations,
             a \in DOMAIN agent, ClaimNew(a, k, gen), UNCHANGED <<interaction, receipt>>
      PROVE  TypeOK'
  <2>1. gen \in Nat
    BY GenerationAssumption DEF Generations
  <2>2. PICK r \in Runs \ DOMAIN run : run' = Put(run, r, NewRun(k, a, "running", gen))
    BY <1>2 DEF ClaimNew
  <2>3. NewRun(k, a, "running", gen) \in RunRow
    BY <2>1, NewRunType DEF RunStates
  <2>4. DOMAIN run' \subseteq Runs /\ run' \in [DOMAIN run' -> RunRow]
    BY <2>2, <2>3 DEF Put, TypeOK
  <2> QED BY <1>2, <1>bump, <2>1, <2>4 DEF TypeOK, ClaimNew
<1>3. ASSUME NEW a \in Agents, NEW k \in Keys, NEW gen \in Generations,
             a \in DOMAIN agent, ClaimLater(a, k, gen), UNCHANGED <<interaction, receipt>>
      PROVE  TypeOK'
  <2>1. gen \in Nat
    BY GenerationAssumption DEF Generations
  <2>2. DOMAIN run' \subseteq Runs /\ run' \in [DOMAIN run' -> RunRow]
    <3>1. RunOf(k) \in DOMAIN run
      BY <1>3, RunOfIsOne DEF ClaimLater
    <3>2. [run[RunOf(k)] EXCEPT !.gen = gen] \in RunRow
      BY <2>1, <3>1 DEF TypeOK, RunRow
    <3>3. run' = [run EXCEPT ![RunOf(k)] = [run[RunOf(k)] EXCEPT !.gen = gen]]
      BY <1>3 DEF ClaimLater
    <3> QED BY <3>1, <3>2, <3>3 DEF TypeOK
  <2> QED BY <1>3, <1>bump, <2>1, <2>2 DEF TypeOK, ClaimLater
<1>4. ASSUME NEW a \in Agents, NEW k \in Keys, NEW p \in Policies,
             NEW state \in RunStates, NEW calls \in SUBSET ToolCalls,
             ImportRun(k, a, p, state, calls)
      PROVE  TypeOK'
  <2>1. [policy |-> p, gen |-> 0] \in AgentRow /\ NewRun(k, a, state, 0) \in RunRow
    BY NewRunType DEF AgentRow
  <2>2. DOMAIN agent' \subseteq Agents /\ agent' \in [DOMAIN agent' -> AgentRow]
    BY <1>4, <2>1 DEF Put, ImportRun, TypeOK
  <2>3. PICK r \in Runs \ DOMAIN run :
          /\ run' = Put(run, r, NewRun(k, a, state, 0))
          /\ interaction' =
               [id \in DOMAIN interaction \cup ({r} \X calls) |->
                  IF id \in DOMAIN interaction THEN interaction[id]
                  ELSE [state |-> "pending", result |-> FALSE, delivered |-> FALSE,
                        acknowledged |-> FALSE, gen |-> 0]]
    BY <1>4 DEF ImportRun
  <2>4. DOMAIN run' \subseteq Runs /\ run' \in [DOMAIN run' -> RunRow]
    BY <2>1, <2>3 DEF Put, TypeOK
  <2>5. [state |-> "pending", result |-> FALSE, delivered |-> FALSE,
         acknowledged |-> FALSE, gen |-> 0] \in CallRow
    BY DEF CallRow, CallStates
  <2>6. /\ DOMAIN interaction' \subseteq Runs \X ToolCalls
        /\ interaction' \in [DOMAIN interaction' -> CallRow]
    BY <2>3, <2>5 DEF TypeOK
  <2> QED BY <1>4, <2>2, <2>4, <2>6 DEF TypeOK, ImportRun
<1>5. ASSUME NEW r \in Runs, NEW gen \in Generations, PersistObserveOffset(r, gen)
      PROVE  TypeOK'
  <2>1. gen \in Nat
    BY GenerationAssumption DEF Generations
  <2> QED BY <1>5, <2>1 DEF PersistObserveOffset, TypeOK, RunRow
<1>6. ASSUME NEW r \in Runs, NEW gen \in Generations, NEW t \in ToolCalls,
             NEW state \in CallStates, NEW result \in BOOLEAN,
             RecordInteractionDigests(r, gen, t, state, result)
      PROVE  TypeOK'
  <2>1. MergedCall(<<r, t>>, gen, state, result) \in CallRow
    BY GenerationAssumption DEF MergedCall, CallRow, TypeOK, Generations
  <2>2. /\ DOMAIN interaction' \subseteq Runs \X ToolCalls
        /\ interaction' \in [DOMAIN interaction' -> CallRow]
    BY <1>6, <2>1 DEF Put, RecordInteractionDigests, TypeOK
  <2> QED BY <1>6, <2>2 DEF RecordInteractionDigests, TypeOK
<1>7. ASSUME NEW r \in Runs, NEW gen \in Generations, NEW c \in Receipts,
             NEW state \in Terminal, NEW usage \in BOOLEAN,
             FinalizeRunWithReceipt(r, gen, c, state, usage)
      PROVE  TypeOK'
  <2>1. DOMAIN run' \subseteq Runs /\ run' \in [DOMAIN run' -> RunRow]
    <3>1. r \in DOMAIN run
      BY <1>7 DEF FinalizeRunWithReceipt, Owner
    <3>2. [run[r] EXCEPT !.state = state, !.usage = usage, !.receipt = c] \in RunRow
      BY <3>1 DEF TypeOK, RunRow, RunStates
    <3>3. run' = [run EXCEPT ![r] = [run[r] EXCEPT !.state = state, !.usage = usage,
                                                   !.receipt = c]]
      BY <1>7, <3>1 DEF FinalizeRunWithReceipt, StoreOutcome, TypeOK, RunRow
    <3> QED BY <3>1, <3>2, <3>3 DEF TypeOK
  <2>2. [run |-> r, usage |-> usage, gen |-> gen,
         state |-> IF state = "finished" THEN "finalized" ELSE "provisional"] \in ReceiptRow
    BY GenerationAssumption DEF ReceiptRow, Generations
  <2>3. DOMAIN receipt' \subseteq Receipts /\ receipt' \in [DOMAIN receipt' -> ReceiptRow]
    BY <1>7, <2>2 DEF Put, FinalizeRunWithReceipt, StoreOutcome, TypeOK
  <2> QED BY <1>7, <2>1, <2>3 DEF FinalizeRunWithReceipt, TypeOK
<1>8. CASE UNCHANGED vars
  BY <1>8 DEF vars, TypeOK
<1> QED BY <1>1, <1>2, <1>3, <1>4, <1>5, <1>6, <1>7, <1>8
  DEF Next, ClaimRun, ImportLineage, ImportOrdinary, RunStates, Terminal

\* The tables of the ledger are well formed after any sequence of calls.
THEOREM LedgerTypeCorrect == Spec => []TypeOK
  BY LedgerInitType, LedgerNextType, PTL DEF Spec

-----------------------------------------------------------------------------
(* How the tables are related *)

\* The inductive invariant: each part needs only the types of the rows, and a
\* claim relates the generations of a run and its agent.  That calls and receipts
\* are behind their run follows from what a step may do (WritesStayFenced).
LedgerInv == TypeOK /\ OneRunPerKey /\ ReceiptsMatchRuns /\ RunsAreFenced

\* No method lets an agent's generation fall.
LEMMA GenerationsGrow ==
  ASSUME TypeOK, NEW a \in DOMAIN agent, NEW gen \in Nat, BumpAgentGeneration(a, gen)
  PROVE  /\ DOMAIN agent' = DOMAIN agent
         /\ \A b \in DOMAIN agent : agent'[b].gen >= agent[b].gen
         /\ agent'[a].gen >= gen
<1>1. \A b \in DOMAIN agent : agent[b].gen \in Nat /\ agent[b] \in AgentRow
  BY DEF TypeOK, AgentRow
<1>2. CASE agent[a].gen < gen
  <2>1. agent' = [agent EXCEPT ![a] = [agent[a] EXCEPT !.gen = gen]]
    BY <1>2 DEF BumpAgentGeneration
  <2>2. [agent[a] EXCEPT !.gen = gen].gen = gen
    BY <1>1 DEF AgentRow
  <2>3. /\ DOMAIN agent' = DOMAIN agent /\ agent'[a].gen = gen
        /\ \A b \in DOMAIN agent : b # a => agent'[b] = agent[b]
    BY <2>1, <2>2
  <2>4. agent[a].gen \in Nat /\ gen >= agent[a].gen
    BY <1>1, <1>2
  <2> QED BY <1>1, <2>3, <2>4
<1>3. CASE ~(agent[a].gen < gen)
  BY <1>1, <1>3 DEF BumpAgentGeneration
<1> QED BY <1>2, <1>3

\* A new run of a key nobody claimed keeps the tables related.
LEMMA NewRunKeepsRelations ==
  ASSUME LedgerInv, NEW r \in Runs \ DOMAIN run, NEW k \in Keys, NEW a \in Agents,
         NEW state \in RunStates, NEW gen \in Nat,
         RunsOf(k) = {}, run' = Put(run, r, NewRun(k, a, state, gen)),
         UNCHANGED receipt,
         a \in DOMAIN agent', agent'[a].gen >= gen, TypeOK',
         \A b \in DOMAIN agent : b \in DOMAIN agent' /\ agent'[b].gen >= agent[b].gen
  PROVE  OneRunPerKey' /\ ReceiptsMatchRuns' /\ RunsAreFenced'
<1>1. /\ DOMAIN run' = DOMAIN run \cup {r}
      /\ \A q \in DOMAIN run : run'[q] = run[q]
      /\ run'[r] = NewRun(k, a, state, gen)
  BY DEF Put
<1>2. /\ run'[r].key = k /\ run'[r].agent = a /\ run'[r].gen = gen
      /\ run'[r].offset = 0 /\ run'[r].receipt = NoReceipt
  BY <1>1 DEF NewRun
<1>3. OneRunPerKey'
  BY <1>1, <1>2 DEF OneRunPerKey, LedgerInv, RunsOf
<1>4. ReceiptsMatchRuns'
  BY <1>1, <1>2 DEF ReceiptsMatchRuns, LedgerInv
<1>5. RunsAreFenced'
  <2> SUFFICES ASSUME NEW q \in DOMAIN run'
      PROVE  /\ run'[q].agent \in DOMAIN agent' /\ run'[q].offset <= run'[q].gen
             /\ run'[q].gen <= agent'[run'[q].agent].gen
    BY DEF RunsAreFenced
  <2>1. CASE q = r
    BY <1>2, <2>1 DEF TypeOK, AgentRow
  <2>2. CASE q \in DOMAIN run
    <3>1. /\ run[q].agent \in DOMAIN agent /\ run[q].offset <= run[q].gen
          /\ run[q].gen <= agent[run[q].agent].gen
      BY <2>2 DEF LedgerInv, RunsAreFenced
    <3>2. /\ run[q].gen \in Nat /\ agent[run[q].agent].gen \in Nat
          /\ agent'[run[q].agent].gen \in Nat
      BY <2>2, <3>1 DEF LedgerInv, TypeOK, RunRow, AgentRow
    <3> QED BY <1>1, <2>2, <3>1, <3>2
  <2> QED BY <1>1, <2>1, <2>2
<1> QED BY <1>3, <1>4, <1>5

\* A step that leaves the keys, agents and outcomes of the runs alone keeps the
\* tables related as long as every run stays behind its agent.
LEMMA SameOutcomesKeepRelations ==
  ASSUME LedgerInv, DOMAIN run' = DOMAIN run, UNCHANGED receipt,
         \A r \in DOMAIN run :
           /\ run'[r].key = run[r].key /\ run'[r].agent = run[r].agent
           /\ run'[r].state = run[r].state /\ run'[r].usage = run[r].usage
           /\ run'[r].receipt = run[r].receipt
           /\ run'[r].agent \in DOMAIN agent' /\ run'[r].offset <= run'[r].gen
           /\ run'[r].gen <= agent'[run'[r].agent].gen
  PROVE  OneRunPerKey' /\ ReceiptsMatchRuns' /\ RunsAreFenced'
<1>1. OneRunPerKey'
  BY DEF OneRunPerKey, LedgerInv
<1>2. ReceiptsMatchRuns'
  BY DEF ReceiptsMatchRuns, LedgerInv
<1> QED BY <1>1, <1>2 DEF RunsAreFenced

\* The empty ledger is related.
THEOREM LedgerInitInv == Init => LedgerInv
  BY LedgerInitType
  DEF Init, Empty, LedgerInv, OneRunPerKey, ReceiptsMatchRuns, RunsAreFenced

\* Every method keeps the tables related.
THEOREM LedgerNextInv == LedgerInv /\ [Next]_vars => LedgerInv'
<1> SUFFICES ASSUME LedgerInv, [Next]_vars PROVE LedgerInv'
  OBVIOUS
<1> DEFINE Related == OneRunPerKey /\ ReceiptsMatchRuns /\ RunsAreFenced
<1>type. TypeOK /\ TypeOK'
  BY LedgerNextType DEF LedgerInv
<1>gens. /\ \A a \in DOMAIN agent : agent[a].gen \in Nat
         /\ \A r \in DOMAIN run : /\ run[r].gen \in Nat /\ run[r].offset \in Nat
                                 /\ run[r] \in RunRow
         /\ Generations \subseteq Nat
  BY <1>type, GenerationAssumption DEF TypeOK, AgentRow, RunRow, Generations
<1>runs. \A r \in DOMAIN run :
           /\ run[r].agent \in DOMAIN agent /\ run[r].offset <= run[r].gen
           /\ run[r].gen <= agent[run[r].agent].gen
  BY DEF LedgerInv, RunsAreFenced
<1>1. ASSUME NEW a \in Agents, NEW p \in Policies, UpsertAgent(a, p) PROVE Related'
  <2>1. \A b \in DOMAIN agent : b \in DOMAIN agent' /\ agent'[b].gen = agent[b].gen
    BY <1>1 DEF UpsertAgent, Put
  <2>2. UNCHANGED <<run, receipt>>
    BY <1>1 DEF UpsertAgent
  <2> QED BY <1>runs, <2>1, <2>2, SameOutcomesKeepRelations
<1>2. ASSUME NEW a \in Agents, NEW k \in Keys, NEW gen \in Generations,
             a \in DOMAIN agent, ClaimNew(a, k, gen), UNCHANGED <<interaction, receipt>>
      PROVE  Related'
  <2>1. PICK r \in Runs \ DOMAIN run : run' = Put(run, r, NewRun(k, a, "running", gen))
    BY <1>2 DEF ClaimNew
  <2>2. gen \in Nat /\ "running" \in RunStates
    BY <1>gens DEF RunStates
  <2>3. /\ DOMAIN agent' = DOMAIN agent /\ agent'[a].gen >= gen
        /\ \A b \in DOMAIN agent : agent'[b].gen >= agent[b].gen
    BY <1>2, <1>type, <2>2, GenerationsGrow DEF ClaimNew
  <2> QED BY <1>2, <1>type, <2>1, <2>2, <2>3, NewRunKeepsRelations DEF ClaimNew
<1>3. ASSUME NEW a \in Agents, NEW k \in Keys, NEW gen \in Generations,
             a \in DOMAIN agent, ClaimLater(a, k, gen), UNCHANGED <<interaction, receipt>>
      PROVE  Related'
  <2>1. PICK r \in DOMAIN run :
          /\ run[r].agent = a /\ gen > run[r].gen
          /\ run' = [run EXCEPT ![r].gen = gen]
    BY <1>3, RunOfIsOne DEF ClaimLater
  <2>2. gen \in Nat
    BY <1>gens
  <2>3. /\ DOMAIN agent' = DOMAIN agent /\ agent'[a].gen >= gen
        /\ \A b \in DOMAIN agent : agent'[b].gen >= agent[b].gen
    BY <1>3, <1>type, <2>2, GenerationsGrow DEF ClaimLater
  <2>4. \A b \in DOMAIN agent : agent'[b].gen \in Nat
    BY <1>type, <2>3 DEF TypeOK, AgentRow
  <2>5. /\ DOMAIN run' = DOMAIN run
        /\ \A q \in DOMAIN run : q # r => run'[q] = run[q]
        /\ run'[r] = [run[r] EXCEPT !.gen = gen]
    BY <2>1
  <2>6. /\ run'[r].gen = gen /\ run'[r].offset = run[r].offset
        /\ run'[r].key = run[r].key /\ run'[r].agent = a
        /\ run'[r].state = run[r].state /\ run'[r].usage = run[r].usage
        /\ run'[r].receipt = run[r].receipt
    BY <1>gens, <2>1, <2>5 DEF RunRow
  <2>7. run'[r].offset <= run'[r].gen /\ run'[r].gen <= agent'[a].gen
    BY <1>gens, <1>runs, <2>1, <2>2, <2>3, <2>4, <2>6
  <2>8. \A q \in DOMAIN run : q # r =>
          /\ run'[q].agent \in DOMAIN agent' /\ run'[q].offset <= run'[q].gen
          /\ run'[q].gen <= agent'[run'[q].agent].gen
    BY <1>gens, <1>runs, <2>3, <2>4, <2>5
  <2> QED BY <1>3, <1>runs, <2>1, <2>3, <2>5, <2>6, <2>7, <2>8, SameOutcomesKeepRelations
<1>4. ASSUME NEW a \in Agents, NEW k \in Keys, NEW p \in Policies,
             NEW state \in RunStates, NEW calls \in SUBSET ToolCalls,
             ImportRun(k, a, p, state, calls)
      PROVE  Related'
  <2>1. PICK r \in Runs \ DOMAIN run : run' = Put(run, r, NewRun(k, a, state, 0))
    BY <1>4 DEF ImportRun
  <2>2. /\ a \in DOMAIN agent' /\ agent'[a].gen >= 0
        /\ \A b \in DOMAIN agent : b \in DOMAIN agent' /\ agent'[b].gen >= agent[b].gen
    BY <1>4, <1>gens DEF ImportRun, Put
  <2>3. RunsOf(k) = {} /\ UNCHANGED receipt
    BY <1>4 DEF ImportRun
  <2> QED BY <1>type, <2>1, <2>2, <2>3, NewRunKeepsRelations
<1>5. ASSUME NEW r \in Runs, NEW gen \in Generations, PersistObserveOffset(r, gen)
      PROVE  Related'
  <2>1. /\ r \in DOMAIN run /\ run[r].gen = gen
        /\ run' = [run EXCEPT ![r].offset = gen] /\ UNCHANGED <<agent, receipt>>
    BY <1>5 DEF PersistObserveOffset, Owner
  <2>2. /\ DOMAIN run' = DOMAIN run
        /\ \A q \in DOMAIN run : q # r => run'[q] = run[q]
        /\ run'[r] = [run[r] EXCEPT !.offset = gen]
    BY <2>1
  <2>3. /\ run'[r].gen = run[r].gen /\ run'[r].offset = gen
        /\ run'[r].key = run[r].key /\ run'[r].agent = run[r].agent
        /\ run'[r].state = run[r].state /\ run'[r].usage = run[r].usage
        /\ run'[r].receipt = run[r].receipt
    BY <1>gens, <2>1, <2>2 DEF RunRow
  <2>4. \A q \in DOMAIN run :
          /\ run'[q].key = run[q].key /\ run'[q].agent = run[q].agent
          /\ run'[q].state = run[q].state /\ run'[q].usage = run[q].usage
          /\ run'[q].receipt = run[q].receipt
          /\ run'[q].agent \in DOMAIN agent' /\ run'[q].offset <= run'[q].gen
          /\ run'[q].gen <= agent'[run'[q].agent].gen
    BY <1>gens, <1>runs, <2>1, <2>2, <2>3
  <2> QED BY <2>1, <2>2, <2>4, SameOutcomesKeepRelations
<1>6. ASSUME NEW r \in Runs, NEW gen \in Generations, NEW t \in ToolCalls,
             NEW state \in CallStates, NEW result \in BOOLEAN,
             RecordInteractionDigests(r, gen, t, state, result)
      PROVE  Related'
  <2>1. UNCHANGED <<agent, run, receipt>>
    BY <1>6 DEF RecordInteractionDigests
  <2> QED BY <1>runs, <2>1, SameOutcomesKeepRelations
<1>7. ASSUME NEW r \in Runs, NEW gen \in Generations, NEW c \in Receipts,
             NEW state \in Terminal, NEW usage \in BOOLEAN,
             FinalizeRunWithReceipt(r, gen, c, state, usage)
      PROVE  Related'
  <2>1. /\ r \in DOMAIN run /\ ReceiptUnused(r, c) /\ UNCHANGED agent
        /\ state = "finished" => usage
        /\ run' = [run EXCEPT ![r].state = state, ![r].usage = usage, ![r].receipt = c]
        /\ receipt' = Put(receipt, c, [run |-> r, usage |-> usage, gen |-> gen,
                                      state |-> IF state = "finished" THEN "finalized"
                                                ELSE "provisional"])
    BY <1>7 DEF FinalizeRunWithReceipt, StoreOutcome, Owner
  <2>2. /\ DOMAIN run' = DOMAIN run
        /\ \A q \in DOMAIN run : q # r => run'[q] = run[q]
        /\ run'[r].state = state /\ run'[r].usage = usage /\ run'[r].receipt = c
        /\ run'[r].key = run[r].key /\ run'[r].agent = run[r].agent
        /\ run'[r].gen = run[r].gen /\ run'[r].offset = run[r].offset
    BY <1>gens, <2>1 DEF RunRow
  <2>3. /\ DOMAIN receipt' = DOMAIN receipt \cup {c}
        /\ \A d \in DOMAIN receipt : d # c => receipt'[d] = receipt[d]
        /\ receipt'[c].run = r /\ receipt'[c].usage = usage
        /\ receipt'[c].state = IF state = "finished" THEN "finalized" ELSE "provisional"
    <3>1. DOMAIN receipt' = DOMAIN receipt \cup {c}
      BY <2>1 DEF Put
    <3>2. \A d \in DOMAIN receipt : d # c => receipt'[d] = receipt[d]
      BY <2>1 DEF Put
    <3>3. receipt'[c] = [run |-> r, usage |-> usage, gen |-> gen,
                         state |-> IF state = "finished" THEN "finalized" ELSE "provisional"]
      BY <2>1 DEF Put
    <3> QED BY <3>1, <3>2, <3>3
  <2>4. /\ run[r].receipt = NoReceipt /\ c \notin DOMAIN receipt
        /\ \A d \in DOMAIN receipt : receipt[d].run # r
    BY <2>1 DEF ReceiptUnused
  <2>5. OneRunPerKey'
    BY <2>2 DEF OneRunPerKey, LedgerInv
  <2>6. ReceiptsMatchRuns'
    <3>1. ReceiptsMatchRuns
      BY DEF LedgerInv
    <3>2. ASSUME NEW d \in DOMAIN receipt'
          PROVE  LET q == receipt'[d].run
                 IN  /\ q \in DOMAIN run' /\ run'[q].receipt = d /\ run'[q].state \in Terminal
                     /\ receipt'[d].usage = run'[q].usage
                     /\ receipt'[d].state = "finalized" <=> run'[q].state = "finished"
                     /\ receipt'[d].state = "finalized" => receipt'[d].usage
      <4>1. CASE d = c
        BY <2>1, <2>2, <2>3, <4>1
      <4>2. CASE d # c
        BY <2>2, <2>3, <2>4, <3>1, <4>2 DEF ReceiptsMatchRuns
      <4> QED BY <4>1, <4>2
    <3>3. ASSUME NEW q \in DOMAIN run', run'[q].receipt # NoReceipt
          PROVE  /\ run'[q].receipt \in DOMAIN receipt'
                 /\ receipt'[run'[q].receipt].run = q
      BY <2>2, <2>3, <2>4, <3>1, <3>3 DEF ReceiptsMatchRuns
    <3> QED BY <3>2, <3>3 DEF ReceiptsMatchRuns
  <2>7. RunsAreFenced'
    BY <1>runs, <2>1, <2>2 DEF RunsAreFenced
  <2> QED BY <2>5, <2>6, <2>7
<1>8. ASSUME UNCHANGED vars PROVE Related'
  BY <1>8, <1>runs, SameOutcomesKeepRelations DEF vars
<1> HIDE DEF Related
<1>9. Related'
  BY <1>1, <1>2, <1>3, <1>4, <1>5, <1>6, <1>7, <1>8
  DEF Next, ClaimRun, ImportLineage, ImportOrdinary, RunStates, Terminal
<1> QED BY <1>type, <1>9 DEF LedgerInv, Related

\* The inductive invariant holds of every ledger.
THEOREM LedgerInvariant == Spec => []LedgerInv
  BY LedgerInitInv, LedgerNextInv, PTL DEF Spec

\* One logical request has one run, whatever claims and imports came in which
\* order and whatever became of that run: there is no second Send for it.
THEOREM OneRunForEachKey == Spec => []OneRunPerKey
<1>1. LedgerInv => OneRunPerKey
  BY DEF LedgerInv
<1> QED BY <1>1, LedgerInvariant, PTL

\* Runs and receipts stay paired one to one and agree on the outcome.
THEOREM ReceiptsAndRunsAgree == Spec => []ReceiptsMatchRuns
<1>1. LedgerInv => ReceiptsMatchRuns
  BY DEF LedgerInv
<1> QED BY <1>1, LedgerInvariant, PTL

-----------------------------------------------------------------------------
(* What no step may do *)

\* What a step may do to the owners and to what they wrote.
LateOwnerStep ==
  /\ \A a \in DOMAIN agent : a \in DOMAIN agent' /\ agent'[a].gen >= agent[a].gen
  /\ \A r \in DOMAIN run :
       r \in DOMAIN run' /\ run'[r].gen >= run[r].gen /\ RunIsOwners(r)
  /\ \A id \in DOMAIN interaction' : CallIsOwners(id)
  /\ \A c \in DOMAIN receipt' : ReceiptIsOwners(c)

\* A table that a step leaves alone has nothing written by anybody.
LEMMA TablesLeftAlone ==
  /\ UNCHANGED interaction => \A id \in DOMAIN interaction' : CallIsOwners(id)
  /\ UNCHANGED receipt => \A c \in DOMAIN receipt' : ReceiptIsOwners(c)
  BY DEF CallIsOwners, ReceiptIsOwners

\* A run that keeps its offset and outcome was not written.
LEMMA RunLeftAlone ==
  ASSUME NEW r \in DOMAIN run, run'[r].offset = run[r].offset,
         run'[r].state = run[r].state, run'[r].usage = run[r].usage,
         run'[r].receipt = run[r].receipt
  PROVE  RunIsOwners(r)
  BY DEF RunIsOwners, OutcomeOf

\* Rows written over are kept apart from the numbers that must not fall.
LEMMA LateOwnerStepHolds == LedgerInv /\ [Next]_vars => LateOwnerStep
<1> SUFFICES ASSUME LedgerInv, [Next]_vars PROVE LateOwnerStep
  OBVIOUS
<1>gens. /\ \A a \in DOMAIN agent : agent[a].gen \in Nat
         /\ \A r \in DOMAIN run : run[r].gen \in Nat /\ run[r] \in RunRow
         /\ Generations \subseteq Nat
  BY GenerationAssumption DEF LedgerInv, TypeOK, AgentRow, RunRow, Generations
<1>type. TypeOK
  BY DEF LedgerInv
<1>1. ASSUME NEW a \in Agents, NEW p \in Policies, UpsertAgent(a, p)
      PROVE  LateOwnerStep
  <2>1. UNCHANGED <<run, interaction, receipt>>
    BY <1>1 DEF UpsertAgent
  <2>2. \A b \in DOMAIN agent : b \in DOMAIN agent' /\ agent'[b].gen = agent[b].gen
    BY <1>1 DEF UpsertAgent, Put
  <2> QED BY <1>gens, <2>1, <2>2, TablesLeftAlone, RunLeftAlone DEF LateOwnerStep
<1>2. ASSUME NEW a \in DOMAIN agent, NEW k \in Keys, NEW gen \in Generations,
             ClaimNew(a, k, gen), UNCHANGED <<interaction, receipt>>
      PROVE  LateOwnerStep
  <2>1. \A r \in DOMAIN run : r \in DOMAIN run' /\ run'[r] = run[r]
    BY <1>2 DEF ClaimNew, Put
  <2>2. \A b \in DOMAIN agent : b \in DOMAIN agent' /\ agent'[b].gen >= agent[b].gen
    BY <1>2, <1>gens, <1>type, GenerationsGrow DEF ClaimNew
  <2>3. \A r \in DOMAIN run : run'[r].gen >= run[r].gen /\ RunIsOwners(r)
    BY <1>gens, <2>1, RunLeftAlone
  <2> QED BY <1>2, <2>1, <2>2, <2>3, TablesLeftAlone DEF LateOwnerStep
<1>3. ASSUME NEW a \in DOMAIN agent, NEW k \in Keys, NEW gen \in Generations,
             ClaimLater(a, k, gen), UNCHANGED <<interaction, receipt>>
      PROVE  LateOwnerStep
  <2>1. PICK r \in DOMAIN run : gen > run[r].gen /\ run' = [run EXCEPT ![r].gen = gen]
    BY <1>3, RunOfIsOne DEF ClaimLater
  <2>2. /\ DOMAIN run' = DOMAIN run
        /\ \A q \in DOMAIN run : q # r => run'[q] = run[q]
        /\ run'[r].gen = gen /\ run'[r].offset = run[r].offset
        /\ run'[r].state = run[r].state /\ run'[r].usage = run[r].usage
        /\ run'[r].receipt = run[r].receipt
    BY <1>gens, <2>1 DEF RunRow
  <2>3. \A b \in DOMAIN agent : b \in DOMAIN agent' /\ agent'[b].gen >= agent[b].gen
    BY <1>3, <1>gens, <1>type, GenerationsGrow DEF ClaimLater
  <2>4. \A q \in DOMAIN run : run'[q].gen >= run[q].gen
    BY <1>gens, <2>1, <2>2
  <2>5. \A q \in DOMAIN run : RunIsOwners(q)
    BY <2>2, RunLeftAlone
  <2> QED BY <1>3, <2>2, <2>3, <2>4, <2>5, TablesLeftAlone DEF LateOwnerStep
<1>4. ASSUME NEW a \in Agents, NEW k \in Keys, NEW p \in Policies, NEW state, NEW calls,
             ImportRun(k, a, p, state, calls)
      PROVE  LateOwnerStep
  <2>1. PICK r \in Runs \ DOMAIN run :
          /\ run' = Put(run, r, NewRun(k, a, state, 0))
          /\ interaction' =
               [id \in DOMAIN interaction \cup ({r} \X calls) |->
                  IF id \in DOMAIN interaction THEN interaction[id]
                  ELSE [state |-> "pending", result |-> FALSE, delivered |-> FALSE,
                        acknowledged |-> FALSE, gen |-> 0]]
    BY <1>4 DEF ImportRun
  <2>2. /\ r \in DOMAIN run' /\ run'[r].gen = 0
        /\ \A q \in DOMAIN run : q \in DOMAIN run' /\ run'[q] = run[q]
    BY <2>1 DEF Put, NewRun
  <2>3. \A b \in DOMAIN agent : b \in DOMAIN agent' /\ agent'[b] = agent[b]
    BY <1>4 DEF ImportRun, Put
  <2>4. \A q \in DOMAIN run : run'[q].gen >= run[q].gen /\ RunIsOwners(q)
    BY <1>gens, <2>2, RunLeftAlone
  <2>5. ASSUME NEW id \in DOMAIN interaction' PROVE CallIsOwners(id)
    <3>1. CASE id \in DOMAIN interaction
      BY <2>1, <3>1 DEF CallIsOwners
    <3>2. CASE id \notin DOMAIN interaction
      <4>1. id[1] = r /\ interaction'[id].gen = 0
        BY <2>1, <3>2
      <4> QED BY <2>2, <4>1 DEF CallIsOwners
    <3> QED BY <3>1, <3>2
  <2>6. UNCHANGED receipt
    BY <1>4 DEF ImportRun
  <2> QED BY <1>gens, <2>2, <2>3, <2>4, <2>5, <2>6, TablesLeftAlone DEF LateOwnerStep
<1>5. ASSUME NEW r \in Runs, NEW gen \in Generations, PersistObserveOffset(r, gen)
      PROVE  LateOwnerStep
  <2>1. /\ r \in DOMAIN run /\ run[r].gen = gen /\ UNCHANGED <<agent, interaction, receipt>>
        /\ run' = [run EXCEPT ![r].offset = gen]
    BY <1>5 DEF PersistObserveOffset, Owner
  <2>2. /\ DOMAIN run' = DOMAIN run
        /\ \A q \in DOMAIN run : q # r => run'[q] = run[q]
        /\ run'[r].gen = run[r].gen /\ run'[r].offset = gen
        /\ run'[r].state = run[r].state /\ run'[r].usage = run[r].usage
        /\ run'[r].receipt = run[r].receipt
    BY <1>gens, <2>1 DEF RunRow
  <2>3. RunIsOwners(r)
    BY <2>1, <2>2 DEF RunIsOwners, OutcomeOf
  <2>4. \A q \in DOMAIN run : run'[q].gen >= run[q].gen /\ RunIsOwners(q)
    BY <1>gens, <2>2, <2>3, RunLeftAlone
  <2> QED BY <1>gens, <2>1, <2>2, <2>4, TablesLeftAlone DEF LateOwnerStep
<1>6. ASSUME NEW r \in Runs, NEW gen, NEW t, NEW state, NEW result,
             RecordInteractionDigests(r, gen, t, state, result)
      PROVE  LateOwnerStep
  <2>1. /\ r \in DOMAIN run /\ run[r].gen = gen /\ UNCHANGED <<agent, run, receipt>>
        /\ interaction' = Put(interaction, <<r, t>>,
                              MergedCall(<<r, t>>, gen, state, result))
    BY <1>6 DEF RecordInteractionDigests, Owner
  <2>2. ASSUME NEW id \in DOMAIN interaction' PROVE CallIsOwners(id)
    <3>1. CASE id = <<r, t>>
      <4>1. interaction'[id].gen = gen /\ id[1] = r
        BY <2>1, <3>1 DEF Put, MergedCall
      <4> QED BY <2>1, <4>1 DEF CallIsOwners
    <3>2. CASE id # <<r, t>>
      BY <2>1, <3>2 DEF Put, CallIsOwners
    <3> QED BY <3>1, <3>2
  <2> QED BY <1>gens, <2>1, <2>2, TablesLeftAlone, RunLeftAlone DEF LateOwnerStep
<1>7. ASSUME NEW r \in Runs, NEW gen, NEW c, NEW state, NEW usage,
             FinalizeRunWithReceipt(r, gen, c, state, usage)
      PROVE  LateOwnerStep
  <2>1. /\ r \in DOMAIN run /\ run[r].gen = gen /\ UNCHANGED <<agent, interaction>>
        /\ run' = [run EXCEPT ![r].state = state, ![r].usage = usage, ![r].receipt = c]
    BY <1>7 DEF FinalizeRunWithReceipt, StoreOutcome, Owner
  <2>2. /\ DOMAIN run' = DOMAIN run
        /\ \A q \in DOMAIN run : q # r => run'[q] = run[q]
        /\ run'[r].gen = gen /\ run'[r].offset = run[r].offset /\ run'[r].receipt = c
    BY <1>gens, <2>1 DEF RunRow
  <2>3. /\ \A d \in DOMAIN receipt' : d # c => d \in DOMAIN receipt /\ receipt'[d] = receipt[d]
        /\ receipt'[c].gen = gen /\ receipt'[c].run = r
    BY <1>7 DEF FinalizeRunWithReceipt, StoreOutcome, Put
  <2>4. RunIsOwners(r)
    BY <2>1, <2>2, <2>3 DEF RunIsOwners
  <2>5. \A q \in DOMAIN run : run'[q].gen >= run[q].gen /\ RunIsOwners(q)
    BY <1>gens, <2>1, <2>2, <2>4, RunLeftAlone
  <2>6. \A d \in DOMAIN receipt' : ReceiptIsOwners(d)
    BY <2>1, <2>2, <2>3 DEF ReceiptIsOwners
  <2> QED BY <1>gens, <2>1, <2>2, <2>5, <2>6, TablesLeftAlone DEF LateOwnerStep
<1>8. ASSUME UNCHANGED vars PROVE LateOwnerStep
  BY <1>8, <1>gens, TablesLeftAlone, RunLeftAlone DEF vars, LateOwnerStep
<1> QED BY <1>1, <1>2, <1>3, <1>4, <1>5, <1>6, <1>7, <1>8
  DEF Next, ClaimRun, ImportLineage, ImportOrdinary

\* A late owner changes nothing: no step writes an offset, an outcome, a tool call
\* or a receipt but in the generation its run is in, which no step takes back.
THEOREM LateOwnersAreFenced == Spec => LateOwnerWritesNothing
<1>1. LedgerInv /\ [Next]_vars => [LateOwnerStep]_vars
  BY LateOwnerStepHolds
<1>2. LateOwnerWritesNothing <=> [][LateOwnerStep]_vars
  BY DEF LateOwnerWritesNothing, LateOwnerStep
<1> QED BY <1>1, <1>2, LedgerInvariant, PTL DEF Spec

\* What was written in the generation of its run stays behind the run, as no owner
\* gives way to an earlier one.
LEMMA WritesStayFenced ==
  LedgerInv /\ WritesAreFenced /\ [Next]_vars => WritesAreFenced'
<1> SUFFICES ASSUME LedgerInv, WritesAreFenced, [Next]_vars PROVE WritesAreFenced'
  OBVIOUS
<1>1. LateOwnerStep
  BY LateOwnerStepHolds
<1>2. TypeOK /\ TypeOK'
  BY LedgerNextType DEF LedgerInv
<1>3. /\ \A r \in DOMAIN run : run[r].gen \in Nat
      /\ \A r \in DOMAIN run' : run'[r].gen \in Nat
      /\ \A id \in DOMAIN interaction : interaction[id].gen \in Nat
      /\ \A c \in DOMAIN receipt : receipt[c].gen \in Nat
  BY <1>2 DEF TypeOK, RunRow, CallRow, ReceiptRow
<1>4. \A r \in DOMAIN run : r \in DOMAIN run' /\ run'[r].gen >= run[r].gen
  BY <1>1 DEF LateOwnerStep
<1>5. ASSUME NEW id \in DOMAIN interaction'
      PROVE  id[1] \in DOMAIN run' /\ interaction'[id].gen <= run'[id[1]].gen
  <2>1. CASE id \in DOMAIN interaction /\ interaction'[id] = interaction[id]
    <3>1. id[1] \in DOMAIN run /\ interaction[id].gen <= run[id[1]].gen
      BY <2>1 DEF WritesAreFenced
    <3> QED BY <1>3, <1>4, <2>1, <3>1
  <2>2. CASE id[1] \in DOMAIN run' /\ interaction'[id].gen = run'[id[1]].gen
    BY <1>3, <2>2
  <2> QED BY <1>1, <2>1, <2>2 DEF LateOwnerStep, CallIsOwners
<1>6. ASSUME NEW c \in DOMAIN receipt'
      PROVE  receipt'[c].run \in DOMAIN run' /\ receipt'[c].gen <= run'[receipt'[c].run].gen
  <2>1. CASE c \in DOMAIN receipt /\ receipt'[c] = receipt[c]
    <3>1. receipt[c].run \in DOMAIN run /\ receipt[c].gen <= run[receipt[c].run].gen
      BY <2>1 DEF WritesAreFenced
    <3> QED BY <1>3, <1>4, <2>1, <3>1
  <2>2. CASE receipt'[c].run \in DOMAIN run' /\ receipt'[c].gen = run'[receipt'[c].run].gen
    BY <1>3, <2>2
  <2> QED BY <1>1, <2>1, <2>2 DEF LateOwnerStep, ReceiptIsOwners
<1> QED BY <1>5, <1>6 DEF WritesAreFenced

\* No run is ahead of the agent that fences it, and no offset, tool call or receipt
\* was written by a later owner than the run has.
THEOREM AgentIsAheadOfItsRuns == Spec => []AgentFencesRuns
<1>1. Init => WritesAreFenced
  BY DEF Init, Empty, WritesAreFenced
<1>2. LedgerInv /\ WritesAreFenced => AgentFencesRuns
  BY DEF LedgerInv, AgentFencesRuns
<1> QED BY <1>1, <1>2, WritesStayFenced, LedgerInvariant, PTL DEF Spec

\* What one step may do to the recorded tool calls.
CallHistoryStep ==
  \A id \in DOMAIN interaction :
    /\ id \in DOMAIN interaction'
    /\ interaction[id].result => interaction'[id].result
    /\ interaction[id].delivered => interaction'[id].delivered
    /\ interaction[id].acknowledged => interaction'[id].acknowledged

\* A recorded result, delivery or acknowledgement outlives every later record of
\* the same call.
THEOREM CallHistoryOutlivesRetries == Spec => CallHistoryIsKept
<1>1. [Next]_vars => [CallHistoryStep]_vars
  <2> SUFFICES ASSUME [Next]_vars PROVE CallHistoryStep
    OBVIOUS
  <2>1. ASSUME NEW r \in Runs, NEW gen, NEW t, NEW state, NEW result \in BOOLEAN,
               RecordInteractionDigests(r, gen, t, state, result)
        PROVE  CallHistoryStep
    BY <2>1 DEF RecordInteractionDigests, Put, MergedCall, CallHistoryStep
  <2>2. ASSUME NEW a \in Agents, NEW k \in Keys, NEW p \in Policies, NEW state, NEW calls,
               ImportRun(k, a, p, state, calls)
        PROVE  CallHistoryStep
    BY <2>2 DEF ImportRun, CallHistoryStep
  <2>3. UNCHANGED interaction => CallHistoryStep
    BY DEF CallHistoryStep
  <2> QED BY <2>1, <2>2, <2>3, ZenonT(30)
    DEF Next, vars, UpsertAgent, ClaimRun, ImportLineage, ImportOrdinary,
        PersistObserveOffset, FinalizeRunWithReceipt
<1>2. CallHistoryIsKept <=> [][CallHistoryStep]_vars
  BY DEF CallHistoryIsKept, CallHistoryStep
<1> QED BY <1>1, <1>2, PTL DEF Spec

-----------------------------------------------------------------------------
(* The ledger implements Settlement *)

\* What Settlement says of one logical request in a state of the ledger.
LEMMA OutcomeOfKey ==
  ASSUME NEW k \in Keys
  PROVE  /\ outcome[k] = IF RunsOf(k) = {} THEN "none"
                         ELSE IF run[RunOf(k)].receipt = NoReceipt THEN "open"
                         ELSE run[RunOf(k)].state
         /\ receiptOf[k] = IF RunsOf(k) = {} THEN NoReceipt ELSE run[RunOf(k)].receipt
  BY DEF outcome, receiptOf

\* The key of a run finds that run.
LEMMA RunOfItsKey ==
  ASSUME OneRunPerKey, NEW r \in DOMAIN run
  PROVE  RunsOf(run[r].key) # {} /\ RunOf(run[r].key) = r
<1>1. RunsOf(run[r].key) # {}
  BY DEF RunsOf
<1> QED BY <1>1, RunOfIsOne DEF OneRunPerKey

\* A step that keeps the key, state and receipt of every run says nothing new.
LEMMA QuietLedgerStep ==
  ASSUME DOMAIN run' = DOMAIN run,
         \A r \in DOMAIN run :
           /\ run'[r].key = run[r].key /\ run'[r].state = run[r].state
           /\ run'[r].receipt = run[r].receipt
  PROVE  UNCHANGED <<outcome, receiptOf>>
<1>1. ASSUME NEW k \in Keys PROVE RunsOf(k)' = RunsOf(k)
  BY DEF RunsOf
<1>2. ASSUME NEW k \in Keys PROVE RunOf(k)' = RunOf(k)
  BY <1>1 DEF RunOf
<1>3. ASSUME NEW k \in Keys, RunsOf(k) # {}
      PROVE  /\ run'[RunOf(k)].receipt = run[RunOf(k)].receipt
             /\ run'[RunOf(k)].state = run[RunOf(k)].state
  BY <1>3, RunOfIsOne
<1>4. outcome' = outcome
  BY <1>1, <1>2, <1>3 DEF outcome
<1>5. receiptOf' = receiptOf
  BY <1>1, <1>2, <1>3 DEF receiptOf
<1> QED BY <1>4, <1>5

\* A claim or an import of a key nobody claimed opens that key.
LEMMA NewRunOpens ==
  ASSUME NEW k \in Keys, NEW r \in Runs \ DOMAIN run, NEW a, NEW state, NEW gen,
         RunsOf(k) = {}, run' = Put(run, r, NewRun(k, a, state, gen))
  PROVE  Settled!Open(k)
<1>1. /\ DOMAIN run' = DOMAIN run \cup {r}
      /\ \A q \in DOMAIN run : run'[q] = run[q]
      /\ run'[r].key = k /\ run'[r].receipt = NoReceipt
  BY DEF Put, NewRun
<1>2. RunsOf(k)' = {r}
  BY <1>1 DEF RunsOf
<1>3. RunOf(k)' = r
  BY <1>2 DEF RunOf
<1>4. ASSUME NEW j \in Keys, j # k
      PROVE  RunsOf(j)' = RunsOf(j) /\ RunOf(j)' = RunOf(j)
  <2>1. RunsOf(j)' = RunsOf(j)
    BY <1>1, <1>4 DEF RunsOf
  <2> QED BY <2>1 DEF RunOf
<1>5. ASSUME NEW j \in Keys, j # k, RunsOf(j) # {}
      PROVE  run'[RunOf(j)] = run[RunOf(j)]
  BY <1>1, <1>5, RunOfIsOne
<1>6. outcome[k] = "none"
  BY OutcomeOfKey
<1>7. outcome' = [outcome EXCEPT ![k] = "open"]
  BY <1>1, <1>2, <1>3, <1>4, <1>5 DEF outcome
<1>8. receiptOf' = receiptOf
  BY <1>1, <1>2, <1>3, <1>4, <1>5 DEF receiptOf
<1> QED BY <1>6, <1>7, <1>8 DEF Settled!Open

\* A finalisation settles the key of its run with a receipt of its own.
LEMMA FinalizeSettles ==
  ASSUME LedgerInv, NEW r \in Runs, NEW gen, NEW c \in Receipts,
         NEW state \in Terminal, NEW usage,
         FinalizeRunWithReceipt(r, gen, c, state, usage)
  PROVE  Settled!Settle(run[r].key, state, c) /\ run[r].key \in Keys
<1> DEFINE k == run[r].key
<1>1. /\ r \in DOMAIN run /\ ReceiptUnused(r, c)
      /\ run' = [run EXCEPT ![r].state = state, ![r].usage = usage, ![r].receipt = c]
  BY DEF FinalizeRunWithReceipt, StoreOutcome, Owner
<1>2. run[r] \in RunRow /\ k \in Keys
  BY <1>1 DEF LedgerInv, TypeOK, RunRow
<1>3. /\ DOMAIN run' = DOMAIN run
      /\ \A q \in DOMAIN run : q # r => run'[q] = run[q]
      /\ run'[r].state = state /\ run'[r].receipt = c /\ run'[r].key = k
  BY <1>1, <1>2 DEF RunRow
<1>4. RunsOf(k) # {} /\ RunOf(k) = r
  BY <1>1, RunOfItsKey DEF LedgerInv
<1>5. ASSUME NEW j \in Keys PROVE RunsOf(j)' = RunsOf(j) /\ RunOf(j)' = RunOf(j)
  <2>1. RunsOf(j)' = RunsOf(j)
    BY <1>3 DEF RunsOf
  <2> QED BY <2>1 DEF RunOf
<1>6. ASSUME NEW j \in Keys, j # k, RunsOf(j) # {}
      PROVE  run'[RunOf(j)] = run[RunOf(j)]
  BY <1>3, <1>6, RunOfIsOne
<1>7. outcome[k] = "open"
  BY <1>1, <1>2, <1>4, OutcomeOfKey DEF ReceiptUnused
<1>8. ASSUME NEW j \in Keys PROVE receiptOf[j] # c
  <2>1. CASE RunsOf(j) = {} \/ run[RunOf(j)].receipt = NoReceipt
    BY <2>1, OutcomeOfKey, NoReceiptAssumption
  <2>2. CASE RunsOf(j) # {} /\ run[RunOf(j)].receipt # NoReceipt
    <3>1. run[RunOf(j)].receipt \in DOMAIN receipt
      BY <2>2, RunOfIsOne DEF LedgerInv, ReceiptsMatchRuns
    <3> QED BY <1>1, <2>2, <3>1, OutcomeOfKey DEF ReceiptUnused
  <2> QED BY <2>1, <2>2
<1>9. c # NoReceipt
  BY NoReceiptAssumption
<1>10. outcome' = [outcome EXCEPT ![k] = state]
  BY <1>2, <1>3, <1>4, <1>5, <1>6, <1>9 DEF outcome
<1>11. receiptOf' = [receiptOf EXCEPT ![k] = c]
  BY <1>2, <1>3, <1>4, <1>5, <1>6 DEF receiptOf
<1> QED BY <1>2, <1>7, <1>8, <1>10, <1>11 DEF Settled!Settle

\* The ledger implements the settlement of logical requests: a request is opened
\* once and settled once, with one outcome and a receipt no other request has.
THEOREM LedgerSettles == Spec => SettlementSpec
<1>1. Init => Settled!Init
  BY DEF Init, Empty, Settled!Init, outcome, receiptOf, RunsOf
<1>2. LedgerInv /\ [Next]_vars => [Settled!Next]_<<outcome, receiptOf>>
  <2> SUFFICES ASSUME LedgerInv, [Next]_vars
      PROVE  Settled!Next \/ UNCHANGED <<outcome, receiptOf>>
    OBVIOUS
  <2>rows. \A r \in DOMAIN run : run[r] \in RunRow
    BY DEF LedgerInv, TypeOK
  <2>1. ASSUME NEW a \in Agents, NEW p \in Policies, UpsertAgent(a, p)
        PROVE  UNCHANGED <<outcome, receiptOf>>
    BY <2>1, QuietLedgerStep DEF UpsertAgent
  <2>2. ASSUME NEW a \in Agents, NEW k \in Keys, NEW gen, ClaimNew(a, k, gen)
        PROVE  Settled!Next
    <3>1. Settled!Open(k)
      BY <2>2, NewRunOpens DEF ClaimNew
    <3> QED BY <3>1 DEF Settled!Next
  <2>3. ASSUME NEW a \in Agents, NEW k \in Keys, NEW gen, ClaimLater(a, k, gen)
        PROVE  UNCHANGED <<outcome, receiptOf>>
    <3>1. PICK r \in DOMAIN run : run' = [run EXCEPT ![r].gen = gen]
      BY <2>3, RunOfIsOne DEF ClaimLater
    <3>2. /\ DOMAIN run' = DOMAIN run
          /\ \A q \in DOMAIN run :
               /\ run'[q].key = run[q].key /\ run'[q].state = run[q].state
               /\ run'[q].receipt = run[q].receipt
      BY <2>rows, <3>1 DEF RunRow
    <3> QED BY <3>2, QuietLedgerStep
  <2>4. ASSUME NEW a \in Agents, NEW k \in Keys, NEW p \in Policies, NEW state,
               NEW calls, ImportRun(k, a, p, state, calls)
        PROVE  Settled!Next
    <3>1. Settled!Open(k)
      BY <2>4, NewRunOpens DEF ImportRun
    <3> QED BY <3>1 DEF Settled!Next
  <2>5. ASSUME NEW r \in Runs, NEW gen, PersistObserveOffset(r, gen)
        PROVE  UNCHANGED <<outcome, receiptOf>>
    <3>1. /\ DOMAIN run' = DOMAIN run
          /\ \A q \in DOMAIN run :
               /\ run'[q].key = run[q].key /\ run'[q].state = run[q].state
               /\ run'[q].receipt = run[q].receipt
      BY <2>5, <2>rows DEF PersistObserveOffset, Owner, RunRow
    <3> QED BY <3>1, QuietLedgerStep
  <2>6. ASSUME NEW r \in Runs, NEW gen, NEW t, NEW state, NEW result,
               RecordInteractionDigests(r, gen, t, state, result)
        PROVE  UNCHANGED <<outcome, receiptOf>>
    BY <2>6, QuietLedgerStep DEF RecordInteractionDigests
  <2>7. ASSUME NEW r \in Runs, NEW gen, NEW c \in Receipts, NEW state \in Terminal,
               NEW usage, FinalizeRunWithReceipt(r, gen, c, state, usage)
        PROVE  Settled!Next
    BY <2>7, FinalizeSettles DEF Settled!Next, Settled!Outcome, Terminal
  <2>8. ASSUME UNCHANGED vars PROVE UNCHANGED <<outcome, receiptOf>>
    BY <2>8, QuietLedgerStep DEF vars
  <2> QED BY <2>1, <2>2, <2>3, <2>4, <2>5, <2>6, <2>7, <2>8
    DEF Next, ClaimRun, ImportLineage, ImportOrdinary
<1> QED BY <1>1, <1>2, LedgerInvariant, PTL DEF Spec, SettlementSpec, Settled!Spec
=============================================================================
