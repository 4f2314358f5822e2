------------------------ MODULE OrdinaryTurns_proofs ------------------------
(***************************************************************************)
(* Theorems about ordinary turns, for every set of turns, keys and         *)
(* requests and any number of sessions and restarts.                       *)
(***************************************************************************)
EXTENDS OrdinaryTurns, FiniteSetTheorems, TLAPS

-----------------------------------------------------------------------------
(* The order of the journal *)

Distinct(s) == \A i, j \in 1 .. Len(s) : s[i] = s[j] => i = j
Occurs(s, t) == \E i \in 1 .. Len(s) : s[i] = t
Before(s, p, u) == \E i, j \in 1 .. Len(s) : i < j /\ s[i] = p /\ s[j] = u

\* Without takes one turn out of the order and leaves the others in theirs.
LEMMA WithoutFacts ==
  ASSUME order \in Seq(Turns), Distinct(order), NEW t \in Turns
  PROVE  /\ Without(t) \in Seq(Turns) /\ Distinct(Without(t)) /\ ~Occurs(Without(t), t)
         /\ \A u \in Turns \ {t} : Occurs(Without(t), u) <=> Occurs(order, u)
         /\ \A p, u \in Turns \ {t} : Before(order, p, u) => Before(Without(t), p, u)
<1>1. CASE ~Occurs(order, t)
  BY <1>1 DEF Occurs, Without
<1>2. CASE Occurs(order, t)
  <2> DEFINE n == Len(order)
             k == CHOOSE i \in 1 .. n : order[i] = t
             w == [i \in 1 .. n - 1 |-> order[IF i < k THEN i ELSE i + 1]]
  <2>1. n \in Nat /\ k \in 1 .. n /\ order[k] = t
    BY <1>2 DEF Occurs
  <2>2. Without(t) = w
    BY <1>2 DEF Occurs, Without
  <2>3. n - 1 \in Nat /\ \A i \in 1 .. n : order[i] \in Turns
    BY <2>1
  <2>4. \A i \in 1 .. n - 1 : w[i] = (IF i < k THEN order[i] ELSE order[i + 1]) /\ w[i] \in Turns
    BY <2>1, <2>3
  <2>5. w \in Seq(Turns) /\ Len(w) = n - 1
    BY <2>3, <2>4
  <2> HIDE DEF n, k, w
  <2>6. Distinct(w) /\ ~Occurs(w, t)
    <3>1. \A i, j \in 1 .. n : order[i] = order[j] => i = j
      BY DEF Distinct, n
    <3>2. ASSUME NEW i \in 1 .. n - 1
          PROVE  \E x \in 1 .. n : w[i] = order[x] /\ x # k /\ i = (IF x < k THEN x ELSE x - 1)
      <4>1. i \in 1 .. n /\ i + 1 \in 1 .. n /\ i + 1 - 1 = i
        BY <2>1
      <4> QED BY <4>1, <2>1, <2>4
    <3>3. ASSUME NEW i \in 1 .. n - 1 PROVE w[i] # t
      BY <3>1, <3>2, <2>1
    <3>4. ASSUME NEW i \in 1 .. n - 1, NEW j \in 1 .. n - 1, w[i] = w[j] PROVE i = j
      <4> PICK x \in 1 .. n : w[i] = order[x] /\ x # k /\ i = (IF x < k THEN x ELSE x - 1)
        BY <3>2
      <4> PICK y \in 1 .. n : w[j] = order[y] /\ y # k /\ j = (IF y < k THEN y ELSE y - 1)
        BY <3>2
      <4> QED BY <3>1, <3>4
    <3> QED BY <3>3, <3>4, <2>5 DEF Distinct, Occurs
  <2>7. ASSUME NEW u \in Turns \ {t} PROVE Occurs(w, u) <=> Occurs(order, u)
    <3>1. ASSUME NEW i \in 1 .. n - 1, w[i] = u PROVE \E j \in 1 .. n : order[j] = u
      <4>1. i \in 1 .. n /\ i + 1 \in 1 .. n
        BY <2>1
      <4> QED BY <3>1, <4>1, <2>4
    <3>2. ASSUME NEW i \in 1 .. n, order[i] = u PROVE \E j \in 1 .. n - 1 : w[j] = u
      <4>1. CASE i < k
        BY <4>1, <3>2, <2>1, <2>4
      <4>2. CASE i > k
        <5>1. i - 1 \in 1 .. n - 1 /\ ~(i - 1 < k) /\ i - 1 + 1 = i
          BY <4>2, <2>1
        <5> QED BY <5>1, <3>2, <2>4
      <4> QED BY <4>1, <4>2, <3>2, <2>1
    <3> QED BY <3>1, <3>2, <2>5 DEF Occurs, n
  <2>8. ASSUME NEW p \in Turns \ {t}, NEW u \in Turns \ {t}, Before(order, p, u)
        PROVE  Before(w, p, u)
    <3> PICK i, j \in 1 .. n : i < j /\ order[i] = p /\ order[j] = u
      BY <2>8 DEF Before, n
    <3> DEFINE fi == IF i < k THEN i ELSE i - 1
               fj == IF j < k THEN j ELSE j - 1
    <3>1. i # k /\ j # k
      BY <2>1
    <3>2. fi \in 1 .. n - 1 /\ fj \in 1 .. n - 1 /\ fi < fj
      BY <3>1, <2>1
    <3>3. w[fi] = p
      <4>1. CASE i < k
        BY <4>1, <3>2, <2>4
      <4>2. CASE i > k
        <5>1. fi = i - 1 /\ ~(i - 1 < k) /\ i - 1 + 1 = i
          BY <4>2, <2>1
        <5> QED BY <5>1, <3>2, <2>4
      <4> QED BY <4>1, <4>2, <3>1, <2>1
    <3>4. w[fj] = u
      <4>1. CASE j < k
        BY <4>1, <3>2, <2>4
      <4>2. CASE j > k
        <5>1. fj = j - 1 /\ ~(j - 1 < k) /\ j - 1 + 1 = j
          BY <4>2, <2>1
        <5> QED BY <5>1, <3>2, <2>4
      <4> QED BY <4>1, <4>2, <3>1, <2>1
    <3> HIDE DEF fi, fj
    <3> QED BY <3>2, <3>3, <3>4, <2>5 DEF Before
  <2> QED BY <2>2, <2>5, <2>6, <2>7, <2>8
<1> QED BY <1>1, <1>2

\* A turn that is recorded anew goes last.
LEMMA AppendFacts ==
  ASSUME NEW s \in Seq(Turns), Distinct(s), NEW t \in Turns, ~Occurs(s, t)
  PROVE  /\ Append(s, t) \in Seq(Turns) /\ Distinct(Append(s, t))
         /\ \A u \in Turns : Occurs(Append(s, t), u) <=> (u = t \/ Occurs(s, u))
         /\ \A p, u \in Turns : Before(s, p, u) => Before(Append(s, t), p, u)
         /\ \A p \in Turns : Occurs(s, p) => Before(Append(s, t), p, t)
<1> DEFINE a == Append(s, t)
           n == Len(s)
<1>1. a \in Seq(Turns) /\ n \in Nat /\ Len(a) = n + 1 /\ a[n + 1] = t
      /\ \A i \in 1 .. n : a[i] = s[i]
  OBVIOUS
<1>2. 1 .. n + 1 = (1 .. n) \cup {n + 1}
  BY <1>1
<1> HIDE DEF a, n
<1>3. Distinct(a)
  BY <1>1, <1>2 DEF Distinct, Occurs, n
<1>4. \A u \in Turns : Occurs(a, u) <=> (u = t \/ Occurs(s, u))
  BY <1>1, <1>2 DEF Occurs, n
<1>5. ASSUME NEW p \in Turns, NEW u \in Turns, Before(s, p, u) PROVE Before(a, p, u)
  <2> PICK i, j \in 1 .. n : i < j /\ s[i] = p /\ s[j] = u
    BY <1>5 DEF Before, n
  <2> QED BY <1>1, <1>2 DEF Before
<1>6. ASSUME NEW p \in Turns, Occurs(s, p) PROVE Before(a, p, t)
  <2> PICK i \in 1 .. n : s[i] = p
    BY <1>6 DEF Occurs, n
  <2>1. i \in 1 .. n + 1 /\ n + 1 \in 1 .. n + 1 /\ i < n + 1
    BY <1>1
  <2> QED BY <2>1, <1>1 DEF Before
<1> QED BY <1>1, <1>3, <1>4, <1>5, <1>6 DEF a

-----------------------------------------------------------------------------
(* Types *)

Record  == [state : {"none", "running", "completed"}, agent : AgentIds,
            answer : Turns \cup {NoTurn}]
Session == [state : {"none", "creating", "running", "completed", "failed", "closed"},
            registered : BOOLEAN, agent : AgentIds, owner : Turns \cup {NoTurn}]
Request == [pc : Busy \cup Over, turn : Turns \cup {NoTurn},
            mode : {"none", "rebuild", "resume", "hinted"},
            sess : Sessions \cup {NoSession}, agent : AgentIds, got : Turns \cup {NoTurn}]

\* The turns of the order are the recorded ones, each once.
OrderInv ==
  /\ order \in Seq(Turns) /\ Distinct(order)
  /\ \A t \in Turns : Occurs(order, t) <=> journal[t].state # "none"

Typed ==
  /\ journal \in [Turns -> Record] /\ inflight \subseteq Turns
  /\ replay \in [Turns -> Turns \cup {NoTurn}]
  /\ sess \in [Sessions -> Session] /\ held \in [Sessions -> Keys \cup {Mixed}]
  /\ req \in [Requests -> Request]
  /\ restarts \in 0 .. MaxRestarts /\ survivors \subseteq Turns /\ strayed \subseteq Sessions
  /\ \A r \in Requests : req[r].pc \notin Over => req[r].turn \in Turns
  /\ \A r \in Requests : req[r].pc \in {"sending", "running"} => req[r].sess \in Sessions

TypeInv == Typed /\ OrderInv

\* There are as many places in the order as recorded turns.
LEMMA TypeInvGivesTypeOK == TypeInv => TypeOK
<1> SUFFICES ASSUME TypeInv PROVE TypeOK
  OBVIOUS
<1> DEFINE n == Len(order)
           f == [i \in 1 .. n |-> order[i]]
<1>1. n \in Nat /\ \A i \in 1 .. n : order[i] \in Turns
  BY DEF TypeInv, OrderInv
<1>2. f \in [1 .. n -> Recorded]
  BY <1>1 DEF TypeInv, OrderInv, Recorded, Occurs
<1>3. \A i, j \in 1 .. n : f[i] = f[j] => i = j
  BY DEF TypeInv, OrderInv, Distinct
<1>4. \A t \in Recorded : \E i \in 1 .. n : f[i] = t
  BY DEF TypeInv, OrderInv, Recorded, Occurs
<1>5. ExistsBijection(1 .. n, Recorded)
  <2>1. f \in Bijection(1 .. n, Recorded)
    BY <1>2, <1>3, <1>4 DEF Bijection, Injection, Surjection, IsInjective
  <2> QED BY <2>1 DEF ExistsBijection
<1>6. Cardinality(Recorded) = n
  BY <1>1, <1>5, FS_CountingElements
<1> QED BY <1>6 DEF TypeInv, Typed, OrderInv, TypeOK, Record, Session, Request

\* A record that is written is the last of the order and moves no other one.
LEMMA UpsertKeeps ==
  ASSUME TypeInv, NEW t \in Turns, NEW rec \in Record, rec.state # "none", Upsert(t, rec)
  PROVE  /\ journal' \in [Turns -> Record] /\ OrderInv'
         /\ journal'[t] = rec /\ \A u \in Turns \ {t} : journal'[u] = journal[u]
         /\ \A p, u \in Turns \ {t} : Before(order, p, u) => Before(order', p, u)
         /\ \A p \in Turns \ {t} : journal[p].state # "none" => Before(order', p, t)
<1> DEFINE w == Without(t)
<1>1. order \in Seq(Turns) /\ Distinct(order) /\ journal \in [Turns -> Record]
  BY DEF TypeInv, OrderInv, Typed
<1>2. journal' \in [Turns -> Record] /\ journal'[t] = rec
      /\ \A u \in Turns \ {t} : journal'[u] = journal[u]
  BY <1>1 DEF Upsert
<1>3. /\ w \in Seq(Turns) /\ Distinct(w) /\ ~Occurs(w, t)
      /\ \A u \in Turns \ {t} : Occurs(w, u) <=> Occurs(order, u)
      /\ \A p, u \in Turns \ {t} : Before(order, p, u) => Before(w, p, u)
  BY <1>1, WithoutFacts
<1> HIDE DEF w
<1>4. /\ Append(w, t) \in Seq(Turns) /\ Distinct(Append(w, t))
      /\ \A u \in Turns : Occurs(Append(w, t), u) <=> (u = t \/ Occurs(w, u))
      /\ \A p, u \in Turns : Before(w, p, u) => Before(Append(w, t), p, u)
      /\ \A p \in Turns : Occurs(w, p) => Before(Append(w, t), p, t)
  BY <1>3, AppendFacts
<1>5. order' = Append(w, t)
  BY DEF Upsert, w
<1>6. \A u \in Turns : Occurs(order, u) <=> journal[u].state # "none"
  BY DEF TypeInv, OrderInv
<1>7. \A u \in Turns : Occurs(order', u) <=> journal'[u].state # "none"
  BY <1>2, <1>3, <1>4, <1>5, <1>6
<1>8. OrderInv'
  BY <1>4, <1>5, <1>7 DEF OrderInv
<1> QED BY <1>2, <1>3, <1>4, <1>5, <1>6, <1>8

LEMMA RemoveKeeps ==
  ASSUME TypeInv, NEW t \in Turns, Remove(t)
  PROVE  /\ journal' \in [Turns -> Record] /\ OrderInv'
         /\ journal'[t] = NoRecord /\ \A u \in Turns \ {t} : journal'[u] = journal[u]
         /\ \A p, u \in Turns \ {t} : Before(order, p, u) => Before(order', p, u)
<1>1. order \in Seq(Turns) /\ Distinct(order) /\ journal \in [Turns -> Record]
  BY DEF TypeInv, OrderInv, Typed
<1>2. NoRecord \in Record /\ NoRecord.state = "none"
  BY BoundAssumption DEF NoRecord, Record, AgentIds, NoAgent
<1>3. journal' \in [Turns -> Record] /\ journal'[t] = NoRecord
      /\ \A u \in Turns \ {t} : journal'[u] = journal[u]
  BY <1>1, <1>2 DEF Remove
<1>4. /\ order' \in Seq(Turns) /\ Distinct(order') /\ ~Occurs(order', t)
      /\ \A u \in Turns \ {t} : Occurs(order', u) <=> Occurs(order, u)
      /\ \A p, u \in Turns \ {t} : Before(order, p, u) => Before(order', p, u)
  BY <1>1, WithoutFacts DEF Remove
<1>5. \A u \in Turns : Occurs(order, u) <=> journal[u].state # "none"
  BY DEF TypeInv, OrderInv
<1> QED BY <1>2, <1>3, <1>4, <1>5 DEF OrderInv

LEMMA NoTypes ==
  /\ NoRecord \in Record /\ NoSess \in Session /\ NoRequest \in Request
  /\ NoAgent \in AgentIds /\ Sessions \subseteq AgentIds
BY BoundAssumption
   DEF NoRecord, NoSess, NoRequest, Record, Session, Request, AgentIds, Sessions, NoAgent,
       NoSession, Over, Busy

\* Requests that answer, share or fail, and requests that send.
LEMMA LeavesTyped ==
  ASSUME TypeInv, NEW r \in Requests, Leaves(r)
  PROVE  /\ req' \in [Requests -> Request]
         /\ req'[r] = NoRequest /\ \A q \in Requests \ {r} : req'[q] = req[q]
BY NoTypes DEF TypeInv, Typed, Leaves

LEMMA SendsTyped ==
  ASSUME TypeInv, NEW r \in Requests, NEW t \in Turns, NEW mode \in {"rebuild", "resume", "hinted"},
         NEW s \in Sessions, NEW a \in AgentIds, Sends(r, t, mode, s, a)
  PROVE  /\ req' \in [Requests -> Request]
         /\ req'[r] = [pc |-> "sending", turn |-> t, mode |-> mode, sess |-> s, agent |-> a,
                       got |-> NoTurn]
         /\ \A q \in Requests \ {r} : req'[q] = req[q]
BY DEF TypeInv, Typed, Sends, Request, Busy, Over

LEMMA InitTypeInv == Init => TypeInv
<1> SUFFICES ASSUME Init PROVE TypeInv
  OBVIOUS
<1>1. Typed
  BY NoTypes, BoundAssumption DEF Init, Typed, NoRequest, Over
<1>2. OrderInv
  BY DEF Init, OrderInv, Distinct, Occurs, NoRecord
<1> QED BY <1>1, <1>2 DEF TypeInv

ClaimedRecord(a) == [state |-> "running", agent |-> a, answer |-> NoTurn]

\* A claim writes a running record, a claim that fails leaves none.
LEMMA ClaimKeeps ==
  ASSUME TypeInv, NEW t \in Turns, NEW a \in AgentIds, Claim(t, a)
  PROVE  /\ journal' \in [Turns -> Record] /\ OrderInv'
         /\ journal'[t] = ClaimedRecord(a) /\ \A u \in Turns \ {t} : journal'[u] = journal[u]
         /\ \A p, u \in Turns \ {t} : Before(order, p, u) => Before(order', p, u)
         /\ \A p \in Turns \ {t} : journal[p].state # "none" => Before(order', p, t)
         /\ inflight' = inflight \cup {t} /\ inflight' \subseteq Turns /\ strayed' = strayed
<1>1. ClaimedRecord(a) \in Record /\ ClaimedRecord(a).state # "none"
  BY DEF ClaimedRecord, Record
<1>2. Upsert(t, ClaimedRecord(a))
  BY DEF Claim, ClaimedRecord
<1> QED BY <1>1, <1>2, UpsertKeeps DEF Claim, TypeInv, Typed

LEMMA DisclaimKeeps ==
  ASSUME TypeInv, NEW t \in Turns, Disclaim(t)
  PROVE  /\ journal' \in [Turns -> Record] /\ OrderInv'
         /\ journal'[t] = NoRecord /\ \A u \in Turns \ {t} : journal'[u] = journal[u]
         /\ \A p, u \in Turns \ {t} : Before(order, p, u) => Before(order', p, u)
         /\ strayed \subseteq strayed' /\ strayed' \subseteq Sessions
         /\ \A a \in Sessions : held[a] = After[t] => a \in strayed'
BY RemoveKeeps DEF Disclaim, TypeInv, Typed

\* What is recorded when a session with a replay owner ends a turn.
EndRecord(s, answer) == [state |-> "completed", agent |-> sess[s].agent, answer |-> answer]

LEMMA RememberKeeps ==
  ASSUME TypeInv, NEW s \in Sessions, NEW answer \in Turns, RememberOrdinaryCompletion(s, answer)
  PROVE  /\ journal' \in [Turns -> Record] /\ OrderInv'
         /\ replay' \in [Turns -> Turns \cup {NoTurn}]
         /\ \A u \in Turns : u # sess[s].owner => journal'[u] = journal[u] /\ replay'[u] = replay[u]
         /\ sess[s].owner \in Turns => /\ journal'[sess[s].owner] = EndRecord(s, answer)
                                       /\ replay'[sess[s].owner] = answer
         /\ \A p, u \in Turns : p # sess[s].owner /\ u # sess[s].owner /\ Before(order, p, u)
                                  => Before(order', p, u)
         /\ \A p \in Turns : p # sess[s].owner /\ sess[s].owner \in Turns /\ journal[p].state # "none"
                                  => Before(order', p, sess[s].owner)
<1> DEFINE t == sess[s].owner
<1>1. sess[s] \in Session /\ t \in Turns \cup {NoTurn}
  BY DEF TypeInv, Typed, Session
<1>2. CASE t = NoTurn
  <2>1. UNCHANGED <<journal, order, replay>>
    BY <1>2 DEF RememberOrdinaryCompletion
  <2> QED BY <1>2, <2>1, NoTurnAssumption DEF TypeInv, Typed, OrderInv
<1>3. CASE t \in Turns
  <2>1. Upsert(t, EndRecord(s, answer)) /\ replay' = [replay EXCEPT ![t] = answer]
    BY <1>3, NoTurnAssumption DEF RememberOrdinaryCompletion, EndRecord
  <2>2. EndRecord(s, answer) \in Record /\ EndRecord(s, answer).state # "none"
    BY <1>1 DEF EndRecord, Record, Session
  <2>3. /\ journal' \in [Turns -> Record] /\ OrderInv'
        /\ journal'[t] = EndRecord(s, answer) /\ \A u \in Turns \ {t} : journal'[u] = journal[u]
        /\ \A p, u \in Turns \ {t} : Before(order, p, u) => Before(order', p, u)
        /\ \A p \in Turns \ {t} : journal[p].state # "none" => Before(order', p, t)
    BY <1>3, <2>1, <2>2, UpsertKeeps
  <2>4. /\ replay' \in [Turns -> Turns \cup {NoTurn}] /\ replay'[t] = answer
        /\ \A u \in Turns \ {t} : replay'[u] = replay[u]
    BY <1>3, <2>1 DEF TypeInv, Typed
  <2> QED BY <1>3, <2>3, <2>4
<1> QED BY <1>1, <1>2, <1>3

-----------------------------------------------------------------------------
(* The steps, by what they do to the requests that send *)

Active(r) == req[r].pc \in {"sending", "running"}

\* A request is answered or waits, and nothing else changes.
QuietStep(r) ==
  /\ Free(r)
  /\ \/ Leaves(r)
     \/ \E t \in inflight : req' = [req EXCEPT ![r] = Given("joined", t, NoTurn)]
  /\ UNCHANGED <<journal, order, inflight, replay, sess, held, restarts, survivors, strayed>>

Claimable(r, t) == Free(r) /\ t \notin inflight /\ journal[t].state # "completed"

\* A claimed send on a session that is new or had completed.
ClaimStep(r, t, mode, s, a) ==
  /\ Claimable(r, t)
  /\ Claim(t, a) /\ Sends(r, t, mode, s, a)
  /\ \E new \in Session :
       /\ sess' = [sess EXCEPT ![s] = new]
       /\ new.state \in {"creating", "running"} /\ new.owner = t
       /\ \/ sess[s].state = "none" /\ new.agent = NoAgent
          \/ sess[s].state = "completed" /\ new.agent = sess[s].agent
  /\ \/ mode = "rebuild" /\ a = NoAgent /\ sess[s].state = "none"
     \/ /\ mode = "resume" /\ journal[t].state = "none" /\ Siblings(t) = {}
        /\ \E p \in Parents(t) : a = journal[p].agent
  /\ survivors' = survivors \ {t}
  /\ UNCHANGED <<replay, held, restarts>>

UndoneStep(r, t) ==
  /\ Claimable(r, t) /\ ClaimUndone(r, t)
  /\ \/ UNCHANGED sess
     \/ \E s \in Sessions : sess' = [sess EXCEPT ![s].owner = t] /\ sess[s].state = "completed"
  /\ survivors' = survivors \ {t}
  /\ UNCHANGED <<replay, held, restarts>>

HintedStep(r, t, s) ==
  /\ Free(r) /\ sess[s].state = "completed"
  /\ sess' = [sess EXCEPT ![s].state = "running"]
  /\ Sends(r, t, "hinted", s, sess[s].agent)
  /\ UNCHANGED <<journal, order, inflight, replay, held, restarts, survivors, strayed>>

RestartStep == \E stored \in SUBSET {r \in Requests : req[r].pc = "running"} : Restart(stored)

\* Next is one of these steps.
LEMMA NextCases ==
  ASSUME TypeInv, [Next]_vars
  PROVE  \/ \E r \in Requests : QuietStep(r) \/ Sent(r) \/ Finish(r) \/ Fail(r)
         \/ \E r \in Requests, t \in Turns, s \in Sessions :
              \/ ClaimStep(r, t, "rebuild", s, NoAgent)
              \/ \E a \in AgentIds : ClaimStep(r, t, "resume", s, a)
              \/ HintedStep(r, t, s)
         \/ \E r \in Requests, t \in Turns : UndoneStep(r, t)
         \/ \E s \in Sessions : ForgetSession(s)
         \/ Expire \/ RestartStep \/ UNCHANGED vars
<1> USE DEF TypeInv, Typed
<1>1. ASSUME NEW r \in Requests, NEW t \in Turns, Join(r, t) PROVE QuietStep(r)
  BY <1>1 DEF Join, QuietStep, Joins
<1>2. ASSUME NEW r \in Requests, NEW t \in Turns, Replay(r, t) \/ FailClosed(r, t) PROVE QuietStep(r)
  BY <1>2 DEF Replay, FailClosed, QuietStep
<1>3. ASSUME NEW r \in Requests, NEW t \in Turns, ResumeLive(r, t)
      PROVE  \/ \E s \in Sessions, a \in AgentIds : ClaimStep(r, t, "resume", s, a)
             \/ UndoneStep(r, t)
  <2>1. Claimable(r, t) /\ journal[t].state = "none" /\ Siblings(t) = {}
    BY <1>3 DEF ResumeLive, Resumes, Joins, Claimable
  <2> PICK p \in Parents(t), s \in Sessions :
         /\ IsSessionOf(s, journal[p].agent) /\ sess[s].state = "completed"
         /\ \/ /\ Claim(t, journal[p].agent)
               /\ sess' = [sess EXCEPT ![s].owner = t, ![s].state = "running"]
               /\ Sends(r, t, "resume", s, journal[p].agent)
            \/ /\ sess' = [sess EXCEPT ![s].owner = t]
               /\ ClaimUndone(r, t)
    BY <1>3 DEF ResumeLive
  <2>2. survivors' = survivors \ {t} /\ UNCHANGED <<replay, held, restarts>>
    BY <1>3 DEF ResumeLive
  <2>3. journal[p].agent \in AgentIds
    BY DEF Parents, Recorded, Record
  <2>4. CASE sess' = [sess EXCEPT ![s].owner = t] /\ ClaimUndone(r, t)
    BY <2>1, <2>2, <2>4 DEF UndoneStep
  <2>5. CASE /\ Claim(t, journal[p].agent)
             /\ sess' = [sess EXCEPT ![s].owner = t, ![s].state = "running"]
             /\ Sends(r, t, "resume", s, journal[p].agent)
    <3> DEFINE new == [sess[s] EXCEPT !.owner = t, !.state = "running"]
    <3>1. new \in Session /\ new.state = "running" /\ new.owner = t /\ new.agent = sess[s].agent
      BY DEF Session
    <3>2. sess' = [sess EXCEPT ![s] = new]
      BY <2>5
    <3> HIDE DEF new
    <3>3. ClaimStep(r, t, "resume", s, journal[p].agent)
      BY <2>1, <2>2, <2>5, <3>1, <3>2 DEF ClaimStep
    <3> QED BY <2>3, <3>3
  <2> QED BY <2>4, <2>5
<1>4. ASSUME NEW r \in Requests, NEW t \in Turns, ResumeStored(r, t)
      PROVE  \/ \E s \in Sessions, a \in AgentIds : ClaimStep(r, t, "resume", s, a)
             \/ UndoneStep(r, t)
  <2>1. Claimable(r, t) /\ journal[t].state = "none" /\ Siblings(t) = {}
    BY <1>4 DEF ResumeStored, Resumes, Joins, Claimable
  <2> DEFINE new == [state |-> "running", registered |-> TRUE, agent |-> NoAgent, owner |-> t]
  <2> PICK p \in Parents(t), s \in Fresh :
         \/ /\ Claim(t, journal[p].agent)
            /\ sess' = [sess EXCEPT ![s] = new]
            /\ Sends(r, t, "resume", s, journal[p].agent)
         \/ ClaimUndone(r, t) /\ UNCHANGED sess
    BY <1>4 DEF ResumeStored
  <2>2. survivors' = survivors \ {t} /\ UNCHANGED <<replay, held, restarts>>
    BY <1>4 DEF ResumeStored
  <2>3. journal[p].agent \in AgentIds /\ s \in Sessions /\ sess[s].state = "none"
    BY DEF Parents, Recorded, Record, Fresh
  <2>4. CASE ClaimUndone(r, t) /\ UNCHANGED sess
    BY <2>1, <2>2, <2>4 DEF UndoneStep
  <2>5. CASE /\ Claim(t, journal[p].agent)
             /\ sess' = [sess EXCEPT ![s] = new]
             /\ Sends(r, t, "resume", s, journal[p].agent)
    <3>1. new \in Session /\ new.state = "running" /\ new.owner = t /\ new.agent = NoAgent
      BY NoTypes DEF Session
    <3> HIDE DEF new
    <3>2. ClaimStep(r, t, "resume", s, journal[p].agent)
      BY <2>1, <2>2, <2>3, <2>5, <3>1 DEF ClaimStep
    <3> QED BY <2>3, <3>2
  <2> QED BY <2>4, <2>5
<1>5. ASSUME NEW r \in Requests, NEW t \in Turns, Rebuild(r, t)
      PROVE  \/ \E s \in Sessions : ClaimStep(r, t, "rebuild", s, NoAgent)
             \/ UndoneStep(r, t)
  <2>1. Claimable(r, t)
    BY <1>5 DEF Rebuild, Rebuilds, Reruns, Joins, Claimable
  <2> DEFINE new == [state |-> "creating", registered |-> TRUE, agent |-> NoAgent, owner |-> t]
  <2> PICK s \in Fresh :
         \/ /\ Claim(t, NoAgent)
            /\ sess' = [sess EXCEPT ![s] = new]
            /\ Sends(r, t, "rebuild", s, NoAgent)
         \/ ClaimUndone(r, t) /\ UNCHANGED sess
    BY <1>5 DEF Rebuild, StartTurn
  <2>2. survivors' = survivors \ {t} /\ UNCHANGED <<replay, held, restarts>>
    BY <1>5 DEF Rebuild, StartTurn
  <2>3. s \in Sessions /\ sess[s].state = "none"
    BY DEF Fresh
  <2>4. CASE ClaimUndone(r, t) /\ UNCHANGED sess
    BY <2>1, <2>2, <2>4 DEF UndoneStep
  <2>5. CASE /\ Claim(t, NoAgent)
             /\ sess' = [sess EXCEPT ![s] = new]
             /\ Sends(r, t, "rebuild", s, NoAgent)
    <3>1. new \in Session /\ new.state = "creating" /\ new.owner = t /\ new.agent = NoAgent
      BY NoTypes DEF Session
    <3> HIDE DEF new
    <3>2. ClaimStep(r, t, "rebuild", s, NoAgent)
      BY <2>1, <2>2, <2>3, <2>5, <3>1 DEF ClaimStep
    <3> QED BY <2>3, <3>2
  <2> QED BY <2>4, <2>5
<1>6. ASSUME NEW r \in Requests, NEW t \in Turns, NEW s \in Sessions, HintedFollowUp(r, t, s)
      PROVE  QuietStep(r) \/ HintedStep(r, t, s)
  BY <1>6 DEF HintedFollowUp, QuietStep, HintedStep
<1> QED BY <1>1, <1>2, <1>3, <1>4, <1>5, <1>6 DEF Next, RestartStep

\* Given what is set for each variable, the types are kept.
LEMMA TypedNext ==
  ASSUME TypeInv, OrderInv', journal' \in [Turns -> Record], inflight' \subseteq Turns,
         replay' \in [Turns -> Turns \cup {NoTurn}],
         sess' \in [Sessions -> Session], held' \in [Sessions -> Keys \cup {Mixed}],
         req' \in [Requests -> Request],
         restarts' \in 0 .. MaxRestarts, survivors' \subseteq Turns, strayed' \subseteq Sessions,
         \A r \in Requests : req'[r].pc \notin Over => req'[r].turn \in Turns,
         \A r \in Requests : req'[r].pc \in {"sending", "running"} => req'[r].sess \in Sessions
  PROVE  TypeInv'
BY DEF TypeInv, Typed

LEMMA ClaimEffect ==
  ASSUME TypeInv, NEW r \in Requests, NEW t \in Turns, NEW mode \in {"rebuild", "resume"},
         NEW s \in Sessions, NEW a \in AgentIds, ClaimStep(r, t, mode, s, a)
  PROVE  /\ TypeInv' /\ ~Active(r)
         /\ req'[r] = [pc |-> "sending", turn |-> t, mode |-> mode, sess |-> s, agent |-> a,
                       got |-> NoTurn]
         /\ \A q \in Requests \ {r} : req'[q] = req[q]
         /\ sess'[s].state \in {"creating", "running"} /\ sess'[s].owner = t
         /\ \/ sess[s].state = "none" /\ sess'[s].agent = NoAgent
            \/ sess[s].state = "completed" /\ sess'[s].agent = sess[s].agent
         /\ \A x \in Sessions \ {s} : sess'[x] = sess[x]
<1> PICK new \in Session :
       /\ sess' = [sess EXCEPT ![s] = new]
       /\ new.state \in {"creating", "running"} /\ new.owner = t
       /\ \/ sess[s].state = "none" /\ new.agent = NoAgent
          \/ sess[s].state = "completed" /\ new.agent = sess[s].agent
  BY DEF ClaimStep
<1>1. sess' \in [Sessions -> Session] /\ sess'[s] = new /\ \A x \in Sessions \ {s} : sess'[x] = sess[x]
  BY DEF TypeInv, Typed
<1>2. /\ req' \in [Requests -> Request]
      /\ req'[r] = [pc |-> "sending", turn |-> t, mode |-> mode, sess |-> s, agent |-> a,
                    got |-> NoTurn]
      /\ \A q \in Requests \ {r} : req'[q] = req[q]
  BY SendsTyped DEF ClaimStep
<1>3. ~Active(r)
  BY DEF ClaimStep, Claimable, Free, Over, Active
<1>4. Claim(t, a) /\ survivors' \subseteq survivors /\ UNCHANGED <<replay, held, restarts>>
  BY DEF ClaimStep
<1>5. journal' \in [Turns -> Record] /\ OrderInv' /\ inflight' \subseteq Turns /\ strayed' = strayed
  BY <1>4, ClaimKeeps
<1>6. /\ \A q \in Requests : req'[q].pc \notin Over => req'[q].turn \in Turns
      /\ \A q \in Requests : req'[q].pc \in {"sending", "running"} => req'[q].sess \in Sessions
  BY <1>2 DEF TypeInv, Typed
<1>7. TypeInv'
  BY <1>1, <1>2, <1>4, <1>5, <1>6, TypedNext DEF TypeInv, Typed
<1> QED BY <1>1, <1>2, <1>3, <1>7

LEMMA QuietEffect ==
  ASSUME TypeInv, NEW r \in Requests, QuietStep(r)
  PROVE  /\ TypeInv' /\ ~Active(r) /\ ~(Active(r)')
         /\ \A q \in Requests \ {r} : req'[q] = req[q]
         /\ req'[r].pc = "joined" => req'[r].turn \in inflight
         /\ req'[r].pc # "shared"
<1>1. UNCHANGED <<journal, order, inflight, replay, sess, held, restarts, survivors, strayed>>
  BY DEF QuietStep
<1>2. ~Active(r)
  BY DEF QuietStep, Free, Over, Active
<1>3. /\ req' \in [Requests -> Request] /\ \A q \in Requests \ {r} : req'[q] = req[q]
      /\ \/ req'[r].pc = "idle"
         \/ req'[r].pc = "joined" /\ req'[r].turn \in inflight
  <2>1. CASE Leaves(r)
    BY <2>1, LeavesTyped DEF NoRequest
  <2>2. CASE \E t \in inflight : req' = [req EXCEPT ![r] = Given("joined", t, NoTurn)]
    <3> PICK t \in inflight : req' = [req EXCEPT ![r] = Given("joined", t, NoTurn)]
      BY <2>2
    <3>1. Given("joined", t, NoTurn) \in Request /\ Given("joined", t, NoTurn).pc = "joined"
          /\ Given("joined", t, NoTurn).turn = t
      BY NoTypes DEF Given, NoRequest, Request, Busy, TypeInv, Typed
    <3> QED BY <3>1 DEF TypeInv, Typed
  <2> QED BY <2>1, <2>2 DEF QuietStep
<1>4. ~(Active(r)')
  BY <1>3 DEF Active
<1>5. /\ \A q \in Requests : req'[q].pc \notin Over => req'[q].turn \in Turns
      /\ \A q \in Requests : req'[q].pc \in {"sending", "running"} => req'[q].sess \in Sessions
  BY <1>3 DEF TypeInv, Typed, Over
<1>6. TypeInv'
  BY <1>1, <1>3, <1>5, TypedNext DEF TypeInv, Typed, OrderInv
<1> QED BY <1>2, <1>3, <1>4, <1>6

LEMMA UndoneEffect ==
  ASSUME TypeInv, NEW r \in Requests, NEW t \in Turns, UndoneStep(r, t)
  PROVE  /\ TypeInv' /\ ~Active(r) /\ req'[r] = NoRequest
         /\ \A q \in Requests \ {r} : req'[q] = req[q]
         /\ Disclaim(t) /\ inflight' = inflight /\ t \notin inflight
         /\ journal[t].state # "completed" /\ replay' = replay /\ held' = held
         /\ \A x \in Sessions : /\ sess'[x].state = sess[x].state /\ sess'[x].agent = sess[x].agent
                                /\ sess[x].state # "completed" => sess'[x].owner = sess[x].owner
<1>1. /\ ~Active(r) /\ Disclaim(t) /\ inflight' = inflight /\ t \notin inflight
      /\ journal[t].state # "completed" /\ UNCHANGED <<replay, held, restarts>>
      /\ Leaves(r) /\ survivors' \subseteq survivors
  BY DEF UndoneStep, Claimable, ClaimUndone, Free, Over, Active
<1>2. /\ req' \in [Requests -> Request] /\ req'[r] = NoRequest
      /\ \A q \in Requests \ {r} : req'[q] = req[q]
  BY <1>1, LeavesTyped
<1>3. journal' \in [Turns -> Record] /\ OrderInv' /\ strayed' \subseteq Sessions
  BY <1>1, DisclaimKeeps
<1>4. /\ sess' \in [Sessions -> Session]
      /\ \A x \in Sessions : /\ sess'[x].state = sess[x].state /\ sess'[x].agent = sess[x].agent
                             /\ sess[x].state # "completed" => sess'[x].owner = sess[x].owner
  <2>1. CASE UNCHANGED sess
    BY <2>1 DEF TypeInv, Typed
  <2>2. CASE \E s \in Sessions : sess' = [sess EXCEPT ![s].owner = t] /\ sess[s].state = "completed"
    BY <2>2 DEF TypeInv, Typed, Session
  <2> QED BY <2>1, <2>2 DEF UndoneStep
<1>5. /\ \A q \in Requests : req'[q].pc \notin Over => req'[q].turn \in Turns
      /\ \A q \in Requests : req'[q].pc \in {"sending", "running"} => req'[q].sess \in Sessions
  BY <1>2 DEF TypeInv, Typed, NoRequest, Over
<1>6. TypeInv'
  BY <1>1, <1>2, <1>3, <1>4, <1>5, TypedNext DEF TypeInv, Typed
<1> QED BY <1>1, <1>2, <1>4, <1>6

LEMMA HintedEffect ==
  ASSUME TypeInv, NEW r \in Requests, NEW t \in Turns, NEW s \in Sessions, HintedStep(r, t, s)
  PROVE  /\ TypeInv' /\ ~Active(r) /\ sess[s].state = "completed"
         /\ req'[r] = [pc |-> "sending", turn |-> t, mode |-> "hinted", sess |-> s,
                       agent |-> sess[s].agent, got |-> NoTurn]
         /\ \A q \in Requests \ {r} : req'[q] = req[q]
         /\ sess'[s].state = "running" /\ sess'[s].agent = sess[s].agent
         /\ \A x \in Sessions \ {s} : sess'[x] = sess[x]
<1>1. /\ ~Active(r) /\ sess[s].state = "completed" /\ sess[s].agent \in AgentIds
      /\ UNCHANGED <<journal, order, inflight, replay, held, restarts, survivors, strayed>>
      /\ Sends(r, t, "hinted", s, sess[s].agent)
  BY DEF HintedStep, Free, Over, Active, TypeInv, Typed, Session
<1>2. /\ req' \in [Requests -> Request]
      /\ req'[r] = [pc |-> "sending", turn |-> t, mode |-> "hinted", sess |-> s,
                    agent |-> sess[s].agent, got |-> NoTurn]
      /\ \A q \in Requests \ {r} : req'[q] = req[q]
  BY <1>1, SendsTyped
<1>3. /\ sess' \in [Sessions -> Session]
      /\ sess'[s].state = "running" /\ sess'[s].agent = sess[s].agent
      /\ \A x \in Sessions \ {s} : sess'[x] = sess[x]
  BY DEF HintedStep, TypeInv, Typed, Session
<1>4. /\ \A q \in Requests : req'[q].pc \notin Over => req'[q].turn \in Turns
      /\ \A q \in Requests : req'[q].pc \in {"sending", "running"} => req'[q].sess \in Sessions
  BY <1>2 DEF TypeInv, Typed
<1>5. TypeInv'
  BY <1>1, <1>2, <1>3, <1>4, TypedNext DEF TypeInv, Typed, OrderInv
<1> QED BY <1>1, <1>2, <1>3, <1>5

SentAgent(r) == IF req[r].agent = NoAgent THEN req[r].sess ELSE req[r].agent

LEMMA SentEffect ==
  ASSUME TypeInv, NEW r \in Requests, Sent(r)
  PROVE  LET s == req[r].sess
         IN  /\ TypeInv' /\ s \in Sessions /\ SentAgent(r) \in Sessions /\ req[r].pc = "sending"
             /\ req'[r].pc = "running" /\ req'[r].agent = SentAgent(r) /\ req'[r].turn = req[r].turn
             /\ req'[r].mode = req[r].mode /\ req'[r].sess = s
             /\ \A q \in Requests \ {r} : req'[q] = req[q]
             /\ sess'[s].agent = SentAgent(r) /\ sess'[s].owner = sess[s].owner
             /\ sess'[s].state = (IF req[r].mode = "rebuild" THEN "running" ELSE sess[s].state)
             /\ \A x \in Sessions \ {s} : sess'[x] = sess[x]
             /\ strayed' = (IF req[r].mode = "hinted" THEN strayed \cup {SentAgent(r)} ELSE strayed)
             /\ UNCHANGED <<journal, order, inflight, replay, held, restarts, survivors>>
<1> DEFINE s == req[r].sess
           a == SentAgent(r)
<1>1. s \in Sessions /\ a \in Sessions /\ req[r].pc = "sending"
  BY BoundAssumption DEF Sent, TypeInv, Typed, SentAgent, Request, AgentIds, Sessions, NoAgent
<1>2. /\ sess' = [sess EXCEPT ![s].agent = a,
                              ![s].state = IF req[r].mode = "rebuild" THEN "running" ELSE @]
      /\ req' = [req EXCEPT ![r].pc = "running", ![r].agent = a]
      /\ strayed' = (IF req[r].mode = "hinted" THEN strayed \cup {a} ELSE strayed)
      /\ UNCHANGED <<journal, order, inflight, replay, held, restarts, survivors>>
  BY DEF Sent, SentAgent
<1> HIDE DEF a
<1>3. a \in AgentIds
  BY <1>1, NoTypes
<1>4. /\ req' \in [Requests -> Request]
      /\ req'[r].pc = "running" /\ req'[r].agent = a /\ req'[r].turn = req[r].turn
      /\ req'[r].mode = req[r].mode /\ req'[r].sess = s
      /\ \A q \in Requests \ {r} : req'[q] = req[q]
  BY <1>2, <1>3, ZenonT(30) DEF TypeInv, Typed, Request, Busy
<1>5. /\ sess' \in [Sessions -> Session]
      /\ sess'[s].agent = a /\ sess'[s].owner = sess[s].owner
      /\ sess'[s].state = (IF req[r].mode = "rebuild" THEN "running" ELSE sess[s].state)
      /\ \A x \in Sessions \ {s} : sess'[x] = sess[x]
  <2>1. sess \in [Sessions -> Session] /\ sess[s] \in Session
    BY <1>1 DEF TypeInv, Typed
  <2>2. [sess[s] EXCEPT !.agent = a,
                        !.state = IF req[r].mode = "rebuild" THEN "running" ELSE @] \in Session
    BY <1>3, <2>1 DEF Session
  <2>3. /\ sess'[s].agent = a /\ sess'[s].owner = sess[s].owner
        /\ sess'[s].state = (IF req[r].mode = "rebuild" THEN "running" ELSE sess[s].state)
    BY <1>1, <1>2, <2>1 DEF Session
  <2>4. /\ sess' \in [Sessions -> Session]
        /\ \A x \in Sessions \ {s} : sess'[x] = sess[x]
    BY <1>1, <1>2, <2>1, <2>2
  <2> QED BY <2>3, <2>4
<1>6. /\ \A q \in Requests : req'[q].pc \notin Over => req'[q].turn \in Turns
      /\ \A q \in Requests : req'[q].pc \in {"sending", "running"} => req'[q].sess \in Sessions
  BY <1>1, <1>4 DEF TypeInv, Typed, Over
<1>7. TypeInv'
  BY <1>1, <1>2, <1>4, <1>5, <1>6, TypedNext DEF TypeInv, Typed, OrderInv
<1> QED BY <1>1, <1>2, <1>4, <1>5, <1>7 DEF a

\* The requests that waited for a claim share its answer, and the others go on.
LEMMA FinishEffect ==
  ASSUME TypeInv, NEW r \in Requests, Finish(r)
  PROVE  LET s == req[r].sess
             t == req[r].turn
         IN  /\ TypeInv' /\ s \in Sessions /\ t \in Turns /\ req[r].pc = "running"
             /\ RememberOrdinaryCompletion(s, t)
             /\ sess'[s].state = "completed" /\ sess'[s].owner = NoTurn
             /\ sess'[s].agent = sess[s].agent
             /\ \A x \in Sessions \ {s} : sess'[x] = sess[x]
             /\ \A a \in Sessions : held'[a] = (IF a = req[r].agent THEN Answered(r) ELSE held[a])
             /\ inflight' = (IF Claimed(r) THEN inflight \ {t} ELSE inflight)
             /\ survivors' = survivors \ {sess[s].owner} /\ strayed' = strayed
             /\ req'[r] = NoRequest
             /\ \A q \in Requests \ {r} :
                  \/ req'[q] = req[q]
                  \/ req'[q] = NoRequest /\ ~Active(q)
                  \/ /\ ~Active(q) /\ Claimed(r) /\ req[q].turn = t /\ replay'[t] # NoTurn
                     /\ req'[q] = Given("shared", t, replay'[t])
<1> DEFINE s == req[r].sess
           t == req[r].turn
<1>1. s \in Sessions /\ t \in Turns /\ req[r].pc = "running"
  BY DEF Finish, TypeInv, Typed, Over
<1>2. /\ RememberOrdinaryCompletion(s, t)
      /\ sess' = [sess EXCEPT ![s].owner = NoTurn, ![s].state = "completed"]
      /\ survivors' = survivors \ {sess[s].owner}
      /\ held' = [held EXCEPT ![req[r].agent] = Answered(r)]
      /\ inflight' = (IF Claimed(r) THEN inflight \ {t} ELSE inflight)
      /\ req' = Resolved(r) /\ restarts' = restarts /\ strayed' = strayed
  BY DEF Finish
<1>3. journal' \in [Turns -> Record] /\ OrderInv' /\ replay' \in [Turns -> Turns \cup {NoTurn}]
  BY <1>1, <1>2, RememberKeeps
<1>4. /\ sess' \in [Sessions -> Session]
      /\ sess'[s].state = "completed" /\ sess'[s].owner = NoTurn /\ sess'[s].agent = sess[s].agent
      /\ \A x \in Sessions \ {s} : sess'[x] = sess[x]
  BY <1>1, <1>2 DEF TypeInv, Typed, Session
<1>5. Answered(r) \in Keys \cup {Mixed}
  BY <1>1, KeyAssumption DEF Answered
<1>6. /\ held' \in [Sessions -> Keys \cup {Mixed}]
      /\ \A a \in Sessions : held'[a] = (IF a = req[r].agent THEN Answered(r) ELSE held[a])
  BY <1>2, <1>5 DEF TypeInv, Typed
<1>7. \A q \in Requests : req'[q] =
         IF q = r THEN NoRequest
         ELSE IF Claimed(r) /\ req[q].pc = "joined" /\ req[q].turn = t
           THEN IF replay'[t] = NoTurn THEN NoRequest ELSE Given("shared", t, replay'[t])
         ELSE req[q]
  BY <1>2 DEF Resolved
<1>8. \A answer \in Turns \cup {NoTurn} :
         /\ Given("shared", t, answer) \in Request
         /\ Given("shared", t, answer).pc = "shared" /\ Given("shared", t, answer).turn = t
  BY <1>1, NoTypes DEF Given, NoRequest, Request, Over
<1>9. replay'[t] \in Turns \cup {NoTurn}
  BY <1>1, <1>3
<1>10. req' \in [Requests -> Request]
  <2>1. \A q \in Requests : req'[q] \in Request
    BY <1>7, <1>8, <1>9, NoTypes DEF TypeInv, Typed
  <2> QED BY <2>1, <1>2 DEF Resolved
<1>11. /\ \A q \in Requests : req'[q].pc \notin Over => req'[q].turn \in Turns
       /\ \A q \in Requests : req'[q].pc \in {"sending", "running"} => req'[q].sess \in Sessions
  BY <1>7, <1>8, <1>9 DEF TypeInv, Typed, Over, NoRequest
<1>12. TypeInv'
  BY <1>2, <1>3, <1>4, <1>6, <1>10, <1>11, TypedNext DEF TypeInv, Typed
<1>13. \A q \in Requests : req[q].pc = "joined" => ~Active(q)
  BY DEF Active
<1> QED BY <1>1, <1>2, <1>4, <1>6, <1>7, <1>12, <1>13

LEMMA FailEffect ==
  ASSUME TypeInv, NEW r \in Requests, Fail(r)
  PROVE  LET s == req[r].sess
             t == req[r].turn
         IN  /\ TypeInv' /\ s \in Sessions /\ t \in Turns /\ Active(r)
             /\ sess'[s].state \in {"closed", "failed"} /\ sess'[s].owner = sess[s].owner
             /\ sess'[s].agent = sess[s].agent
             /\ \A x \in Sessions \ {s} : sess'[x] = sess[x]
             /\ \/ Claimed(r) /\ Disclaim(t) /\ inflight' = inflight \ {t}
                \/ ~Claimed(r) /\ UNCHANGED <<journal, order, inflight, strayed>>
             /\ UNCHANGED <<replay, held, restarts, survivors>>
             /\ req'[r] = NoRequest
             /\ \A q \in Requests \ {r} : req'[q] = req[q] \/ (req'[q] = NoRequest /\ ~Active(q))
<1> DEFINE s == req[r].sess
           t == req[r].turn
<1>1. s \in Sessions /\ t \in Turns /\ Active(r)
  BY DEF Fail, TypeInv, Typed, Over, Active
<1>2. /\ sess' = IF req[r].pc = "sending" THEN Forgotten(s) ELSE [sess EXCEPT ![s].state = "failed"]
      /\ req' = [q \in Requests |->
                   IF q = r \/ (Claimed(r) /\ req[q].pc = "joined" /\ req[q].turn = t)
                   THEN NoRequest ELSE req[q]]
      /\ \/ Claimed(r) /\ Disclaim(t) /\ inflight' = inflight \ {t}
         \/ ~Claimed(r) /\ UNCHANGED <<journal, order, inflight, strayed>>
      /\ UNCHANGED <<replay, held, restarts, survivors>>
  BY DEF Fail
<1>3. /\ sess' \in [Sessions -> Session]
      /\ sess'[s].state \in {"closed", "failed"} /\ sess'[s].owner = sess[s].owner
      /\ sess'[s].agent = sess[s].agent
      /\ \A x \in Sessions \ {s} : sess'[x] = sess[x]
  <2>1. CASE req[r].pc = "sending"
    BY <1>1, <1>2, <2>1 DEF Forgotten, TypeInv, Typed, Session
  <2>2. CASE req[r].pc # "sending"
    BY <1>1, <1>2, <2>2 DEF TypeInv, Typed, Session
  <2> QED BY <2>1, <2>2
<1>4. /\ journal' \in [Turns -> Record] /\ OrderInv' /\ strayed' \subseteq Sessions
      /\ inflight' \subseteq Turns
  <2>1. CASE Disclaim(t) /\ inflight' = inflight \ {t}
    BY <1>1, <2>1, DisclaimKeeps DEF TypeInv, Typed
  <2>2. CASE UNCHANGED <<journal, order, inflight, strayed>>
    BY <2>2 DEF TypeInv, Typed, OrderInv
  <2> QED BY <1>2, <2>1, <2>2
<1>5. /\ req' \in [Requests -> Request] /\ req'[r] = NoRequest
      /\ \A q \in Requests \ {r} : req'[q] = req[q] \/ (req'[q] = NoRequest /\ ~Active(q))
  <2>1. \A q \in Requests : req'[q] =
          IF q = r \/ (Claimed(r) /\ req[q].pc = "joined" /\ req[q].turn = t)
          THEN NoRequest ELSE req[q]
    BY <1>2
  <2>2. \A q \in Requests : req[q].pc = "joined" => ~Active(q)
    BY DEF Active
  <2>3. \A q \in Requests : req'[q] \in Request
    BY <2>1, NoTypes DEF TypeInv, Typed
  <2>4. req' \in [Requests -> Request]
    BY <1>2, <2>3
  <2>5. req'[r] = NoRequest
    BY <2>1
  <2>6. ASSUME NEW q \in Requests \ {r}
        PROVE  req'[q] = req[q] \/ (req'[q] = NoRequest /\ ~Active(q))
    <3>1. CASE Claimed(r) /\ req[q].pc = "joined" /\ req[q].turn = t
      BY <2>1, <2>2, <3>1
    <3>2. CASE ~(Claimed(r) /\ req[q].pc = "joined" /\ req[q].turn = t)
      BY <2>1, <3>2
    <3> QED BY <3>1, <3>2
  <2> QED BY <2>4, <2>5, <2>6
<1>6. /\ \A q \in Requests : req'[q].pc \notin Over => req'[q].turn \in Turns
      /\ \A q \in Requests : req'[q].pc \in {"sending", "running"} => req'[q].sess \in Sessions
  BY <1>5 DEF TypeInv, Typed, Over, NoRequest
<1>7. TypeInv'
  BY <1>2, <1>3, <1>4, <1>5, <1>6, TypedNext DEF TypeInv, Typed
<1> QED BY <1>1, <1>2, <1>3, <1>5, <1>7

\* Sessions are forgotten, one by one or with the record of their agent.
SessionsClose ==
  \A x \in Sessions : \/ sess'[x] = sess[x]
                      \/ /\ sess'[x].state = "closed" /\ sess'[x].agent = sess[x].agent
                         /\ sess'[x].owner = sess[x].owner

LEMMA ForgottenFacts ==
  ASSUME TypeInv, NEW s \in Sessions
  PROVE  /\ Forgotten(s) \in [Sessions -> Session]
         /\ Forgotten(s)[s].state = "closed" /\ Forgotten(s)[s].agent = sess[s].agent
         /\ Forgotten(s)[s].owner = sess[s].owner
         /\ \A x \in Sessions \ {s} : Forgotten(s)[x] = sess[x]
BY DEF Forgotten, TypeInv, Typed, Session

LEMMA ForgetEffect ==
  ASSUME TypeInv, NEW s \in Sessions, ForgetSession(s)
  PROVE  /\ TypeInv' /\ SessionsClose
         /\ UNCHANGED <<journal, order, inflight, replay, held, req, restarts, survivors, strayed>>
<1>1. /\ sess' = Forgotten(s)
      /\ UNCHANGED <<journal, order, inflight, replay, held, req, restarts, survivors, strayed>>
  BY DEF ForgetSession
<1>2. sess' \in [Sessions -> Session] /\ SessionsClose
  BY <1>1, ForgottenFacts DEF SessionsClose
<1>3. TypeInv'
  BY <1>1, <1>2 DEF TypeInv, Typed, OrderInv
<1> QED BY <1>1, <1>2, <1>3

LEMMA ExpireEffect ==
  ASSUME TypeInv, Expire
  PROVE  /\ TypeInv' /\ SessionsClose /\ UNCHANGED <<inflight, held, req, restarts, strayed>>
         /\ \E t \in Turns :
              /\ t = order[1] /\ Len(order) > 0 /\ Remove(t)
              /\ replay' = [replay EXCEPT ![t] = NoTurn]
              /\ survivors' = survivors \ {t}
<1> DEFINE t == Head(order)
<1>1. t \in Turns /\ t = order[1] /\ Len(order) > 0
  BY DEF Expire, TypeInv, OrderInv
<1>2. /\ Remove(t) /\ replay' = [replay EXCEPT ![t] = NoTurn] /\ survivors' = survivors \ {t}
      /\ UNCHANGED <<inflight, held, req, restarts, strayed>>
  BY DEF Expire
<1>3. PICK gone \in SUBSET Sessions :
        sess' = [s \in Sessions |-> IF s \in gone THEN Forgotten(s)[s] ELSE sess[s]]
  <2> DEFINE a == journal[t].agent
             kept == a # NoAgent /\ \E u \in Recorded \ {t} : journal[u].agent = a
             gone == {s \in Sessions : a # NoAgent /\ ~kept /\ IsSessionOf(s, a)}
  <2>1. sess' = [s \in Sessions |->
                   IF a # NoAgent /\ ~kept /\ IsSessionOf(s, a) THEN Forgotten(s)[s] ELSE sess[s]]
    BY DEF Expire
  <2>2. sess' = [s \in Sessions |-> IF s \in gone THEN Forgotten(s)[s] ELSE sess[s]]
    BY <2>1
  <2> HIDE DEF gone
  <2>3. gone \in SUBSET Sessions
    BY DEF gone
  <2> QED BY <2>2, <2>3
<1>4. sess' \in [Sessions -> Session] /\ SessionsClose
  <2>1. \A s \in Sessions : Forgotten(s)[s] \in Session
    BY ForgottenFacts
  <2>2. sess' \in [Sessions -> Session]
    BY <1>3, <2>1 DEF TypeInv, Typed
  <2>3. \A s \in Sessions : sess'[s] = sess[s] \/ sess'[s] = Forgotten(s)[s]
    BY <1>3
  <2> QED BY <2>2, <2>3, ForgottenFacts DEF SessionsClose
<1>5. journal' \in [Turns -> Record] /\ OrderInv'
  BY <1>1, <1>2, RemoveKeeps
<1>6. replay' \in [Turns -> Turns \cup {NoTurn}]
  BY <1>1, <1>2 DEF TypeInv, Typed
<1>7. TypeInv'
  BY <1>2, <1>4, <1>5, <1>6, TypedNext DEF TypeInv, Typed
<1> QED BY <1>1, <1>2, <1>4, <1>7

LEMMA RestartEffect ==
  ASSUME TypeInv, NEW stored \in SUBSET {r \in Requests : req[r].pc = "running"}, Restart(stored)
  PROVE  /\ TypeInv' /\ \A r \in Requests : ~(Active(r)') /\ req'[r].pc # "joined"
         /\ \A r \in Requests : req'[r] = req[r] \/ req'[r] = NoRequest
         /\ inflight' = {} /\ \A t \in Turns : replay'[t] = NoTurn
         /\ survivors' = {t \in Turns : journal[t].state = "running"}
         /\ UNCHANGED <<journal, order, strayed>>
         /\ \A x \in Sessions : \/ sess[x].state = "none" /\ sess'[x] = NoSess
                                \/ /\ sess[x].state # "none" /\ sess'[x].state = "closed"
                                   /\ sess'[x].agent = sess[x].agent /\ sess'[x].owner = NoTurn
         /\ \A a \in Sessions : \/ held'[a] = held[a]
                                \/ \E r \in stored : req[r].agent = a /\ held'[a] = Answered(r)
<1>1. /\ held' = [a \in Sessions |->
                IF \E r \in stored : req[r].agent = a
                THEN Answered(CHOOSE r \in stored : req[r].agent = a) ELSE held[a]]
      /\ sess' = [s \in Sessions |->
                IF sess[s].state = "none" THEN NoSess
                ELSE [sess[s] EXCEPT !.state = "closed", !.registered = FALSE, !.owner = NoTurn]]
      /\ inflight' = {} /\ replay' = [t \in Turns |-> NoTurn]
      /\ req' = [r \in Requests |-> IF req[r].pc \in Busy THEN NoRequest ELSE req[r]]
      /\ survivors' = {t \in Turns : journal[t].state = "running"}
      /\ restarts < MaxRestarts /\ restarts' = restarts + 1
      /\ UNCHANGED <<journal, order, strayed>>
  BY DEF Restart
<1>2. \A x \in Sessions : \/ sess[x].state = "none" /\ sess'[x] = NoSess
                          \/ /\ sess[x].state # "none" /\ sess'[x].state = "closed"
                             /\ sess'[x].agent = sess[x].agent /\ sess'[x].owner = NoTurn
                             /\ sess'[x] \in Session
  BY <1>1 DEF TypeInv, Typed, Session
<1>3. sess' \in [Sessions -> Session]
  BY <1>1, <1>2, NoTypes
<1>4. \A r \in Requests : req[r].pc = "running" => Answered(r) \in Keys \cup {Mixed}
  BY KeyAssumption DEF Answered, TypeInv, Typed, Over
<1>5. ASSUME NEW a \in Sessions
      PROVE  /\ held'[a] \in Keys \cup {Mixed}
             /\ \/ held'[a] = held[a]
                \/ \E r \in stored : req[r].agent = a /\ held'[a] = Answered(r)
  <2>1. CASE ~\E r \in stored : req[r].agent = a
    BY <1>1, <2>1 DEF TypeInv, Typed
  <2>2. CASE \E r \in stored : req[r].agent = a
    <3> DEFINE w == CHOOSE r \in stored : req[r].agent = a
    <3>1. w \in stored /\ req[w].agent = a
      BY <2>2
    <3>2. held'[a] = Answered(w)
      BY <1>1, <2>2
    <3> HIDE DEF w
    <3> QED BY <3>1, <3>2, <1>4
  <2> QED BY <2>1, <2>2
<1>6. held' \in [Sessions -> Keys \cup {Mixed}]
  BY <1>1, <1>5
<1>7. /\ req' \in [Requests -> Request]
      /\ \A r \in Requests : /\ req'[r] = req[r] \/ req'[r] = NoRequest
                             /\ ~(Active(r)') /\ req'[r].pc # "joined"
                             /\ req'[r].pc \in Over
  BY <1>1, NoTypes DEF TypeInv, Typed, Busy, Over, NoRequest, Active, Request
<1>8. restarts' \in 0 .. MaxRestarts
  <2>1. restarts \in 0 .. MaxRestarts
    BY DEF TypeInv, Typed
  <2>2. restarts < MaxRestarts /\ restarts' = restarts + 1
    BY DEF Restart
  <2> QED BY <2>1, <2>2, BoundAssumption
<1>9. TypeInv'
  BY <1>1, <1>3, <1>6, <1>7, <1>8, TypedNext DEF TypeInv, Typed, OrderInv, Over
<1> QED BY <1>1, <1>2, <1>5, <1>7, <1>9

LEMMA StutterEffect ==
  ASSUME TypeInv, UNCHANGED vars
  PROVE  TypeInv' /\ UNCHANGED <<journal, order, inflight, replay, sess, held, req, survivors, strayed>>
BY DEF vars, TypeInv, Typed, OrderInv

\* The journal, the order and the types hold in every step.
LEMMA NextTypeInv == TypeInv /\ [Next]_vars => TypeInv'
<1> SUFFICES ASSUME TypeInv, [Next]_vars PROVE TypeInv'
  OBVIOUS
<1>1. ASSUME NEW r \in Requests, QuietStep(r) \/ Sent(r) \/ Finish(r) \/ Fail(r) PROVE TypeInv'
  BY <1>1, QuietEffect, SentEffect, FinishEffect, FailEffect
<1>2. ASSUME NEW r \in Requests, NEW t \in Turns, NEW s \in Sessions,
             \/ ClaimStep(r, t, "rebuild", s, NoAgent)
             \/ \E a \in AgentIds : ClaimStep(r, t, "resume", s, a)
             \/ HintedStep(r, t, s)
      PROVE  TypeInv'
  BY <1>2, NoTypes, ClaimEffect, HintedEffect
<1>3. ASSUME NEW r \in Requests, NEW t \in Turns, UndoneStep(r, t) PROVE TypeInv'
  BY <1>3, UndoneEffect
<1>4. ASSUME NEW s \in Sessions, ForgetSession(s) PROVE TypeInv'
  BY <1>4, ForgetEffect
<1>5. CASE Expire
  BY <1>5, ExpireEffect
<1>6. CASE RestartStep
  BY <1>6, RestartEffect DEF RestartStep
<1>7. CASE UNCHANGED vars
  BY <1>7, StutterEffect
<1> QED BY <1>1, <1>2, <1>3, <1>4, <1>5, <1>6, <1>7, NextCases

LEMMA AlwaysTypeInv == Spec => []TypeInv
BY InitTypeInv, NextTypeInv, PTL DEF Spec

\* Types and the order of the journal: one place for each recorded turn.
THEOREM TypeCorrect == Spec => []TypeOK
BY AlwaysTypeInv, TypeInvGivesTypeOK, PTL

-----------------------------------------------------------------------------
(* One claim for each turn, one send for each session *)

SendOk(r) ==
  /\ req[r].mode # "none"
  /\ sess[req[r].sess].state \in {"creating", "running", "closed"}
  /\ Claimed(r) => req[r].turn \in inflight /\ sess[req[r].sess].owner = req[r].turn

SendsInv ==
  /\ \A r \in Requests : Active(r) => SendOk(r)
  /\ \A r, q \in Requests : Active(r) /\ Active(q) /\ r # q =>
       /\ req[r].sess # req[q].sess
       /\ Claimed(r) /\ Claimed(q) => req[r].turn # req[q].turn

\* The sends that go on keep the turn they claimed and the session they claimed it for.
GoesOn(q) ==
  /\ Active(q) /\ req'[q].turn = req[q].turn /\ req'[q].mode = req[q].mode
  /\ req'[q].sess = req[q].sess

LEMMA SendsFrame ==
  ASSUME TypeInv, SendsInv,
         \A q \in Requests : Active(q)' =>
           /\ GoesOn(q)
           /\ sess'[req[q].sess].state \in {"creating", "running", "closed"}
           /\ sess'[req[q].sess].owner = sess[req[q].sess].owner
           /\ Claimed(q) => req[q].turn \in inflight'
  PROVE  SendsInv'
<1>1. ASSUME NEW q \in Requests, Active(q)' PROVE SendOk(q)'
  BY <1>1 DEF SendsInv, SendOk, GoesOn, Claimed
<1>2. ASSUME NEW r \in Requests, NEW q \in Requests, Active(r)', Active(q)', r # q
      PROVE  req'[r].sess # req'[q].sess /\ (Claimed(r)' /\ Claimed(q)' => req'[r].turn # req'[q].turn)
  BY <1>2 DEF SendsInv, GoesOn, Claimed
<1> QED BY <1>1, <1>2 DEF SendsInv

LEMMA QuietKeepsSends ==
  ASSUME TypeInv, SendsInv, NEW r \in Requests, QuietStep(r)
  PROVE  SendsInv'
<1>1. UNCHANGED <<sess, inflight>>
  BY DEF QuietStep
<1>2. \A q \in Requests : Active(q)' => req'[q] = req[q] /\ Active(q)
  BY QuietEffect DEF Active
<1> QED BY <1>1, <1>2, SendsFrame DEF GoesOn, SendsInv, SendOk

LEMMA UndoneKeepsSends ==
  ASSUME TypeInv, SendsInv, NEW r \in Requests, NEW t \in Turns, UndoneStep(r, t)
  PROVE  SendsInv'
<1>1. ASSUME NEW q \in Requests, Active(q)'
      PROVE  /\ GoesOn(q)
             /\ sess'[req[q].sess].state \in {"creating", "running", "closed"}
             /\ sess'[req[q].sess].owner = sess[req[q].sess].owner
             /\ Claimed(q) => req[q].turn \in inflight'
  <2>1. q # r /\ req'[q] = req[q] /\ Active(q)
    BY <1>1, UndoneEffect DEF Active, NoRequest
  <2>2. req[q].sess \in Sessions
    BY <2>1 DEF Active, TypeInv, Typed
  <2>3. SendOk(q)
    BY <2>1 DEF SendsInv
  <2> QED BY <2>1, <2>2, <2>3, UndoneEffect DEF GoesOn, SendOk
<1> QED BY <1>1, SendsFrame

LEMMA SentKeepsSends ==
  ASSUME TypeInv, SendsInv, NEW r \in Requests, Sent(r)
  PROVE  SendsInv'
<1>1. ASSUME NEW q \in Requests, Active(q)'
      PROVE  /\ GoesOn(q)
             /\ sess'[req[q].sess].state \in {"creating", "running", "closed"}
             /\ sess'[req[q].sess].owner = sess[req[q].sess].owner
             /\ Claimed(q) => req[q].turn \in inflight'
  <2>1. GoesOn(q)
    BY <1>1, SentEffect DEF Active, GoesOn
  <2>2. req[q].sess \in Sessions
    BY <2>1 DEF GoesOn, Active, TypeInv, Typed
  <2>3. SendOk(q)
    BY <2>1 DEF SendsInv, GoesOn
  <2>4. /\ sess'[req[q].sess].owner = sess[req[q].sess].owner
        /\ sess'[req[q].sess].state = sess[req[q].sess].state \/ sess'[req[q].sess].state = "running"
    BY <2>2, SentEffect
  <2>5. inflight' = inflight
    BY SentEffect
  <2> QED BY <2>1, <2>3, <2>4, <2>5 DEF SendOk
<1> QED BY <1>1, SendsFrame

LEMMA FinishKeepsSends ==
  ASSUME TypeInv, SendsInv, NEW r \in Requests, Finish(r)
  PROVE  SendsInv'
<1>1. ASSUME NEW q \in Requests, Active(q)'
      PROVE  /\ GoesOn(q)
             /\ sess'[req[q].sess].state \in {"creating", "running", "closed"}
             /\ sess'[req[q].sess].owner = sess[req[q].sess].owner
             /\ Claimed(q) => req[q].turn \in inflight'
  <2>1. q # r /\ req'[q] = req[q] /\ Active(q)
    <3>1. /\ req'[r] = NoRequest
          /\ \/ q = r
             \/ req'[q] = req[q]
             \/ req'[q] = NoRequest
             \/ req'[q] = Given("shared", req[r].turn, replay'[req[r].turn])
      BY FinishEffect
    <3>2. NoRequest.pc = "idle" /\ Given("shared", req[r].turn, replay'[req[r].turn]).pc = "shared"
      BY DEF NoRequest, Given
    <3>3. req'[q].pc \notin {"idle", "shared"}
      BY <1>1 DEF Active
    <3>4. q # r /\ req'[q] = req[q]
      BY <3>1, <3>2, <3>3
    <3> QED BY <1>1, <3>4 DEF Active
  <2>2. req[q].sess \in Sessions /\ Active(r)
    BY <2>1, FinishEffect DEF Active, TypeInv, Typed
  <2>3. SendOk(q) /\ req[q].sess # req[r].sess
    BY <2>1, <2>2 DEF SendsInv
  <2>4. Claimed(q) /\ Claimed(r) => req[q].turn # req[r].turn
    BY <2>1, <2>2 DEF SendsInv
  <2> QED BY <2>1, <2>2, <2>3, <2>4, FinishEffect DEF GoesOn, SendOk
<1> QED BY <1>1, SendsFrame

LEMMA FailKeepsSends ==
  ASSUME TypeInv, SendsInv, NEW r \in Requests, Fail(r)
  PROVE  SendsInv'
<1>1. ASSUME NEW q \in Requests, Active(q)'
      PROVE  /\ GoesOn(q)
             /\ sess'[req[q].sess].state \in {"creating", "running", "closed"}
             /\ sess'[req[q].sess].owner = sess[req[q].sess].owner
             /\ Claimed(q) => req[q].turn \in inflight'
  <2>1. q # r /\ req'[q] = req[q] /\ Active(q)
    BY <1>1, FailEffect DEF Active, NoRequest
  <2>2. req[q].sess \in Sessions /\ Active(r)
    BY <2>1, FailEffect DEF Active, TypeInv, Typed
  <2>3. SendOk(q) /\ req[q].sess # req[r].sess
    BY <2>1, <2>2 DEF SendsInv
  <2>4. Claimed(q) /\ Claimed(r) => req[q].turn # req[r].turn
    BY <2>1, <2>2 DEF SendsInv
  <2> QED BY <2>1, <2>2, <2>3, <2>4, FailEffect DEF GoesOn, SendOk
<1> QED BY <1>1, SendsFrame

LEMMA CloseKeepsSends ==
  ASSUME TypeInv, SendsInv, SessionsClose, UNCHANGED <<req, inflight>>
  PROVE  SendsInv'
<1>1. ASSUME NEW q \in Requests, Active(q)'
      PROVE  /\ GoesOn(q)
             /\ sess'[req[q].sess].state \in {"creating", "running", "closed"}
             /\ sess'[req[q].sess].owner = sess[req[q].sess].owner
             /\ Claimed(q) => req[q].turn \in inflight'
  <2>1. Active(q) /\ GoesOn(q)
    BY <1>1 DEF Active, GoesOn
  <2>2. SendOk(q) /\ req[q].sess \in Sessions
    BY <2>1 DEF Active, SendsInv, TypeInv, Typed
  <2> QED BY <2>1, <2>2 DEF SessionsClose, SendOk
<1> QED BY <1>1, SendsFrame

\* The session of a new send is not the one of another send, and a claimed turn is not in
\* flight.
LEMMA NewSendKeepsSends ==
  ASSUME TypeInv, SendsInv, NEW r \in Requests, NEW s \in Sessions,
         sess[s].state \in {"none", "completed"}, req'[r].sess = s,
         ~Active(r), SendOk(r)', inflight \subseteq inflight',
         Claimed(r)' => req'[r].turn \notin inflight,
         \A q \in Requests \ {r} : req'[q] = req[q],
         \A x \in Sessions \ {s} : sess'[x] = sess[x]
  PROVE  SendsInv'
<1>1. ASSUME NEW q \in Requests \ {r}, Active(q)'
      PROVE  /\ GoesOn(q) /\ SendOk(q)' /\ req[q].sess # s
             /\ Claimed(q)' => req'[q].turn \in inflight
  <2>1. GoesOn(q) /\ Active(q) /\ req'[q] = req[q]
    BY <1>1 DEF Active, GoesOn
  <2>2. SendOk(q) /\ req[q].sess \in Sessions
    BY <2>1 DEF Active, SendsInv, TypeInv, Typed
  <2>3. req[q].sess # s
    BY <2>2 DEF SendOk
  <2>4. sess'[req[q].sess] = sess[req[q].sess]
    BY <2>2, <2>3
  <2> QED BY <2>1, <2>2, <2>3, <2>4 DEF SendOk, Claimed
<1>2. ASSUME NEW p \in Requests, NEW q \in Requests, Active(p)', Active(q)', p # q
      PROVE  req'[p].sess # req'[q].sess /\ (Claimed(p)' /\ Claimed(q)' => req'[p].turn # req'[q].turn)
  <2>1. CASE p = r
    BY <1>1, <1>2, <2>1 DEF GoesOn
  <2>2. CASE q = r
    BY <1>1, <1>2, <2>2 DEF GoesOn
  <2>3. CASE p # r /\ q # r
    BY <1>1, <1>2, <2>3 DEF GoesOn, SendsInv, Claimed
  <2> QED BY <2>1, <2>2, <2>3
<1> QED BY <1>1, <1>2 DEF SendsInv

LEMMA ClaimKeepsSends ==
  ASSUME TypeInv, SendsInv, NEW r \in Requests, NEW t \in Turns, NEW mode \in {"rebuild", "resume"},
         NEW s \in Sessions, NEW a \in AgentIds, ClaimStep(r, t, mode, s, a)
  PROVE  SendsInv'
<1>1. inflight' = inflight \cup {t} /\ t \notin inflight
  BY ClaimKeeps DEF ClaimStep, Claimable
<1>0. /\ ~Active(r)
      /\ req'[r] = [pc |-> "sending", turn |-> t, mode |-> mode, sess |-> s, agent |-> a,
                    got |-> NoTurn]
      /\ \A q \in Requests \ {r} : req'[q] = req[q]
      /\ sess'[s].state \in {"creating", "running"} /\ sess'[s].owner = t
      /\ sess[s].state = "none" \/ sess[s].state = "completed"
      /\ \A x \in Sessions \ {s} : sess'[x] = sess[x]
  BY ONLY ClaimEffect, ClaimStep(r, t, mode, s, a), TypeInv
<1>2. SendOk(r)'
  BY <1>0, <1>1 DEF SendOk
<1>3. /\ ~Active(r) /\ req'[r].sess = s /\ req'[r].turn = t
      /\ \A q \in Requests \ {r} : req'[q] = req[q]
      /\ \A x \in Sessions \ {s} : sess'[x] = sess[x]
      /\ sess[s].state \in {"none", "completed"}
  BY <1>0
<1> QED BY <1>1, <1>2, <1>3, NewSendKeepsSends

LEMMA HintedKeepsSends ==
  ASSUME TypeInv, SendsInv, NEW r \in Requests, NEW t \in Turns, NEW s \in Sessions,
         HintedStep(r, t, s)
  PROVE  SendsInv'
<1>1. inflight' = inflight
  BY DEF HintedStep
<1>0. /\ ~Active(r) /\ sess[s].state = "completed"
      /\ req'[r] = [pc |-> "sending", turn |-> t, mode |-> "hinted", sess |-> s,
                    agent |-> sess[s].agent, got |-> NoTurn]
      /\ \A q \in Requests \ {r} : req'[q] = req[q]
      /\ sess'[s].state = "running"
      /\ \A x \in Sessions \ {s} : sess'[x] = sess[x]
  BY ONLY HintedEffect, HintedStep(r, t, s), TypeInv
<1>2. SendOk(r)' /\ ~(Claimed(r)')
  BY <1>0 DEF SendOk, Claimed
<1>3. /\ ~Active(r) /\ req'[r].sess = s
      /\ \A q \in Requests \ {r} : req'[q] = req[q]
      /\ \A x \in Sessions \ {s} : sess'[x] = sess[x]
      /\ sess[s].state \in {"none", "completed"}
  BY <1>0
<1> QED BY <1>1, <1>2, <1>3, NewSendKeepsSends

LEMMA NextSends == TypeInv /\ SendsInv /\ [Next]_vars => SendsInv'
<1> SUFFICES ASSUME TypeInv, SendsInv, [Next]_vars PROVE SendsInv'
  OBVIOUS
<1>1. ASSUME NEW r \in Requests, QuietStep(r) \/ Sent(r) \/ Finish(r) \/ Fail(r) PROVE SendsInv'
  BY <1>1, QuietKeepsSends, SentKeepsSends, FinishKeepsSends, FailKeepsSends
<1>2. ASSUME NEW r \in Requests, NEW t \in Turns, NEW s \in Sessions,
             \/ ClaimStep(r, t, "rebuild", s, NoAgent)
             \/ \E a \in AgentIds : ClaimStep(r, t, "resume", s, a)
             \/ HintedStep(r, t, s)
      PROVE  SendsInv'
  BY <1>2, NoTypes, ClaimKeepsSends, HintedKeepsSends
<1>3. ASSUME NEW r \in Requests, NEW t \in Turns, UndoneStep(r, t) PROVE SendsInv'
  BY <1>3, UndoneKeepsSends
<1>4. ASSUME NEW s \in Sessions, ForgetSession(s) PROVE SendsInv'
  BY <1>4, ForgetEffect, CloseKeepsSends
<1>5. CASE Expire
  BY <1>5, ExpireEffect, CloseKeepsSends
<1>6. CASE RestartStep
  <2>1. \A r \in Requests : ~(Active(r)')
    BY <1>6, RestartEffect DEF RestartStep
  <2> QED BY <2>1 DEF SendsInv
<1>7. CASE UNCHANGED vars
  <2>1. SessionsClose /\ UNCHANGED <<req, inflight>>
    BY <1>7, StutterEffect DEF SessionsClose
  <2> QED BY <2>1, CloseKeepsSends
<1> QED BY <1>1, <1>2, <1>3, <1>4, <1>5, <1>6, <1>7, NextCases

LEMMA InitSends == Init => SendsInv
BY DEF Init, SendsInv, Active, NoRequest

LEMMA AlwaysSends == Spec => [](TypeInv /\ SendsInv)
<1>1. Init => TypeInv /\ SendsInv
  BY InitTypeInv, InitSends
<1>2. TypeInv /\ SendsInv /\ [Next]_vars => (TypeInv /\ SendsInv)'
  BY NextTypeInv, NextSends
<1> QED BY <1>1, <1>2, PTL DEF Spec

\* A turn is sent once at a time, whatever expires, fails or restarts: a claim is in flight
\* until it is resolved, and claimOrdinaryTurn joins what is in flight.
THEOREM ClaimsAreOne == Spec => []OneClaimPerTurn
<1>1. SendsInv => OneClaimPerTurn
  BY DEF SendsInv, OneClaimPerTurn, Active
<1> QED BY <1>1, AlwaysSends, PTL

-----------------------------------------------------------------------------
(* Answers *)

AnswersInv == SharedAnswersAreOwn /\ RunningIsInFlight /\ ReplayIsTheRecordedAnswer

\* Steps that leave the requests that were answered, and what is running or kept, alone.
LEMMA AnswersFrame ==
  ASSUME TypeInv, AnswersInv,
         \A q \in Requests : req'[q].pc = "shared" => req'[q] = req[q],
         \A t \in Turns :
           \/ journal'[t] = journal[t] /\ (replay'[t] = replay[t] \/ replay'[t] = NoTurn)
           \/ journal'[t].state # "completed",
         \A t \in Turns : journal'[t].state = "running" => t \in inflight' \cup survivors'
  PROVE  AnswersInv'
<1>1. SharedAnswersAreOwn'
  BY DEF AnswersInv, SharedAnswersAreOwn
<1>2. RunningIsInFlight'
  BY DEF RunningIsInFlight
<1>3. ReplayIsTheRecordedAnswer'
  BY DEF AnswersInv, ReplayIsTheRecordedAnswer
<1> QED BY <1>1, <1>2, <1>3 DEF AnswersInv

LEMMA QuietKeepsAnswers ==
  ASSUME TypeInv, AnswersInv, NEW r \in Requests, QuietStep(r)
  PROVE  AnswersInv'
<1>1. UNCHANGED <<journal, replay, inflight, survivors>>
  BY DEF QuietStep
<1>2. \A q \in Requests : req'[q].pc = "shared" => req'[q] = req[q]
  BY QuietEffect
<1>3. \A t \in Turns : journal'[t].state = "running" => t \in inflight' \cup survivors'
  BY <1>1 DEF AnswersInv, RunningIsInFlight
<1> QED BY <1>1, <1>2, <1>3, AnswersFrame

LEMMA ClaimKeepsAnswers ==
  ASSUME TypeInv, AnswersInv, NEW r \in Requests, NEW t \in Turns, NEW mode \in {"rebuild", "resume"},
         NEW s \in Sessions, NEW a \in AgentIds, ClaimStep(r, t, mode, s, a)
  PROVE  AnswersInv'
<1>1. Claim(t, a) /\ survivors' = survivors \ {t} /\ replay' = replay
  BY DEF ClaimStep
<1>2. /\ journal'[t] = ClaimedRecord(a) /\ \A u \in Turns \ {t} : journal'[u] = journal[u]
      /\ inflight' = inflight \cup {t}
  BY <1>1, ClaimKeeps
<1>3. \A q \in Requests : req'[q].pc = "shared" => req'[q] = req[q]
  <2>1. /\ req'[r] = [pc |-> "sending", turn |-> t, mode |-> mode, sess |-> s, agent |-> a,
                      got |-> NoTurn]
        /\ \A q \in Requests \ {r} : req'[q] = req[q]
    BY ONLY ClaimEffect, ClaimStep(r, t, mode, s, a), TypeInv
  <2> QED BY <2>1
<1>4. \A u \in Turns : journal'[u].state = "running" => u \in inflight' \cup survivors'
  BY <1>1, <1>2 DEF AnswersInv, RunningIsInFlight
<1>5. journal'[t].state # "completed"
  BY <1>2 DEF ClaimedRecord
<1> QED BY <1>1, <1>2, <1>3, <1>4, <1>5, AnswersFrame

\* A record that is removed is not running.
LEMMA RemovalKeepsAnswers ==
  ASSUME TypeInv, AnswersInv, NEW t \in Turns,
         journal'[t] = NoRecord, \A u \in Turns \ {t} : journal'[u] = journal[u],
         inflight \ {t} \subseteq inflight', survivors \ {t} \subseteq survivors',
         \A u \in Turns \ {t} : replay'[u] = replay[u],
         \A q \in Requests : req'[q].pc = "shared" => req'[q] = req[q]
  PROVE  AnswersInv'
<1>1. journal'[t].state = "none"
  BY DEF NoRecord
<1>2. \A u \in Turns : journal'[u].state = "running" => u \in inflight' \cup survivors'
  BY <1>1 DEF AnswersInv, RunningIsInFlight
<1> QED BY <1>1, <1>2, AnswersFrame

LEMMA FinishKeepsAnswers ==
  ASSUME TypeInv, SendsInv, AnswersInv, NEW r \in Requests, Finish(r)
  PROVE  AnswersInv'
<1> DEFINE s == req[r].sess
           t == req[r].turn
           o == sess[s].owner
<1>1. /\ s \in Sessions /\ t \in Turns /\ Active(r) /\ RememberOrdinaryCompletion(s, t)
      /\ inflight' = (IF Claimed(r) THEN inflight \ {t} ELSE inflight)
      /\ survivors' = survivors \ {o}
  BY FinishEffect DEF Active
<1>2. /\ \A u \in Turns : u # o => journal'[u] = journal[u] /\ replay'[u] = replay[u]
      /\ o \in Turns => journal'[o] = EndRecord(s, t) /\ replay'[o] = t
  BY <1>1, RememberKeeps
<1>3. Claimed(r) => o = t
  BY <1>1 DEF SendsInv, SendOk
<1>4. SharedAnswersAreOwn'
  <2> SUFFICES ASSUME NEW q \in Requests, req'[q].pc = "shared" PROVE req'[q].got = req'[q].turn
    BY DEF SharedAnswersAreOwn
  <2>1. /\ req'[r] = NoRequest
        /\ \/ q = r
           \/ req'[q] = req[q]
           \/ req'[q] = NoRequest
           \/ Claimed(r) /\ req'[q] = Given("shared", t, replay'[t])
    BY FinishEffect
  <2>2. NoRequest.pc = "idle"
    BY DEF NoRequest
  <2>3. CASE req'[q] = req[q]
    BY <2>3 DEF AnswersInv, SharedAnswersAreOwn
  <2>4. CASE Claimed(r) /\ req'[q] = Given("shared", t, replay'[t])
    <3>1. replay'[t] = t
      BY <1>1, <1>2, <1>3, <2>4
    <3> QED BY <2>4, <3>1 DEF Given, NoRequest
  <2> QED BY <2>1, <2>2, <2>3, <2>4
<1>5. RunningIsInFlight'
  <2> SUFFICES ASSUME NEW u \in Turns, journal'[u].state = "running"
               PROVE  u \in inflight' \cup survivors'
    BY DEF RunningIsInFlight
  <2>1. u # o
    BY <1>1, <1>2 DEF EndRecord
  <2>2. u \in inflight \cup survivors
    BY <1>2, <2>1 DEF AnswersInv, RunningIsInFlight
  <2> QED BY <1>1, <1>3, <2>1, <2>2
<1>6. ReplayIsTheRecordedAnswer'
  <2> SUFFICES ASSUME NEW u \in Turns, journal'[u].state = "completed", replay'[u] # NoTurn
               PROVE  replay'[u] = journal'[u].answer
    BY DEF ReplayIsTheRecordedAnswer
  <2> QED BY <1>2 DEF AnswersInv, ReplayIsTheRecordedAnswer, EndRecord
<1> QED BY <1>4, <1>5, <1>6 DEF AnswersInv

LEMMA NextAnswers == TypeInv /\ SendsInv /\ AnswersInv /\ [Next]_vars => AnswersInv'
<1> SUFFICES ASSUME TypeInv, SendsInv, AnswersInv, [Next]_vars PROVE AnswersInv'
  OBVIOUS
<1>0. NoRequest.pc = "idle"
  BY DEF NoRequest
<1>same. ASSUME UNCHANGED <<journal, inflight, replay, survivors>>,
                \A q \in Requests : req'[q].pc = "shared" => req'[q] = req[q]
         PROVE  AnswersInv'
  <2>1. \A t \in Turns : journal'[t].state = "running" => t \in inflight' \cup survivors'
    BY <1>same DEF AnswersInv, RunningIsInFlight
  <2> QED BY <1>same, <2>1, AnswersFrame
<1>1. ASSUME NEW r \in Requests, Sent(r) PROVE AnswersInv'
  BY <1>1, <1>same, SentEffect
<1>2. ASSUME NEW r \in Requests, Fail(r) PROVE AnswersInv'
  <2>1. \A q \in Requests : req'[q].pc = "shared" => req'[q] = req[q]
    BY <1>0, <1>2, FailEffect
  <2>2. req[r].turn \in Turns /\ UNCHANGED <<replay, survivors>>
    BY <1>2, FailEffect
  <2>3. CASE Disclaim(req[r].turn) /\ inflight' = inflight \ {req[r].turn}
    BY <2>1, <2>2, <2>3, DisclaimKeeps, RemovalKeepsAnswers
  <2>4. CASE UNCHANGED <<journal, inflight>>
    BY <2>1, <2>2, <2>4, <1>same
  <2> QED BY <1>2, <2>3, <2>4, FailEffect
<1>3. ASSUME NEW r \in Requests, NEW t \in Turns, NEW s \in Sessions, HintedStep(r, t, s)
      PROVE  AnswersInv'
  <2>1. /\ req'[r] = [pc |-> "sending", turn |-> t, mode |-> "hinted", sess |-> s,
                      agent |-> sess[s].agent, got |-> NoTurn]
        /\ \A q \in Requests \ {r} : req'[q] = req[q]
    BY ONLY HintedEffect, HintedStep(r, t, s), TypeInv, <1>3
  <2>2. UNCHANGED <<journal, inflight, replay, survivors>>
    BY <1>3 DEF HintedStep
  <2> QED BY <2>1, <2>2, <1>same
<1>4. ASSUME NEW r \in Requests, NEW t \in Turns, NEW s \in Sessions,
             \/ ClaimStep(r, t, "rebuild", s, NoAgent)
             \/ \E a \in AgentIds : ClaimStep(r, t, "resume", s, a)
      PROVE  AnswersInv'
  BY <1>4, NoTypes, ClaimKeepsAnswers
<1>5. ASSUME NEW r \in Requests, NEW t \in Turns, UndoneStep(r, t) PROVE AnswersInv'
  <2>1. /\ Disclaim(t) /\ inflight' = inflight /\ replay' = replay
        /\ req'[r] = NoRequest /\ \A q \in Requests \ {r} : req'[q] = req[q]
    BY <1>5, UndoneEffect
  <2>2. survivors' = survivors \ {t}
    BY <1>5 DEF UndoneStep
  <2>3. journal'[t] = NoRecord /\ \A u \in Turns \ {t} : journal'[u] = journal[u]
    BY <2>1, DisclaimKeeps
  <2> QED BY <1>0, <2>1, <2>2, <2>3, RemovalKeepsAnswers
<1>6. ASSUME NEW s \in Sessions, ForgetSession(s) PROVE AnswersInv'
  BY <1>6, ForgetEffect, <1>same
<1>7. CASE Expire
  <2> PICK t \in Turns : Remove(t) /\ replay' = [replay EXCEPT ![t] = NoTurn]
                         /\ survivors' = survivors \ {t}
    BY <1>7, ExpireEffect
  <2>1. inflight' = inflight /\ req' = req /\ \A u \in Turns \ {t} : replay'[u] = replay[u]
    BY <1>7, ExpireEffect DEF TypeInv, Typed
  <2>2. journal'[t] = NoRecord /\ \A u \in Turns \ {t} : journal'[u] = journal[u]
    BY RemoveKeeps
  <2> QED BY <2>1, <2>2, RemovalKeepsAnswers
<1>8. CASE RestartStep
  <2>1. /\ \A t \in Turns : replay'[t] = NoTurn
        /\ survivors' = {t \in Turns : journal[t].state = "running"}
        /\ journal' = journal /\ \A r \in Requests : req'[r] = req[r] \/ req'[r] = NoRequest
    BY <1>8, RestartEffect DEF RestartStep
  <2> QED BY <1>0, <2>1, AnswersFrame
<1>9. CASE UNCHANGED vars
  BY <1>9, StutterEffect, <1>same
<1> QED BY <1>1, <1>2, <1>3, <1>4, <1>5, <1>6, <1>7, <1>8, <1>9, QuietKeepsAnswers,
           FinishKeepsAnswers, NextCases

LEMMA AlwaysAnswers == Spec => [](TypeInv /\ SendsInv /\ AnswersInv)
<1>1. Init => TypeInv /\ SendsInv /\ AnswersInv
  <2>1. Init => AnswersInv
    BY DEF Init, AnswersInv, SharedAnswersAreOwn, RunningIsInFlight, ReplayIsTheRecordedAnswer,
           NoRequest, NoRecord
  <2> QED BY <2>1, InitTypeInv, InitSends
<1>2. TypeInv /\ SendsInv /\ AnswersInv /\ [Next]_vars => (TypeInv /\ SendsInv /\ AnswersInv)'
  BY NextTypeInv, NextSends, NextAnswers
<1> QED BY <1>1, <1>2, PTL DEF Spec

\* An exchange that joined a send is given the answer to its own turn: the session of the
\* send names that turn as its replay owner until the send ends.
THEOREM JoinedAnswersAreOwn == Spec => []SharedAnswersAreOwn
<1>1. AnswersInv => SharedAnswersAreOwn
  BY DEF AnswersInv
<1> QED BY <1>1, AlwaysAnswers, PTL

\* No claim leaves a running record behind.
THEOREM RunningRecordsAreInFlight == Spec => []RunningIsInFlight
<1>1. AnswersInv => RunningIsInFlight
  BY DEF AnswersInv
<1> QED BY <1>1, AlwaysAnswers, PTL

\* A replay shows the answer the record was made from.
THEOREM ReplaysAreRecorded == Spec => []ReplayIsTheRecordedAnswer
<1>1. AnswersInv => ReplayIsTheRecordedAnswer
  BY DEF AnswersInv
<1> QED BY <1>1, AlwaysAnswers, PTL

-----------------------------------------------------------------------------
(* Agents: one that is being created is named nowhere *)

AgentOk(r) ==
  /\ req[r].agent = NoAgent <=> (req[r].pc = "sending" /\ req[r].mode = "rebuild")
  /\ req[r].pc = "running" => sess[req[r].sess].agent = req[r].agent
  /\ req[r].pc = "running" /\ req[r].mode = "rebuild" => req[r].agent = req[r].sess
  /\ req[r].pc = "running" /\ req[r].mode = "hinted" => req[r].agent \in strayed

Builds(r) == Active(r) /\ req[r].mode = "rebuild"
Unborn(a) == sess[a].state = "none" \/ \E r \in Requests : Builds(r) /\ req[r].sess = a

Unnamed(a) ==
  /\ \A t \in Turns : journal[t].agent # a
  /\ \A s \in Sessions \ {a} : sess[s].agent # a
  /\ \A r \in Requests : Active(r) /\ req[r].mode # "rebuild" => req[r].agent # a

AgentsInv ==
  /\ \A t \in Turns : journal[t].state = "completed" => journal[t].agent \in Sessions
  /\ \A s \in Sessions : sess[s].state = "completed" => sess[s].agent \in Sessions
  /\ \A r \in Requests : Active(r) => AgentOk(r)
  /\ \A a \in Sessions : Unborn(a) => Unnamed(a)

LEMMA NoAgentIsNone == NoAgent \notin Sessions /\ AgentIds \ {NoAgent} = Sessions
BY BoundAssumption DEF NoAgent, Sessions, AgentIds

\* Steps that name no agent anew.
LEMMA AgentsFrame ==
  ASSUME TypeInv, AgentsInv,
         \A t \in Turns : journal'[t] = journal[t] \/ journal'[t] = NoRecord,
         \A x \in Sessions :
           /\ sess'[x].agent = sess[x].agent \/ sess'[x].agent = NoAgent
           /\ sess'[x].state = "completed" => sess[x].state = "completed" /\ sess'[x].agent = sess[x].agent
           /\ sess'[x].state = "none" => sess[x].state = "none",
         \A q \in Requests : Active(q)' =>
           /\ Active(q) /\ req'[q] = req[q]
           /\ sess'[req[q].sess].agent = sess[req[q].sess].agent,
         strayed \subseteq strayed'
  PROVE  AgentsInv'
<1>1. \A t \in Turns : journal'[t].state = "completed" => journal'[t].agent \in Sessions
  BY DEF AgentsInv, NoRecord
<1>2. \A s \in Sessions : sess'[s].state = "completed" => sess'[s].agent \in Sessions
  BY DEF AgentsInv
<1>3. ASSUME NEW q \in Requests, Active(q)' PROVE AgentOk(q)'
  <2>1. Active(q) /\ req'[q] = req[q] /\ sess'[req[q].sess].agent = sess[req[q].sess].agent
    BY <1>3
  <2>2. AgentOk(q)
    BY <2>1 DEF AgentsInv
  <2> QED BY <2>1, <2>2 DEF AgentOk
<1>4. ASSUME NEW a \in Sessions, Unborn(a)' PROVE Unnamed(a)'
  <2>1. Unborn(a)
    BY <1>4 DEF Unborn, Builds
  <2>2. Unnamed(a)
    BY <2>1 DEF AgentsInv
  <2>3. \A t \in Turns : journal'[t].agent # a
    BY <2>2, NoAgentIsNone DEF Unnamed, NoRecord
  <2>4. \A s \in Sessions \ {a} : sess'[s].agent # a
    BY <2>2, NoAgentIsNone DEF Unnamed
  <2>5. \A r \in Requests : Active(r)' /\ req'[r].mode # "rebuild" => req'[r].agent # a
    BY <2>2 DEF Unnamed
  <2> QED BY <2>3, <2>4, <2>5 DEF Unnamed
<1> QED BY <1>1, <1>2, <1>3, <1>4 DEF AgentsInv

LEMMA ClaimKeepsAgents ==
  ASSUME TypeInv, SendsInv, AgentsInv, NEW r \in Requests, NEW t \in Turns,
         NEW mode \in {"rebuild", "resume"}, NEW s \in Sessions, NEW a \in AgentIds,
         ClaimStep(r, t, mode, s, a)
  PROVE  AgentsInv'
<1>1. /\ ~Active(r)
      /\ req'[r] = [pc |-> "sending", turn |-> t, mode |-> mode, sess |-> s, agent |-> a,
                    got |-> NoTurn]
      /\ \A q \in Requests \ {r} : req'[q] = req[q]
      /\ sess'[s].state \in {"creating", "running"}
      /\ \/ sess[s].state = "none" /\ sess'[s].agent = NoAgent
         \/ sess[s].state = "completed" /\ sess'[s].agent = sess[s].agent
      /\ \A x \in Sessions \ {s} : sess'[x] = sess[x]
  BY ONLY ClaimEffect, ClaimStep(r, t, mode, s, a), TypeInv
<1>2. /\ journal'[t] = ClaimedRecord(a) /\ \A u \in Turns \ {t} : journal'[u] = journal[u]
      /\ strayed' = strayed
  BY ClaimKeeps DEF ClaimStep
<1>3. \/ mode = "rebuild" /\ a = NoAgent /\ sess[s].state = "none"
      \/ mode = "resume" /\ \E p \in Turns : journal[p].state = "completed" /\ a = journal[p].agent
  BY DEF ClaimStep, Parents, Recorded
<1>4. \A u \in Turns : journal'[u].state = "completed" => journal'[u].agent \in Sessions
  BY <1>2 DEF AgentsInv, ClaimedRecord
<1>5. \A x \in Sessions : sess'[x].state = "completed" => sess'[x].agent \in Sessions
  BY <1>1 DEF AgentsInv
<1>6. ASSUME NEW q \in Requests \ {r}, Active(q)'
      PROVE  /\ Active(q) /\ req'[q] = req[q] /\ req[q].sess \in Sessions \ {s}
             /\ sess'[req[q].sess] = sess[req[q].sess]
  <2>1. Active(q) /\ req'[q] = req[q]
    BY <1>1, <1>6 DEF Active
  <2>2. SendOk(q) /\ req[q].sess \in Sessions
    BY <2>1 DEF SendsInv, Active, TypeInv, Typed
  <2> QED BY <1>1, <2>1, <2>2 DEF SendOk
<1>7. ASSUME NEW q \in Requests, Active(q)' PROVE AgentOk(q)'
  <2>1. CASE q = r
    <3>1. a = NoAgent <=> mode = "rebuild"
      BY <1>3, NoAgentIsNone DEF AgentsInv
    <3> QED BY <1>1, <2>1, <3>1 DEF AgentOk
  <2>2. CASE q # r
    <3>1. Active(q) /\ req'[q] = req[q] /\ sess'[req[q].sess] = sess[req[q].sess]
      BY <1>6, <1>7, <2>2
    <3>2. AgentOk(q)
      BY <3>1 DEF AgentsInv
    <3> QED BY <1>2, <3>1, <3>2 DEF AgentOk
  <2> QED BY <2>1, <2>2
<1>8. ASSUME NEW x \in Sessions, Unborn(x)' PROVE Unnamed(x)'
  <2>1. Unborn(x)
    <3>1. CASE sess'[x].state = "none"
      BY <1>1, <3>1 DEF Unborn
    <3>2. CASE \E q \in Requests : Builds(q)' /\ req'[q].sess = x
      <4> PICK q \in Requests : Builds(q)' /\ req'[q].sess = x
        BY <3>2
      <4>1. CASE q = r
        BY <1>1, <1>3, <4>1 DEF Builds, Unborn
      <4>2. CASE q # r
        BY <1>6, <4>2 DEF Builds, Unborn
      <4> QED BY <4>1, <4>2
    <3> QED BY <1>8, <3>1, <3>2 DEF Unborn
  <2>2. Unnamed(x)
    BY <2>1 DEF AgentsInv
  <2>3. a # x
    BY <1>3, <2>2, NoAgentIsNone DEF Unnamed
  <2>4. \A u \in Turns : journal'[u].agent # x
    BY <1>2, <2>2, <2>3 DEF Unnamed, ClaimedRecord
  <2>5. \A y \in Sessions \ {x} : sess'[y].agent # x
    BY <1>1, <2>2, NoAgentIsNone DEF Unnamed
  <2>6. ASSUME NEW q \in Requests, Active(q)', req'[q].mode # "rebuild" PROVE req'[q].agent # x
    <3>1. CASE q = r
      BY <1>1, <2>3, <3>1
    <3>2. CASE q # r
      BY <1>6, <2>2, <2>6, <3>2 DEF Unnamed
    <3> QED BY <3>1, <3>2
  <2> QED BY <2>4, <2>5, <2>6 DEF Unnamed
<1> QED BY <1>4, <1>5, <1>7, <1>8 DEF AgentsInv

LEMMA HintedKeepsAgents ==
  ASSUME TypeInv, SendsInv, AgentsInv, NEW r \in Requests, NEW t \in Turns, NEW s \in Sessions,
         HintedStep(r, t, s)
  PROVE  AgentsInv'
<1> DEFINE a == sess[s].agent
<1>1. /\ ~Active(r) /\ sess[s].state = "completed"
      /\ req'[r] = [pc |-> "sending", turn |-> t, mode |-> "hinted", sess |-> s, agent |-> a,
                    got |-> NoTurn]
      /\ \A q \in Requests \ {r} : req'[q] = req[q]
      /\ sess'[s].state = "running" /\ sess'[s].agent = a
      /\ \A x \in Sessions \ {s} : sess'[x] = sess[x]
  BY ONLY HintedEffect, HintedStep(r, t, s), TypeInv
<1>2. journal' = journal /\ strayed' = strayed
  BY DEF HintedStep
<1>3. a \in Sessions
  BY <1>1 DEF AgentsInv
<1>6. ASSUME NEW q \in Requests \ {r}, Active(q)'
      PROVE  /\ Active(q) /\ req'[q] = req[q] /\ req[q].sess \in Sessions \ {s}
             /\ sess'[req[q].sess] = sess[req[q].sess]
  <2>1. Active(q) /\ req'[q] = req[q]
    BY <1>1, <1>6 DEF Active
  <2>2. SendOk(q) /\ req[q].sess \in Sessions
    BY <2>1 DEF SendsInv, Active, TypeInv, Typed
  <2> QED BY <1>1, <2>1, <2>2 DEF SendOk
<1>7. ASSUME NEW q \in Requests, Active(q)' PROVE AgentOk(q)'
  <2>1. CASE q = r
    BY <1>1, <1>3, <2>1, NoAgentIsNone DEF AgentOk
  <2>2. CASE q # r
    <3>1. Active(q) /\ req'[q] = req[q] /\ sess'[req[q].sess] = sess[req[q].sess]
      BY <1>6, <1>7, <2>2
    <3>2. AgentOk(q)
      BY <3>1 DEF AgentsInv
    <3> QED BY <1>2, <3>1, <3>2 DEF AgentOk
  <2> QED BY <2>1, <2>2
<1>8. ASSUME NEW x \in Sessions, Unborn(x)' PROVE Unnamed(x)'
  <2>1. Unborn(x) /\ x # s
    <3>1. CASE sess'[x].state = "none"
      BY <1>1, <3>1 DEF Unborn
    <3>2. CASE \E q \in Requests : Builds(q)' /\ req'[q].sess = x
      <4> PICK q \in Requests : Builds(q)' /\ req'[q].sess = x
        BY <3>2
      <4>1. q # r
        BY <1>1 DEF Builds
      <4> QED BY <1>6, <4>1 DEF Builds, Unborn
    <3> QED BY <1>8, <3>1, <3>2 DEF Unborn
  <2>2. Unnamed(x)
    BY <2>1 DEF AgentsInv
  <2>3. a # x
    BY <2>1, <2>2 DEF Unnamed
  <2>4. \A u \in Turns : journal'[u].agent # x
    BY <1>2, <2>2 DEF Unnamed
  <2>5. \A y \in Sessions \ {x} : sess'[y].agent # x
    BY <1>1, <2>2 DEF Unnamed
  <2>6. ASSUME NEW q \in Requests, Active(q)', req'[q].mode # "rebuild" PROVE req'[q].agent # x
    <3>1. CASE q = r
      BY <1>1, <2>3, <3>1
    <3>2. CASE q # r
      BY <1>6, <2>2, <2>6, <3>2 DEF Unnamed
    <3> QED BY <3>1, <3>2
  <2> QED BY <2>4, <2>5, <2>6 DEF Unnamed
<1>9. \A x \in Sessions : sess'[x].state = "completed" => sess'[x].agent \in Sessions
  BY <1>1 DEF AgentsInv
<1> QED BY <1>2, <1>7, <1>8, <1>9 DEF AgentsInv

LEMMA SentKeepsAgents ==
  ASSUME TypeInv, SendsInv, AgentsInv, NEW r \in Requests, Sent(r)
  PROVE  AgentsInv'
<1> DEFINE s == req[r].sess
           a == SentAgent(r)
<1>1. /\ s \in Sessions /\ a \in Sessions /\ req[r].pc = "sending"
      /\ req'[r].pc = "running" /\ req'[r].agent = a
      /\ req'[r].mode = req[r].mode /\ req'[r].sess = s
      /\ \A q \in Requests \ {r} : req'[q] = req[q]
      /\ sess'[s].agent = a
      /\ sess'[s].state = (IF req[r].mode = "rebuild" THEN "running" ELSE sess[s].state)
      /\ \A x \in Sessions \ {s} : sess'[x] = sess[x]
      /\ strayed' = (IF req[r].mode = "hinted" THEN strayed \cup {a} ELSE strayed)
      /\ journal' = journal
  BY SentEffect
<1>2. Active(r) /\ SendOk(r) /\ AgentOk(r)
  BY <1>1 DEF Active, SendsInv, AgentsInv
<1>3. a = (IF req[r].mode = "rebuild" THEN s ELSE req[r].agent)
  BY <1>1, <1>2 DEF AgentOk, SentAgent
<1> HIDE DEF a
<1>4. sess[s].state # "completed" /\ sess[s].state # "none"
  BY <1>2 DEF SendOk
<1>5. \A x \in Sessions : sess'[x].state = "completed" => sess'[x].agent \in Sessions
  BY <1>1, <1>4 DEF AgentsInv
<1>6. ASSUME NEW q \in Requests \ {r}, Active(q)'
      PROVE  /\ Active(q) /\ req'[q] = req[q] /\ req[q].sess \in Sessions \ {s}
             /\ sess'[req[q].sess] = sess[req[q].sess]
  <2>1. Active(q) /\ req'[q] = req[q]
    BY <1>1, <1>6 DEF Active
  <2>2. req[q].sess # s /\ req[q].sess \in Sessions
    BY <1>2, <2>1 DEF SendsInv, Active, TypeInv, Typed
  <2> QED BY <1>1, <2>1, <2>2
<1>7. ASSUME NEW q \in Requests, Active(q)' PROVE AgentOk(q)'
  <2>1. CASE q = r
    BY <1>1, <1>3, <2>1, NoAgentIsNone DEF AgentOk
  <2>2. CASE q # r
    <3>1. Active(q) /\ req'[q] = req[q] /\ sess'[req[q].sess] = sess[req[q].sess]
      BY <1>6, <1>7, <2>2
    <3>2. AgentOk(q)
      BY <3>1 DEF AgentsInv
    <3> QED BY <1>1, <3>1, <3>2 DEF AgentOk
  <2> QED BY <2>1, <2>2
<1>8. ASSUME NEW x \in Sessions, Unborn(x)' PROVE Unnamed(x)'
  <2>1. Unborn(x)
    <3>1. CASE sess'[x].state = "none"
      BY <1>1, <1>4, <3>1 DEF Unborn
    <3>2. CASE \E q \in Requests : Builds(q)' /\ req'[q].sess = x
      <4> PICK q \in Requests : Builds(q)' /\ req'[q].sess = x
        BY <3>2
      <4>1. Builds(q) /\ req[q].sess = x
        BY <1>1, <1>2 DEF Builds, Active
      <4> QED BY <4>1 DEF Unborn
    <3> QED BY <1>8, <3>1, <3>2 DEF Unborn
  <2>2. Unnamed(x)
    BY <2>1 DEF AgentsInv
  <2>3. a # x \/ (s = x /\ req[r].mode = "rebuild")
    BY <1>2, <1>3, <2>2 DEF Unnamed
  <2>4. \A u \in Turns : journal'[u].agent # x
    BY <1>1, <2>2 DEF Unnamed
  <2>5. \A y \in Sessions \ {x} : sess'[y].agent # x
    BY <1>1, <2>2, <2>3 DEF Unnamed
  <2>6. ASSUME NEW q \in Requests, Active(q)', req'[q].mode # "rebuild" PROVE req'[q].agent # x
    <3>1. CASE q = r
      BY <1>1, <2>3, <2>6, <3>1
    <3>2. CASE q # r
      BY <1>6, <2>2, <2>6, <3>2 DEF Unnamed
    <3> QED BY <3>1, <3>2
  <2> QED BY <2>4, <2>5, <2>6 DEF Unnamed
<1> QED BY <1>1, <1>5, <1>7, <1>8 DEF AgentsInv

\* What a running request ends on.
LEMMA RunningFacts ==
  ASSUME TypeInv, SendsInv, AgentsInv, NEW r \in Requests, req[r].pc = "running"
  PROVE  /\ Active(r) /\ SendOk(r) /\ AgentOk(r) /\ req[r].sess \in Sessions
         /\ req[r].agent \in Sessions /\ sess[req[r].sess].agent = req[r].agent
<1>1. Active(r)
  BY DEF Active
<1>2. SendOk(r) /\ AgentOk(r) /\ req[r].sess \in Sessions /\ req[r].agent \in AgentIds
  BY <1>1 DEF SendsInv, AgentsInv, TypeInv, Typed, Active, Request
<1>3. req[r].agent # NoAgent /\ sess[req[r].sess].agent = req[r].agent
  BY <1>2 DEF AgentOk
<1> QED BY <1>1, <1>2, <1>3, NoAgentIsNone

LEMMA FinishKeepsAgents ==
  ASSUME TypeInv, SendsInv, AgentsInv, NEW r \in Requests, Finish(r)
  PROVE  AgentsInv'
<1> DEFINE s == req[r].sess
           t == req[r].turn
           o == sess[s].owner
           a == req[r].agent
<1>1. /\ s \in Sessions /\ t \in Turns /\ req[r].pc = "running" /\ RememberOrdinaryCompletion(s, t)
      /\ sess'[s].state = "completed" /\ sess'[s].agent = sess[s].agent
      /\ \A x \in Sessions \ {s} : sess'[x] = sess[x]
      /\ strayed' = strayed
  BY FinishEffect
<1>2. /\ \A u \in Turns : u # o => journal'[u] = journal[u]
      /\ o \in Turns => journal'[o] = EndRecord(s, t)
  BY <1>1, RememberKeeps
<1>3. Active(r) /\ SendOk(r) /\ AgentOk(r) /\ a \in Sessions /\ sess[s].agent = a
  BY <1>1, RunningFacts
<1>4. \A u \in Turns : journal'[u].state = "completed" => journal'[u].agent \in Sessions
  BY <1>2, <1>3 DEF AgentsInv, EndRecord
<1>5. \A x \in Sessions : sess'[x].state = "completed" => sess'[x].agent \in Sessions
  BY <1>1, <1>3 DEF AgentsInv
<1>6. ASSUME NEW q \in Requests, Active(q)'
      PROVE  /\ Active(q) /\ req'[q] = req[q] /\ req[q].sess \in Sessions \ {s}
             /\ sess'[req[q].sess] = sess[req[q].sess]
  <2>1. q # r /\ req'[q] = req[q] /\ Active(q)
    <3>1. /\ req'[r] = NoRequest
          /\ \/ q = r
             \/ req'[q] = req[q]
             \/ req'[q] = NoRequest
             \/ req'[q] = Given("shared", t, replay'[t])
      BY FinishEffect
    <3>2. NoRequest.pc = "idle" /\ Given("shared", t, replay'[t]).pc = "shared"
      BY DEF NoRequest, Given
    <3>3. req'[q].pc \notin {"idle", "shared"}
      BY <1>6 DEF Active
    <3>4. q # r /\ req'[q] = req[q]
      BY <3>1, <3>2, <3>3
    <3> QED BY <1>6, <3>4 DEF Active
  <2>2. req[q].sess # s /\ req[q].sess \in Sessions
    BY <1>3, <2>1 DEF SendsInv, Active, TypeInv, Typed
  <2> QED BY <1>1, <2>1, <2>2
<1>7. ASSUME NEW q \in Requests, Active(q)' PROVE AgentOk(q)'
  <2>1. Active(q) /\ req'[q] = req[q] /\ sess'[req[q].sess] = sess[req[q].sess]
    BY <1>6, <1>7
  <2>2. AgentOk(q)
    BY <2>1 DEF AgentsInv
  <2> QED BY <1>1, <2>1, <2>2 DEF AgentOk
<1>8. ASSUME NEW x \in Sessions, Unborn(x)' PROVE Unnamed(x)'
  <2>1. Unborn(x) /\ x # s
    <3>1. CASE sess'[x].state = "none"
      BY <1>1, <3>1 DEF Unborn
    <3>2. CASE \E q \in Requests : Builds(q)' /\ req'[q].sess = x
      <4> PICK q \in Requests : Builds(q)' /\ req'[q].sess = x
        BY <3>2
      <4> QED BY <1>6 DEF Builds, Unborn
    <3> QED BY <1>8, <3>1, <3>2 DEF Unborn
  <2>2. Unnamed(x)
    BY <2>1 DEF AgentsInv
  <2>3. sess[s].agent # x
    BY <1>1, <2>1, <2>2 DEF Unnamed
  <2>4. \A u \in Turns : journal'[u].agent # x
    BY <1>2, <2>2, <2>3 DEF Unnamed, EndRecord
  <2>5. \A y \in Sessions \ {x} : sess'[y].agent # x
    BY <1>1, <2>2 DEF Unnamed
  <2>6. \A q \in Requests : Active(q)' /\ req'[q].mode # "rebuild" => req'[q].agent # x
    BY <1>6, <2>2 DEF Unnamed
  <2> QED BY <2>4, <2>5, <2>6 DEF Unnamed
<1> QED BY <1>4, <1>5, <1>7, <1>8 DEF AgentsInv

LEMMA NextAgents == TypeInv /\ SendsInv /\ AgentsInv /\ [Next]_vars => AgentsInv'
<1> SUFFICES ASSUME TypeInv, SendsInv, AgentsInv, [Next]_vars PROVE AgentsInv'
  OBVIOUS
<1>0. NoRequest.pc = "idle" /\ \A q \in Requests : req'[q] = NoRequest => ~(Active(q)')
  BY DEF NoRequest, Active
<1>1. ASSUME NEW r \in Requests, QuietStep(r) PROVE AgentsInv'
  <2>1. UNCHANGED <<journal, sess, strayed>>
    BY <1>1 DEF QuietStep
  <2>2. \A q \in Requests : Active(q)' => Active(q) /\ req'[q] = req[q]
    BY <1>1, QuietEffect DEF Active
  <2> QED BY <2>1, <2>2, AgentsFrame
<1>2. ASSUME NEW r \in Requests, Fail(r) PROVE AgentsInv'
  <2>1. /\ req[r].sess \in Sessions /\ req[r].turn \in Turns
        /\ sess'[req[r].sess].state \in {"closed", "failed"}
        /\ sess'[req[r].sess].agent = sess[req[r].sess].agent
        /\ \A x \in Sessions \ {req[r].sess} : sess'[x] = sess[x]
    BY <1>2, FailEffect
  <2>2. \A q \in Requests : Active(q)' => Active(q) /\ req'[q] = req[q] /\ req[q].sess \in Sessions
    BY <1>0, <1>2, FailEffect DEF Active, TypeInv, Typed
  <2>3. /\ \A t \in Turns : journal'[t] = journal[t] \/ journal'[t] = NoRecord
        /\ strayed \subseteq strayed'
    <3>1. CASE Disclaim(req[r].turn)
      BY <2>1, <3>1, DisclaimKeeps
    <3>2. CASE UNCHANGED <<journal, strayed>>
      BY <3>2
    <3> QED BY <1>2, <3>1, <3>2, FailEffect
  <2>4. \A x \in Sessions :
           /\ sess'[x].agent = sess[x].agent
           /\ sess'[x].state = "completed" => sess[x].state = "completed"
           /\ sess'[x].state = "none" => sess[x].state = "none"
    BY <2>1
  <2> QED BY <2>2, <2>3, <2>4, AgentsFrame
<1>3. ASSUME NEW r \in Requests, NEW t \in Turns, UndoneStep(r, t) PROVE AgentsInv'
  <2>1. /\ Disclaim(t) /\ req'[r] = NoRequest /\ \A q \in Requests \ {r} : req'[q] = req[q]
        /\ \A x \in Sessions : sess'[x].state = sess[x].state /\ sess'[x].agent = sess[x].agent
    BY <1>3, UndoneEffect
  <2>2. /\ \A u \in Turns : journal'[u] = journal[u] \/ journal'[u] = NoRecord
        /\ strayed \subseteq strayed'
    BY <2>1, DisclaimKeeps
  <2>3. \A q \in Requests : Active(q)' => Active(q) /\ req'[q] = req[q] /\ req[q].sess \in Sessions
    BY <1>0, <2>1 DEF Active, TypeInv, Typed
  <2> QED BY <2>1, <2>2, <2>3, AgentsFrame
<1>close. ASSUME SessionsClose, UNCHANGED <<req, strayed>>,
                 \A t \in Turns : journal'[t] = journal[t] \/ journal'[t] = NoRecord
          PROVE  AgentsInv'
  <2>1. \A q \in Requests : Active(q)' => Active(q) /\ req'[q] = req[q] /\ req[q].sess \in Sessions
    BY <1>close DEF Active, TypeInv, Typed
  <2>2. \A x \in Sessions :
           /\ sess'[x].agent = sess[x].agent
           /\ sess'[x].state = "completed" => sess[x].state = "completed"
           /\ sess'[x].state = "none" => sess[x].state = "none"
    BY <1>close DEF SessionsClose
  <2> QED BY <1>close, <2>1, <2>2, AgentsFrame
<1>4. ASSUME NEW s \in Sessions, ForgetSession(s) PROVE AgentsInv'
  BY <1>4, ForgetEffect, <1>close
<1>5. CASE Expire
  <2> PICK t \in Turns : Remove(t)
    BY <1>5, ExpireEffect
  <2>1. \A u \in Turns : journal'[u] = journal[u] \/ journal'[u] = NoRecord
    BY RemoveKeeps
  <2> QED BY <1>5, <2>1, ExpireEffect, <1>close
<1>6. CASE RestartStep
  <2>1. /\ UNCHANGED <<journal, strayed>> /\ \A q \in Requests : ~(Active(q)')
        /\ \A x \in Sessions : \/ sess[x].state = "none" /\ sess'[x] = NoSess
                               \/ /\ sess[x].state # "none" /\ sess'[x].state = "closed"
                                  /\ sess'[x].agent = sess[x].agent
    BY <1>6, RestartEffect DEF RestartStep
  <2>2. NoSess.agent = NoAgent /\ NoSess.state = "none"
    BY DEF NoSess
  <2>3. \A x \in Sessions :
           /\ sess'[x].agent = sess[x].agent \/ sess'[x].agent = NoAgent
           /\ sess'[x].state # "completed"
           /\ sess'[x].state = "none" => sess[x].state = "none"
    BY <2>1, <2>2
  <2> QED BY <2>1, <2>3, AgentsFrame
<1>7. CASE UNCHANGED vars
  <2>1. SessionsClose /\ UNCHANGED <<req, strayed, journal>>
    BY <1>7, StutterEffect DEF SessionsClose
  <2> QED BY <2>1, <1>close
<1>8. ASSUME NEW r \in Requests, NEW t \in Turns, NEW s \in Sessions,
             \/ ClaimStep(r, t, "rebuild", s, NoAgent)
             \/ \E a \in AgentIds : ClaimStep(r, t, "resume", s, a)
             \/ HintedStep(r, t, s)
      PROVE  AgentsInv'
  BY <1>8, NoTypes, ClaimKeepsAgents, HintedKeepsAgents
<1> QED BY <1>1, <1>2, <1>3, <1>4, <1>5, <1>6, <1>7, <1>8, SentKeepsAgents, FinishKeepsAgents,
           NextCases

LEMMA InitAgents == Init => AgentsInv
<1> SUFFICES ASSUME Init PROVE AgentsInv
  OBVIOUS
<1>1. /\ \A t \in Turns : journal[t].state = "none" /\ journal[t].agent = NoAgent
      /\ \A s \in Sessions : sess[s].state = "none" /\ sess[s].agent = NoAgent
      /\ \A r \in Requests : ~Active(r)
  BY DEF Init, NoRecord, NoSess, NoRequest, Active
<1> QED BY <1>1, NoAgentIsNone DEF AgentsInv, Unnamed

-----------------------------------------------------------------------------
(* What the agents hold *)

Settled(u) == journal[u].state = "completed" /\ u \notin inflight

\* Records whose agent the journal knows all about.
Known(p) == journal[p].state = "completed" /\ journal[p].agent \notin strayed

\* A turn that continues p and is recorded for longer.
Succeeds(u, p) == Before(order, p, u) /\ Key[u] = After[p]

\* The agent was sent a turn whose answer no process saw.
Adrift(a) == \A p \in Turns : Known(p) /\ journal[p].agent = a => After[p] # held[a]

\* An agent of a record holds the transcript that ends with the turn, or it went on, and a
\* later record of the turn it went on with makes a fork of every other successor.
Told(p) ==
  LET a == journal[p].agent
  IN  /\ journal[p].answer = p
      /\ held[a] \in Keys
      /\ TurnIndex[After[p]] <= TurnIndex[held[a]]
      /\ \/ held[a] = After[p]
         \/ \E u \in Turns : Succeeds(u, p) /\ Settled(u)
         \/ \E u \in Turns : Succeeds(u, p) /\ held[a] = After[u] /\ Adrift(a)

RecordsInv == \A p \in Turns : Known(p) => Told(p)

Resuming(r) == Active(r) /\ req[r].mode = "resume" /\ req[r].agent \notin strayed

\* The turn that is sent is a later record than every turn its agent could be resumed for.
Covers(r, p) ==
  IF held[req[r].agent] = After[p] THEN Before(order, p, req[r].turn)
  ELSE \E u \in Turns : Succeeds(u, p) /\ Settled(u)

ResumeOk(r) ==
  LET a == req[r].agent
  IN  /\ held[a] = Key[req[r].turn]
      /\ \A q \in Requests : Resuming(q) /\ req[q].agent = a => q = r
      /\ \A p \in Turns : Known(p) /\ journal[p].agent = a => Covers(r, p)

ResumesInv == \A r \in Requests : Resuming(r) => ResumeOk(r)

StepInv == TypeInv /\ SendsInv /\ AgentsInv
IInv == StepInv /\ RecordsInv /\ ResumesInv

\* A record that stays as it is, with the later ones it relies on.
RecordStays(p) ==
  LET a == journal[p].agent
  IN  /\ journal'[p] = journal[p] /\ held'[a] = held[a]
      /\ \A u \in Turns : Before(order, p, u) /\ Settled(u) => Before(order', p, u) /\ Settled(u)'
      /\ \A u \in Turns : Before(order, p, u) /\ held[a] = After[u] => Before(order', p, u)

LEMMA ToldStays ==
  ASSUME NEW p \in Turns, Told(p), RecordStays(p),
         Adrift(journal[p].agent) => Adrift(journal[p].agent)'
  PROVE  Told(p)'
<1> DEFINE a == journal[p].agent
<1>1. journal'[p] = journal[p] /\ held'[a] = held[a]
  BY DEF RecordStays
<1>2. ASSUME NEW u \in Turns, Succeeds(u, p), Settled(u) PROVE Succeeds(u, p)' /\ Settled(u)'
  BY <1>2 DEF RecordStays, Succeeds
<1>3. ASSUME NEW u \in Turns, Succeeds(u, p), held[a] = After[u] PROVE Succeeds(u, p)'
  BY <1>3 DEF RecordStays, Succeeds
<1>4. \/ held'[a] = After[p]
      \/ \E u \in Turns : Succeeds(u, p)' /\ Settled(u)'
      \/ \E u \in Turns : Succeeds(u, p)' /\ held'[a] = After[u] /\ Adrift(a)'
  BY <1>1, <1>2, <1>3 DEF Told
<1> QED BY <1>1, <1>4 DEF Told

LEMMA CoversStays ==
  ASSUME NEW q \in Requests, NEW p \in Turns, Covers(q, p), RecordStays(p),
         journal[p].agent = req[q].agent,
         req'[q].turn = req[q].turn, req'[q].agent = req[q].agent,
         Before(order, p, req[q].turn) => Before(order', p, req[q].turn)
  PROVE  Covers(q, p)'
<1>1. held'[req[q].agent] = held[req[q].agent]
  BY DEF RecordStays
<1>2. CASE held[req[q].agent] = After[p]
  BY <1>1, <1>2 DEF Covers
<1>3. CASE held[req[q].agent] # After[p]
  <2> PICK u \in Turns : Succeeds(u, p) /\ Settled(u)
    BY <1>3 DEF Covers
  <2>1. Succeeds(u, p)' /\ Settled(u)'
    BY DEF RecordStays, Succeeds
  <2> QED BY <1>1, <1>3, <2>1 DEF Covers
<1> QED BY <1>2, <1>3

\* Steps after which no more records are known and no more turns are resumed, and that
\* take no later record away.
RecordsStay ==
  /\ \A p \in Turns : Known(p)' =>
       Known(p) /\ journal'[p] = journal[p] /\ held'[journal[p].agent] = held[journal[p].agent]
  /\ \A p, u \in Turns : Known(p)' /\ Before(order, p, u) /\ Settled(u) =>
       Before(order', p, u) /\ Settled(u)'
  /\ \A p, u \in Turns : Known(p)' /\ Before(order, p, u) /\ held[journal[p].agent] = After[u] =>
       Before(order', p, u)

LEMMA RecordsFrame ==
  ASSUME RecordsInv, RecordsStay
  PROVE  RecordsInv'
<1> SUFFICES ASSUME NEW p \in Turns, Known(p)' PROVE Told(p)'
  BY DEF RecordsInv
<1> DEFINE a == journal[p].agent
<1>1. Known(p) /\ journal'[p] = journal[p] /\ held'[a] = held[a]
  BY DEF RecordsStay
<1>2. Told(p)
  BY <1>1 DEF RecordsInv
<1>3. RecordStays(p)
  BY <1>1 DEF RecordsStay, RecordStays
<1>4. Adrift(a) => Adrift(a)'
  BY <1>1 DEF RecordsStay, Adrift
<1> QED BY <1>2, <1>3, <1>4, ToldStays

\* The resumed turns that go on.
ResumesStay ==
  \A q \in Requests : Resuming(q)' =>
    /\ Resuming(q) /\ req'[q].turn = req[q].turn /\ req'[q].agent = req[q].agent
    /\ held'[req[q].agent] = held[req[q].agent]
    /\ \A p \in Turns : Known(p)' /\ Before(order, p, req[q].turn) => Before(order', p, req[q].turn)

LEMMA ResumeFrame ==
  ASSUME ResumesInv, RecordsStay, NEW r \in Requests, Resuming(r),
         req'[r].turn = req[r].turn, req'[r].agent = req[r].agent,
         \A p \in Turns : Known(p)' /\ Before(order, p, req[r].turn) => Before(order', p, req[r].turn),
         NEW p \in Turns, Known(p)', journal'[p].agent = req[r].agent
  PROVE  Covers(r, p)'
<1>1. Known(p) /\ journal[p].agent = req[r].agent /\ RecordStays(p)
  BY DEF RecordsStay, RecordStays
<1>2. Covers(r, p)
  BY <1>1 DEF ResumesInv, ResumeOk
<1> QED BY <1>1, <1>2, CoversStays

LEMMA ResumesFrame ==
  ASSUME ResumesInv, RecordsStay, ResumesStay
  PROVE  ResumesInv'
<1> SUFFICES ASSUME NEW r \in Requests, Resuming(r)' PROVE ResumeOk(r)'
  BY DEF ResumesInv
<1>1. /\ Resuming(r) /\ req'[r].turn = req[r].turn /\ req'[r].agent = req[r].agent
      /\ held'[req[r].agent] = held[req[r].agent]
      /\ \A p \in Turns : Known(p)' /\ Before(order, p, req[r].turn) => Before(order', p, req[r].turn)
  BY DEF ResumesStay
<1>2. held'[req'[r].agent] = Key[req'[r].turn]
  BY <1>1 DEF ResumesInv, ResumeOk
<1>3. \A q \in Requests : Resuming(q)' /\ req'[q].agent = req'[r].agent => q = r
  BY <1>1 DEF ResumesStay, ResumesInv, ResumeOk
<1>4. \A p \in Turns : Known(p)' /\ journal'[p].agent = req'[r].agent => Covers(r, p)'
  BY <1>1, ResumeFrame
<1> QED BY <1>2, <1>3, <1>4 DEF ResumeOk

\* Nothing is written to the journal.
LEMMA SameRecordsFrame ==
  ASSUME StepInv, RecordsInv, ResumesInv,
         UNCHANGED <<journal, order, inflight, held>>, strayed \subseteq strayed',
         \A q \in Requests : Resuming(q)' =>
           Resuming(q) /\ req'[q].turn = req[q].turn /\ req'[q].agent = req[q].agent
  PROVE  RecordsInv' /\ ResumesInv'
<1>1. \A p \in Turns : Known(p)' => Known(p)
  BY DEF Known
<1>2. \A u \in Turns : Settled(u) => Settled(u)'
  BY DEF Settled
<1>3. RecordsStay
  BY <1>1, <1>2 DEF RecordsStay
<1>4. ResumesStay
  BY DEF ResumesStay
<1> QED BY <1>3, <1>4, RecordsFrame, ResumesFrame

\* A record that is removed is no later record that a known one relies on.
LEMMA RemovalFrame ==
  ASSUME StepInv, RecordsInv, ResumesInv, NEW t \in Turns,
         journal'[t] = NoRecord, \A u \in Turns \ {t} : journal'[u] = journal[u],
         \A p, u \in Turns \ {t} : Before(order, p, u) => Before(order', p, u),
         inflight' \subseteq inflight, held' = held, strayed \subseteq strayed',
         \/ \A p \in Turns : ~Before(order, p, t)
         \/ /\ ~Settled(t) /\ \A a \in Sessions : held[a] = After[t] => a \in strayed'
            /\ \A q \in Requests : Resuming(q)' => req[q].turn # t,
         \A q \in Requests : Resuming(q)' =>
           Resuming(q) /\ req'[q].turn = req[q].turn /\ req'[q].agent = req[q].agent
  PROVE  RecordsInv' /\ ResumesInv'
<1>1. ASSUME NEW p \in Turns, Known(p)'
      PROVE  p # t /\ Known(p) /\ journal'[p] = journal[p] /\ journal[p].agent \in Sessions
             /\ journal[p].agent \notin strayed'
  BY <1>1 DEF Known, NoRecord, StepInv, AgentsInv
<1>2. ASSUME NEW u \in Turns, u # t, Settled(u) PROVE Settled(u)'
  BY <1>2 DEF Settled
<1>3. RecordsStay
  <2>1. ASSUME NEW p \in Turns, NEW u \in Turns, Known(p)', Before(order, p, u), Settled(u)
        PROVE  Before(order', p, u) /\ Settled(u)'
    BY <1>1, <1>2, <2>1
  <2>2. ASSUME NEW p \in Turns, NEW u \in Turns, Known(p)', Before(order, p, u),
               held[journal[p].agent] = After[u]
        PROVE  Before(order', p, u)
    BY <1>1, <2>2
  <2> QED BY <1>1, <2>1, <2>2 DEF RecordsStay
<1>4. ResumesStay
  <2>1. ASSUME NEW q \in Requests, Resuming(q)', NEW p \in Turns, Known(p)',
               Before(order, p, req[q].turn)
        PROVE  Before(order', p, req[q].turn)
    <3>1. req[q].turn \in Turns
      BY <2>1 DEF Resuming, Active, StepInv, TypeInv, Typed, Over
    <3> QED BY <1>1, <2>1, <3>1
  <2> QED BY <2>1 DEF ResumesStay
<1> QED BY <1>3, <1>4, RecordsFrame, ResumesFrame

\* Steps that write nothing to the journal.
LEMMA QuietKeepsRecords ==
  ASSUME StepInv, RecordsInv, ResumesInv, NEW r \in Requests, QuietStep(r)
  PROVE  RecordsInv' /\ ResumesInv'
<1>1. UNCHANGED <<journal, order, inflight, held, strayed>>
  BY DEF QuietStep
<1>2. ~(Active(r)') /\ \A q \in Requests \ {r} : req'[q] = req[q]
  BY QuietEffect DEF StepInv
<1>3. \A q \in Requests : Resuming(q)' =>
         Resuming(q) /\ req'[q].turn = req[q].turn /\ req'[q].agent = req[q].agent
  BY <1>1, <1>2 DEF Resuming, Active
<1> QED BY <1>1, <1>3, SameRecordsFrame

LEMMA HintedKeepsRecords ==
  ASSUME StepInv, RecordsInv, ResumesInv, NEW r \in Requests, NEW t \in Turns, NEW s \in Sessions,
         HintedStep(r, t, s)
  PROVE  RecordsInv' /\ ResumesInv'
<1>1. UNCHANGED <<journal, order, inflight, held, strayed>>
  BY DEF HintedStep
<1>2. req'[r] = [pc |-> "sending", turn |-> t, mode |-> "hinted", sess |-> s,
                 agent |-> sess[s].agent, got |-> NoTurn]
      /\ \A q \in Requests \ {r} : req'[q] = req[q]
  <2>1. TypeInv
    BY DEF StepInv
  <2> QED BY ONLY <2>1, HintedEffect, HintedStep(r, t, s)
<1>3. \A q \in Requests : Resuming(q)' =>
         Resuming(q) /\ req'[q].turn = req[q].turn /\ req'[q].agent = req[q].agent
  BY <1>1, <1>2 DEF Resuming, Active
<1> QED BY <1>1, <1>3, SameRecordsFrame

LEMMA SentKeepsRecords ==
  ASSUME StepInv, RecordsInv, ResumesInv, NEW r \in Requests, Sent(r)
  PROVE  RecordsInv' /\ ResumesInv'
<1>1. /\ req[r].pc = "sending" /\ req'[r].agent = SentAgent(r) /\ req'[r].turn = req[r].turn
      /\ req'[r].mode = req[r].mode
      /\ \A q \in Requests \ {r} : req'[q] = req[q]
      /\ strayed' = (IF req[r].mode = "hinted" THEN strayed \cup {SentAgent(r)} ELSE strayed)
      /\ UNCHANGED <<journal, order, inflight, held>>
  BY SentEffect DEF StepInv
<1>2. Active(r) /\ AgentOk(r)
  BY <1>1 DEF Active, StepInv, AgentsInv
<1>3. req[r].mode = "resume" => req'[r].agent = req[r].agent
  BY <1>1, <1>2 DEF AgentOk, SentAgent
<1>4. ASSUME NEW q \in Requests, Resuming(q)'
      PROVE  Resuming(q) /\ req'[q].turn = req[q].turn /\ req'[q].agent = req[q].agent
  <2>1. CASE q = r
    BY <1>1, <1>2, <1>3, <1>4, <2>1 DEF Resuming
  <2>2. CASE q # r
    BY <1>1, <1>4, <2>2 DEF Resuming, Active
  <2> QED BY <2>1, <2>2
<1> QED BY <1>1, <1>4, SameRecordsFrame

\* A record that is taken back was never completed; one that expires is the oldest.
LEMMA UndoneKeepsRecords ==
  ASSUME StepInv, RecordsInv, ResumesInv, NEW r \in Requests, NEW t \in Turns, UndoneStep(r, t)
  PROVE  RecordsInv' /\ ResumesInv'
<1>1. /\ req'[r] = NoRequest /\ \A q \in Requests \ {r} : req'[q] = req[q]
      /\ Disclaim(t) /\ inflight' = inflight /\ t \notin inflight
      /\ journal[t].state # "completed" /\ held' = held
  BY UndoneEffect DEF StepInv
<1>2. /\ journal'[t] = NoRecord /\ \A u \in Turns \ {t} : journal'[u] = journal[u]
      /\ \A p, u \in Turns \ {t} : Before(order, p, u) => Before(order', p, u)
      /\ strayed \subseteq strayed' /\ \A a \in Sessions : held[a] = After[t] => a \in strayed'
  BY <1>1, DisclaimKeeps DEF StepInv
<1>3. \A q \in Requests : Resuming(q)' =>
         Resuming(q) /\ req'[q].turn = req[q].turn /\ req'[q].agent = req[q].agent
  <2>1. NoRequest.pc = "idle"
    BY DEF NoRequest
  <2> QED BY <1>1, <1>2, <2>1 DEF Resuming, Active
<1>4. \A q \in Requests : Resuming(q) => req[q].turn # t
  BY <1>1 DEF Resuming, StepInv, SendsInv, SendOk, Claimed
<1>5. ~Settled(t)
  BY <1>1 DEF Settled
<1> QED BY <1>1, <1>2, <1>3, <1>4, <1>5, RemovalFrame

LEMMA FailKeepsRecords ==
  ASSUME StepInv, RecordsInv, ResumesInv, NEW r \in Requests, Fail(r)
  PROVE  RecordsInv' /\ ResumesInv'
<1> DEFINE t == req[r].turn
<1>1. /\ t \in Turns /\ Active(r)
      /\ \/ Claimed(r) /\ Disclaim(t) /\ inflight' = inflight \ {t}
         \/ ~Claimed(r) /\ UNCHANGED <<journal, order, inflight, strayed>>
      /\ held' = held /\ req'[r] = NoRequest
      /\ \A q \in Requests \ {r} : req'[q] = req[q] \/ (req'[q] = NoRequest /\ ~Active(q))
  BY FailEffect DEF StepInv
<1>2. strayed \subseteq strayed'
  BY <1>1 DEF Disclaim
<1>3. \A q \in Requests : Resuming(q)' =>
         q # r /\ Resuming(q) /\ req'[q].turn = req[q].turn /\ req'[q].agent = req[q].agent
  <2>1. NoRequest.pc = "idle"
    BY DEF NoRequest
  <2> QED BY <1>1, <1>2, <2>1 DEF Resuming, Active
<1>4. CASE Claimed(r) /\ Disclaim(t) /\ inflight' = inflight \ {t}
  <2>1. /\ journal'[t] = NoRecord /\ \A u \in Turns \ {t} : journal'[u] = journal[u]
        /\ \A p, u \in Turns \ {t} : Before(order, p, u) => Before(order', p, u)
        /\ \A a \in Sessions : held[a] = After[t] => a \in strayed'
    BY <1>1, <1>4, DisclaimKeeps DEF StepInv
  <2>2. ~Settled(t)
    BY <1>1, <1>4 DEF StepInv, SendsInv, SendOk, Settled
  <2>3. \A q \in Requests : Resuming(q)' => req[q].turn # t
    BY <1>1, <1>3, <1>4 DEF Resuming, StepInv, SendsInv, Claimed
  <2> QED BY <1>1, <1>2, <1>3, <1>4, <2>1, <2>2, <2>3, RemovalFrame
<1>5. CASE UNCHANGED <<journal, order, inflight, strayed>>
  BY <1>1, <1>3, <1>5, SameRecordsFrame
<1> QED BY <1>1, <1>4, <1>5

LEMMA ExpireKeepsRecords ==
  ASSUME StepInv, RecordsInv, ResumesInv, Expire
  PROVE  RecordsInv' /\ ResumesInv'
<1> PICK t \in Turns : t = order[1] /\ Len(order) > 0 /\ Remove(t)
  BY ExpireEffect DEF StepInv
<1>1. UNCHANGED <<inflight, held, req, strayed>>
  BY ExpireEffect DEF StepInv
<1>2. /\ journal'[t] = NoRecord /\ \A u \in Turns \ {t} : journal'[u] = journal[u]
      /\ \A p, u \in Turns \ {t} : Before(order, p, u) => Before(order', p, u)
  BY RemoveKeeps DEF StepInv
<1>3. ASSUME NEW p \in Turns, Before(order, p, t) PROVE FALSE
  <2> PICK i \in 1 .. Len(order), j \in 1 .. Len(order) : i < j /\ order[j] = t
    BY <1>3 DEF Before
  <2>1. 1 \in 1 .. Len(order) /\ j # 1
    OBVIOUS
  <2> QED BY <2>1 DEF StepInv, TypeInv, OrderInv, Distinct
<1>4. \A q \in Requests : Resuming(q)' =>
         Resuming(q) /\ req'[q].turn = req[q].turn /\ req'[q].agent = req[q].agent
  BY <1>1 DEF Resuming, Active
<1> QED BY <1>1, <1>2, <1>3, <1>4, RemovalFrame

\* A turn that is before another in the order is recorded, and so is the other.
LEMMA OrderedAreRecorded ==
  ASSUME TypeInv, NEW p \in Turns, NEW u \in Turns, Before(order, p, u)
  PROVE  journal[p].state # "none" /\ journal[u].state # "none"
BY DEF Before, Occurs, TypeInv, OrderInv

\* The turn a resume continues is the last its agent answered, and no other resume is under
\* way on that agent: either would have left a sibling.
LEMMA ResumeFindsItsTranscript ==
  ASSUME StepInv, RecordsInv, ResumesInv, NEW t \in Turns, journal[t].state = "none",
         t \notin inflight, Siblings(t) = {}, NEW p \in Parents(t), journal[p].agent \notin strayed
  PROVE  /\ p \in Turns /\ Known(p) /\ After[p] = Key[t] /\ held[journal[p].agent] = Key[t]
         /\ \A q \in Requests : Resuming(q) => req[q].agent # journal[p].agent
<1> DEFINE a == journal[p].agent
<1>1. p \in Turns /\ Known(p) /\ Continues(p) = Key[t]
  BY DEF Parents, Recorded, Known
<1>2. Told(p) /\ After[p] = Key[t]
  BY <1>1 DEF RecordsInv, Told, Continues
<1>3. \A u \in Turns : Key[u] = Key[t] => journal[u].state = "none"
  BY DEF Siblings, Recorded
<1>4. ASSUME NEW u \in Turns, Succeeds(u, p) PROVE FALSE
  BY <1>1, <1>2, <1>3, <1>4, OrderedAreRecorded DEF Succeeds, StepInv
<1>5. held[a] = Key[t]
  BY <1>2, <1>4 DEF Told
<1>6. ASSUME NEW q \in Requests, Resuming(q), req[q].agent = a PROVE FALSE
  <2>1. Covers(q, p) /\ Key[req[q].turn] = Key[t]
    BY <1>1, <1>5, <1>6 DEF ResumesInv, ResumeOk
  <2>2. req[q].turn \in Turns
    BY <1>6 DEF Resuming, Active, StepInv, TypeInv, Typed, Over
  <2>3. Before(order, p, req[q].turn)
    BY <1>2, <1>5, <1>6, <2>1 DEF Covers
  <2> QED BY <1>2, <1>4, <2>1, <2>2, <2>3 DEF Succeeds
<1> QED BY <1>1, <1>2, <1>5, <1>6

LEMMA ClaimKeepsRecords ==
  ASSUME StepInv, RecordsInv, ResumesInv, NEW r \in Requests, NEW t \in Turns,
         NEW mode \in {"rebuild", "resume"}, NEW s \in Sessions, NEW a \in AgentIds,
         ClaimStep(r, t, mode, s, a)
  PROVE  RecordsInv' /\ ResumesInv'
<1>1. /\ req'[r] = [pc |-> "sending", turn |-> t, mode |-> mode, sess |-> s, agent |-> a,
                    got |-> NoTurn]
      /\ \A q \in Requests \ {r} : req'[q] = req[q]
  <2>1. TypeInv
    BY DEF StepInv
  <2> QED BY ONLY <2>1, ClaimEffect, ClaimStep(r, t, mode, s, a)
<1>2. /\ journal'[t] = ClaimedRecord(a) /\ \A u \in Turns \ {t} : journal'[u] = journal[u]
      /\ \A p, u \in Turns \ {t} : Before(order, p, u) => Before(order', p, u)
      /\ \A p \in Turns \ {t} : journal[p].state # "none" => Before(order', p, t)
      /\ inflight' = inflight \cup {t} /\ strayed' = strayed
  BY ClaimKeeps DEF ClaimStep, StepInv
<1>3. held' = held /\ t \notin inflight /\ journal[t].state # "completed"
  BY DEF ClaimStep, Claimable
<1>4. ASSUME NEW p \in Turns, Known(p)'
      PROVE  p # t /\ Known(p) /\ journal'[p] = journal[p] /\ Before(order', p, t)
  BY <1>2, <1>4 DEF Known, ClaimedRecord
<1>5. ASSUME NEW p \in Turns, NEW u \in Turns, Known(p)', Before(order, p, u)
      PROVE  Before(order', p, u)
  BY <1>2, <1>4, <1>5
<1>6. RecordsStay
  <2>1. \A u \in Turns : Settled(u) => Settled(u)'
    BY <1>2, <1>3 DEF Settled
  <2> QED BY <1>3, <1>4, <1>5, <2>1 DEF RecordsStay
<1>7. ASSUME Resuming(r)'
      PROVE  /\ req'[r].agent = a /\ req'[r].turn = t
             /\ held[a] = Key[t]
             /\ \A q \in Requests : Resuming(q) => req[q].agent # a
             /\ \E p \in Turns : Known(p) /\ journal[p].agent = a /\ After[p] = held[a]
  <2>1. mode = "resume" /\ a \notin strayed
    BY <1>1, <1>2, <1>7 DEF Resuming
  <2>2. journal[t].state = "none" /\ Siblings(t) = {} /\ \E p \in Parents(t) : a = journal[p].agent
    BY <2>1 DEF ClaimStep
  <2> PICK p \in Parents(t) : a = journal[p].agent
    BY <2>2
  <2>3. /\ p \in Turns /\ Known(p) /\ After[p] = Key[t] /\ held[journal[p].agent] = Key[t]
        /\ \A q \in Requests : Resuming(q) => req[q].agent # journal[p].agent
    BY <1>3, <2>1, <2>2, ResumeFindsItsTranscript
  <2> QED BY <1>1, <2>3
<1>8. ASSUME NEW q \in Requests \ {r}, Resuming(q)'
      PROVE  Resuming(q) /\ req'[q] = req[q] /\ req[q].turn \in Turns
  BY <1>1, <1>2, <1>8 DEF Resuming, Active, StepInv, TypeInv, Typed, Over
<1>9. ASSUME NEW q \in Requests, Resuming(q)' PROVE ResumeOk(q)'
  <2>1. CASE q = r
    <3>1. ASSUME NEW p \in Turns, Known(p)', journal'[p].agent = a PROVE Covers(r, p)'
      <4>1. Known(p) /\ journal[p].agent = a /\ Before(order', p, t)
        BY <1>4, <3>1
      <4>2. CASE held[a] = After[p]
        BY <1>3, <1>7, <1>9, <2>1, <4>1, <4>2 DEF Covers
      <4>3. CASE held[a] # After[p]
        <5>1. Told(p) /\ ~Adrift(a)
          BY <1>7, <1>9, <2>1, <4>1 DEF RecordsInv, Adrift
        <5> PICK u \in Turns : Succeeds(u, p) /\ Settled(u)
          BY <4>1, <4>3, <5>1 DEF Told
        <5>2. Succeeds(u, p)' /\ Settled(u)'
          BY <1>6, <3>1 DEF RecordsStay, Succeeds
        <5> QED BY <1>3, <1>7, <1>9, <2>1, <4>3, <5>2 DEF Covers
      <4> QED BY <4>2, <4>3
    <3>2. \A x \in Requests : Resuming(x)' /\ req'[x].agent = a => x = r
      BY <1>7, <1>8, <1>9, <2>1
    <3> QED BY <1>3, <1>7, <1>9, <2>1, <3>1, <3>2 DEF ResumeOk
  <2>2. CASE q # r
    <3>1. Resuming(q) /\ req'[q] = req[q] /\ ResumeOk(q)
      BY <1>8, <1>9, <2>2 DEF ResumesInv
    <3>2. ASSUME NEW p \in Turns, Known(p)', journal'[p].agent = req[q].agent PROVE Covers(q, p)'
      BY <1>3, <1>5, <1>6, <1>8, <1>9, <2>2, <3>1, <3>2, ResumeFrame
    <3>3. \A x \in Requests : Resuming(x)' /\ req'[x].agent = req[q].agent => x = q
      BY <1>7, <1>8, <3>1 DEF ResumeOk
    <3> QED BY <1>3, <3>1, <3>2, <3>3 DEF ResumeOk
  <2> QED BY <2>1, <2>2
<1> QED BY <1>6, <1>9, RecordsFrame DEF ResumesInv

\* The answer of a claimed turn becomes what its agent holds, and its record the one that
\* makes forks of the other turns the agent could have gone on with.
LEMMA FinishKeepsRecords ==
  ASSUME StepInv, RecordsInv, ResumesInv, NEW r \in Requests, Finish(r)
  PROVE  RecordsInv' /\ ResumesInv'
<1>0. req[r].turn \in Turns
  BY FinishEffect DEF StepInv
<1> PICK t \in Turns : t = req[r].turn
  BY <1>0
<1> DEFINE s == req[r].sess
           o == sess[s].owner
           a == req[r].agent
<1>1. /\ s \in Sessions /\ req[r].pc = "running" /\ RememberOrdinaryCompletion(s, t)
      /\ \A x \in Sessions : held'[x] = (IF x = a THEN Answered(r) ELSE held[x])
      /\ inflight' = (IF Claimed(r) THEN inflight \ {t} ELSE inflight)
      /\ strayed' = strayed
  BY FinishEffect DEF StepInv
<1>2. /\ \A u \in Turns : u # o => journal'[u] = journal[u]
      /\ o \in Turns => journal'[o] = EndRecord(s, t)
      /\ \A p, u \in Turns : p # o /\ u # o /\ Before(order, p, u) => Before(order', p, u)
      /\ \A p \in Turns : p # o /\ o \in Turns /\ journal[p].state # "none" => Before(order', p, o)
  BY <1>1, RememberKeeps DEF StepInv
<1>3. Active(r) /\ SendOk(r) /\ AgentOk(r) /\ a \in Sessions /\ sess[s].agent = a
  BY <1>1, RunningFacts DEF StepInv
<1>4. ASSUME NEW q \in Requests, Resuming(q)'
      PROVE  q # r /\ Resuming(q) /\ req'[q] = req[q] /\ req[q].turn \in Turns
             /\ req[q].agent \in Sessions
  <2>1. /\ req'[r] = NoRequest
        /\ \/ q = r
           \/ req'[q] = req[q]
           \/ req'[q] = NoRequest
           \/ req'[q] = Given("shared", t, replay'[t])
    BY FinishEffect DEF StepInv
  <2>2. NoRequest.pc = "idle" /\ Given("shared", t, replay'[t]).pc = "shared"
    BY DEF NoRequest, Given
  <2>3. q # r /\ req'[q] = req[q]
    BY <1>4, <2>1, <2>2 DEF Resuming, Active
  <2>4. Resuming(q) /\ req[q].turn \in Turns /\ req[q].agent \in AgentIds /\ AgentOk(q)
    BY <1>1, <1>4, <2>3 DEF Resuming, Active, StepInv, TypeInv, Typed, Over, AgentsInv, Request
  <2> QED BY <2>3, <2>4, NoAgentIsNone DEF AgentOk, Resuming
<1>5. \A u \in Turns : Settled(u) => Settled(u)'
  BY <1>1, <1>2 DEF Settled, EndRecord
<1>6. ASSUME NEW p \in Turns, NEW u \in Turns, p # o, Before(order, p, u)
      PROVE  Before(order', p, u)
  BY <1>2, <1>6, OrderedAreRecorded DEF StepInv
<1>7. ASSUME NEW p \in Turns, p # o, journal[p].agent # a, journal[p].agent \in Sessions
      PROVE  RecordStays(p)
  BY <1>1, <1>2, <1>5, <1>6, <1>7 DEF RecordStays
<1>8. ASSUME NEW p \in Turns, Known(p)', p # o \/ a \in strayed
      PROVE  p # o /\ Known(p) /\ journal'[p] = journal[p] /\ journal[p].agent \in Sessions
  BY <1>1, <1>2, <1>3, <1>8 DEF Known, EndRecord, StepInv, AgentsInv
<1>9. CASE a \in strayed
  <2>1. ASSUME NEW p \in Turns, Known(p)' PROVE Known(p) /\ p # o /\ RecordStays(p)
    BY <1>7, <1>8, <1>9, <2>1 DEF Known
  <2>2. RecordsStay
    BY <2>1 DEF RecordsStay, RecordStays
  <2>3. ResumesStay
    <3>1. ASSUME NEW q \in Requests, Resuming(q)' PROVE held'[req[q].agent] = held[req[q].agent]
      BY <1>1, <1>4, <1>9, <3>1 DEF Resuming
    <3> QED BY <1>4, <1>6, <2>1, <3>1 DEF ResumesStay
  <2> QED BY <2>2, <2>3, RecordsFrame, ResumesFrame
<1>10. CASE a \notin strayed
  <2>1. Claimed(r) /\ o = t /\ t \in inflight /\ req[r].mode \in {"rebuild", "resume"}
    BY <1>1, <1>3, <1>10 DEF SendOk, AgentOk, Claimed, Request, StepInv, TypeInv, Typed
  <2>2. journal'[t] = EndRecord(s, t) /\ Settled(t)' /\ ~Settled(t)
    BY <1>1, <1>2, <2>1 DEF Settled, EndRecord
  <2>3. req[r].mode = "resume" => Resuming(r) /\ ResumeOk(r)
    BY <1>3, <1>10 DEF Resuming, ResumesInv
  <2>4. held'[a] = After[t]
    BY <1>1, <1>3, <2>1, <2>3 DEF Answered, ResumeOk
  <2>5. req[r].mode = "rebuild" => Unnamed(a)
    <3>1. req[r].mode = "rebuild" => a = s /\ Unborn(s)
      BY <1>1, <1>3 DEF AgentOk, Unborn, Builds
    <3> QED BY <1>3, <3>1 DEF StepInv, AgentsInv
  <2>6. Told(t)'
    <3>1. journal'[t].agent = a /\ journal'[t].answer = t
      BY <1>3, <2>2 DEF EndRecord
    <3>2. After[t] \in Keys /\ TurnIndex[After[t]] \in Nat
      BY <1>1, KeyAssumption, TurnIndexAssumption
    <3> QED BY <2>4, <3>1, <3>2 DEF Told
  <2>7. ASSUME NEW p \in Turns, p # t, Known(p)' PROVE Told(p)'
    <3>1. Known(p) /\ journal'[p] = journal[p] /\ journal[p].agent \in Sessions /\ Told(p)
      BY <1>8, <2>1, <2>7 DEF RecordsInv
    <3>2. CASE journal[p].agent # a
      <4>1. Adrift(journal[p].agent) => Adrift(journal[p].agent)'
        <5> DEFINE b == journal[p].agent
        <5>1. \A x \in Turns : Known(x)' /\ journal'[x].agent = b => Known(x) /\ journal[x].agent = b
          BY <1>3, <1>8, <2>1, <2>2, <3>2 DEF EndRecord
        <5>2. held'[b] = held[b]
          BY <1>1, <3>1, <3>2
        <5> QED BY <3>1, <5>1, <5>2 DEF Adrift
      <4> QED BY <1>7, <2>1, <2>7, <3>1, <3>2, <4>1, ToldStays
    <3>3. CASE journal[p].agent = a
      <4>1. req[r].mode = "resume"
        BY <2>1, <2>5, <3>3 DEF Unnamed
      <4>2. held[a] = Key[t] /\ Covers(r, p)
        BY <2>3, <3>1, <3>3, <4>1 DEF ResumeOk
      <4>3. \E u \in Turns : Succeeds(u, p)' /\ Settled(u)'
        <5>1. CASE held[a] = After[p]
          <6>1. Succeeds(t, p)'
            BY <1>1, <1>6, <2>1, <2>7, <4>2, <5>1 DEF Covers, Succeeds
          <6> QED BY <1>1, <2>2, <6>1
        <5>2. CASE held[a] # After[p]
          <6> PICK u \in Turns : Succeeds(u, p) /\ Settled(u)
            BY <4>2, <5>2 DEF Covers
          <6>1. Succeeds(u, p)' /\ Settled(u)'
            BY <1>5, <1>6, <2>1, <2>7 DEF Succeeds
          <6> QED BY <6>1
        <5> QED BY <5>1, <5>2
      <4>4. After[t] \in Keys /\ TurnIndex[After[p]] <= TurnIndex[After[t]]
        <5>1. /\ TurnIndex[After[p]] \in Nat /\ TurnIndex[Key[t]] \in Nat
              /\ TurnIndex[After[t]] = TurnIndex[Key[t]] + 1 /\ After[t] \in Keys
          BY <1>1, KeyAssumption, TurnIndexAssumption
        <5>2. TurnIndex[After[p]] <= TurnIndex[Key[t]]
          BY <3>1, <3>3, <4>2 DEF Told
        <5> QED BY <5>1, <5>2
      <4> QED BY <2>4, <3>1, <3>3, <4>3, <4>4 DEF Told
    <3> QED BY <3>2, <3>3
  <2>8. ASSUME NEW q \in Requests, Resuming(q)' PROVE ResumeOk(q)'
    <3>1. q # r /\ Resuming(q) /\ req'[q] = req[q] /\ ResumeOk(q) /\ req[q].agent \in Sessions
      BY <1>4, <2>8 DEF ResumesInv
    <3>2. req[q].agent # a
      BY <2>1, <2>3, <2>5, <3>1 DEF ResumeOk, Unnamed, Resuming
    <3>3. held'[req[q].agent] = held[req[q].agent]
      BY <1>1, <3>1, <3>2
    <3>4. ASSUME NEW p \in Turns, Known(p)', journal'[p].agent = req[q].agent PROVE Covers(q, p)'
      <4>1. p # t
        BY <1>3, <2>2, <3>2, <3>4 DEF EndRecord
      <4>2. Known(p) /\ journal[p].agent = req[q].agent /\ RecordStays(p)
        BY <1>7, <1>8, <2>1, <3>2, <3>4, <4>1
      <4>3. Before(order, p, req[q].turn) => Before(order', p, req[q].turn)
        BY <1>4, <1>6, <2>1, <2>8, <4>1
      <4> QED BY <3>1, <4>2, <4>3, CoversStays DEF ResumeOk
    <3>5. \A x \in Requests : Resuming(x)' /\ req'[x].agent = req[q].agent => x = q
      BY <1>4, <3>1 DEF ResumeOk
    <3> QED BY <3>1, <3>3, <3>4, <3>5 DEF ResumeOk
  <2> QED BY <2>6, <2>7, <2>8 DEF RecordsInv, ResumesInv
<1> QED BY <1>9, <1>10

\* An agent may have stored an answer that no record tells of.  It is the answer to a turn
\* that was sent to it with a record of its own, and that running record stays.
LEMMA RestartKeepsRecords ==
  ASSUME StepInv, RecordsInv, ResumesInv, RestartStep
  PROVE  RecordsInv' /\ ResumesInv'
<1> PICK stored \in SUBSET {r \in Requests : req[r].pc = "running"} : Restart(stored)
  BY DEF RestartStep
<1>1. /\ \A r \in Requests : ~(Active(r)')
      /\ inflight' = {} /\ UNCHANGED <<journal, order, strayed>>
      /\ \A a \in Sessions : \/ held'[a] = held[a]
                             \/ \E r \in stored : req[r].agent = a /\ held'[a] = Answered(r)
  BY RestartEffect DEF StepInv
<1>2. ResumesInv'
  BY <1>1 DEF ResumesInv, Resuming
<1>3. ASSUME NEW p \in Turns, Known(p)' PROVE Told(p)'
  <2>1. Known(p) /\ Told(p) /\ journal'[p] = journal[p] /\ journal[p].agent \in Sessions
    BY <1>1, <1>3 DEF Known, RecordsInv, StepInv, AgentsInv
  <2> PICK a \in Sessions : a = journal[p].agent
    BY <2>1
  <2>2. CASE held'[a] = held[a]
    <3>1. RecordStays(p)
      BY <1>1, <2>2 DEF RecordStays, Settled
    <3>2. Adrift(journal[p].agent) => Adrift(journal[p].agent)'
      BY <1>1, <2>1, <2>2 DEF Adrift, Known
    <3> QED BY <2>1, <3>1, <3>2, ToldStays
  <2>3. CASE \E r \in stored : req[r].agent = a /\ held'[a] = Answered(r)
    <3> PICK r \in stored : req[r].agent = a /\ held'[a] = Answered(r)
      BY <2>3
    <3>1. /\ r \in Requests /\ req[r].pc = "running" /\ Active(r) /\ SendOk(r) /\ AgentOk(r)
          /\ req[r].sess \in Sessions /\ req[r].turn \in Turns
      BY RunningFacts DEF StepInv, TypeInv, Typed, Over
    <3> PICK t \in Turns : t = req[r].turn
      BY <3>1
    <3>2. req[r].mode # "rebuild"
      <4>1. req[r].mode = "rebuild" => Unborn(a)
        BY <3>1 DEF AgentOk, Unborn, Builds
      <4> QED BY <2>1, <4>1 DEF StepInv, AgentsInv, Unnamed
    <3>3. req[r].mode = "resume" /\ Resuming(r)
      BY <2>1, <3>1, <3>2 DEF Known, SendOk, AgentOk, Resuming, Request, StepInv, TypeInv, Typed
    <3>4. held[a] = Key[t] /\ Covers(r, p)
      BY <2>1, <3>1, <3>3 DEF ResumesInv, ResumeOk
    <3>5. held'[a] = After[t]
      BY <3>3, <3>4 DEF Answered
    <3>6. After[t] \in Keys /\ \A x \in Turns : Known(x) /\ journal[x].agent = a =>
                                 TurnIndex[After[x]] < TurnIndex[After[t]]
      <4>1. /\ TurnIndex[Key[t]] \in Nat
            /\ TurnIndex[After[t]] = TurnIndex[Key[t]] + 1 /\ After[t] \in Keys
            /\ \A x \in Turns : TurnIndex[After[x]] \in Nat
        BY KeyAssumption, TurnIndexAssumption
      <4>2. \A x \in Turns : Known(x) /\ journal[x].agent = a =>
              TurnIndex[After[x]] <= TurnIndex[Key[t]]
        BY <3>4 DEF RecordsInv, Told
      <4> QED BY <4>1, <4>2
    <3>7. \/ \E u \in Turns : Succeeds(u, p)' /\ Settled(u)'
          \/ \E u \in Turns : Succeeds(u, p)' /\ held'[a] = After[u] /\ Adrift(a)'
      <4>1. CASE held[a] = After[p]
        <5>1. Succeeds(t, p)'
          BY <1>1, <3>4, <4>1 DEF Covers, Succeeds
        <5>2. \A x \in Turns : After[x] = After[t] => ~(Known(x) /\ journal[x].agent = a)
          BY <3>6, KeyAssumption, TurnIndexAssumption
        <5>3. Adrift(a)'
          BY <1>1, <3>5, <5>2 DEF Adrift, Known
        <5> QED BY <3>5, <5>1, <5>3
      <4>2. CASE held[a] # After[p]
        <5> PICK u \in Turns : Succeeds(u, p) /\ Settled(u)
          BY <3>4, <4>2 DEF Covers
        <5>1. Succeeds(u, p)' /\ Settled(u)'
          BY <1>1 DEF Succeeds, Settled
        <5> QED BY <5>1
      <4> QED BY <4>1, <4>2
    <3>8. TurnIndex[After[p]] <= TurnIndex[After[t]]
      <4>1. TurnIndex[After[p]] \in Nat /\ TurnIndex[After[t]] \in Nat
        BY KeyAssumption, TurnIndexAssumption
      <4> QED BY <2>1, <3>6, <4>1
    <3> QED BY <2>1, <3>5, <3>6, <3>7, <3>8 DEF Told
  <2> QED BY <1>1, <2>2, <2>3
<1> QED BY <1>2, <1>3 DEF RecordsInv

LEMMA NextRecords == StepInv /\ RecordsInv /\ ResumesInv /\ [Next]_vars => RecordsInv' /\ ResumesInv'
<1> SUFFICES ASSUME StepInv, RecordsInv, ResumesInv, [Next]_vars
             PROVE  RecordsInv' /\ ResumesInv'
  OBVIOUS
<1>0. TypeInv
  BY DEF StepInv
<1>1. ASSUME NEW r \in Requests, QuietStep(r) \/ Sent(r) \/ Finish(r) \/ Fail(r)
      PROVE  RecordsInv' /\ ResumesInv'
  BY <1>1, QuietKeepsRecords, SentKeepsRecords, FinishKeepsRecords, FailKeepsRecords
<1>2. ASSUME NEW r \in Requests, NEW t \in Turns, NEW s \in Sessions,
             \/ ClaimStep(r, t, "rebuild", s, NoAgent)
             \/ \E a \in AgentIds : ClaimStep(r, t, "resume", s, a)
             \/ HintedStep(r, t, s)
      PROVE  RecordsInv' /\ ResumesInv'
  BY <1>2, NoTypes, ClaimKeepsRecords, HintedKeepsRecords
<1>3. ASSUME NEW r \in Requests, NEW t \in Turns, UndoneStep(r, t)
      PROVE  RecordsInv' /\ ResumesInv'
  BY <1>3, UndoneKeepsRecords
<1>same. ASSUME UNCHANGED <<journal, order, inflight, held, req, strayed>>
         PROVE  RecordsInv' /\ ResumesInv'
  BY <1>same, SameRecordsFrame DEF Resuming, Active
<1>4. ASSUME NEW s \in Sessions, ForgetSession(s) PROVE RecordsInv' /\ ResumesInv'
  BY <1>0, <1>4, <1>same, ForgetEffect
<1>5. CASE Expire
  BY <1>5, ExpireKeepsRecords
<1>6. CASE RestartStep
  BY <1>6, RestartKeepsRecords
<1>7. CASE UNCHANGED vars
  BY <1>7, <1>same DEF vars
<1> QED BY <1>0, <1>1, <1>2, <1>3, <1>4, <1>5, <1>6, <1>7, NextCases

LEMMA InitRecords == Init => RecordsInv /\ ResumesInv
BY DEF Init, RecordsInv, Known, ResumesInv, Resuming, Active, NoRecord, NoRequest

LEMMA AlwaysIInv == Spec => []IInv
<1>1. Init => IInv
  BY InitTypeInv, InitSends, InitAgents, InitRecords DEF IInv, StepInv
<1>2. IInv /\ [Next]_vars => IInv'
  BY NextTypeInv, NextSends, NextAgents, NextRecords DEF IInv, StepInv
<1> QED BY <1>1, <1>2, PTL DEF Spec

\* decideOrdinaryTurn resumes the agent of a recorded parent with the last message alone; that
\* agent then holds exactly the transcript the request continues, through failed sends, expired
\* records and answers lost in a restart, unless the journal was never told what was sent to it.
THEOREM ResumesAreExact == Spec => []ResumeIsExact
<1>1. IInv => ResumeIsExact
  BY DEF IInv, ResumesInv, ResumeOk, Resuming, Active, ResumeIsExact
<1> QED BY <1>1, AlwaysIInv, PTL
=============================================================================
