--------------------------- MODULE Recovery_proofs ---------------------------
(***************************************************************************)
(* Theorems about sessions, their lineage files and their recoveries, for  *)
(* any number of session objects, batches, requests, faults and restarts.  *)
(***************************************************************************)
EXTENDS Recovery, FiniteSetTheorems, WellFoundedInduction, TLAPS

-----------------------------------------------------------------------------
(* Types *)

States == ActiveStates \cup {"none", "awaiting", "completed", "failed", "closed"}

Object ==
  [st : States, id : Ids \cup {None}, credential : Credentials \cup {None},
   agent : Agents \cup {None}, run : {"none", "live", "cancelled", "over"},
   pending : SUBSET Batches, open : Batches \cup {NoBatch}, rounds : 0 .. MaxRounds,
   digest : ResultKeys \cup {NoKey}, segment : Keys \cup {NoKey},
   boundary : {"none", "tools", "final", "error"}, applied : BOOLEAN, continued : BOOLEAN,
   logicalKey : Keys \cup {NoKey}, ledgerKey : TextKeys \cup {NoKey}]

File == [st : {"none", "awaiting", "completed", "failed"}, agent : Agents \cup {None},
         credential : Credentials \cup {None}, pending : SUBSET Batches]

Request == [pc : {"idle", "opening", "joined", "driving"}, obj : Objects \cup {None},
            key : Keys \cup {NoKey}, mode : Modes \cup {"none"}, agent : Agents \cup {None}]

Row == [st : {"none", "running", "finished", "error"}, agent : Agents \cup {None}]

ObjectsTyped ==
  /\ obj \in [Objects -> Object]
  /\ \A o \in Objects : obj[o].open \in obj[o].pending \cup {NoBatch}
  /\ \A o \in Objects : obj[o].boundary = "tools" => obj[o].rounds > 0

RegistryTyped ==
  /\ sessions \in [Ids -> Objects \cup {None}] /\ toolIndex \in [Batches -> Ids \cup {None}]
  /\ draining \in {"no", "waiting", "done"}

FilesTyped ==
  /\ lineage \in [Ids -> File] /\ ledger \in [TextKeys -> Row]
  /\ pendingRecoveries \in [Ids -> [key : ResultKeys \cup {NoKey}, obj : Objects \cup {None}]]
  /\ transcriptRecoveries \in [ResultKeys -> Objects \cup {None}]

RequestsTyped ==
  /\ req \in [Requests -> Request]
  /\ \A r \in Requests : req[r].pc # "idle" => req[r].obj \in Objects /\ req[r].key \in Keys
  /\ \A r \in Requests : req[r].pc = "opening" => req[r].mode \in Modes
  /\ \A r \in Requests : req[r].mode = "pending" => req[r].key \in ResultKeys

HistoryTyped ==
  /\ faults \in 0 .. MaxFaults /\ restarts \in 0 .. MaxRestarts
  /\ forgotten \in [Ids -> SUBSET {"sending", "driven", "recovered"}]
  /\ unrecorded \subseteq Ids /\ unshared \subseteq ResultKeys

Typed == ObjectsTyped /\ RegistryTyped /\ FilesTyped /\ RequestsTyped /\ HistoryTyped

LEMMA TypedGivesTypeOK == Typed => TypeOK
BY DEF Typed, ObjectsTyped, RegistryTyped, FilesTyped, RequestsTyped, HistoryTyped,
       TypeOK, RegistryTypeOK, Object, File, Request, Row, States

\* Numbers: no object, id, agent or batch is None.
LEMMA NoneFacts ==
  /\ None \notin Objects /\ NoBatch \notin Batches
  /\ Ids = Objects /\ Agents = Objects /\ MaxSessions \in Nat /\ MaxRounds \in Nat
BY BoundAssumption DEF None, Objects, Ids, Agents, Batches, NoBatch

LEMMA KeyFacts ==
  /\ \A k \in Keys : k.kind \in {"open", "next", "results"} /\ k # NoKey
  /\ \A k \in ResultKeys : k \in Keys /\ k.of \in Batches /\ k.by \in Credentials /\ k.kind = "results"
  /\ \A k \in TextKeys : k \in Keys /\ k.kind # "results"
  /\ \A k \in OpenKeys : k \in TextKeys /\ k.by \in Credentials
  /\ \A i \in Ids : NextKey(i) \in TextKeys
  /\ NoKey.kind = "none"
BY DEF Keys, TextKeys, OpenKeys, NextKey, ResultKeys, NoKey

\* The batches of an object.
LEMMA BatchFacts ==
  ASSUME NEW o \in Objects, NEW n \in 1 .. MaxRounds
  PROVE  BatchOf(o, n) \in Batches
<1>1. /\ o \in Nat /\ 1 <= o /\ o <= MaxSessions /\ n \in Nat /\ 1 <= n /\ n <= MaxRounds
      /\ MaxSessions \in Nat /\ MaxRounds \in Nat
  BY BoundAssumption DEF Objects
<1>2. /\ (o - 1) * MaxRounds \in Nat /\ (MaxSessions - o) * MaxRounds \in Nat
  BY <1>1
<1>3. MaxSessions * MaxRounds = (o - 1) * MaxRounds + (MaxSessions - o) * MaxRounds + MaxRounds
  BY <1>1
<1> QED BY <1>1, <1>2, <1>3 DEF BatchOf, Batches

LEMMA NoTypes ==
  /\ NoObject \in Object /\ Idle \in Request /\ NoFile \in File /\ NoRun \in Row
  /\ NoPending \in [key : ResultKeys \cup {NoKey}, obj : Objects \cup {None}]
BY BoundAssumption
   DEF NoObject, Object, Idle, Request, NoFile, File, NoRun, Row, NoPending, States, ActiveStates

LEMMA InitTyped == Init => Typed
<1> SUFFICES ASSUME Init PROVE Typed
  OBVIOUS
<1>1. faults \in 0 .. MaxFaults /\ restarts \in 0 .. MaxRestarts
  BY SwitchAssumption DEF Init
<1>2. NoObject.open = NoBatch /\ NoObject.boundary = "none" /\ Idle.pc = "idle" /\ Idle.mode = "none"
  BY DEF NoObject, Idle
<1> QED
  BY <1>1, <1>2, NoTypes DEF Init, RegistryInit, Typed, ObjectsTyped, RegistryTyped, FilesTyped,
     RequestsTyped, HistoryTyped

-----------------------------------------------------------------------------
(* Which objects the registry, the maps and the requests name, and what an    *)
(* object may be at which moment                                              *)

SessionsInv ==
  /\ \A i \in Ids : sessions[i] # None => Exists(sessions[i]) /\ obj[sessions[i]].id = i
  /\ \A o \in Objects : Exists(o) => obj[o].id \in Ids /\ Exists(obj[o].id)
  /\ \A o \in Objects : ~Exists(o) => obj[o] = NoObject
  /\ \A o, q \in Objects : Exists(o) /\ q < o => Exists(q)
  /\ \A i \in Ids : lineage[i] # NoFile => Exists(i)
  /\ \A k \in ResultKeys : transcriptRecoveries[k] # None => Exists(transcriptRecoveries[k])
  /\ \A o, q \in Objects : Registered(o) /\ Exists(q) /\ obj[q].id = obj[o].id => q <= o

StateOk(o) ==
  /\ obj[o].st = "creating" => obj[o].run = "none"
  /\ obj[o].st \in ActiveStates => obj[o].boundary = "none" \/ ~obj[o].applied
  /\ obj[o].st = "awaiting" =>
       \/ obj[o].boundary = "tools" /\ obj[o].applied /\ obj[o].run \in {"live", "cancelled"}
       \/ obj[o].boundary = "error" /\ obj[o].run = "over"
  /\ obj[o].st \in {"completed", "failed"} =>
       obj[o].run = "over" /\ obj[o].boundary \in {"final", "error"} /\ obj[o].applied
  /\ obj[o].boundary = "tools" => obj[o].run \in {"live", "cancelled"}
  /\ obj[o].boundary \in {"final", "error"} => obj[o].run = "over"

\* A registered object was not told to end, and whoever runs or has a boundary that nobody
\* took has a request that waits for it.
DrivenOk(o) ==
  /\ Registered(o) => obj[o].st # "closed" /\ obj[o].run # "cancelled"
  /\ obj[o].run = "live" /\ obj[o].boundary = "none" => Driving(o) # {}
  /\ obj[o].boundary \in {"tools", "final"} /\ ~obj[o].applied => Driving(o) # {}

StatesInv == \A o \in Objects : StateOk(o) /\ DrivenOk(o)

OpeningOk(r) ==
  LET o == req[r].obj
  IN  /\ obj[o].run = "none"
      /\ IF req[r].mode \in {"start", "transcript"} THEN obj[o].st \in {"creating", "closed"}
         ELSE obj[o].st \in {"running", "resuming", "closed"}
      /\ req[r].mode = "pending" => obj[o].rounds = 0
      /\ \A q \in Requests : req[q].pc = "opening" /\ req[q].obj = o => q = r

ReqInv ==
  /\ \A r \in Requests : req[r].pc # "idle" => Exists(req[r].obj)
  /\ \A r \in Requests : req[r].pc = "opening" => OpeningOk(r)
  /\ \A r \in Requests : req[r].pc = "joined" => Opening(req[r].obj)
  /\ \A r \in Requests : req[r].pc = "driving" => ~Opening(req[r].obj)
  /\ \A i \in Ids : pendingRecoveries[i].key # NoKey =>
       pendingRecoveries[i].obj \in Objects /\ Opening(pendingRecoveries[i].obj)

Base == Typed /\ SessionsInv /\ StatesInv /\ ReqInv

-----------------------------------------------------------------------------
(* Look-ups *)

LEMMA OwnerFacts ==
  ASSUME Typed, SessionsInv, NEW b \in Batches, OwnerOf(b) # None
  PROVE  OwnerOf(b) \in Objects /\ Registered(OwnerOf(b))
<1>1. toolIndex[b] \in Ids /\ sessions[toolIndex[b]] = OwnerOf(b) /\ OwnerOf(b) \in Objects
  BY DEF OwnerOf, Typed, RegistryTyped
<1>2. Exists(OwnerOf(b)) /\ obj[OwnerOf(b)].id = toolIndex[b]
  BY <1>1 DEF SessionsInv
<1> QED BY <1>1, <1>2 DEF Registered

\* A nonempty set of objects has a first one.
LEMMA FirstObject ==
  ASSUME NEW os \in SUBSET Objects, os # {}
  PROVE  \E o \in os : \A q \in os : o <= q
<1> DEFINE less == {p \in Nat \X Nat : p[1] < p[2]}
<1>1. IsWellFoundedOn(less, Nat)
  BY NatLessThanWellFounded DEF OpToRel
<1>2. os \subseteq Nat
  BY DEF Objects
<1>3. PICK o \in os : \A q \in os : ~(<<q, o>> \in less)
  <2> HIDE DEF less
  <2> QED BY <1>1, <1>2, WFMin
<1>4. ASSUME NEW q \in os PROVE o <= q
  <2>1. o \in Nat /\ q \in Nat /\ <<q, o>> \notin less
    BY <1>2, <1>3
  <2> QED BY <2>1
<1> QED BY <1>4

LEMMA LiveFacts ==
  ASSUME Typed, NEW k \in Keys, LiveOf(k) # None
  PROVE  LiveOf(k) \in Objects /\ Registered(LiveOf(k))
<1> DEFINE os == {o \in Objects : Registered(o) /\ obj[o].logicalKey = k}
<1>1. os # {} /\ LiveOf(k) = CHOOSE o \in os : \A q \in os : o <= q
  BY DEF LiveOf
<1>2. \E o \in os : \A q \in os : o <= q
  BY <1>1, FirstObject
<1> QED BY <1>1, <1>2

-----------------------------------------------------------------------------
(* What most steps leave as it is *)

KeepsObjects ==
  \A p \in Objects : IF Exists(p) THEN obj'[p].st # "none" /\ obj'[p].id = obj[p].id
                     ELSE obj'[p] = obj[p]

Unregisters == \A i \in Ids : sessions'[i] \in {sessions[i], None}

LEMMA SessionsKept ==
  ASSUME Typed, SessionsInv, KeepsObjects, Unregisters,
         \A i \in Ids : lineage'[i] # NoFile => Exists(i),
         \A k \in ResultKeys : transcriptRecoveries'[k] # None =>
           transcriptRecoveries'[k] \in Objects /\ Exists(transcriptRecoveries'[k])
  PROVE  SessionsInv'
<1>1. \A p \in Objects : (Exists(p)' <=> Exists(p)) /\ (Exists(p) => obj'[p].id = obj[p].id)
  BY NoTypes DEF KeepsObjects, Exists
<1>2. \A i \in Ids : sessions[i] \in Objects \cup {None}
  BY DEF Typed, RegistryTyped
<1>3. \A p \in Objects : Registered(p)' => Registered(p)
  BY <1>1, NoneFacts DEF SessionsInv, Registered, Unregisters
<1>4. \A i \in Ids : sessions'[i] # None => Exists(sessions[i])' /\ obj'[sessions'[i]].id = i
  BY <1>1, <1>2 DEF SessionsInv, Unregisters
<1>5. \A o \in Objects : ~Exists(o)' => obj'[o] = NoObject
  BY <1>1 DEF SessionsInv, KeepsObjects
<1>6. \A o \in Objects : Exists(o)' => obj'[o].id \in Ids /\ Exists(obj[o].id)'
  BY <1>1, NoneFacts DEF SessionsInv
<1>7. \A i \in Ids : lineage'[i] # NoFile => Exists(i)'
  BY <1>1, NoneFacts
<1>8. \A k \in ResultKeys : transcriptRecoveries'[k] # None => Exists(transcriptRecoveries[k])'
  BY <1>1
<1>9. \A o, q \in Objects : Registered(o)' /\ Exists(q)' /\ obj'[q].id = obj'[o].id => q <= o
  BY <1>1, <1>3 DEF SessionsInv, Registered
<1>10. \A o, q \in Objects : Exists(o)' /\ q < o => Exists(q)'
  BY <1>1 DEF SessionsInv
<1> QED BY <1>4, <1>5, <1>6, <1>7, <1>8, <1>9, <1>10 DEF SessionsInv

DrivesKept(p) ==
  \A r \in Requests : req[r].pc = "driving" /\ req[r].obj = p =>
                      req'[r].pc = "driving" /\ req'[r].obj = p

LEMMA StillDriven ==
  ASSUME NEW p, DrivesKept(p), Driving(p) # {} PROVE Driving(p)' # {}
BY DEF Driving, DrivesKept

LEMMA StateKept ==
  ASSUME Typed, SessionsInv, NEW p \in Objects, StateOk(p) /\ DrivenOk(p), obj'[p] = obj[p],
         Unregisters, Driving(p) # {} => Driving(p)' # {}
  PROVE  StateOk(p)' /\ DrivenOk(p)'
<1>1. Registered(p)' => Registered(p)
  BY NoneFacts DEF SessionsInv, Registered, Exists, Unregisters
<1>2. StateOk(p)'
  BY DEF StateOk
<1>3. DrivenOk(p)'
  BY <1>1 DEF DrivenOk
<1> QED BY <1>2, <1>3

\* No opening begins or ends, and what is being opened is at most closed.
OpeningsKept ==
  /\ \A r \in Requests : req'[r].pc = "opening" \/ req[r].pc = "opening" => req'[r] = req[r]
  /\ \A p \in Objects : Opening(p) =>
       /\ obj'[p].run = obj[p].run /\ obj'[p].rounds = obj[p].rounds
       /\ obj'[p].st \in {obj[p].st, "closed"}

LEMMA RequestsKept ==
  ASSUME RequestsTyped, RequestsTyped', ReqInv, KeepsObjects, OpeningsKept,
         \A r \in Requests : req'[r].pc = "joined" =>
           req'[r] = req[r] \/ Opening(req'[r].obj),
         \A r \in Requests : req'[r].pc = "driving" =>
           req'[r] = req[r] \/ (Exists(req'[r].obj) /\ ~Opening(req'[r].obj)),
         UNCHANGED pendingRecoveries
  PROVE  ReqInv'
<1>1. \A p : Opening(p)' <=> Opening(p)
  BY DEF Opening, OpeningsKept
<1>2. \A p \in Objects : Exists(p) => Exists(p)'
  BY DEF KeepsObjects, Exists
<1>3. \A p : Opening(p) => p \in Objects /\ Exists(p)
  BY DEF ReqInv, Opening, RequestsTyped
<1>4. ASSUME NEW r \in Requests, req'[r].pc # "idle" PROVE Exists(req[r].obj)'
  <2>1. req'[r].pc \in {"opening", "joined", "driving"} /\ req'[r].obj \in Objects
    BY <1>4 DEF RequestsTyped, Request
  <2>2. req'[r] = req[r] \/ Exists(req'[r].obj)
    BY <2>1, <1>3 DEF OpeningsKept
  <2>3. Exists(req'[r].obj)
    BY <2>2, <1>4 DEF ReqInv
  <2> QED BY <2>1, <2>3, <1>2
<1>5. ASSUME NEW r \in Requests, req'[r].pc = "opening" PROVE OpeningOk(r)'
  <2>1. req'[r] = req[r] /\ req[r].pc = "opening" /\ OpeningOk(r) /\ Opening(req[r].obj)
    BY <1>5 DEF ReqInv, OpeningsKept, Opening
  <2>2. req[r].obj \in Objects
    BY <2>1, <1>3
  <2>3. \A q \in Requests : req'[q].pc = "opening" /\ req'[q].obj = req'[r].obj => q = r
    BY <2>1 DEF OpeningOk, OpeningsKept
  <2> QED BY <2>1, <2>2, <2>3 DEF OpeningOk, OpeningsKept
<1>6. \A r \in Requests : req'[r].pc = "joined" => Opening(req[r].obj)'
  BY <1>1 DEF ReqInv
<1>7. \A r \in Requests : req'[r].pc = "driving" => ~Opening(req[r].obj)'
  BY <1>1 DEF ReqInv
<1>8. \A i \in Ids : pendingRecoveries'[i].key # NoKey =>
        pendingRecoveries'[i].obj \in Objects /\ Opening(pendingRecoveries[i].obj)'
  BY <1>1 DEF ReqInv
<1> QED BY <1>4, <1>5, <1>6, <1>7, <1>8 DEF ReqInv

-----------------------------------------------------------------------------
(* One object or one request changes *)

Changes(o, new) ==
  /\ obj' = [obj EXCEPT ![o] = new] /\ new \in Object
  /\ new.open \in new.pending \cup {NoBatch}
  /\ new.boundary = "tools" => new.rounds > 0

LEMMA ChangeTyped ==
  ASSUME ObjectsTyped, NEW o \in Objects, NEW new, Changes(o, new)
  PROVE  ObjectsTyped' /\ obj'[o] = new /\ \A p \in Objects : p # o => obj'[p] = obj[p]
BY DEF ObjectsTyped, Changes

Asks(r, new) ==
  /\ req' = [req EXCEPT ![r] = new] /\ new \in Request
  /\ new.pc # "idle" => new.obj \in Objects /\ new.key \in Keys
  /\ new.pc = "opening" => new.mode \in Modes
  /\ new.mode = "pending" => new.key \in ResultKeys

LEMMA AskTyped ==
  ASSUME RequestsTyped, NEW r \in Requests, NEW new, Asks(r, new)
  PROVE  RequestsTyped' /\ req'[r] = new /\ \A q \in Requests : q # r => req'[q] = req[q]
BY DEF RequestsTyped, Asks

LEMMA IdleTyped ==
  ASSUME RequestsTyped, NEW r \in Requests, req' = [req EXCEPT ![r] = Idle]
  PROVE  Asks(r, Idle) /\ Idle.pc = "idle" /\ Idle.mode = "none"
BY NoTypes DEF Asks, Idle

LEMMA OpensTyped ==
  ASSUME RequestsTyped, NEW r \in Requests, NEW o \in Objects, NEW k \in Keys,
         NEW mode \in Modes, NEW a \in Agents \cup {None},
         mode = "pending" => k \in ResultKeys, Opens(r, o, k, mode, a)
  PROVE  \E new \in Request :
           /\ Asks(r, new) /\ new.pc = "opening" /\ new.obj = o /\ new.key = k
           /\ new.mode = mode /\ new.agent = a
<1> DEFINE new == [Idle EXCEPT !.pc = "opening", !.obj = o, !.key = k, !.mode = mode, !.agent = a]
<1>1. new \in Request
  BY NoTypes DEF Request
<1>2. /\ new.pc = "opening" /\ new.obj = o /\ new.key = k /\ new.mode = mode /\ new.agent = a
  BY DEF Idle
<1>3. Asks(r, new)
  BY <1>1, <1>2 DEF Opens, Asks
<1> QED BY <1>1, <1>2, <1>3

LEMMA JoinsTyped ==
  ASSUME RequestsTyped, NEW r \in Requests, NEW o \in Objects, NEW k \in Keys, Joins(r, o, k)
  PROVE  \E new \in Request :
           /\ Asks(r, new) /\ new.pc = "joined" /\ new.obj = o /\ new.key = k /\ new.mode = "none"
<1> DEFINE new == [Idle EXCEPT !.pc = "joined", !.obj = o, !.key = k]
<1>1. new \in Request
  BY NoTypes DEF Request
<1>2. new.pc = "joined" /\ new.obj = o /\ new.key = k /\ new.mode = "none"
  BY DEF Idle
<1>3. Asks(r, new)
  BY <1>1, <1>2 DEF Joins, Asks
<1> QED BY <1>1, <1>2, <1>3

LEMMA AttachesTyped ==
  ASSUME RequestsTyped, NEW r \in Requests, NEW o \in Objects, NEW k \in Keys, Attaches(r, o, k)
  PROVE  \E new \in Request :
           /\ Asks(r, new) /\ new.pc = "driving" /\ new.obj = o /\ new.key = k /\ new.mode = "none"
<1> DEFINE new == [Idle EXCEPT !.pc = "driving", !.obj = o, !.key = k]
<1>1. new \in Request
  BY NoTypes DEF Request
<1>2. new.pc = "driving" /\ new.obj = o /\ new.key = k /\ new.mode = "none"
  BY DEF Idle
<1>3. Asks(r, new)
  BY <1>1, <1>2 DEF Attaches, Asks
<1> QED BY <1>1, <1>2, <1>3

-----------------------------------------------------------------------------
(* A request makes an object *)

\* An object as it is made: in use at once, with nothing sent yet.
IsNew(new, i) ==
  /\ new \in Object /\ new.id = i /\ new.st \in ActiveStates /\ new.run = "none"
  /\ new.boundary = "none" /\ new.agent = None /\ new.pending = {} /\ new.open = NoBatch
  /\ new.rounds = 0 /\ ~new.applied /\ ~new.continued

\* A request opens object o for id i, its own or that of a stored session.
OpensNew(r, o, i, new, mode, k, a) ==
  /\ mode \in Modes /\ k \in Keys /\ a \in Agents \cup {None} /\ Opens(r, o, k, mode, a)
  /\ new.segment = k /\ (k \in ResultKeys \/ Proceeds(k))
  /\ \/ mode \in {"start", "transcript"} /\ new.st = "creating" /\ i = o /\ a = None
     \/ mode \in {"resume", "pending"} /\ new.st \in {"running", "resuming"} /\ a = lineage[i].agent
  /\ IF mode = "pending"
       THEN /\ k \in ResultKeys /\ lineage[i].st = "awaiting" /\ lineage[i].pending = {k.of}
            /\ pendingRecoveries' = [pendingRecoveries EXCEPT ![i] = [key |-> k, obj |-> o]]
       ELSE UNCHANGED pendingRecoveries
  /\ IF mode = "transcript"
       THEN /\ k \in ResultKeys
            /\ transcriptRecoveries' = [transcriptRecoveries EXCEPT ![k] = o]
       ELSE UNCHANGED transcriptRecoveries

\* Or it fails after it has adopted the stored session.
CreateStep(r, o, i, new) ==
  /\ Arrives(r) /\ Fresh(o) /\ IsNew(new, i) /\ CanActivate(new.credential, None)
  /\ i = o \/ (sessions[i] = None /\ lineage[i] # NoFile)
  /\ obj' = [obj EXCEPT ![o] = new] /\ sessions' = [sessions EXCEPT ![i] = o]
  /\ \/ \E mode \in Modes, k \in Keys, a \in Agents \cup {None} : OpensNew(r, o, i, new, mode, k, a)
     \/ new.st = "creating" /\ req' = [req EXCEPT ![r] = Idle] /\ UNCHANGED maps
  /\ unshared \subseteq unshared' /\ unshared' \subseteq ResultKeys
  /\ UNCHANGED <<toolIndex, draining, disk, faults, restarts, forgotten, unrecorded>>

LEMMA NewObjectIsNew ==
  ASSUME NEW i \in Ids, NEW c \in Credentials \cup {None}, NEW st \in ActiveStates, NEW k \in Keys \cup {NoKey},
         k.kind = "results" <=> k \in ResultKeys
  PROVE  /\ IsNew(NewObject(i, c, st, k), i) /\ NewObject(i, c, st, k).st = st
         /\ NewObject(i, c, st, k).credential = c /\ NewObject(i, c, st, k).segment = k
<1>1. (IF k.kind = "results" THEN k ELSE NoKey) \in ResultKeys \cup {NoKey}
  OBVIOUS
<1>2. NewObject(i, c, st, k) \in Object
  <2>1. st \in States /\ 0 \in 0 .. MaxRounds
    BY NoneFacts DEF States
  <2>2. /\ NoKey \in Keys \cup {NoKey} /\ NoKey \in TextKeys \cup {NoKey}
        /\ NoBatch \in Batches \cup {NoBatch} /\ {} \in SUBSET Batches
    OBVIOUS
  <2> QED BY <1>1, <2>1, <2>2 DEF NewObject, NoObject, Object
<1> QED BY <1>2 DEF NewObject, IsNew, NoObject

LEMMA StartIsCreate ==
  ASSUME Base, NEW r \in Requests, NEW k \in OpenKeys, StartTurn(r, k)
  PROVE  \E o \in Objects : \E new : CreateStep(r, o, o, new)
<1>1. PICK o \in Objects :
        /\ Fresh(o) /\ obj' = [obj EXCEPT ![o] = NewObject(o, k.by, "creating", k)]
        /\ sessions' = [sessions EXCEPT ![o] = o] /\ Opens(r, o, k, "start", None)
  BY DEF StartTurn
<1> DEFINE new == NewObject(o, k.by, "creating", k)
<1>2. k \in Keys /\ k.by \in Credentials /\ k.kind # "results" /\ k \notin ResultKeys
  BY KeyFacts
<1>3. IsNew(new, o) /\ new.st = "creating" /\ new.credential = k.by /\ new.segment = k
  BY <1>2, NewObjectIsNew, NoneFacts DEF ActiveStates
<1>4. OpensNew(r, o, o, new, "start", k, None)
  <2> HIDE DEF new
  <2> QED BY <1>1, <1>2, <1>3 DEF OpensNew, Modes, StartTurn, maps
<1>5. CreateStep(r, o, o, new)
  <2>1. Arrives(r) /\ CanActivate(k.by, None) /\ UNCHANGED <<toolIndex, draining, disk, maps, history>>
    BY DEF StartTurn, CanCreate
  <2>2. unshared' = unshared /\ unshared \subseteq ResultKeys
    BY <2>1 DEF history, Base, Typed, HistoryTyped
  <2>3. obj' = [obj EXCEPT ![o] = new]
    BY <1>1
  <2>4. "start" \in Modes /\ None \in Agents \cup {None}
    BY DEF Modes
  <2> HIDE DEF new
  <2> QED BY <1>1, <1>2, <1>3, <1>4, <2>1, <2>2, <2>3, <2>4 DEF CreateStep, history
<1> QED BY <1>5

LEMMA ActivatedIsObject ==
  ASSUME NEW old \in Object, NEW k \in Keys PROVE Activated(old, k) \in Object
<1>1. /\ "running" \in States /\ NoBatch \in Batches \cup {NoBatch} /\ {} \in SUBSET Batches
      /\ NoKey \in ResultKeys \cup {NoKey} /\ k \in Keys \cup {NoKey}
  BY DEF States, ActiveStates
<1> QED BY <1>1, ZenonT(30) DEF Activated, Object

LEMMA ResumeIsCreate ==
  ASSUME Base, NEW r \in Requests, NEW i \in Ids, ResumeCompleted(r, i)
  PROVE  \E o \in Objects : \E new : CreateStep(r, o, i, new)
<1> DEFINE k == NextKey(i)
           c == lineage[i].credential
           fresh == NewObject(i, c, "creating", NoKey)
           sent == Activated(NewObject(i, c, "creating", k), k)
<1>1. /\ Arrives(r) /\ sessions[i] = None /\ lineage[i].st = "completed" /\ CanActivate(c, None)
      /\ UNCHANGED <<toolIndex, draining, disk, maps, history>>
  BY DEF ResumeCompleted
<1>2. PICK o \in Objects :
        /\ Fresh(o) /\ sessions' = [sessions EXCEPT ![i] = o]
        /\ \/ /\ obj' = [obj EXCEPT ![o] = sent] /\ Proceeds(k)
              /\ Opens(r, o, k, "resume", lineage[i].agent)
           \/ /\ obj' = [obj EXCEPT ![o] = fresh]
              /\ req' = [req EXCEPT ![r] = Idle]
  BY DEF ResumeCompleted
<1>3. /\ k \in TextKeys /\ k \in Keys /\ k.kind # "results" /\ k \notin ResultKeys
      /\ NoKey.kind # "results" /\ NoKey \notin ResultKeys
  BY KeyFacts DEF NoKey
<1>4. c \in Credentials \cup {None} /\ lineage[i].agent \in Agents \cup {None}
  BY DEF Base, Typed, FilesTyped, File
<1>5. IsNew(fresh, i) /\ fresh.st = "creating" /\ fresh.credential = c
  BY <1>3, <1>4, NewObjectIsNew DEF ActiveStates
<1>6. IsNew(sent, i) /\ sent.st = "running" /\ sent.credential = c /\ sent.segment = k
  <2> DEFINE new == NewObject(i, c, "creating", k)
  <2>1. IsNew(new, i) /\ new.credential = c
    BY <1>3, <1>4, NewObjectIsNew DEF ActiveStates
  <2>2. "running" \in States /\ "running" \in ActiveStates /\ NoBatch \in Batches \cup {NoBatch}
    BY DEF States, ActiveStates
  <2> HIDE DEF new, k, c
  <2>3. Activated(new, k) \in Object
    BY <1>3, <2>1, <2>2, ActivatedIsObject DEF IsNew
  <2>4. Activated(new, k).id = i /\ Activated(new, k).st = "running" /\ Activated(new, k).run = "none"
        /\ Activated(new, k).boundary = "none" /\ Activated(new, k).agent = None
        /\ Activated(new, k).pending = {} /\ Activated(new, k).open = NoBatch
        /\ Activated(new, k).rounds = 0 /\ ~Activated(new, k).applied
        /\ ~Activated(new, k).continued /\ Activated(new, k).credential = c
        /\ Activated(new, k).segment = k
    BY <2>1 DEF Activated, IsNew, Object
  <2>5. IsNew(Activated(new, k), i) /\ Activated(new, k).st = "running"
        /\ Activated(new, k).credential = c /\ Activated(new, k).segment = k
    BY <2>2, <2>3, <2>4 DEF IsNew
  <2> QED BY <2>5 DEF new
<1>7. lineage[i] # NoFile /\ unshared \subseteq ResultKeys /\ unshared' = unshared
  BY <1>1 DEF NoFile, history, Base, Typed, HistoryTyped
<1> HIDE DEF sent, fresh, k, c
<1>8. CASE /\ obj' = [obj EXCEPT ![o] = sent] /\ Proceeds(k)
           /\ Opens(r, o, k, "resume", lineage[i].agent)
  <2>1. OpensNew(r, o, i, sent, "resume", k, lineage[i].agent)
    BY <1>1, <1>3, <1>4, <1>6, <1>8 DEF OpensNew, Modes, maps
  <2>2. "resume" \in Modes
    BY DEF Modes
  <2>3. CreateStep(r, o, i, sent)
    BY <1>1, <1>2, <1>3, <1>4, <1>6, <1>7, <1>8, <2>1, <2>2 DEF CreateStep, history
  <2> QED BY <2>3
<1>9. CASE obj' = [obj EXCEPT ![o] = fresh] /\ req' = [req EXCEPT ![r] = Idle]
  <2>1. CreateStep(r, o, i, fresh)
    BY <1>1, <1>2, <1>5, <1>7, <1>9 DEF CreateStep, history
  <2> QED BY <2>1
<1> QED BY <1>2, <1>8, <1>9

LEMMA PendingIsCreate ==
  ASSUME Base, NEW r \in Requests, NEW k \in ResultKeys, NEW i \in Stored(k.of), Resumable(i, k),
         NEW o \in Objects, Arrives(r), Fresh(o), OpenNow(i, k), CanActivate(k.by, None),
         obj' = [obj EXCEPT ![o] = NewObject(i, k.by, "resuming", k)],
         sessions' = [sessions EXCEPT ![i] = o],
         pendingRecoveries' = [pendingRecoveries EXCEPT ![i] = [key |-> k, obj |-> o]],
         Opens(r, o, k, "pending", lineage[i].agent),
         UNCHANGED <<toolIndex, draining, disk, transcriptRecoveries, history>>
  PROVE  i \in Ids /\ \E new : CreateStep(r, o, i, new)
<1> DEFINE new == NewObject(i, k.by, "resuming", k)
<1>1. i \in Ids /\ lineage[i].st = "awaiting" /\ k \in Keys /\ k.by \in Credentials
  BY KeyFacts DEF Stored
<1>2. IsNew(new, i) /\ new.st = "resuming" /\ new.credential = k.by /\ new.segment = k
  BY <1>1, KeyFacts, NewObjectIsNew DEF ActiveStates
<1>3. lineage[i].agent \in Agents \cup {None}
  BY <1>1 DEF Base, Typed, FilesTyped, File
<1>4. sessions[i] = None /\ lineage[i] # NoFile /\ lineage[i].pending = {k.of}
  BY <1>1 DEF Resumable, OpenNow, NoFile
<1>5. unshared' = unshared /\ unshared \subseteq ResultKeys
  BY DEF history, Base, Typed, HistoryTyped
<1>6. obj' = [obj EXCEPT ![o] = new]
  OBVIOUS
<1> HIDE DEF new
<1>7. OpensNew(r, o, i, new, "pending", k, lineage[i].agent) /\ "pending" \in Modes
  BY <1>1, <1>2, <1>3, <1>4 DEF OpensNew, Modes
<1>8. CreateStep(r, o, i, new)
  BY <1>1, <1>2, <1>3, <1>4, <1>5, <1>6, <1>7 DEF CreateStep, history
<1> QED BY <1>1, <1>8

LEMMA TranscriptIsCreate ==
  ASSUME Base, NEW r \in Requests, NEW k \in ResultKeys,
         NEW o \in Objects, Arrives(r), Fresh(o), CanCreate(k.by),
         obj' = [obj EXCEPT ![o] = NewObject(o, k.by, "creating", k)],
         sessions' = [sessions EXCEPT ![o] = o],
         transcriptRecoveries' = [transcriptRecoveries EXCEPT ![k] = o],
         Opens(r, o, k, "transcript", None),
         unshared' = IF TakenByOthers(k) THEN unshared \cup {k} ELSE unshared,
         UNCHANGED <<toolIndex, draining, disk, pendingRecoveries, faults, restarts, forgotten,
                     unrecorded>>
  PROVE  \E new : CreateStep(r, o, o, new)
<1> DEFINE new == NewObject(o, k.by, "creating", k)
<1>1. o \in Ids /\ k \in Keys /\ k.by \in Credentials /\ CanActivate(k.by, None)
  BY KeyFacts, NoneFacts DEF CanCreate
<1>2. IsNew(new, o) /\ new.st = "creating" /\ new.credential = k.by /\ new.segment = k
  BY <1>1, KeyFacts, NewObjectIsNew DEF ActiveStates
<1>3. unshared \subseteq unshared' /\ unshared' \subseteq ResultKeys
  BY DEF Base, Typed, HistoryTyped
<1>4. obj' = [obj EXCEPT ![o] = new]
  OBVIOUS
<1> HIDE DEF new
<1>5. OpensNew(r, o, o, new, "transcript", k, None) /\ "transcript" \in Modes
  BY <1>1, <1>2 DEF OpensNew, Modes
<1>6. CreateStep(r, o, o, new)
  BY <1>1, <1>2, <1>3, <1>4, <1>5 DEF CreateStep
<1> QED BY <1>6

-----------------------------------------------------------------------------
(* The object that is made is the last one, and nobody knows it yet *)

LEMMA CreateFacts ==
  ASSUME Base, NEW r \in Requests, NEW o \in Objects, NEW i \in Ids, NEW new,
         CreateStep(r, o, i, new)
  PROVE  /\ ~Exists(o) /\ (\A p \in Objects : Exists(p) => p < o)
         /\ obj'[o] = new /\ (\A p \in Objects : p # o => obj'[p] = obj[p])
         /\ sessions'[i] = o /\ (\A j \in Ids : j # i => sessions'[j] = sessions[j])
         /\ sessions[i] = None /\ (i # o => Exists(i))
         /\ ObjectsTyped' /\ RegistryTyped'
<1>1. ~Exists(o) /\ \A q \in Objects : q < o => Exists(q)
  BY DEF CreateStep, Fresh
<1>2. \A p \in Objects : Exists(p) => p < o
  <2> SUFFICES ASSUME NEW p \in Objects, Exists(p) PROVE p < o
    OBVIOUS
  <2>1. p \in Nat /\ o \in Nat
    BY DEF Objects
  <2>2. ~(o < p)
    BY <1>1 DEF Base, SessionsInv
  <2>3. p # o
    BY <1>1
  <2> QED BY <2>1, <2>2, <2>3
<1>3. Changes(o, new)
  BY DEF CreateStep, Changes, IsNew
<1>4. ObjectsTyped' /\ obj'[o] = new /\ \A p \in Objects : p # o => obj'[p] = obj[p]
  BY <1>3, ChangeTyped DEF Base, Typed
<1>5. sessions \in [Ids -> Objects \cup {None}] /\ sessions' = [sessions EXCEPT ![i] = o]
  BY DEF CreateStep, Base, Typed, RegistryTyped
<1>6. RegistryTyped'
  BY <1>5 DEF CreateStep, Base, Typed, RegistryTyped
<1>7. sessions[i] = None /\ (i # o => Exists(i))
  <2>1. CASE i # o
    BY <2>1 DEF CreateStep, Base, SessionsInv
  <2>2. CASE i = o
    BY <2>2, <1>1, <1>5 DEF Base, SessionsInv
  <2> QED BY <2>1, <2>2
<1> QED BY <1>1, <1>2, <1>4, <1>5, <1>6, <1>7

LEMMA CreateSessions ==
  ASSUME Base, NEW r \in Requests, NEW o \in Objects, NEW i \in Ids, NEW new,
         CreateStep(r, o, i, new)
  PROVE  SessionsInv'
<1>a. /\ ~Exists(o) /\ (\A p \in Objects : Exists(p) => p < o)
      /\ obj'[o] = new /\ (\A p \in Objects : p # o => obj'[p] = obj[p])
      /\ sessions'[i] = o /\ (\A j \in Ids : j # i => sessions'[j] = sessions[j])
      /\ sessions[i] = None /\ (i # o => Exists(i))
  BY CreateFacts
<1>b. new.id = i /\ new.st # "none" /\ \A q \in Objects : q < o => Exists(q)
  BY DEF CreateStep, IsNew, ActiveStates, Fresh
<1>c. SessionsInv /\ \A j \in Ids : sessions[j] \in Objects \cup {None}
  BY DEF Base, Typed, RegistryTyped
<1>1. \A p \in Objects : Exists(p)' <=> p = o \/ Exists(p)
  BY <1>a, <1>b DEF Exists
<1>2. \A p \in Objects : Exists(p) => obj'[p] = obj[p] /\ p # o
  BY <1>a
<1>3. \A j \in Ids : sessions'[j] # None => Exists(sessions[j])' /\ obj'[sessions'[j]].id = j
  <2> SUFFICES ASSUME NEW j \in Ids, sessions'[j] # None
               PROVE  Exists(sessions[j])' /\ obj'[sessions'[j]].id = j
    OBVIOUS
  <2>1. CASE j = i
    BY <2>1, <1>a, <1>b, <1>1
  <2>2. CASE j # i
    <3>1. sessions'[j] = sessions[j] /\ sessions[j] \in Objects /\ Exists(sessions[j])
          /\ obj[sessions[j]].id = j
      BY <2>2, <1>a, <1>c DEF SessionsInv
    <3> QED BY <3>1, <1>1, <1>2
  <2> QED BY <2>1, <2>2
<1>4. \A p \in Objects : Exists(p)' => obj'[p].id \in Ids /\ Exists(obj[p].id)'
  <2> SUFFICES ASSUME NEW p \in Objects, Exists(p)'
               PROVE  obj'[p].id \in Ids /\ Exists(obj[p].id)'
    OBVIOUS
  <2>1. CASE p = o
    <3>1. i \in Objects /\ Exists(i)'
      BY <1>a, <1>1, NoneFacts
    <3> QED BY <2>1, <3>1, <1>a, <1>b
  <2>2. CASE p # o
    <3>1. Exists(p) /\ obj'[p] = obj[p] /\ obj[p].id \in Ids /\ Exists(obj[p].id)
      BY <2>2, <1>1, <1>a, <1>c DEF SessionsInv
    <3>2. obj'[p].id \in Objects /\ Exists(obj'[p].id)
      BY <3>1, NoneFacts
    <3> QED BY <3>1, <3>2, <1>1
  <2> QED BY <2>1, <2>2
<1>5. \A p \in Objects : ~Exists(p)' => obj'[p] = NoObject
  BY <1>1, <1>a, <1>c DEF SessionsInv
<1>6. \A p, q \in Objects : Exists(p)' /\ q < p => Exists(q)'
  <2> SUFFICES ASSUME NEW p \in Objects, NEW q \in Objects, Exists(p)', q < p PROVE Exists(q)'
    OBVIOUS
  <2>1. Exists(q)
    BY <1>1, <1>b, <1>c DEF SessionsInv
  <2> QED BY <2>1, <1>1
<1>7. \A j \in Ids : lineage'[j] # NoFile => Exists(j)'
  BY <1>1, <1>c, NoneFacts DEF SessionsInv, CreateStep, disk
<1>8. \A k \in ResultKeys : transcriptRecoveries'[k] # None => Exists(transcriptRecoveries[k])'
  <2> SUFFICES ASSUME NEW k \in ResultKeys, transcriptRecoveries'[k] # None
               PROVE  Exists(transcriptRecoveries[k])'
    OBVIOUS
  <2>1. transcriptRecoveries \in [ResultKeys -> Objects \cup {None}]
    BY DEF Base, Typed, FilesTyped
  <2>2. transcriptRecoveries'[k] = o \/ transcriptRecoveries'[k] = transcriptRecoveries[k]
    BY <2>1 DEF CreateStep, OpensNew, maps
  <2>3. CASE transcriptRecoveries'[k] = o
    BY <2>3, <1>1
  <2>4. CASE transcriptRecoveries'[k] = transcriptRecoveries[k]
    <3>1. transcriptRecoveries'[k] \in Objects /\ Exists(transcriptRecoveries'[k])
      BY <2>1, <2>4, <1>c DEF SessionsInv
    <3> QED BY <3>1, <1>1
  <2> QED BY <2>2, <2>3, <2>4
<1>9. \A p, q \in Objects : Registered(p)' /\ Exists(q)' /\ obj'[q].id = obj'[p].id => q <= p
  <2> SUFFICES ASSUME NEW p \in Objects, NEW q \in Objects, Registered(p)', Exists(q)',
                      obj'[q].id = obj'[p].id
               PROVE  q <= p
    OBVIOUS
  <2>0. p \in Nat /\ q \in Nat /\ o \in Nat
    BY DEF Objects
  <2>1. CASE p = o
    BY <2>0, <2>1, <1>1, <1>a
  <2>2. CASE p # o
    <3>1. Exists(p) /\ obj'[p] = obj[p] /\ sessions'[obj[p].id] = p /\ obj[p].id \in Ids
      BY <2>2, <1>1, <1>a, <1>c DEF Registered, SessionsInv
    <3>2. obj[p].id # i
      BY <3>1, <2>2, <1>a
    <3>3. Registered(p)
      BY <3>1, <3>2, <1>a DEF Registered
    <3>4. q # o
      BY <3>1, <3>2, <1>a, <1>b
    <3> QED BY <3>1, <3>3, <3>4, <1>1, <1>a, <1>c DEF SessionsInv
  <2> QED BY <2>1, <2>2
<1> QED BY <1>3, <1>4, <1>5, <1>6, <1>7, <1>8, <1>9 DEF SessionsInv

\* The request opens the new object, or is over.
LEMMA CreateRequest ==
  ASSUME Base, NEW r \in Requests, NEW o \in Objects, NEW i \in Ids, NEW new,
         CreateStep(r, o, i, new)
  PROVE  /\ RequestsTyped' /\ FilesTyped' /\ HistoryTyped' /\ req[r].pc = "idle"
         /\ \A q \in Requests : q # r => req'[q] = req[q]
         /\ \/ req'[r].pc = "idle" /\ UNCHANGED maps
            \/ /\ req'[r].pc = "opening" /\ req'[r].obj = o /\ req'[r].key = new.segment
               /\ \/ req'[r].mode \in {"start", "transcript"} /\ new.st = "creating"
                     /\ req'[r].agent = None /\ i = o
                  \/ req'[r].mode \in {"resume", "pending"} /\ new.st \in {"running", "resuming"}
                     /\ req'[r].agent = lineage[i].agent
               /\ IF req'[r].mode = "pending"
                    THEN /\ req'[r].key \in ResultKeys
                         /\ lineage[i].st = "awaiting" /\ lineage[i].pending = {req'[r].key.of}
                         /\ pendingRecoveries'[i] = [key |-> req'[r].key, obj |-> o]
                         /\ \A j \in Ids : j # i => pendingRecoveries'[j] = pendingRecoveries[j]
                    ELSE UNCHANGED pendingRecoveries
               /\ IF req'[r].mode = "transcript"
                    THEN /\ req'[r].key \in ResultKeys /\ transcriptRecoveries'[req'[r].key] = o
                         /\ \A k \in ResultKeys : k # req'[r].key =>
                              transcriptRecoveries'[k] = transcriptRecoveries[k]
                    ELSE UNCHANGED transcriptRecoveries
<1>1. RequestsTyped /\ FilesTyped /\ HistoryTyped /\ req[r].pc = "idle"
  BY DEF Base, Typed, CreateStep, Arrives
<1>2. HistoryTyped'
  BY <1>1 DEF HistoryTyped, CreateStep
<1>3. lineage' = lineage /\ ledger' = ledger
  BY DEF CreateStep, disk
<1>4. CASE req' = [req EXCEPT ![r] = Idle] /\ UNCHANGED maps
  <2>1. Asks(r, Idle) /\ Idle.pc = "idle"
    BY <1>1, <1>4, IdleTyped
  <2>2. RequestsTyped' /\ req'[r] = Idle /\ \A q \in Requests : q # r => req'[q] = req[q]
    BY <1>1, <2>1, AskTyped
  <2>3. FilesTyped'
    BY <1>1, <1>3, <1>4 DEF FilesTyped, maps
  <2> QED BY <1>1, <1>2, <1>4, <2>1, <2>2, <2>3
<1>5. ASSUME NEW mode \in Modes, NEW k \in Keys, NEW a \in Agents \cup {None},
             OpensNew(r, o, i, new, mode, k, a)
      PROVE  /\ RequestsTyped' /\ FilesTyped' /\ \A q \in Requests : q # r => req'[q] = req[q]
             /\ req'[r].pc = "opening" /\ req'[r].obj = o /\ req'[r].key = k
             /\ req'[r].mode = mode /\ req'[r].agent = a
  <2>1. mode = "pending" => k \in ResultKeys
    BY <1>5 DEF OpensNew
  <2>2. PICK ask \in Request : /\ Asks(r, ask) /\ ask.pc = "opening" /\ ask.obj = o
                               /\ ask.key = k /\ ask.mode = mode /\ ask.agent = a
    BY <1>1, <1>5, <2>1, OpensTyped DEF OpensNew
  <2>3. RequestsTyped' /\ req'[r] = ask /\ \A q \in Requests : q # r => req'[q] = req[q]
    BY <1>1, <2>2, AskTyped
  <2>4. FilesTyped'
    BY <1>1, <1>3, <1>5 DEF FilesTyped, OpensNew
  <2> QED BY <2>2, <2>3, <2>4
<1>6. ASSUME NEW mode \in Modes, NEW k \in Keys, NEW a \in Agents \cup {None},
             OpensNew(r, o, i, new, mode, k, a), mode = "pending"
      PROVE  pendingRecoveries'[i] = [key |-> k, obj |-> o]
             /\ \A j \in Ids : j # i => pendingRecoveries'[j] = pendingRecoveries[j]
  BY <1>1, <1>6 DEF OpensNew, FilesTyped
<1>7. ASSUME NEW mode \in Modes, NEW k \in Keys, NEW a \in Agents \cup {None},
             OpensNew(r, o, i, new, mode, k, a), mode = "transcript"
      PROVE  transcriptRecoveries'[k] = o
             /\ \A l \in ResultKeys : l # k => transcriptRecoveries'[l] = transcriptRecoveries[l]
  BY <1>1, <1>7 DEF OpensNew, FilesTyped
<1>8. CASE \E mode \in Modes, k \in Keys, a \in Agents \cup {None} : OpensNew(r, o, i, new, mode, k, a)
  <2>1. PICK mode \in Modes, k \in Keys, a \in Agents \cup {None} : OpensNew(r, o, i, new, mode, k, a)
    BY <1>8
  <2>2. /\ RequestsTyped' /\ FilesTyped' /\ \A q \in Requests : q # r => req'[q] = req[q]
        /\ req'[r].pc = "opening" /\ req'[r].obj = o /\ req'[r].key = k
        /\ req'[r].mode = mode /\ req'[r].agent = a
    BY <2>1, <1>5
  <2>3. /\ new.segment = k
        /\ \/ mode \in {"start", "transcript"} /\ new.st = "creating" /\ i = o /\ a = None
           \/ mode \in {"resume", "pending"} /\ new.st \in {"running", "resuming"} /\ a = lineage[i].agent
        /\ mode = "pending" => k \in ResultKeys /\ lineage[i].st = "awaiting" /\ lineage[i].pending = {k.of}
        /\ mode # "pending" => UNCHANGED pendingRecoveries
        /\ mode = "transcript" => k \in ResultKeys
        /\ mode # "transcript" => UNCHANGED transcriptRecoveries
    BY <2>1 DEF OpensNew
  <2>4. mode = "pending" => pendingRecoveries'[i] = [key |-> k, obj |-> o]
             /\ \A j \in Ids : j # i => pendingRecoveries'[j] = pendingRecoveries[j]
    BY <2>1, <1>6
  <2>5. mode = "transcript" => transcriptRecoveries'[k] = o
             /\ \A l \in ResultKeys : l # k => transcriptRecoveries'[l] = transcriptRecoveries[l]
    BY <2>1, <1>7
  <2> QED BY <1>1, <1>2, <2>2, <2>3, <2>4, <2>5
<1> QED BY <1>4, <1>8 DEF CreateStep

LEMMA CreateBase ==
  ASSUME Base, NEW r \in Requests, NEW o \in Objects, NEW i \in Ids, NEW new,
         CreateStep(r, o, i, new)
  PROVE  Base'
<1>a. /\ ~Exists(o) /\ (\A p \in Objects : Exists(p) => p < o)
      /\ obj'[o] = new /\ (\A p \in Objects : p # o => obj'[p] = obj[p])
      /\ sessions'[i] = o /\ (\A j \in Ids : j # i => sessions'[j] = sessions[j])
      /\ sessions[i] = None /\ (i # o => Exists(i))
      /\ ObjectsTyped' /\ RegistryTyped'
  BY CreateFacts
<1>b. IsNew(new, i) /\ SessionsInv /\ StatesInv /\ ReqInv /\ Typed
  BY DEF CreateStep, Base
<1>c. /\ RequestsTyped' /\ FilesTyped' /\ HistoryTyped' /\ req[r].pc = "idle"
      /\ \A q \in Requests : q # r => req'[q] = req[q]
      /\ \/ req'[r].pc = "idle"
         \/ /\ req'[r].pc = "opening" /\ req'[r].obj = o
            /\ \/ req'[r].mode \in {"start", "transcript"} /\ new.st = "creating"
               \/ req'[r].mode \in {"resume", "pending"} /\ new.st \in {"running", "resuming"}
      /\ \A j \in Ids : \/ pendingRecoveries'[j] = pendingRecoveries[j]
                        \/ pendingRecoveries'[j].obj = o /\ req'[r].pc = "opening"
  <2>1. maps' = maps => pendingRecoveries' = pendingRecoveries
    BY DEF maps
  <2>2. \/ req'[r].pc = "idle" /\ UNCHANGED maps
        \/ /\ req'[r].pc = "opening" /\ req'[r].obj = o
           /\ \/ req'[r].mode \in {"start", "transcript"} /\ new.st = "creating"
              \/ req'[r].mode \in {"resume", "pending"} /\ new.st \in {"running", "resuming"}
           /\ IF req'[r].mode = "pending"
                THEN /\ pendingRecoveries'[i] = [key |-> req'[r].key, obj |-> o]
                     /\ \A j \in Ids : j # i => pendingRecoveries'[j] = pendingRecoveries[j]
                ELSE UNCHANGED pendingRecoveries
    BY CreateRequest
  <2>3. \A j \in Ids : \/ pendingRecoveries'[j] = pendingRecoveries[j]
                       \/ pendingRecoveries'[j].obj = o /\ req'[r].pc = "opening"
    BY <2>1, <2>2
  <2>4. /\ RequestsTyped' /\ FilesTyped' /\ HistoryTyped' /\ req[r].pc = "idle"
        /\ \A q \in Requests : q # r => req'[q] = req[q]
    BY CreateRequest
  <2> QED BY <2>2, <2>3, <2>4
<1>1. Typed'
  BY <1>a, <1>c DEF Typed
<1>2. SessionsInv'
  BY CreateSessions
<1>3. \A p \in Objects : Exists(p) => p # o /\ Exists(p)' /\ obj'[p] = obj[p]
  BY <1>a DEF Exists
<1>4. \A q \in Requests : req[q].pc # "idle" => req[q].obj \in Objects /\ Exists(req[q].obj)
                                                /\ req[q].obj # o /\ req'[q] = req[q] /\ q # r
  BY <1>b, <1>c, <1>3 DEF Typed, RequestsTyped, ReqInv
<1>5. \A p \in Objects : p # o => (Opening(p)' <=> Opening(p))
  BY <1>4, <1>c DEF Opening
<1>6. StatesInv'
  <2> SUFFICES ASSUME NEW p \in Objects PROVE StateOk(p)' /\ DrivenOk(p)'
    BY DEF StatesInv
  <2>1. CASE p = o
    <3>1. new.st # "closed" /\ new.st \in ActiveStates /\ new.run = "none" /\ new.boundary = "none"
          /\ new.st \notin {"awaiting", "completed", "failed"}
      BY <1>b DEF IsNew, ActiveStates
    <3>2. obj'[p] = new
      BY <2>1, <1>a
    <3>3. StateOk(p)'
      BY <3>1, <3>2 DEF StateOk
    <3>4. DrivenOk(p)'
      BY <3>1, <3>2 DEF DrivenOk
    <3> QED BY <3>3, <3>4
  <2>2. CASE p # o
    <3>1. obj'[p] = obj[p] /\ StateOk(p) /\ DrivenOk(p)
      BY <2>2, <1>a, <1>b DEF StatesInv
    <3>2. DrivesKept(p)
      BY <1>4 DEF DrivesKept
    <3>3. Registered(p)' => Registered(p)
      <4> SUFFICES ASSUME Registered(p)' PROVE Registered(p)
        OBVIOUS
      <4>1. Exists(p) /\ sessions'[obj[p].id] = p
        BY <3>1 DEF Registered, Exists
      <4>2. obj[p].id \in Ids /\ obj[p].id # i
        BY <4>1, <2>2, <1>a, <1>b DEF SessionsInv
      <4> QED BY <4>1, <4>2, <1>a DEF Registered
    <3>4. Driving(p) # {} => Driving(p)' # {}
      BY <3>2, StillDriven
    <3>5. StateOk(p)'
      BY <3>1 DEF StateOk
    <3>6. DrivenOk(p)'
      BY <3>1, <3>3, <3>4 DEF DrivenOk
    <3> QED BY <3>5, <3>6
  <2> QED BY <2>1, <2>2
<1>7. ReqInv'
  <2>1. \A q \in Requests : req'[q].pc # "idle" => Exists(req[q].obj)'
    <3>1. Exists(o)'
      BY <1>a, <1>b DEF Exists, IsNew, ActiveStates
    <3> QED BY <3>1, <1>3, <1>4, <1>c
  <2>2. ASSUME NEW q \in Requests, req'[q].pc = "opening" PROVE OpeningOk(q)'
    <3>1. CASE q = r
      <4>1. new.run = "none" /\ new.rounds = 0
        BY <1>b DEF IsNew
      <4>2. \A s \in Requests : req'[s].pc = "opening" /\ req'[s].obj = o => s = r
        BY <1>c, <1>4
      <4>3. req'[r].obj = o
        BY <2>2, <3>1, <1>c
      <4>4. IF req'[r].mode \in {"start", "transcript"} THEN new.st \in {"creating", "closed"}
            ELSE new.st \in {"running", "resuming", "closed"}
        BY <2>2, <3>1, <1>c
      <4> QED BY <3>1, <4>1, <4>2, <4>3, <4>4, <1>a DEF OpeningOk
    <3>2. CASE q # r
      <4>1. req'[q] = req[q] /\ req[q].pc = "opening" /\ OpeningOk(q)
        BY <2>2, <3>2, <1>b, <1>c DEF ReqInv
      <4>2. req[q].obj \in Objects /\ req[q].obj # o /\ obj'[req[q].obj] = obj[req[q].obj]
        BY <4>1, <1>4, <1>a
      <4>3. \A s \in Requests : req'[s].pc = "opening" /\ req'[s].obj = req[q].obj => s = q
        BY <4>1, <4>2, <1>c DEF OpeningOk
      <4> QED BY <4>1, <4>2, <4>3 DEF OpeningOk
    <3> QED BY <3>1, <3>2
  <2>3. \A q \in Requests : req'[q].pc = "joined" => Opening(req[q].obj)'
    BY <1>4, <1>5, <1>b, <1>c DEF ReqInv
  <2>4. \A q \in Requests : req'[q].pc = "driving" => ~Opening(req[q].obj)'
    BY <1>4, <1>5, <1>b, <1>c DEF ReqInv
  <2>5. \A j \in Ids : pendingRecoveries'[j].key # NoKey =>
          pendingRecoveries'[j].obj \in Objects /\ Opening(pendingRecoveries[j].obj)'
    <3> SUFFICES ASSUME NEW j \in Ids, pendingRecoveries'[j].key # NoKey
                 PROVE  pendingRecoveries'[j].obj \in Objects /\ Opening(pendingRecoveries[j].obj)'
      OBVIOUS
    <3>1. CASE pendingRecoveries'[j].obj = o /\ req'[r].pc = "opening"
      BY <3>1, <1>c DEF Opening
    <3>2. CASE pendingRecoveries'[j] = pendingRecoveries[j]
      <4>1. pendingRecoveries[j].obj \in Objects /\ Opening(pendingRecoveries[j].obj)
        BY <3>2, <1>b DEF ReqInv
      <4>2. pendingRecoveries[j].obj # o
        BY <4>1, <1>4 DEF Opening
      <4> QED BY <3>2, <4>1, <4>2, <1>5
    <3> QED BY <3>1, <3>2, <1>c
  <2> QED BY <2>1, <2>2, <2>3, <2>4, <2>5 DEF ReqInv
<1> QED BY <1>1, <1>2, <1>6, <1>7 DEF Base

-----------------------------------------------------------------------------
(* A request is answered from memory, joins an opening, or waits for the run  *)
(* of a session that is registered or of its transcript's recovery            *)

QuietStep(r, new) ==
  /\ Arrives(r) /\ Asks(r, new) /\ new.mode = "none"
  /\ \/ new.pc = "idle"
     \/ new.pc = "joined" /\ new.key \in ResultKeys /\ Opening(new.obj)
     \/ /\ new.pc = "driving" /\ Exists(new.obj) /\ ~Opening(new.obj)
        /\ Registered(new.obj) \/ \E k \in ResultKeys : transcriptRecoveries[k] = new.obj
  /\ UNCHANGED <<registryVars, disk, maps, history>>

\* An object that has a pump is not being opened.
LEMMA PumpFacts ==
  ASSUME Base, NEW o, HasPump(o) PROVE ~Opening(o)
BY DEF Base, ReqInv, Opening, OpeningOk, HasPump

LEMMA AttachIsQuiet ==
  ASSUME Base, NEW r \in Requests, NEW o \in Objects, NEW k \in Keys, Arrives(r),
         Attaches(r, o, k), Exists(o), ~Opening(o),
         Registered(o) \/ \E l \in ResultKeys : transcriptRecoveries[l] = o,
         UNCHANGED <<registryVars, disk, maps, history>>
  PROVE  \E new : QuietStep(r, new)
<1>1. PICK new \in Request :
        Asks(r, new) /\ new.pc = "driving" /\ new.obj = o /\ new.key = k /\ new.mode = "none"
  BY AttachesTyped DEF Base, Typed
<1>2. QuietStep(r, new)
  BY <1>1 DEF QuietStep
<1> QED BY <1>2

LEMMA JoinIsQuiet ==
  ASSUME Base, NEW r \in Requests, NEW o \in Objects, NEW k \in ResultKeys, Arrives(r),
         Joins(r, o, k), Opening(o), UNCHANGED <<registryVars, disk, maps, history>>
  PROVE  \E new : QuietStep(r, new)
<1>1. PICK new \in Request :
        Asks(r, new) /\ new.pc = "joined" /\ new.obj = o /\ new.key = k /\ new.mode = "none"
  BY JoinsTyped, KeyFacts DEF Base, Typed
<1>2. QuietStep(r, new)
  BY <1>1 DEF QuietStep
<1> QED BY <1>2

LEMMA ReplayIsQuiet ==
  ASSUME Base, NEW r \in Requests, Arrives(r), Replays(r),
         UNCHANGED <<registryVars, disk, maps, history>>
  PROVE  \E new : QuietStep(r, new)
<1>1. Asks(r, Idle) /\ Idle.pc = "idle" /\ Idle.mode = "none"
  BY IdleTyped DEF Base, Typed, Replays
<1>2. QuietStep(r, Idle)
  BY <1>1 DEF QuietStep
<1> QED BY <1>2

LEMMA ReconnectIsQuiet ==
  ASSUME Base, NEW r \in Requests, NEW k \in TextKeys, Reconnect(r, k)
  PROVE  \E new : QuietStep(r, new)
<1>1. Arrives(r) /\ k \in Keys /\ UNCHANGED <<registryVars, disk, maps, history>>
  BY KeyFacts DEF Reconnect
<1>2. CASE ReconnectDrives(k) /\ Attaches(r, LiveOf(k), k)
  <2>1. LiveOf(k) \in Objects /\ Registered(LiveOf(k)) /\ HasPump(LiveOf(k))
    BY <1>1, <1>2, LiveFacts DEF ReconnectDrives, Base
  <2>2. Exists(LiveOf(k)) /\ ~Opening(LiveOf(k))
    BY <2>1, PumpFacts DEF Registered
  <2> QED BY <1>1, <1>2, <2>1, <2>2, AttachIsQuiet
<1>3. CASE Replays(r)
  BY <1>1, <1>3, ReplayIsQuiet
<1> QED BY <1>2, <1>3 DEF Reconnect

LEMMA RepeatIsQuiet ==
  ASSUME Base, NEW r \in Requests, NEW k \in ResultKeys, RepeatResults(r, k)
  PROVE  \E new : QuietStep(r, new)
<1> DEFINE o == OwnerOf(k.of)
<1>1. /\ Arrives(r) /\ k \in Keys /\ k.of \in Batches /\ o # None
      /\ UNCHANGED <<registryVars, disk, maps, history>>
  BY KeyFacts DEF RepeatResults, Results
<1>2. o \in Objects /\ Registered(o)
  BY <1>1, OwnerFacts DEF Base
<1>3. CASE Continues(o, k) /\ Attaches(r, o, k)
  <2>1. Exists(o) /\ ~Opening(o)
    BY <1>2, <1>3, PumpFacts DEF Registered, Continues
  <2> QED BY <1>1, <1>2, <1>3, <2>1, AttachIsQuiet
<1>4. CASE Replays(r)
  BY <1>1, <1>4, ReplayIsQuiet
<1> QED BY <1>3, <1>4 DEF RepeatResults

LEMMA PendingCases ==
  ASSUME Base, NEW r \in Requests, NEW k \in ResultKeys, ResumePending(r, k)
  PROVE  \/ \E new : QuietStep(r, new)
         \/ \E o \in Objects, i \in Ids : \E new : CreateStep(r, o, i, new)
<1>1. Arrives(r) /\ UNCHANGED <<toolIndex, draining, disk, transcriptRecoveries, history>>
  BY DEF ResumePending, Results
<1>2. PICK i \in Stored(k.of) :
        /\ Resumable(i, k)
        /\ \/ /\ OpenNow(i, k) /\ CanActivate(k.by, None)
              /\ \E o \in Objects :
                   /\ Fresh(o)
                   /\ obj' = [obj EXCEPT ![o] = NewObject(i, k.by, "resuming", k)]
                   /\ sessions' = [sessions EXCEPT ![i] = o]
                   /\ pendingRecoveries' = [pendingRecoveries EXCEPT ![i] = [key |-> k, obj |-> o]]
                   /\ Opens(r, o, k, "pending", lineage[i].agent)
           \/ /\ ~OpenNow(i, k)
              /\ Joins(r, pendingRecoveries[i].obj, k)
              /\ UNCHANGED <<obj, sessions, pendingRecoveries>>
  BY DEF ResumePending
<1>3. CASE OpenNow(i, k) /\ CanActivate(k.by, None)
           /\ \E o \in Objects :
                   /\ Fresh(o)
                   /\ obj' = [obj EXCEPT ![o] = NewObject(i, k.by, "resuming", k)]
                   /\ sessions' = [sessions EXCEPT ![i] = o]
                   /\ pendingRecoveries' = [pendingRecoveries EXCEPT ![i] = [key |-> k, obj |-> o]]
                   /\ Opens(r, o, k, "pending", lineage[i].agent)
  <2>1. PICK o \in Objects :
                   /\ Fresh(o)
                   /\ obj' = [obj EXCEPT ![o] = NewObject(i, k.by, "resuming", k)]
                   /\ sessions' = [sessions EXCEPT ![i] = o]
                   /\ pendingRecoveries' = [pendingRecoveries EXCEPT ![i] = [key |-> k, obj |-> o]]
                   /\ Opens(r, o, k, "pending", lineage[i].agent)
    BY <1>3
  <2>2. i \in Ids /\ \E new : CreateStep(r, o, i, new)
    BY <1>1, <1>2, <1>3, <2>1, PendingIsCreate
  <2> QED BY <2>2
<1>4. CASE /\ ~OpenNow(i, k) /\ Joins(r, pendingRecoveries[i].obj, k)
           /\ UNCHANGED <<obj, sessions, pendingRecoveries>>
  <2>1. i \in Ids
    BY DEF Stored
  <2>2. pendingRecoveries[i].obj \in Objects /\ Opening(pendingRecoveries[i].obj)
    BY <1>4, <2>1 DEF OpenNow, Base, ReqInv
  <2>3. UNCHANGED <<registryVars, disk, maps, history>>
    BY <1>1, <1>4 DEF registryVars, maps
  <2> QED BY <1>1, <1>4, <2>2, <2>3, JoinIsQuiet
<1> QED BY <1>2, <1>3, <1>4

LEMMA TranscriptCases ==
  ASSUME Base, NEW r \in Requests, NEW k \in ResultKeys, RecoverFromTranscript(r, k)
  PROVE  \/ \E new : QuietStep(r, new)
         \/ \E o \in Objects, i \in Ids : \E new : CreateStep(r, o, i, new)
<1> DEFINE known == KnownRecovery(k)
<1>1. /\ Arrives(r)
      /\ UNCHANGED <<toolIndex, draining, disk, pendingRecoveries, faults, restarts, forgotten,
                     unrecorded>>
  BY DEF RecoverFromTranscript, Results
<1>2. CASE /\ CanCreate(k.by)
           /\ \E o \in Objects :
                /\ Fresh(o)
                /\ obj' = [obj EXCEPT ![o] = NewObject(o, k.by, "creating", k)]
                /\ sessions' = [sessions EXCEPT ![o] = o]
                /\ transcriptRecoveries' = [transcriptRecoveries EXCEPT ![k] = o]
                /\ Opens(r, o, k, "transcript", None)
           /\ unshared' = IF TakenByOthers(k) THEN unshared \cup {k} ELSE unshared
  <2>1. PICK o \in Objects :
                /\ Fresh(o)
                /\ obj' = [obj EXCEPT ![o] = NewObject(o, k.by, "creating", k)]
                /\ sessions' = [sessions EXCEPT ![o] = o]
                /\ transcriptRecoveries' = [transcriptRecoveries EXCEPT ![k] = o]
                /\ Opens(r, o, k, "transcript", None)
    BY <1>2
  <2>2. \E new : CreateStep(r, o, o, new)
    BY <1>1, <1>2, <2>1, TranscriptIsCreate
  <2> QED BY <2>2, NoneFacts
<1>3. CASE /\ known # None
           /\ IF Opening(known) THEN Joins(r, known, k) ELSE Attaches(r, known, k)
           /\ UNCHANGED <<obj, sessions, transcriptRecoveries, unshared>>
  <2>1. known = transcriptRecoveries[k] /\ known \in Objects /\ Exists(known) /\ k \in Keys
    BY <1>3, KeyFacts DEF KnownRecovery, Base, Typed, FilesTyped, SessionsInv
  <2>2. UNCHANGED <<registryVars, disk, maps, history>>
    BY <1>1, <1>3 DEF registryVars, maps, history
  <2> HIDE DEF known
  <2>3. CASE Opening(known)
    BY <1>1, <1>3, <2>1, <2>2, <2>3, JoinIsQuiet
  <2>4. CASE ~Opening(known)
    BY <1>1, <1>3, <2>1, <2>2, <2>4, AttachIsQuiet
  <2> QED BY <2>3, <2>4
<1> QED BY <1>2, <1>3 DEF RecoverFromTranscript

LEMMA QuietBase ==
  ASSUME Base, NEW r \in Requests, NEW new, QuietStep(r, new)
  PROVE  Base' /\ req'[r] = new /\ \A q \in Requests : q # r => req'[q] = req[q]
<1>1. /\ Asks(r, new) /\ req[r].pc = "idle" /\ UNCHANGED <<registryVars, disk, maps, history>>
      /\ new.pc # "opening"
  BY DEF QuietStep, Arrives
<1>2. RequestsTyped' /\ req'[r] = new /\ \A q \in Requests : q # r => req'[q] = req[q]
  BY <1>1, AskTyped DEF Base, Typed
<1>3. Typed'
  BY <1>1, <1>2 DEF Base, Typed, ObjectsTyped, RegistryTyped, FilesTyped, HistoryTyped,
                    registryVars, disk, maps, history
<1>4. KeepsObjects /\ Unregisters
  BY <1>1 DEF KeepsObjects, Unregisters, registryVars, Exists
<1>5. SessionsInv'
  <2>1. /\ \A i \in Ids : lineage'[i] # NoFile => Exists(i)
        /\ \A k \in ResultKeys : transcriptRecoveries'[k] # None =>
             transcriptRecoveries'[k] \in Objects /\ Exists(transcriptRecoveries'[k])
    BY <1>1 DEF Base, Typed, FilesTyped, SessionsInv, disk, maps
  <2> QED BY <1>4, <2>1, SessionsKept DEF Base
<1>6. ASSUME NEW p \in Objects PROVE StateOk(p)' /\ DrivenOk(p)'
  <2>1. DrivesKept(p) /\ obj'[p] = obj[p]
    BY <1>1, <1>2 DEF DrivesKept, registryVars
  <2>2. Driving(p) # {} => Driving(p)' # {}
    BY <2>1, StillDriven
  <2> QED BY <2>1, <2>2, <1>4, StateKept DEF Base, StatesInv
<1>7. ReqInv'
  <2>1. OpeningsKept
    BY <1>1, <1>2 DEF OpeningsKept, registryVars
  <2>2. \A q \in Requests : req'[q].pc = "joined" => req'[q] = req[q] \/ Opening(req'[q].obj)
    BY <1>2 DEF QuietStep
  <2>3. \A q \in Requests : req'[q].pc = "driving" =>
          req'[q] = req[q] \/ (Exists(req'[q].obj) /\ ~Opening(req'[q].obj))
    BY <1>2 DEF QuietStep
  <2>4. UNCHANGED pendingRecoveries
    BY <1>1 DEF maps
  <2> QED BY <1>2, <1>4, <2>1, <2>2, <2>3, <2>4, RequestsKept DEF Base, Typed
<1> QED BY <1>2, <1>3, <1>5, <1>6, <1>7 DEF Base, StatesInv

-----------------------------------------------------------------------------
(* A request gives a session new work: a text or results *)

FollowStep(r, o, new, ask) ==
  /\ Arrives(r) /\ Registered(o) /\ obj[o].st = "completed" /\ CanActivate(obj[o].credential, o)
  /\ Changes(o, new) /\ new.id = obj[o].id /\ new.credential = obj[o].credential
  /\ new.agent = obj[o].agent /\ new.rounds = obj[o].rounds
  /\ new.st = "running" /\ new.run = "none" /\ new.boundary = "none" /\ new.pending = {}
  /\ new.open = NoBatch /\ ~new.applied /\ ~new.continued /\ new.segment = ask.key
  /\ Asks(r, ask) /\ ask.pc = "opening" /\ ask.obj = o /\ ask.key = NextKey(obj[o].id)
  /\ ask.mode = "follow" /\ ask.agent = obj[o].agent /\ Proceeds(ask.key)
  /\ RegistryTyped' /\ UNCHANGED <<sessions, draining, disk, maps, history>>

AcceptStep(r, o, new, ask) ==
  /\ Arrives(r) /\ Registered(o) /\ obj[o].st = "awaiting"
  /\ Changes(o, new) /\ new.id = obj[o].id /\ new.credential = obj[o].credential
  /\ new.agent = obj[o].agent /\ new.rounds = obj[o].rounds /\ new.run = obj[o].run
  /\ new.pending = obj[o].pending /\ obj[o].open = ask.key.of
  /\ new.st = "resuming" /\ new.boundary = "none" /\ ~new.applied /\ new.continued
  /\ new.segment = ask.key
  /\ Asks(r, ask) /\ ask.pc = "driving" /\ ask.obj = o /\ ask.key \in ResultKeys
  /\ ask.mode = "none"
  /\ UNCHANGED <<sessions, toolIndex, draining, disk, maps, history>>

LEMMA SessionFacts ==
  ASSUME Base, NEW i \in Ids, sessions[i] # None
  PROVE  sessions[i] \in Objects /\ Registered(sessions[i]) /\ obj[sessions[i]].id = i
BY DEF Base, Typed, RegistryTyped, SessionsInv, Registered

LEMMA FollowIsStep ==
  ASSUME Base, NEW r \in Requests, NEW i \in Ids, FollowUp(r, i)
  PROVE  \E o \in Objects : \E new, ask : FollowStep(r, o, new, ask)
<1> PICK o \in Objects : o = sessions[i] /\ Registered(o) /\ obj[o].id = i
  BY SessionFacts DEF FollowUp
<1> DEFINE k == NextKey(i)
           new == Activated(obj[o], k)
<1>1. /\ Arrives(r) /\ obj[o].st = "completed" /\ CanActivate(obj[o].credential, o) /\ Proceeds(k)
      /\ obj' = [obj EXCEPT ![o] = new]
      /\ toolIndex' = [b \in Batches |-> IF b \in obj[o].pending THEN None ELSE toolIndex[b]]
      /\ Opens(r, o, k, "follow", obj[o].agent)
      /\ UNCHANGED <<sessions, draining, disk, maps, history>>
  BY DEF FollowUp, Base, Typed, ObjectsTyped
<1>2. k \in Keys /\ obj[o] \in Object /\ obj[o].agent \in Agents \cup {None} /\ "follow" \in Modes
  BY KeyFacts DEF Base, Typed, ObjectsTyped, Object, Modes
<1>3. PICK ask \in Request : /\ Asks(r, ask) /\ ask.pc = "opening" /\ ask.obj = o /\ ask.key = k
                             /\ ask.mode = "follow" /\ ask.agent = obj[o].agent
  <2>1. "follow" = "pending" => k \in ResultKeys
    OBVIOUS
  <2> HIDE DEF k
  <2> QED BY <1>1, <1>2, <2>1, OpensTyped DEF Base, Typed
<1>4. new \in Object
  BY <1>2, ActivatedIsObject
<1>5. /\ new.id = obj[o].id /\ new.credential = obj[o].credential
      /\ new.agent = obj[o].agent /\ new.rounds = obj[o].rounds
      /\ new.st = "running" /\ new.run = "none" /\ new.boundary = "none" /\ new.pending = {}
      /\ new.open = NoBatch /\ ~new.applied /\ ~new.continued /\ new.segment = k
  BY <1>2 DEF Activated, Object
<1>6. RegistryTyped'
  BY <1>1 DEF Base, Typed, RegistryTyped
<1> HIDE DEF new, k
<1>7. Changes(o, new)
  BY <1>1, <1>4, <1>5 DEF Changes
<1>8. FollowStep(r, o, new, ask)
  BY <1>1, <1>3, <1>5, <1>6, <1>7 DEF FollowStep, k
<1> QED BY <1>8

LEMMA AcceptIsStep ==
  ASSUME Base, NEW r \in Requests, NEW k \in ResultKeys, AcceptResults(r, k)
  PROVE  \E o \in Objects : \E new, ask : AcceptStep(r, o, new, ask)
<1>1. k \in Keys /\ k.of \in Batches /\ OwnerOf(k.of) # None
  BY KeyFacts DEF AcceptResults
<1> PICK o \in Objects : o = OwnerOf(k.of) /\ Registered(o)
  BY <1>1, OwnerFacts DEF Base
<1>2. obj[o] \in Object /\ obj \in [Objects -> Object]
  BY DEF Base, Typed, ObjectsTyped
<1> DEFINE new == [obj[o] EXCEPT !.st = "resuming", !.digest = k, !.segment = k, !.open = NoBatch,
                                 !.boundary = "none", !.applied = FALSE, !.continued = TRUE]
<1>3. /\ Arrives(r) /\ Accepts(o, k) /\ Attaches(r, o, k)
      /\ obj' = [obj EXCEPT ![o] = new]
      /\ UNCHANGED <<sessions, toolIndex, draining, disk, maps, history>>
  BY <1>2 DEF AcceptResults, Results, Object
<1>4. new \in Object
  <2>1. "resuming" \in States /\ NoBatch \in Batches \cup {NoBatch} /\ k \in Keys \cup {NoKey}
        /\ k \in ResultKeys \cup {NoKey}
    BY <1>1 DEF States, ActiveStates
  <2>2. PICK old \in Object : old = obj[o]
    BY <1>2
  <2>3. [old EXCEPT !.st = "resuming", !.digest = k, !.segment = k, !.open = NoBatch,
                    !.boundary = "none", !.applied = FALSE, !.continued = TRUE] \in Object
    BY <2>1, ZenonT(30) DEF Object
  <2> QED BY <2>2, <2>3
<1>5. /\ new.id = obj[o].id /\ new.credential = obj[o].credential
      /\ new.agent = obj[o].agent /\ new.rounds = obj[o].rounds /\ new.run = obj[o].run
      /\ new.pending = obj[o].pending /\ new.open = NoBatch
      /\ new.st = "resuming" /\ new.boundary = "none" /\ ~new.applied /\ new.continued
      /\ new.segment = k
  BY <1>2 DEF Object
<1> HIDE DEF new
<1>6. PICK ask \in Request :
        Asks(r, ask) /\ ask.pc = "driving" /\ ask.obj = o /\ ask.key = k /\ ask.mode = "none"
  BY <1>1, <1>3, AttachesTyped DEF Base, Typed
<1>7. Changes(o, new)
  BY <1>3, <1>4, <1>5 DEF Changes
<1>8. AcceptStep(r, o, new, ask)
  BY <1>3, <1>5, <1>6, <1>7 DEF AcceptStep, Accepts
<1> QED BY <1>8

\* No request waits for a completed session when another arrives, and none opens it.
LEMMA CompletedIsFree ==
  ASSUME Base, Drained, NEW o \in Objects, obj[o].st = "completed"
  PROVE  \A q \in Requests : req[q].pc # "idle" => req[q].obj # o
<1> SUFFICES ASSUME NEW q \in Requests, req[q].pc # "idle", req[q].obj = o PROVE FALSE
  OBVIOUS
<1>1. obj[o].run = "over" /\ obj[o].boundary # "none"
  BY DEF Base, StatesInv, StateOk
<1>2. ~Opening(o)
  BY <1>1 DEF Opening, Base, ReqInv, OpeningOk
<1>3. req[q].pc \in {"idle", "opening", "joined", "driving"}
  BY DEF Base, Typed, RequestsTyped, Request
<1> QED BY <1>1, <1>2, <1>3 DEF Base, ReqInv, Opening, Drained

LEMMA FollowBase ==
  ASSUME Base, NEW r \in Requests, NEW o \in Objects, NEW new, NEW ask, FollowStep(r, o, new, ask)
  PROVE  Base'
<1>a. /\ ObjectsTyped' /\ obj'[o] = new /\ \A p \in Objects : p # o => obj'[p] = obj[p]
  BY ChangeTyped DEF Base, Typed, FollowStep
<1>b. RequestsTyped' /\ req'[r] = ask /\ \A q \in Requests : q # r => req'[q] = req[q]
  BY AskTyped DEF Base, Typed, FollowStep
<1>c. /\ req[r].pc = "idle" /\ Exists(o) /\ Registered(o) /\ obj[o].st = "completed"
      /\ UNCHANGED <<sessions, draining, disk, maps, history>>
      /\ ask.pc = "opening" /\ ask.obj = o /\ ask.mode = "follow"
      /\ new.id = obj[o].id /\ new.st = "running" /\ new.run = "none" /\ new.boundary = "none"
  BY DEF FollowStep, Registered, Arrives
<1>d. \A q \in Requests : req[q].pc # "idle" => req[q].obj # o /\ req'[q] = req[q] /\ q # r
  BY CompletedIsFree, <1>b, <1>c DEF FollowStep, Arrives
<1>1. Typed'
  BY <1>a, <1>b, <1>c DEF Base, Typed, FilesTyped, HistoryTyped, disk, maps, history, FollowStep
<1>2. KeepsObjects /\ Unregisters
  BY <1>a, <1>c DEF KeepsObjects, Unregisters, Exists
<1>3. SessionsInv'
  <2>1. /\ \A i \in Ids : lineage'[i] # NoFile => Exists(i)
        /\ \A k \in ResultKeys : transcriptRecoveries'[k] # None =>
             transcriptRecoveries'[k] \in Objects /\ Exists(transcriptRecoveries'[k])
    BY <1>c DEF Base, Typed, FilesTyped, SessionsInv, disk, maps
  <2> QED BY <1>2, <2>1, SessionsKept DEF Base
<1>4. ASSUME NEW p \in Objects PROVE StateOk(p)' /\ DrivenOk(p)'
  <2>1. CASE p = o
    <3>1. obj'[p] = new
      BY <2>1, <1>a
    <3>2. StateOk(p)'
      BY <3>1, <1>c DEF StateOk
    <3>3. DrivenOk(p)'
      BY <3>1, <1>c DEF DrivenOk
    <3> QED BY <3>2, <3>3
  <2>2. CASE p # o
    <3>1. DrivesKept(p) /\ obj'[p] = obj[p]
      BY <2>2, <1>a, <1>d DEF DrivesKept
    <3>2. Driving(p) # {} => Driving(p)' # {}
      BY <3>1, StillDriven
    <3> QED BY <3>1, <3>2, <1>2, StateKept DEF Base, StatesInv
  <2> QED BY <2>1, <2>2
<1>5. ReqInv'
  <2>r. ReqInv /\ RequestsTyped
    BY DEF Base, Typed
  <2>1. \A p \in Objects : p # o => (Opening(p)' <=> Opening(p))
    BY <1>b, <1>c, <1>d DEF Opening
  <2>2. \A q \in Requests : req'[q].pc # "idle" => Exists(req[q].obj)'
    <3>1. \A p \in Objects : Exists(p) => Exists(p)'
      BY <1>2 DEF KeepsObjects, Exists
    <3> QED BY <3>1, <2>r, <1>b, <1>c DEF ReqInv, RequestsTyped
  <2>3. ASSUME NEW q \in Requests, req'[q].pc = "opening" PROVE OpeningOk(q)'
    <3>1. CASE q = r
      <4>1. \A s \in Requests : req'[s].pc = "opening" /\ req'[s].obj = o => s = r
        BY <1>b, <1>d
      <4>2. req'[q].obj = o /\ req'[q].mode = "follow"
        BY <3>1, <1>b, <1>c
      <4> QED BY <3>1, <4>1, <4>2, <1>a, <1>c DEF OpeningOk
    <3>2. CASE q # r
      <4>1. req'[q] = req[q] /\ req[q].pc = "opening" /\ OpeningOk(q)
        BY <2>3, <3>2, <1>b, <2>r DEF ReqInv
      <4>2. req[q].obj \in Objects /\ req[q].obj # o /\ obj'[req[q].obj] = obj[req[q].obj]
        BY <4>1, <1>d, <1>a, <2>r DEF RequestsTyped
      <4>3. \A s \in Requests : req'[s].pc = "opening" /\ req'[s].obj = req[q].obj => s = q
        BY <4>1, <4>2, <1>b, <1>c DEF OpeningOk
      <4> QED BY <4>1, <4>2, <4>3 DEF OpeningOk
    <3> QED BY <3>1, <3>2
  <2>4. \A q \in Requests : req'[q].pc = "joined" => Opening(req[q].obj)'
    BY <1>b, <1>c, <1>d, <2>1, <2>r DEF ReqInv, RequestsTyped
  <2>5. \A q \in Requests : req'[q].pc = "driving" => ~Opening(req[q].obj)'
    BY <1>b, <1>c, <1>d, <2>1, <2>r DEF ReqInv, RequestsTyped
  <2>6. \A j \in Ids : pendingRecoveries'[j].key # NoKey =>
          pendingRecoveries'[j].obj \in Objects /\ Opening(pendingRecoveries[j].obj)'
    <3>1. ~Opening(o)
      BY <1>d DEF Opening
    <3>2. pendingRecoveries' = pendingRecoveries
      BY <1>c DEF maps
    <3> QED BY <3>1, <3>2, <2>1, <2>r DEF ReqInv
  <2> QED BY <2>2, <2>3, <2>4, <2>5, <2>6 DEF ReqInv
<1> QED BY <1>1, <1>3, <1>4, <1>5 DEF Base, StatesInv

LEMMA AcceptBase ==
  ASSUME Base, NEW r \in Requests, NEW o \in Objects, NEW new, NEW ask, AcceptStep(r, o, new, ask)
  PROVE  Base'
<1>a. /\ ObjectsTyped' /\ obj'[o] = new /\ \A p \in Objects : p # o => obj'[p] = obj[p]
  BY ChangeTyped DEF Base, Typed, AcceptStep
<1>b. RequestsTyped' /\ req'[r] = ask /\ \A q \in Requests : q # r => req'[q] = req[q]
  BY AskTyped DEF Base, Typed, AcceptStep
<1>c. /\ req[r].pc = "idle" /\ Exists(o) /\ Registered(o) /\ obj[o].st = "awaiting"
      /\ UNCHANGED <<sessions, toolIndex, draining, disk, maps, history>>
      /\ ask.pc = "driving" /\ ask.obj = o /\ new.run = obj[o].run /\ ~new.applied
      /\ new.id = obj[o].id /\ new.st = "resuming" /\ new.boundary = "none"
  BY DEF AcceptStep, Registered, Arrives
<1>d. StateOk(o) /\ DrivenOk(o) /\ obj[o].run # "none" /\ ~Opening(o)
  BY <1>c DEF Base, StatesInv, StateOk, ReqInv, Opening, OpeningOk
<1>1. Typed'
  BY <1>a, <1>b, <1>c DEF Base, Typed, RegistryTyped, FilesTyped, HistoryTyped, disk, maps, history
<1>2. KeepsObjects /\ Unregisters
  BY <1>a, <1>c DEF KeepsObjects, Unregisters, Exists
<1>3. SessionsInv'
  <2>1. /\ \A i \in Ids : lineage'[i] # NoFile => Exists(i)
        /\ \A k \in ResultKeys : transcriptRecoveries'[k] # None =>
             transcriptRecoveries'[k] \in Objects /\ Exists(transcriptRecoveries'[k])
    BY <1>c DEF Base, Typed, FilesTyped, SessionsInv, disk, maps
  <2> QED BY <1>2, <2>1, SessionsKept DEF Base
<1>4. ASSUME NEW p \in Objects PROVE StateOk(p)' /\ DrivenOk(p)'
  <2>1. DrivesKept(p)
    BY <1>b, <1>c DEF DrivesKept
  <2>2. CASE p = o
    <3>1. obj'[p] = new /\ obj[o].run # "cancelled"
      BY <2>2, <1>a, <1>c, <1>d DEF DrivenOk
    <3>2. StateOk(p)'
      BY <3>1, <1>c DEF StateOk
    <3>3. Driving(p)' # {}
      BY <2>2, <1>b, <1>c DEF Driving
    <3>4. DrivenOk(p)'
      BY <2>2, <3>1, <3>3, <1>c DEF DrivenOk
    <3> QED BY <3>2, <3>4
  <2>3. CASE p # o
    <3>2. Driving(p) # {} => Driving(p)' # {}
      BY <2>1, StillDriven
    <3> QED BY <2>3, <3>2, <1>a, <1>2, StateKept DEF Base, StatesInv
  <2> QED BY <2>2, <2>3
<1>5. ReqInv'
  <2>1. OpeningsKept
    BY <1>a, <1>b, <1>c, <1>d DEF OpeningsKept
  <2>2. \A q \in Requests : req'[q].pc = "joined" => req'[q] = req[q] \/ Opening(req'[q].obj)
    BY <1>b, <1>c
  <2>3. \A q \in Requests : req'[q].pc = "driving" =>
          req'[q] = req[q] \/ (Exists(req'[q].obj) /\ ~Opening(req'[q].obj))
    BY <1>b, <1>c, <1>d
  <2>4. UNCHANGED pendingRecoveries
    BY <1>c DEF maps
  <2> QED BY <1>b, <1>2, <2>1, <2>2, <2>3, <2>4, RequestsKept DEF Base, Typed
<1> QED BY <1>1, <1>3, <1>4, <1>5 DEF Base, StatesInv

-----------------------------------------------------------------------------
(* The opening of an object is over *)

Resolved(r, o, q) == q = r \/ (req[q].pc = "joined" /\ req[q].obj = o)

LEMMA ResolveFacts ==
  ASSUME Base, NEW r \in Requests, NEW o \in Objects, NEW goesOn \in BOOLEAN,
         req[r].pc = "opening", req[r].obj = o, Resolve(r, o, goesOn)
  PROVE  /\ RequestsTyped'
         /\ pendingRecoveries' \in [Ids -> [key : ResultKeys \cup {NoKey}, obj : Objects \cup {None}]]
         /\ \A q \in Requests : ~Resolved(r, o, q) => req'[q] = req[q]
         /\ \A q \in Requests : Resolved(r, o, q) /\ goesOn =>
              /\ req'[q].pc = "driving" /\ req'[q].obj = o /\ req'[q].key = req[q].key
              /\ req'[q].mode = "none"
         /\ \A q \in Requests : Resolved(r, o, q) /\ ~goesOn => req'[q].pc = "idle"
         /\ \A i \in Ids : pendingRecoveries'[i] = IF pendingRecoveries[i].obj = o THEN NoPending
                                                   ELSE pendingRecoveries[i]
<1> DEFINE Drives(q) == [Idle EXCEPT !.pc = "driving", !.obj = o, !.key = req[q].key]
<1>1. \A q \in Requests : req'[q] = IF Resolved(r, o, q) THEN IF goesOn THEN Drives(q) ELSE Idle
                                    ELSE req[q]
  BY DEF Resolve, Resolved
<1>2. DOMAIN req' = Requests /\ req' = [q \in Requests |-> req'[q]]
  BY DEF Resolve
<1>3. RequestsTyped
  BY DEF Base, Typed
<1>4. ASSUME NEW q \in Requests, Resolved(r, o, q)
      PROVE  /\ Drives(q) \in Request /\ Drives(q).pc = "driving" /\ Drives(q).obj = o
             /\ Drives(q).key = req[q].key /\ Drives(q).mode = "none" /\ req[q].key \in Keys
  <2>1. req[q].key \in Keys
    BY <1>3, <1>4 DEF Resolved, RequestsTyped
  <2>2. PICK k \in Keys : k = req[q].key
    BY <2>1
  <2>3. [Idle EXCEPT !.pc = "driving", !.obj = o, !.key = k] \in Request
    BY NoTypes DEF Request
  <2>4. /\ [Idle EXCEPT !.pc = "driving", !.obj = o, !.key = k].pc = "driving"
        /\ [Idle EXCEPT !.pc = "driving", !.obj = o, !.key = k].obj = o
        /\ [Idle EXCEPT !.pc = "driving", !.obj = o, !.key = k].key = k
        /\ [Idle EXCEPT !.pc = "driving", !.obj = o, !.key = k].mode = "none"
    BY DEF Idle
  <2> QED BY <2>2, <2>3, <2>4
<1>5. Idle \in Request /\ Idle.pc = "idle" /\ Idle.mode = "none"
  BY NoTypes DEF Idle
<1> HIDE DEF Drives
<1>6. ASSUME NEW q \in Requests
      PROVE  /\ req'[q] \in Request
             /\ ~Resolved(r, o, q) => req'[q] = req[q]
             /\ Resolved(r, o, q) /\ goesOn =>
                  /\ req'[q].pc = "driving" /\ req'[q].obj = o /\ req'[q].key = req[q].key
                  /\ req'[q].mode = "none" /\ req[q].key \in Keys
             /\ Resolved(r, o, q) /\ ~goesOn => req'[q].pc = "idle" /\ req'[q].mode = "none"
  BY <1>1, <1>3, <1>4, <1>5 DEF RequestsTyped
<1>7. RequestsTyped'
  <2>1. req' \in [Requests -> Request]
    BY <1>2, <1>6
  <2>2. \A q \in Requests : req'[q].pc # "idle" => req'[q].obj \in Objects /\ req'[q].key \in Keys
    BY <1>3, <1>6 DEF RequestsTyped
  <2>3. \A q \in Requests : req'[q].pc = "opening" => req'[q].mode \in Modes
    BY <1>3, <1>6 DEF RequestsTyped
  <2>4. \A q \in Requests : req'[q].mode = "pending" => req'[q].key \in ResultKeys
    BY <1>3, <1>6 DEF RequestsTyped
  <2> QED BY <2>1, <2>2, <2>3, <2>4 DEF RequestsTyped
<1>8. pendingRecoveries' = [i \in Ids |-> IF pendingRecoveries[i].obj = o THEN NoPending
                                          ELSE pendingRecoveries[i]]
  BY DEF Resolve
<1>9. pendingRecoveries' \in [Ids -> [key : ResultKeys \cup {NoKey}, obj : Objects \cup {None}]]
  BY <1>8, NoTypes DEF Base, Typed, FilesTyped
<1> QED BY <1>6, <1>7, <1>8, <1>9

GoesOnStep(r, o)  == Resolve(r, o, TRUE)
GivesUpStep(r, o) == Resolve(r, o, FALSE)

LEMMA GoesOn ==
  ASSUME NEW r, NEW o, GoesOnStep(r, o)
  PROVE  \A q \in Requests : Resolved(r, o, q) =>
           /\ req'[q].pc = "driving" /\ req'[q].obj = o /\ req'[q].key = req[q].key
           /\ req'[q].mode = "none"
BY DEF GoesOnStep, Resolve, Resolved, Idle

LEMMA GivesUp ==
  ASSUME NEW r, NEW o, GivesUpStep(r, o)
  PROVE  \A q \in Requests : Resolved(r, o, q) => req'[q].pc = "idle"
BY DEF GivesUpStep, Resolve, Resolved, Idle

\* What the end of an opening does to the requests and the shared recoveries.
LEMMA ResolveRequests ==
  ASSUME Base, NEW r \in Requests, NEW o \in Objects, NEW goesOn \in BOOLEAN,
         req[r].pc = "opening", req[r].obj = o, Resolve(r, o, goesOn), KeepsObjects,
         \A p \in Objects : p # o => obj'[p] = obj[p] \/ ~Opening(p)
  PROVE  ReqInv'
<1>a. /\ RequestsTyped'
      /\ \A q \in Requests : ~Resolved(r, o, q) => req'[q] = req[q]
      /\ \A q \in Requests : Resolved(r, o, q) /\ goesOn =>
           req'[q].pc = "driving" /\ req'[q].obj = o
      /\ \A q \in Requests : Resolved(r, o, q) /\ ~goesOn => req'[q].pc = "idle"
      /\ \A i \in Ids : pendingRecoveries'[i] = IF pendingRecoveries[i].obj = o THEN NoPending
                                                ELSE pendingRecoveries[i]
  BY ResolveFacts
<1>b. ReqInv /\ RequestsTyped /\ OpeningOk(r)
  BY DEF Base, Typed, ReqInv
<1>c. \A q \in Requests : req[q].pc = "opening" /\ req[q].obj = o => q = r
  BY <1>b DEF OpeningOk
<1>d. Exists(o) /\ \A p \in Objects : Exists(p) => Exists(p)'
  BY <1>b DEF ReqInv, KeepsObjects, Exists
<1>1. ~Opening(o)'
  BY <1>a, <1>c DEF Opening, Resolved
<1>2. \A p : p # o => (Opening(p)' <=> Opening(p))
  BY <1>a DEF Opening, Resolved
<1>3. ASSUME NEW q \in Requests, req'[q].pc # "idle" PROVE Exists(req[q].obj)'
  <2>1. CASE ~Resolved(r, o, q)
    BY <2>1, <1>3, <1>a, <1>b, <1>d DEF ReqInv, RequestsTyped
  <2>2. CASE Resolved(r, o, q)
    BY <2>2, <1>3, <1>a, <1>d
  <2> QED BY <2>1, <2>2
<1>4. ASSUME NEW q \in Requests, req'[q].pc = "opening" PROVE OpeningOk(q)'
  <2>1. ~Resolved(r, o, q) /\ req'[q] = req[q] /\ q # r
    BY <1>4, <1>a DEF Resolved
  <2>2. PICK p \in Objects : p = req[q].obj
    BY <2>1, <1>4, <1>b DEF RequestsTyped
  <2>3. p # o /\ obj'[p] = obj[p] /\ OpeningOk(q)
    BY <2>1, <2>2, <1>4, <1>b, <1>c DEF Opening, ReqInv
  <2>4. \A s \in Requests : req'[s].pc = "opening" /\ req'[s].obj = p => s = q
    BY <2>1, <2>2, <2>3, <1>a DEF OpeningOk
  <2> QED BY <2>1, <2>2, <2>3, <2>4 DEF OpeningOk
<1>5. ASSUME NEW q \in Requests, req'[q].pc = "joined" PROVE Opening(req[q].obj)'
  <2>1. ~Resolved(r, o, q) /\ req'[q] = req[q] /\ req[q].obj # o
    BY <1>5, <1>a DEF Resolved
  <2> QED BY <2>1, <1>2, <1>5, <1>b DEF ReqInv
<1>6. ASSUME NEW q \in Requests, req'[q].pc = "driving" PROVE ~Opening(req[q].obj)'
  <2>1. CASE ~Resolved(r, o, q)
    BY <2>1, <1>1, <1>2, <1>6, <1>a, <1>b DEF ReqInv
  <2>2. CASE Resolved(r, o, q)
    BY <2>2, <1>1, <1>6, <1>a
  <2> QED BY <2>1, <2>2
<1>7. ASSUME NEW i \in Ids, pendingRecoveries'[i].key # NoKey
      PROVE  pendingRecoveries'[i].obj \in Objects /\ Opening(pendingRecoveries[i].obj)'
  <2>1. pendingRecoveries'[i] = pendingRecoveries[i] /\ pendingRecoveries[i].obj # o
    BY <1>7, <1>a DEF NoPending
  <2> QED BY <2>1, <1>2, <1>7, <1>b DEF ReqInv
<1> QED BY <1>3, <1>4, <1>5, <1>6, <1>7 DEF ReqInv

OpenedStep(r, o, new) ==
  /\ req[r].pc = "opening" /\ req[r].obj = o /\ Drained
  /\ Changes(o, new) /\ new.id = obj[o].id /\ new.credential = obj[o].credential
  /\ new.rounds = obj[o].rounds /\ new.pending = obj[o].pending /\ new.segment = obj[o].segment
  /\ new.boundary = obj[o].boundary /\ new.applied = obj[o].applied
  /\ new.continued = obj[o].continued
  /\ new.agent = IF req[r].agent = None THEN o ELSE req[r].agent
  /\ new.run = "live"
  /\ new.st = IF req[r].mode \in {"start", "transcript"} THEN "running" ELSE obj[o].st
  /\ RegistryTyped' /\ ledger' \in [TextKeys -> Row] /\ (LedgerV2 \/ ledger' = ledger)
  /\ Resolve(r, o, TRUE)
  /\ UNCHANGED <<sessions, draining, lineage, transcriptRecoveries, history>>

LEMMA SentIsObject ==
  ASSUME NEW old \in Object, NEW a \in Agents \cup {None}, NEW st \in States,
         NEW key \in TextKeys \cup {NoKey}
  PROVE  [old EXCEPT !.agent = a, !.run = "live", !.st = st, !.ledgerKey = key] \in Object
BY ZenonT(30) DEF Object

LEMMA OpenedIsStep ==
  ASSUME Base, NEW r \in Requests, Opened(r)
  PROVE  \E o \in Objects : \E new : OpenedStep(r, o, new)
<1>1. req[r].pc = "opening" /\ req[r] \in Request /\ req[r].key \in Keys
  BY DEF Opened, Base, Typed, RequestsTyped
<1> PICK o \in Objects, k \in Keys, a \in Agents :
         o = req[r].obj /\ k = req[r].key /\ a = IF req[r].agent = None THEN o ELSE req[r].agent
  BY <1>1, NoneFacts DEF Opened, Base, Typed, RequestsTyped, Request
<1>2. PICK old \in Object : old = obj[o] /\ obj \in [Objects -> Object]
  BY DEF Base, Typed, ObjectsTyped
<1>3. PICK st : st = IF req[r].mode \in {"start", "transcript"} THEN "running" ELSE old.st
  OBVIOUS
<1>4. PICK key : key = IF Bound(k, a) THEN k ELSE old.ledgerKey
  OBVIOUS
<1> DEFINE new == [old EXCEPT !.agent = a, !.run = "live", !.st = st, !.ledgerKey = key]
<1>5. st \in States /\ key \in TextKeys \cup {NoKey} /\ a \in Agents \cup {None}
  BY <1>2, <1>3, <1>4 DEF Bound, Object, States, ActiveStates
<1>6. new \in Object
  BY <1>2, <1>5, SentIsObject
<1>7. /\ new.id = old.id /\ new.credential = old.credential /\ new.rounds = old.rounds
      /\ new.pending = old.pending /\ new.segment = old.segment /\ new.open = old.open
      /\ new.boundary = old.boundary /\ new.applied = old.applied /\ new.continued = old.continued
      /\ new.agent = a /\ new.run = "live" /\ new.st = st
  BY DEF Object
<1>8. obj' = [obj EXCEPT ![o] = new]
  <2>1. obj' = [obj EXCEPT ![o].agent = a, ![o].run = "live",
                           ![o].st = IF req[r].mode \in {"start", "transcript"} THEN "running" ELSE @,
                           ![o].ledgerKey = IF Bound(k, a) THEN k ELSE @]
    BY DEF Opened
  <2> QED BY <2>1, <1>2, <1>3, <1>4 DEF Object
<1> HIDE DEF new
<1>9. Changes(o, new)
  BY <1>2, <1>6, <1>7, <1>8 DEF Changes, Base, Typed, ObjectsTyped
<1>10. RegistryTyped'
  <2>1. obj[o].id \in Ids
    BY <1>1 DEF Base, ReqInv, SessionsInv
  <2> QED BY <2>1 DEF Opened, Base, Typed, RegistryTyped
<1>11. ledger' \in [TextKeys -> Row] /\ (LedgerV2 \/ ledger' = ledger)
  <2>1. Bind(k, a)
    BY DEF Opened
  <2>2. [st |-> "running", agent |-> a] \in Row
    BY DEF Row
  <2> QED BY <2>1, <2>2 DEF Bind, Base, Typed, FilesTyped
<1>12. /\ Drained /\ Resolve(r, o, TRUE)
       /\ UNCHANGED <<sessions, draining, lineage, transcriptRecoveries, history>>
  BY DEF Opened
<1>13. OpenedStep(r, o, new)
  BY <1>1, <1>2, <1>3, <1>7, <1>9, <1>10, <1>11, <1>12 DEF OpenedStep
<1> QED BY <1>13

LEMMA OpenedBase ==
  ASSUME Base, NEW r \in Requests, NEW o \in Objects, NEW new, OpenedStep(r, o, new)
  PROVE  Base'
<1>a. /\ ObjectsTyped' /\ obj'[o] = new /\ \A p \in Objects : p # o => obj'[p] = obj[p]
  BY ChangeTyped DEF Base, Typed, OpenedStep
<1>b. /\ RequestsTyped'
      /\ pendingRecoveries' \in [Ids -> [key : ResultKeys \cup {NoKey}, obj : Objects \cup {None}]]
      /\ \A q \in Requests : ~Resolved(r, o, q) => req'[q] = req[q]
      /\ \A q \in Requests : Resolved(r, o, q) => req'[q].pc = "driving" /\ req'[q].obj = o
  <2>1. req[r].pc = "opening" /\ req[r].obj = o /\ Resolve(r, o, TRUE) /\ TRUE \in BOOLEAN
    BY DEF OpenedStep
  <2>2. PICK on \in BOOLEAN : on = TRUE
    OBVIOUS
  <2>3. Resolve(r, o, on)
    BY <2>1, <2>2
  <2>4. \A q \in Requests : Resolved(r, o, q) => req'[q].pc = "driving" /\ req'[q].obj = o
    <3>1. GoesOnStep(r, o)
      BY <2>1 DEF GoesOnStep
    <3> QED BY <3>1, GoesOn
  <2>5. /\ RequestsTyped'
        /\ pendingRecoveries' \in [Ids -> [key : ResultKeys \cup {NoKey}, obj : Objects \cup {None}]]
        /\ \A q \in Requests : ~Resolved(r, o, q) => req'[q] = req[q]
    BY <2>1, <2>3, ResolveFacts
  <2> QED BY <2>2, <2>4, <2>5
<1>c. /\ req[r].pc = "opening" /\ req[r].obj = o /\ Exists(o) /\ OpeningOk(r)
      /\ UNCHANGED <<sessions, draining, lineage, transcriptRecoveries, history>>
      /\ new.id = obj[o].id /\ new.run = "live" /\ new.boundary = obj[o].boundary
      /\ new.st = IF req[r].mode \in {"start", "transcript"} THEN "running" ELSE obj[o].st
  BY DEF OpenedStep, Base, ReqInv
<1>d. /\ obj[o].run = "none" /\ obj[o].boundary = "none" /\ StateOk(o) /\ DrivenOk(o)
      /\ new.st \in {"running", "resuming", "closed"} /\ new.boundary = "none"
      /\ (new.st = "closed" => obj[o].st = "closed")
  <2>1. obj[o].run = "none" /\ StateOk(o) /\ DrivenOk(o)
    BY <1>c DEF OpeningOk, Base, StatesInv
  <2>2. obj[o].boundary \in {"none", "tools", "final", "error"}
    BY DEF Base, Typed, ObjectsTyped, Object
  <2>3. obj[o].boundary = "none"
    BY <2>1, <2>2 DEF StateOk
  <2> QED BY <2>1, <2>3, <1>c DEF OpeningOk
<1>1. Typed'
  BY <1>a, <1>b, <1>c DEF Base, Typed, FilesTyped, HistoryTyped, history, OpenedStep
<1>2. KeepsObjects /\ Unregisters
  BY <1>a, <1>c, <1>d DEF KeepsObjects, Unregisters, Exists
<1>3. SessionsInv'
  <2>1. /\ \A i \in Ids : lineage'[i] # NoFile => Exists(i)
        /\ \A k \in ResultKeys : transcriptRecoveries'[k] # None =>
             transcriptRecoveries'[k] \in Objects /\ Exists(transcriptRecoveries'[k])
    BY <1>c DEF Base, Typed, FilesTyped, SessionsInv
  <2> QED BY <1>2, <2>1, SessionsKept DEF Base
<1>4. ASSUME NEW p \in Objects PROVE StateOk(p)' /\ DrivenOk(p)'
  <2>1. CASE p = o
    <3>1. obj'[p] = new /\ (Registered(p)' => Registered(p))
      BY <2>1, <1>a, <1>c DEF Registered, Exists
    <3>2. StateOk(p)'
      BY <3>1, <1>c, <1>d DEF StateOk, ActiveStates
    <3>3. Driving(p)' # {}
      BY <2>1, <1>b DEF Driving, Resolved
    <3>4. Registered(p) => obj[o].st # "closed"
      BY <2>1, <1>d DEF DrivenOk
    <3>5. DrivenOk(p)'
      BY <2>1, <3>1, <3>3, <3>4, <1>c, <1>d DEF DrivenOk
    <3> QED BY <3>2, <3>5
  <2>2. CASE p # o
    <3>1. DrivesKept(p) /\ obj'[p] = obj[p]
      BY <2>2, <1>a, <1>b, <1>c DEF DrivesKept, Resolved
    <3>2. Driving(p) # {} => Driving(p)' # {}
      BY <3>1, StillDriven
    <3> QED BY <3>1, <3>2, <1>2, StateKept DEF Base, StatesInv
  <2> QED BY <2>1, <2>2
<1>5. ReqInv'
  <2>1. Resolve(r, o, TRUE)
    BY DEF OpenedStep
  <2> QED BY <2>1, <1>a, <1>c, <1>2, ResolveRequests
<1> QED BY <1>1, <1>3, <1>4, <1>5 DEF Base, StatesInv

-----------------------------------------------------------------------------
(* Objects are forgotten *)

LEMMA RoundsFacts ==
  ASSUME Base, NEW o \in Objects
  PROVE  obj[o].rounds \in Nat
         /\ obj[o].rounds - (IF Unshown(o) THEN 1 ELSE 0) \in 0 .. MaxRounds
<1>1. obj[o].rounds \in 0 .. MaxRounds /\ (Unshown(o) => obj[o].rounds > 0)
  BY DEF Base, Typed, ObjectsTyped, Object, Unshown
<1> QED BY <1>1, NoneFacts

LEMMA GoneFacts ==
  ASSUME Base, NEW o \in Objects
  PROVE  /\ Gone(o) \in Object /\ Gone(o).id = obj[o].id /\ Gone(o).st = "closed"
         /\ Gone(o).run = "none" /\ Gone(o).boundary = "none" /\ Gone(o).agent = None
         /\ Gone(o).pending = {} /\ Gone(o).open = NoBatch /\ Gone(o).segment = NoKey
         /\ ~Gone(o).applied
         /\ Gone(o).rounds = obj[o].rounds - (IF Unshown(o) THEN 1 ELSE 0)
<1>1. PICK n \in 0 .. MaxRounds : n = obj[o].rounds - (IF Unshown(o) THEN 1 ELSE 0)
  BY RoundsFacts
<1>2. obj[o].id \in Ids \cup {None} /\ "closed" \in States
  BY DEF Base, Typed, ObjectsTyped, Object, States
<1> DEFINE new == [NoObject EXCEPT !.st = "closed", !.id = obj[o].id, !.rounds = n]
<1>3. Gone(o) = new
  BY <1>1 DEF Gone
<1>4. new \in Object
  BY <1>2, NoTypes DEF Object
<1>5. /\ new.id = obj[o].id /\ new.st = "closed" /\ new.run = "none" /\ new.boundary = "none"
      /\ new.agent = None /\ new.pending = {} /\ new.open = NoBatch /\ new.segment = NoKey
      /\ ~new.applied /\ new.rounds = n
  BY DEF NoObject
<1> HIDE DEF new
<1> QED BY <1>1, <1>3, <1>4, <1>5

LEMMA CutIsObject ==
  ASSUME NEW old \in Object
  PROVE  /\ [old EXCEPT !.st = "closed"] \in Object
         /\ [old EXCEPT !.st = "closed", !.run = "cancelled"] \in Object
<1>1. "closed" \in States
  BY DEF States
<1>2. [old EXCEPT !.st = "closed"] \in Object
  BY <1>1 DEF Object
<1>3. [old EXCEPT !.st = "closed", !.run = "cancelled"] \in Object
  BY <1>1 DEF Object
<1> QED BY <1>2, <1>3

\* What is left of a forgotten object o.
Cut(o, new) ==
  /\ new \in Object /\ new.id = obj[o].id /\ new.st = "closed" /\ new.run # "live"
  /\ \/ /\ obj[o].run = "over" /\ obj[o].applied /\ new.run = "none" /\ new.boundary = "none"
        /\ new.agent = None /\ new.pending = {} /\ new.open = NoBatch /\ new.segment = NoKey
        /\ ~new.applied /\ new.rounds = obj[o].rounds - (IF Unshown(o) THEN 1 ELSE 0)
     \/ /\ new.boundary = obj[o].boundary /\ new.agent = obj[o].agent
        /\ new.pending = obj[o].pending /\ new.open = obj[o].open
        /\ new.segment = obj[o].segment /\ new.applied = obj[o].applied
        /\ new.rounds = obj[o].rounds
        /\ new.run = IF obj[o].run = "live" THEN "cancelled" ELSE obj[o].run

LEMMA ClosedFacts ==
  ASSUME Base, NEW o \in Objects
  PROVE  Cut(o, Closed(o))
<1>1. PICK old \in Object : old = obj[o]
  BY DEF Base, Typed, ObjectsTyped
<1>2. old.run \in {"none", "live", "cancelled", "over"} /\ old.applied \in BOOLEAN
  BY <1>1 DEF Object
<1>3. CASE old.run = "none" \/ (old.run = "over" /\ ~old.applied)
  <2> DEFINE new == [old EXCEPT !.st = "closed"]
  <2>1. Closed(o) = new
    BY <1>1, <1>3 DEF Closed
  <2>2. new \in Object
    BY <1>1, CutIsObject
  <2>3. /\ new.id = old.id /\ new.st = "closed" /\ new.run = old.run /\ new.boundary = old.boundary
        /\ new.agent = old.agent /\ new.pending = old.pending /\ new.open = old.open
        /\ new.segment = old.segment /\ new.applied = old.applied /\ new.rounds = old.rounds
    BY <1>1 DEF Object
  <2> HIDE DEF new
  <2> QED BY <1>1, <1>3, <2>1, <2>2, <2>3 DEF Cut
<1>4. CASE old.run \in {"live", "cancelled"}
  <2> DEFINE new == [old EXCEPT !.st = "closed", !.run = "cancelled"]
  <2>1. Closed(o) = new
    BY <1>1, <1>4 DEF Closed
  <2>2. new \in Object
    BY <1>1, CutIsObject
  <2>3. /\ new.id = old.id /\ new.st = "closed" /\ new.run = "cancelled"
        /\ new.boundary = old.boundary
        /\ new.agent = old.agent /\ new.pending = old.pending /\ new.open = old.open
        /\ new.segment = old.segment /\ new.applied = old.applied /\ new.rounds = old.rounds
    BY <1>1 DEF Object
  <2> HIDE DEF new
  <2> QED BY <1>1, <1>4, <2>1, <2>2, <2>3 DEF Cut
<1>5. CASE old.run = "over" /\ old.applied
  <2>1. Closed(o) = Gone(o)
    BY <1>1, <1>5 DEF Closed
  <2> QED BY <1>1, <1>5, <2>1, GoneFacts DEF Cut
<1> QED BY <1>2, <1>3, <1>4, <1>5

LEMMA ForgetFacts ==
  ASSUME Base, NEW os \in SUBSET Objects, \A o \in os : Exists(o), Forget(os)
  PROVE  /\ ObjectsTyped'
         /\ sessions' \in [Ids -> Objects \cup {None}] /\ toolIndex' \in [Batches -> Ids \cup {None}]
         /\ KeepsObjects /\ Unregisters
         /\ \A p \in Objects \ os : obj'[p] = obj[p]
         /\ \A p \in os : Cut(p, obj'[p]) /\ ~Registered(p)'
<1>1. \A p \in Objects : obj'[p] = IF p \in os THEN Closed(p) ELSE obj[p]
  BY DEF Forget
<1>2. \A p \in os : Cut(p, obj'[p])
  BY <1>1, ClosedFacts
<1>3. ObjectsTyped'
  <2>1. obj' = [p \in Objects |-> obj'[p]]
    BY DEF Forget
  <2>2. ASSUME NEW p \in Objects
        PROVE  /\ obj'[p] \in Object /\ obj'[p].open \in obj'[p].pending \cup {NoBatch}
               /\ obj'[p].boundary = "tools" => obj'[p].rounds > 0
    BY <1>1, <1>2 DEF Cut, Base, Typed, ObjectsTyped
  <2> QED BY <2>1, <2>2 DEF ObjectsTyped
<1>4. \A p \in Objects : obj'[p].id = obj[p].id /\ (p \in os => obj'[p].st = "closed")
  BY <1>1, <1>2 DEF Cut
<1>5. KeepsObjects
  BY <1>1, <1>4 DEF KeepsObjects, Exists
<1>6. /\ \A i \in Ids : sessions'[i] = IF i \in {obj[o].id : o \in os} THEN None ELSE sessions[i]
      /\ sessions' \in [Ids -> Objects \cup {None}] /\ toolIndex' \in [Batches -> Ids \cup {None}]
  BY DEF Forget, Base, Typed, RegistryTyped
<1>7. \A p \in os : ~Registered(p)'
  <2> SUFFICES ASSUME NEW p \in os PROVE ~Registered(p)'
    OBVIOUS
  <2>1. obj[p].id \in Ids /\ obj'[p].id = obj[p].id
    BY <1>4 DEF Base, SessionsInv
  <2>2. sessions'[obj[p].id] = None /\ p # None
    BY <1>6, <2>1, NoneFacts
  <2> QED BY <2>1, <2>2 DEF Registered
<1> QED BY <1>1, <1>2, <1>3, <1>5, <1>6, <1>7 DEF Unregisters

LEMMA ForgetStates ==
  ASSUME Base, NEW os \in SUBSET Objects, \A o \in os : Exists(o), Forget(os),
         NEW p \in Objects, Driving(p) # {} => Driving(p)' # {}
  PROVE  StateOk(p)' /\ DrivenOk(p)'
<1>1. /\ Unregisters
      /\ p \notin os => obj'[p] = obj[p]
      /\ p \in os => Cut(p, obj'[p]) /\ ~Registered(p)'
  BY ForgetFacts
<1>2. StateOk(p) /\ DrivenOk(p)
  BY DEF Base, StatesInv
<1>3. CASE p \notin os
  BY <1>1, <1>2, <1>3, StateKept DEF Base
<1>4. CASE p \in os
  <2>1. obj'[p].st = "closed" /\ obj'[p].run # "live" /\ Cut(p, obj'[p]) /\ ~Registered(p)'
    BY <1>1, <1>4 DEF Cut
  <2>2. obj'[p].boundary \in {"none", obj[p].boundary}
        /\ (obj'[p].boundary # "none" =>
              obj'[p].run = (IF obj[p].run = "live" THEN "cancelled" ELSE obj[p].run)
              /\ obj'[p].applied = obj[p].applied)
    BY <2>1 DEF Cut
  <2>3. StateOk(p)'
    BY <1>2, <2>1, <2>2 DEF StateOk, ActiveStates
  <2>4. DrivenOk(p)'
    BY <1>2, <2>1, <2>2 DEF DrivenOk
  <2> QED BY <2>3, <2>4
<1> QED BY <1>3, <1>4

LEMMA OpenFailsBase ==
  ASSUME Base, NEW r \in Requests, OpenFails(r)
  PROVE  Base'
<1> PICK o \in Objects : o = req[r].obj
  BY DEF OpenFails, Base, Typed, RequestsTyped
<1>a. /\ req[r].pc = "opening" /\ req[r].obj = o /\ Drained /\ Forget({o}) /\ Resolve(r, o, FALSE)
      /\ transcriptRecoveries' = [k \in ResultKeys |-> IF transcriptRecoveries[k] = o THEN None
                                                       ELSE transcriptRecoveries[k]]
      /\ UNCHANGED <<draining, disk, history>> /\ Exists(o) /\ {o} \in SUBSET Objects
  BY DEF OpenFails, Base, ReqInv
<1>b. /\ ObjectsTyped' /\ KeepsObjects /\ Unregisters
      /\ sessions' \in [Ids -> Objects \cup {None}] /\ toolIndex' \in [Batches -> Ids \cup {None}]
      /\ \A p \in Objects \ {o} : obj'[p] = obj[p]
  BY <1>a, ForgetFacts
<1>c. /\ RequestsTyped'
      /\ pendingRecoveries' \in [Ids -> [key : ResultKeys \cup {NoKey}, obj : Objects \cup {None}]]
      /\ \A q \in Requests : ~Resolved(r, o, q) => req'[q] = req[q]
  <2>1. PICK on \in BOOLEAN : on = FALSE
    OBVIOUS
  <2>2. Resolve(r, o, on)
    BY <1>a, <2>1
  <2> QED BY <1>a, <2>2, ResolveFacts
<1>1. Typed'
  <2>1. transcriptRecoveries' \in [ResultKeys -> Objects \cup {None}]
    BY <1>a DEF Base, Typed, FilesTyped
  <2> QED BY <2>1, <1>a, <1>b, <1>c
          DEF Base, Typed, RegistryTyped, FilesTyped, HistoryTyped, disk, history
<1>2. SessionsInv'
  <2>1. /\ \A i \in Ids : lineage'[i] # NoFile => Exists(i)
        /\ \A k \in ResultKeys : transcriptRecoveries'[k] # None =>
             transcriptRecoveries'[k] \in Objects /\ Exists(transcriptRecoveries'[k])
    BY <1>a DEF Base, Typed, FilesTyped, SessionsInv, disk
  <2> QED BY <1>b, <2>1, SessionsKept DEF Base
<1>3. ASSUME NEW p \in Objects PROVE StateOk(p)' /\ DrivenOk(p)'
  <2>1. DrivesKept(p)
    <3> SUFFICES ASSUME NEW q \in Requests, req[q].pc = "driving", req[q].obj = p
                 PROVE  req'[q] = req[q]
      BY DEF DrivesKept
    <3> QED BY <1>a, <1>c DEF Resolved
  <2>2. Driving(p) # {} => Driving(p)' # {}
    BY <2>1, StillDriven
  <2>3. \A q \in {o} : Exists(q)
    BY <1>a
  <2> QED BY <1>a, <2>2, <2>3, ForgetStates
<1>4. ReqInv'
  BY <1>a, <1>b, ResolveRequests
<1> QED BY <1>1, <1>2, <1>3, <1>4 DEF Base, StatesInv

\* Sessions are swept, or the drain is over.
ForgetStep(os) ==
  /\ os \in SUBSET Objects /\ (\A o \in os : Registered(o)) /\ Forget(os) /\ Remember(os)
  /\ draining' \in {"no", "waiting", "done"} /\ faults' \in 0 .. MaxFaults
  /\ draining' = draining \/ os = {o \in Objects : Registered(o)}
  /\ UNCHANGED <<disk, maps, req, unrecorded, unshared, restarts>>

LEMMA ForgetBase ==
  ASSUME Base, NEW os, ForgetStep(os)
  PROVE  Base'
<1>a. /\ os \in SUBSET Objects /\ (\A o \in os : Exists(o)) /\ Forget(os) /\ Remember(os)
      /\ draining' \in {"no", "waiting", "done"} /\ faults' \in 0 .. MaxFaults
      /\ UNCHANGED <<disk, maps, req, unrecorded, unshared, restarts>>
  BY DEF ForgetStep, Registered
<1>b. /\ ObjectsTyped' /\ KeepsObjects /\ Unregisters
      /\ sessions' \in [Ids -> Objects \cup {None}] /\ toolIndex' \in [Batches -> Ids \cup {None}]
      /\ \A p \in Objects \ os : obj'[p] = obj[p]
      /\ \A p \in os : Cut(p, obj'[p]) /\ ~Registered(p)'
  BY <1>a, ForgetFacts
<1>1. Typed'
  <2>1. forgotten' \in [Ids -> SUBSET {"sending", "driven", "recovered"}]
    <3>1. \A i \in Ids : forgotten[i] \in SUBSET {"sending", "driven", "recovered"}
      BY DEF Base, Typed, HistoryTyped
    <3> QED BY <1>a, <3>1 DEF Remember
  <2> QED BY <2>1, <1>a, <1>b
          DEF Base, Typed, RegistryTyped, FilesTyped, RequestsTyped, HistoryTyped, disk, maps
<1>2. SessionsInv'
  <2>1. /\ \A i \in Ids : lineage'[i] # NoFile => Exists(i)
        /\ \A k \in ResultKeys : transcriptRecoveries'[k] # None =>
             transcriptRecoveries'[k] \in Objects /\ Exists(transcriptRecoveries'[k])
    BY <1>a DEF Base, Typed, FilesTyped, SessionsInv, disk, maps
  <2> QED BY <1>b, <2>1, SessionsKept DEF Base
<1>3. ASSUME NEW p \in Objects PROVE StateOk(p)' /\ DrivenOk(p)'
  <2>1. Driving(p) # {} => Driving(p)' # {}
    BY <1>a DEF Driving
  <2> QED BY <1>a, <2>1, ForgetStates
<1>4. ReqInv'
  <2>1. \A p \in Objects : Opening(p) => obj[p].run = "none"
    BY DEF Opening, Base, ReqInv, OpeningOk
  <2>2. OpeningsKept
    <3> SUFFICES ASSUME NEW p \in Objects, Opening(p)
                 PROVE  /\ obj'[p].run = obj[p].run /\ obj'[p].rounds = obj[p].rounds
                        /\ obj'[p].st \in {obj[p].st, "closed"}
      BY <1>a DEF OpeningsKept
    <3>1. CASE p \in os
      BY <3>1, <2>1, <1>b DEF Cut
    <3>2. CASE p \notin os
      BY <3>2, <1>b
    <3> QED BY <3>1, <3>2
  <2>3. UNCHANGED pendingRecoveries /\ \A q \in Requests : req'[q] = req[q]
    BY <1>a DEF maps
  <2> QED BY <1>1, <1>b, <2>2, <2>3, RequestsKept DEF Base, Typed
<1> QED BY <1>1, <1>2, <1>3, <1>4 DEF Base, StatesInv

-----------------------------------------------------------------------------
(* The run asks for tools or ends *)

LEMMA ObjectBase ==
  ASSUME Base, NEW o \in Objects, NEW new, Changes(o, new), Exists(o), new.id = obj[o].id,
         new.st # "none", ~Opening(o),
         UNCHANGED <<sessions, toolIndex, draining, disk, maps, req, history>>,
         StateOk(o)', DrivenOk(o)'
  PROVE  Base'
<1>a. /\ ObjectsTyped' /\ obj'[o] = new /\ \A p \in Objects : p # o => obj'[p] = obj[p]
  BY ChangeTyped DEF Base, Typed
<1>1. Typed'
  BY <1>a DEF Base, Typed, RegistryTyped, FilesTyped, RequestsTyped, HistoryTyped, disk, maps, history
<1>2. KeepsObjects /\ Unregisters
  BY <1>a DEF KeepsObjects, Unregisters, Exists
<1>3. SessionsInv'
  <2>1. /\ \A i \in Ids : lineage'[i] # NoFile => Exists(i)
        /\ \A k \in ResultKeys : transcriptRecoveries'[k] # None =>
             transcriptRecoveries'[k] \in Objects /\ Exists(transcriptRecoveries'[k])
    BY DEF Base, Typed, FilesTyped, SessionsInv, disk, maps
  <2> QED BY <1>2, <2>1, SessionsKept DEF Base
<1>4. ASSUME NEW p \in Objects PROVE StateOk(p)' /\ DrivenOk(p)'
  <2>1. CASE p = o
    BY <2>1
  <2>2. CASE p # o
    <3>1. Driving(p) # {} => Driving(p)' # {}
      BY DEF Driving
    <3> QED BY <2>2, <3>1, <1>a, <1>2, StateKept DEF Base, StatesInv
  <2> QED BY <2>1, <2>2
<1>5. ReqInv'
  <2>1. OpeningsKept
    BY <1>a DEF OpeningsKept
  <2>2. UNCHANGED pendingRecoveries /\ \A q \in Requests : req'[q] = req[q]
    BY DEF maps
  <2> QED BY <1>1, <1>2, <2>1, <2>2, RequestsKept DEF Base, Typed
<1> QED BY <1>1, <1>3, <1>4, <1>5 DEF Base, StatesInv

AskStep(o, new) ==
  /\ Drained /\ obj[o].run = "live" /\ obj[o].boundary = "none"
  /\ Changes(o, new) /\ new.id = obj[o].id /\ new.credential = obj[o].credential
  /\ new.agent = obj[o].agent /\ new.run = obj[o].run /\ new.st = obj[o].st
  /\ new.segment = obj[o].segment /\ new.continued = obj[o].continued
  /\ new.rounds = obj[o].rounds + 1 /\ new.boundary = "tools" /\ ~new.applied
  /\ BatchOf(o, new.rounds) \in Batches
  /\ new.open = BatchOf(o, new.rounds) /\ new.pending = obj[o].pending \cup {new.open}
  /\ UNCHANGED <<sessions, toolIndex, draining, disk, maps, req, history>>

EndStep(o, new) ==
  /\ Drained /\ obj[o].run \in {"live", "cancelled"} /\ Changes(o, new) /\ new.id = obj[o].id
  /\ \/ obj[o].run = "cancelled" /\ Driving(o) = {} /\ new = Gone(o)
     \/ /\ new.credential = obj[o].credential /\ new.agent = obj[o].agent
        /\ new.pending = obj[o].pending /\ new.rounds = obj[o].rounds /\ new.st = obj[o].st
        /\ new.segment = obj[o].segment /\ new.continued = obj[o].continued
        /\ new.run = "over" /\ new.boundary \in {"final", "error"} /\ ~new.applied
        /\ new.boundary = "final" => obj[o].boundary = "none"
        /\ obj[o].run = "cancelled" => Driving(o) # {}
  /\ UNCHANGED <<sessions, toolIndex, draining, disk, maps, req, history>>

LEMMA AskIsStep ==
  ASSUME Base, NEW o \in Objects, AskForTools(o)
  PROVE  \E new : AskStep(o, new)
<1>1. PICK old \in Object : old = obj[o] /\ obj \in [Objects -> Object]
  BY DEF Base, Typed, ObjectsTyped
<1>2. PICK n \in 1 .. MaxRounds : n = old.rounds + 1
  BY <1>1, NoneFacts DEF AskForTools, Object
<1>3. PICK b \in Batches : b = BatchOf(o, n)
  BY BatchFacts
<1>4. PICK pending \in SUBSET Batches : pending = old.pending \cup {b}
  BY <1>1 DEF Object
<1> DEFINE new == [old EXCEPT !.rounds = n, !.pending = pending, !.open = b, !.boundary = "tools",
                              !.applied = FALSE]
<1>5. new \in Object
  <2>1. n \in 0 .. MaxRounds /\ b \in Batches \cup {NoBatch}
    BY <1>2, <1>3, NoneFacts
  <2>2. pending \in SUBSET Batches /\ old \in Object
    BY <1>1, <1>4
  <2> QED BY ONLY <2>1, <2>2 DEF Object
<1>6. /\ new.id = old.id /\ new.credential = old.credential /\ new.agent = old.agent
      /\ new.run = old.run /\ new.st = old.st /\ new.segment = old.segment
      /\ new.continued = old.continued /\ new.rounds = n /\ new.pending = pending /\ new.open = b
      /\ new.boundary = "tools" /\ ~new.applied
  BY <1>1 DEF Object
<1>7. obj' = [obj EXCEPT ![o] = new]
  <2>1. obj' = [obj EXCEPT ![o].rounds = @ + 1, ![o].pending = @ \cup {BatchOf(o, obj[o].rounds + 1)},
                           ![o].open = BatchOf(o, obj[o].rounds + 1),
                           ![o].boundary = "tools", ![o].applied = FALSE]
    BY DEF AskForTools
  <2> QED BY <2>1, <1>1, <1>2, <1>3, <1>4 DEF Object
<1>8. /\ Drained /\ obj[o].run = "live" /\ obj[o].boundary = "none"
      /\ UNCHANGED <<sessions, toolIndex, draining, disk, maps, req, history>>
  BY DEF AskForTools
<1> HIDE DEF new
<1>9. Changes(o, new)
  BY <1>2, <1>4, <1>5, <1>6, <1>7 DEF Changes
<1>10. AskStep(o, new)
  BY <1>1, <1>2, <1>3, <1>4, <1>6, <1>8, <1>9 DEF AskStep
<1> QED BY <1>10

LEMMA EndIsStep ==
  ASSUME Base, NEW o \in Objects, NEW boundary \in {"final", "error"}, RunEnds(o, boundary)
  PROVE  \E new : EndStep(o, new)
<1>1. PICK old \in Object : old = obj[o] /\ obj \in [Objects -> Object]
  BY DEF Base, Typed, ObjectsTyped
<1>2. /\ Drained /\ old.run \in {"live", "cancelled"}
      /\ boundary = "final" => old.boundary = "none"
      /\ UNCHANGED <<sessions, toolIndex, draining, disk, maps, req, history>>
  BY <1>1 DEF RunEnds
<1>3. CASE old.run = "cancelled" /\ Driving(o) = {}
  <2>1. obj' = [obj EXCEPT ![o] = Gone(o)]
    BY <1>1, <1>3 DEF RunEnds
  <2>2. Changes(o, Gone(o))
    BY <2>1, GoneFacts DEF Changes
  <2> QED BY <1>1, <1>2, <1>3, <2>2, GoneFacts DEF EndStep
<1>4. CASE ~(old.run = "cancelled" /\ Driving(o) = {})
  <2> DEFINE new == [old EXCEPT !.run = "over", !.boundary = boundary, !.applied = FALSE]
  <2>1. obj' = [obj EXCEPT ![o] = new]
    BY <1>1, <1>4 DEF RunEnds
  <2>2. new \in Object
    <3>1. old \in Object
      BY <1>1
    <3> QED BY ONLY <3>1, boundary \in {"final", "error"} DEF Object
  <2>3. /\ new.id = old.id /\ new.credential = old.credential /\ new.agent = old.agent
        /\ new.st = old.st /\ new.segment = old.segment /\ new.open = old.open
        /\ new.continued = old.continued /\ new.rounds = old.rounds /\ new.pending = old.pending
        /\ new.run = "over" /\ new.boundary = boundary /\ ~new.applied
    BY <1>1 DEF Object
  <2> HIDE DEF new
  <2>4. Changes(o, new)
    BY <1>1, <2>1, <2>2, <2>3 DEF Changes, Base, Typed, ObjectsTyped
  <2>5. EndStep(o, new)
    BY <1>1, <1>2, <1>4, <2>3, <2>4 DEF EndStep
  <2> QED BY <2>5
<1> QED BY <1>3, <1>4

LEMMA AskBase ==
  ASSUME Base, NEW o \in Objects, NEW new, AskStep(o, new)
  PROVE  Base'
<1>1. obj'[o] = new
  BY ChangeTyped DEF Base, Typed, AskStep
<1>2. StateOk(o) /\ DrivenOk(o)
  BY DEF Base, StatesInv
<1>3. /\ obj[o].run = "live" /\ obj[o].boundary = "none" /\ new.id = obj[o].id /\ new.run = "live"
      /\ new.st = obj[o].st /\ new.boundary = "tools" /\ ~new.applied
      /\ UNCHANGED <<sessions, req>> /\ Changes(o, new)
      /\ UNCHANGED <<sessions, toolIndex, draining, disk, maps, req, history>>
  BY DEF AskStep
<1>4. obj[o].st \notin {"none", "creating", "awaiting", "completed", "failed"}
  <2>1. NoObject.run = "none"
    BY DEF NoObject
  <2> QED BY <2>1, <1>2, <1>3 DEF StateOk, Base, SessionsInv, Exists
<1>5. StateOk(o)'
  BY <1>1, <1>3, <1>4 DEF StateOk
<1>6. DrivenOk(o)'
  <2>1. Registered(o)' => Registered(o)
    BY <1>1, <1>3, <1>4 DEF Registered, Exists
  <2>2. Driving(o)' # {}
    BY <1>2, <1>3 DEF DrivenOk, Driving
  <2> QED BY <2>1, <2>2, <1>1, <1>2, <1>3 DEF DrivenOk
<1>7. ~Opening(o)
  BY <1>3 DEF Opening, Base, ReqInv, OpeningOk
<1> QED BY <1>3, <1>4, <1>5, <1>6, <1>7, ObjectBase DEF Exists

LEMMA EndBase ==
  ASSUME Base, NEW o \in Objects, NEW new, EndStep(o, new)
  PROVE  Base'
<1>1. obj'[o] = new
  BY ChangeTyped DEF Base, Typed, EndStep
<1>2. StateOk(o) /\ DrivenOk(o)
  BY DEF Base, StatesInv
<1>3. /\ obj[o].run \in {"live", "cancelled"} /\ new.id = obj[o].id /\ Changes(o, new)
      /\ UNCHANGED <<sessions, toolIndex, draining, disk, maps, req, history>>
  BY DEF EndStep
<1>4. obj[o].st \notin {"none", "creating", "completed", "failed"}
  <2>1. NoObject.run = "none"
    BY DEF NoObject
  <2> QED BY <2>1, <1>2, <1>3 DEF StateOk, Base, SessionsInv, Exists
<1>5. Registered(o)' => Registered(o)
  BY <1>1, <1>3, <1>4 DEF Registered, Exists
<1>6. CASE obj[o].run = "cancelled" /\ new = Gone(o)
  <2>1. ~Registered(o)'
    BY <1>2, <1>5, <1>6 DEF DrivenOk
  <2>2. new.st = "closed" /\ new.run = "none" /\ new.boundary = "none"
    BY <1>6, GoneFacts
  <2>3. StateOk(o)'
    BY <1>1, <2>2 DEF StateOk, ActiveStates
  <2>4. DrivenOk(o)'
    BY <1>1, <2>1, <2>2 DEF DrivenOk
  <2>5. ~Opening(o)
    BY <1>3 DEF Opening, Base, ReqInv, OpeningOk
  <2> QED BY <1>3, <1>4, <2>2, <2>3, <2>4, <2>5, ObjectBase DEF Exists
<1>7. CASE /\ new.st = obj[o].st /\ new.run = "over" /\ new.boundary \in {"final", "error"}
           /\ ~new.applied /\ (new.boundary = "final" => obj[o].boundary = "none")
           /\ (obj[o].run = "cancelled" => Driving(o) # {})
  <2>1. StateOk(o)'
    BY <1>1, <1>2, <1>3, <1>4, <1>7 DEF StateOk
  <2>2. new.boundary = "final" => Driving(o)' # {}
    BY <1>2, <1>3, <1>7 DEF DrivenOk, Driving
  <2>3. DrivenOk(o)'
    BY <1>1, <1>2, <1>5, <1>7, <2>2 DEF DrivenOk
  <2>4. ~Opening(o)
    BY <1>3 DEF Opening, Base, ReqInv, OpeningOk
  <2> QED BY <1>3, <1>4, <1>7, <2>1, <2>3, <2>4, ObjectBase DEF Exists
<1> QED BY <1>6, <1>7 DEF EndStep

-----------------------------------------------------------------------------
(* The requests that wait for a boundary are answered with it *)

Freed(o) == req' = [r \in Requests |-> IF r \in Driving(o) THEN Idle ELSE req[r]]

ReleaseStep(o) ==
  /\ obj[o].boundary # "none" /\ obj[o].applied /\ Freed(o)
  /\ UNCHANGED <<registryVars, disk, maps, history>>

AnswerStep(o, new) ==
  /\ Driving(o) # {} /\ obj[o].boundary # "none" /\ ~obj[o].applied /\ Freed(o)
  /\ Changes(o, new) /\ new.id = obj[o].id /\ new.credential = obj[o].credential
  /\ new.agent = obj[o].agent /\ new.run = obj[o].run /\ new.rounds = obj[o].rounds
  /\ new.pending = obj[o].pending /\ new.open = obj[o].open /\ new.segment = obj[o].segment
  /\ new.boundary = obj[o].boundary /\ new.continued = obj[o].continued
  /\ new.applied /\ new.st = StateAfter(obj[o].boundary)
  /\ PersistLineage(o, new.st) /\ RegistryTyped' /\ ledger' \in [TextKeys -> Row]
  /\ \A k \in TextKeys : ledger'[k].st = "running" => ledger[k].st = "running"
  /\ UNCHANGED <<sessions, draining, maps, forgotten, unshared, restarts>>

LEMMA AnswerIsStep ==
  ASSUME Base, NEW o \in Objects, Answer(o)
  PROVE  ReleaseStep(o) \/ \E new : AnswerStep(o, new)
<1>1. PICK old \in Object : old = obj[o] /\ obj \in [Objects -> Object]
  BY DEF Base, Typed, ObjectsTyped
<1>2. /\ Driving(o) # {} /\ obj[o].boundary # "none" /\ Freed(o)
      /\ UNCHANGED <<sessions, draining, maps, forgotten, unshared, restarts>>
  BY DEF Answer, Freed
<1>3. CASE old.applied
  <2>1. UNCHANGED <<obj, toolIndex, lineage, ledger, unrecorded, faults>>
    BY <1>1, <1>3 DEF Answer
  <2> QED BY <1>1, <1>2, <1>3, <2>1 DEF ReleaseStep, registryVars, disk, history
<1>4. CASE ~old.applied
  <2>1. PICK st : st = StateAfter(old.boundary)
    OBVIOUS
  <2>2. st \in {"awaiting", "completed", "failed"} /\ st \in States
    BY <1>1, <1>2, <2>1 DEF StateAfter, Object, States
  <2>3. PICK digest : digest = IF st = "awaiting" THEN NoKey ELSE old.digest
    OBVIOUS
  <2>4. digest \in ResultKeys \cup {NoKey} /\ old \in Object
    BY <1>1, <2>3 DEF Object
  <2> DEFINE new == [old EXCEPT !.applied = TRUE, !.st = st, !.digest = digest]
  <2>5. new \in Object
    BY ONLY <2>2, <2>4 DEF Object
  <2>6. /\ new.id = old.id /\ new.credential = old.credential
        /\ new.agent = old.agent /\ new.run = old.run /\ new.rounds = old.rounds
        /\ new.pending = old.pending /\ new.open = old.open /\ new.segment = old.segment
        /\ new.boundary = old.boundary /\ new.continued = old.continued
        /\ new.applied /\ new.st = st
    BY <1>1 DEF Object
  <2>7. /\ obj' = [obj EXCEPT ![o].applied = TRUE, ![o].st = st,
                              ![o].digest = IF st = "awaiting" THEN NoKey ELSE @]
        /\ toolIndex' = [b \in Batches |-> IF st = "awaiting" /\ b \in obj[o].pending THEN obj[o].id
                                           ELSE toolIndex[b]]
        /\ PersistLineage(o, st) /\ PersistLedgerBoundary(o, obj[o].boundary)
    BY <1>1, <1>4, <2>1 DEF Answer
  <2>8. obj' = [obj EXCEPT ![o] = new]
    BY <2>7, <2>3, <1>1 DEF Object
  <2> HIDE DEF new
  <2>9. Changes(o, new)
    BY <1>1, <2>5, <2>6, <2>8 DEF Changes, Base, Typed, ObjectsTyped
  <2>10. RegistryTyped'
    <3>1. obj[o].id \in Ids \cup {None}
      BY <1>1 DEF Object
    <3> QED BY <1>2, <2>7, <3>1 DEF Base, Typed, RegistryTyped
  <2>11. /\ ledger' \in [TextKeys -> Row]
         /\ \A k \in TextKeys : ledger'[k].st = "running" => ledger[k].st = "running"
    <3>1. ledger \in [TextKeys -> Row] /\ "finished" \in {"none", "running", "finished", "error"}
          /\ "error" \in {"none", "running", "finished", "error"}
      BY DEF Base, Typed, FilesTyped
    <3>2. PICK s \in {"finished", "error"} : s = IF obj[o].boundary = "final" THEN "finished" ELSE "error"
      OBVIOUS
    <3>3. \A k \in TextKeys : [ledger[k] EXCEPT !.st = s] \in Row
      BY <3>1 DEF Row
    <3>4. \/ ledger' = ledger
          \/ obj[o].ledgerKey \in TextKeys
             /\ ledger' = [ledger EXCEPT ![obj[o].ledgerKey] = [ledger[obj[o].ledgerKey] EXCEPT !.st = s]]
      BY <1>1, <2>7, <3>1, <3>2 DEF PersistLedgerBoundary, Object
    <3>5. ledger' \in [TextKeys -> Row]
      BY <3>1, <3>3, <3>4
    <3>6. s # "running"
      OBVIOUS
    <3>7. \A k \in TextKeys : ledger'[k].st = "running" => ledger[k].st = "running"
      BY <3>1, <3>4, <3>6 DEF Row
    <3> QED BY <3>5, <3>7
  <2>12. AnswerStep(o, new)
    BY <1>1, <1>2, <1>4, <2>1, <2>6, <2>7, <2>9, <2>10, <2>11 DEF AnswerStep
  <2> QED BY <2>12
<1> QED BY <1>3, <1>4

LEMMA FreedFacts ==
  ASSUME Base, NEW o \in Objects, Freed(o)
  PROVE  /\ RequestsTyped' /\ \A r \in Requests : r \notin Driving(o) => req'[r] = req[r]
         /\ \A r \in Driving(o) : req[r].pc = "driving" /\ req'[r].pc = "idle" /\ req'[r].mode = "none"
         /\ \A p \in Objects : p # o => DrivesKept(p)
<1>1. Idle \in Request /\ Idle.pc = "idle" /\ Idle.mode = "none"
  BY NoTypes DEF Idle
<1>2. /\ \A r \in Requests : r \notin Driving(o) => req'[r] = req[r]
      /\ \A r \in Driving(o) : req[r].pc = "driving" /\ req'[r].pc = "idle" /\ req'[r].mode = "none"
  BY <1>1 DEF Freed, Driving
<1>3. RequestsTyped'
  BY <1>1 DEF Freed, Base, Typed, RequestsTyped
<1>4. \A p \in Objects : p # o => DrivesKept(p)
  BY <1>2 DEF DrivesKept, Driving
<1> QED BY <1>2, <1>3, <1>4

LEMMA ReleaseBase ==
  ASSUME Base, NEW o \in Objects, ReleaseStep(o)
  PROVE  Base'
<1>a. /\ RequestsTyped' /\ \A r \in Requests : r \notin Driving(o) => req'[r] = req[r]
      /\ \A r \in Driving(o) : req[r].pc = "driving" /\ req'[r].pc = "idle"
      /\ \A p \in Objects : p # o => DrivesKept(p)
  BY FreedFacts DEF ReleaseStep
<1>b. obj[o].boundary # "none" /\ obj[o].applied /\ UNCHANGED <<registryVars, disk, maps, history>>
  BY DEF ReleaseStep
<1>1. Typed'
  BY <1>a, <1>b DEF Base, Typed, ObjectsTyped, RegistryTyped, FilesTyped, HistoryTyped,
                    registryVars, disk, maps, history
<1>2. KeepsObjects /\ Unregisters
  BY <1>b DEF KeepsObjects, Unregisters, registryVars, Exists
<1>3. SessionsInv'
  <2>1. /\ \A i \in Ids : lineage'[i] # NoFile => Exists(i)
        /\ \A k \in ResultKeys : transcriptRecoveries'[k] # None =>
             transcriptRecoveries'[k] \in Objects /\ Exists(transcriptRecoveries'[k])
    BY <1>b DEF Base, Typed, FilesTyped, SessionsInv, disk, maps
  <2> QED BY <1>2, <2>1, SessionsKept DEF Base
<1>4. ASSUME NEW p \in Objects PROVE StateOk(p)' /\ DrivenOk(p)'
  <2>1. CASE p = o
    <3>1. StateOk(o) /\ DrivenOk(o) /\ obj' = obj /\ sessions' = sessions
      BY <1>b DEF Base, StatesInv, registryVars
    <3>2. StateOk(o)'
      BY <3>1 DEF StateOk
    <3>3. DrivenOk(o)'
      BY <3>1, <1>b DEF DrivenOk, Registered, Exists
    <3> QED BY <2>1, <3>2, <3>3
  <2>2. CASE p # o
    <3>1. Driving(p) # {} => Driving(p)' # {}
      BY <2>2, <1>a, StillDriven
    <3>2. obj'[p] = obj[p]
      BY <1>b DEF registryVars
    <3> QED BY <3>1, <3>2, <1>2, StateKept DEF Base, StatesInv
  <2> QED BY <2>1, <2>2
<1>5. ReqInv'
  <2>1. OpeningsKept
    BY <1>a, <1>b DEF OpeningsKept, registryVars
  <2>2. /\ \A r \in Requests : req'[r].pc = "joined" => req'[r] = req[r]
        /\ \A r \in Requests : req'[r].pc = "driving" => req'[r] = req[r]
    BY <1>a
  <2>3. UNCHANGED pendingRecoveries
    BY <1>b DEF maps
  <2> QED BY <1>a, <1>2, <2>1, <2>2, <2>3, RequestsKept DEF Base, Typed
<1> QED BY <1>1, <1>3, <1>4, <1>5 DEF Base, StatesInv

\* What a write does, whether it succeeds or not.
LEMMA WriteFacts ==
  ASSUME Base, NEW o \in Objects, Exists(o), NEW st \in {"awaiting", "completed", "failed"},
         PersistLineage(o, st)
  PROVE  /\ lineage' \in [Ids -> File] /\ faults' \in 0 .. MaxFaults /\ unrecorded' \subseteq Ids
         /\ obj[o].id \in Ids
         /\ \A i \in Ids : i # obj[o].id => /\ lineage'[i] = lineage[i]
                                            /\ i \in unrecorded' <=> i \in unrecorded
         /\ \/ lineage'[obj[o].id] = RecordOf(o, st) /\ obj[o].id \notin unrecorded'
            \/ lineage' = lineage /\ obj[o].id \in unrecorded'
<1>1. obj[o] \in Object /\ obj[o].id \in Ids /\ lineage \in [Ids -> File] /\ unrecorded \subseteq Ids
      /\ faults \in 0 .. MaxFaults /\ MaxFaults \in Nat
  BY SwitchAssumption DEF Base, Typed, ObjectsTyped, FilesTyped, HistoryTyped, SessionsInv
<1>2. RecordOf(o, st) \in File
  BY <1>1 DEF RecordOf, File, Object
<1>3. CASE /\ lineage' = [lineage EXCEPT ![obj[o].id] = RecordOf(o, st)]
           /\ unrecorded' = unrecorded \ {obj[o].id} /\ UNCHANGED faults
  BY <1>1, <1>2, <1>3
<1>4. CASE /\ Fault /\ unrecorded' = unrecorded \cup {obj[o].id} /\ UNCHANGED lineage
  <2>1. faults' \in 0 .. MaxFaults
    BY <1>1, <1>4 DEF Fault
  <2> QED BY <1>1, <1>4, <2>1
<1> QED BY <1>3, <1>4 DEF PersistLineage, Writes

LEMMA AnswerBase ==
  ASSUME Base, NEW o \in Objects, NEW new, AnswerStep(o, new)
  PROVE  Base'
<1>a. /\ RequestsTyped' /\ \A r \in Requests : r \notin Driving(o) => req'[r] = req[r]
      /\ \A r \in Driving(o) : req[r].pc = "driving" /\ req'[r].pc = "idle"
      /\ \A p \in Objects : p # o => DrivesKept(p)
  BY FreedFacts DEF AnswerStep
<1>b. /\ ObjectsTyped' /\ obj'[o] = new /\ \A p \in Objects : p # o => obj'[p] = obj[p]
  BY ChangeTyped DEF Base, Typed, AnswerStep
<1>c. /\ Driving(o) # {} /\ obj[o].boundary \in {"tools", "final", "error"}
      /\ new.id = obj[o].id /\ new.run = obj[o].run /\ new.boundary = obj[o].boundary
      /\ new.applied /\ new.st = StateAfter(obj[o].boundary)
      /\ PersistLineage(o, new.st) /\ RegistryTyped' /\ ledger' \in [TextKeys -> Row]
      /\ UNCHANGED <<sessions, draining, maps, forgotten, unshared, restarts>>
  BY DEF AnswerStep, Base, Typed, ObjectsTyped, Object
<1>d. new.st \in {"awaiting", "completed", "failed"}
  BY <1>c DEF StateAfter
<1>e. Exists(o) /\ ~Opening(o) /\ StateOk(o) /\ DrivenOk(o)
  BY <1>c DEF Driving, Base, ReqInv, StatesInv
<1>f. /\ lineage' \in [Ids -> File] /\ faults' \in 0 .. MaxFaults /\ unrecorded' \subseteq Ids
      /\ obj[o].id \in Ids
      /\ \A i \in Ids : i # obj[o].id => lineage'[i] = lineage[i]
  BY <1>c, <1>d, <1>e, WriteFacts
<1>1. Typed'
  <2>1. FilesTyped'
    BY <1>c, <1>f DEF Base, Typed, FilesTyped, maps
  <2>2. HistoryTyped'
    BY <1>c, <1>f DEF Base, Typed, HistoryTyped
  <2> QED BY <1>a, <1>b, <1>c, <2>1, <2>2 DEF Typed
<1>2. KeepsObjects /\ Unregisters
  BY <1>b, <1>c, <1>d, <1>e DEF KeepsObjects, Unregisters, Exists
<1>3. SessionsInv'
  <2>1. \A i \in Ids : lineage'[i] # NoFile => Exists(i)
    BY <1>e, <1>f DEF Base, SessionsInv
  <2>2. \A k \in ResultKeys : transcriptRecoveries'[k] # None =>
             transcriptRecoveries'[k] \in Objects /\ Exists(transcriptRecoveries'[k])
    BY <1>c DEF Base, Typed, FilesTyped, SessionsInv, maps
  <2> QED BY <1>2, <2>1, <2>2, SessionsKept DEF Base
<1>4. ASSUME NEW p \in Objects PROVE StateOk(p)' /\ DrivenOk(p)'
  <2>1. CASE p = o
    <3>1. StateOk(o)'
      BY <1>b, <1>c, <1>e DEF StateOk, StateAfter, ActiveStates
    <3>2. DrivenOk(o)'
      BY <1>b, <1>c, <1>d, <1>e DEF DrivenOk, Registered, Exists
    <3> QED BY <2>1, <3>1, <3>2
  <2>2. CASE p # o
    <3>1. Driving(p) # {} => Driving(p)' # {}
      BY <2>2, <1>a, StillDriven
    <3> QED BY <2>2, <3>1, <1>b, <1>2, StateKept DEF Base, StatesInv
  <2> QED BY <2>1, <2>2
<1>5. ReqInv'
  <2>1. OpeningsKept
    <3>1. \A p \in Objects : Opening(p) => obj'[p] = obj[p]
      BY <1>b, <1>e
    <3> QED BY <3>1, <1>a DEF OpeningsKept
  <2>2. /\ \A r \in Requests : req'[r].pc = "joined" => req'[r] = req[r]
        /\ \A r \in Requests : req'[r].pc = "driving" => req'[r] = req[r]
    BY <1>a
  <2>3. UNCHANGED pendingRecoveries
    BY <1>c DEF maps
  <2> QED BY <1>a, <1>2, <2>1, <2>2, <2>3, RequestsKept DEF Base, Typed
<1> QED BY <1>1, <1>3, <1>4, <1>5 DEF Base, StatesInv

-----------------------------------------------------------------------------
(* Steps that touch no object: a drain begins or is over, a record or a       *)
(* recovery ends by age                                                       *)

CalmStep ==
  /\ UNCHANGED <<obj, sessions, toolIndex, pendingRecoveries, ledger, req>>
  /\ UNCHANGED <<restarts, forgotten, unrecorded>>
  /\ lineage' \in [Ids -> File] /\ \A i \in Ids : lineage'[i] \in {lineage[i], NoFile}
  /\ transcriptRecoveries' \in [ResultKeys -> Objects \cup {None}]
  /\ \A k \in ResultKeys : transcriptRecoveries'[k] \in {transcriptRecoveries[k], None}
  /\ draining' \in {"no", "waiting", "done"}
  /\ draining' = "done" => draining = "done" \/ ~(ActiveCount > 0)
  /\ draining' = "no" => draining = "no"
  /\ faults' \in 0 .. MaxFaults /\ unshared \subseteq unshared' /\ unshared' \subseteq ResultKeys

LEMMA CalmBase ==
  ASSUME Base, CalmStep
  PROVE  Base'
<1>1. Typed'
  BY DEF CalmStep, Base, Typed, ObjectsTyped, RegistryTyped, FilesTyped, RequestsTyped, HistoryTyped
<1>2. KeepsObjects /\ Unregisters
  BY DEF CalmStep, KeepsObjects, Unregisters, Exists
<1>3. SessionsInv'
  <2>1. /\ \A i \in Ids : lineage'[i] # NoFile => Exists(i)
        /\ \A k \in ResultKeys : transcriptRecoveries'[k] # None =>
             transcriptRecoveries'[k] \in Objects /\ Exists(transcriptRecoveries'[k])
    BY DEF CalmStep, Base, SessionsInv
  <2> QED BY <1>2, <2>1, SessionsKept DEF Base
<1>4. ASSUME NEW p \in Objects PROVE StateOk(p)' /\ DrivenOk(p)'
  <2>1. obj'[p] = obj[p] /\ (Driving(p) # {} => Driving(p)' # {})
    BY DEF CalmStep, Driving
  <2> QED BY <2>1, <1>2, StateKept DEF Base, StatesInv
<1>5. ReqInv'
  <2>1. OpeningsKept /\ UNCHANGED pendingRecoveries /\ \A r \in Requests : req'[r] = req[r]
    BY DEF CalmStep, OpeningsKept
  <2> QED BY <1>1, <1>2, <2>1, RequestsKept DEF Base, Typed
<1> QED BY <1>1, <1>3, <1>4, <1>5 DEF Base, StatesInv

LEMMA FaultCounts ==
  ASSUME Base, Fault PROVE faults' \in 0 .. MaxFaults
BY SwitchAssumption DEF Base, Typed, HistoryTyped, Fault

LEMMA StutterIsCalm ==
  ASSUME Base, UNCHANGED vars PROVE CalmStep
BY DEF vars, registryVars, CalmStep, Base, Typed, RegistryTyped, FilesTyped, HistoryTyped

LEMMA BeginDrainIsCalm ==
  ASSUME Base, BeginDrain PROVE CalmStep
BY FaultCounts
   DEF BeginDrain, CalmStep, disk, maps, Base, Typed, RegistryTyped, FilesTyped, HistoryTyped

LEMMA RecordIsCalm ==
  ASSUME Base, NEW i \in Ids, ExpireRecord(i) PROVE CalmStep
<1>1. lineage' = [lineage EXCEPT ![i] = NoFile] /\ lineage \in [Ids -> File]
  BY DEF ExpireRecord, Base, Typed, FilesTyped
<1>2. lineage' \in [Ids -> File] /\ \A j \in Ids : lineage'[j] \in {lineage[j], NoFile}
  BY <1>1, NoTypes
<1>3. unshared \subseteq unshared' /\ unshared' \subseteq ResultKeys
  BY DEF ExpireRecord, Base, Typed, FilesTyped, HistoryTyped
<1>4. faults' \in 0 .. MaxFaults
  BY FaultCounts DEF ExpireRecord
<1> QED BY <1>2, <1>3, <1>4
        DEF ExpireRecord, CalmStep, registryVars, maps, Base, Typed, RegistryTyped, FilesTyped

LEMMA RecoveryIsCalm ==
  ASSUME Base, NEW k \in ResultKeys, ExpireRecovery(k) PROVE CalmStep
<1>1. /\ transcriptRecoveries' \in [ResultKeys -> Objects \cup {None}]
      /\ \A l \in ResultKeys : transcriptRecoveries'[l] \in {transcriptRecoveries[l], None}
  BY DEF ExpireRecovery, Base, Typed, FilesTyped
<1>2. unshared \subseteq unshared' /\ unshared' \subseteq ResultKeys
  BY DEF ExpireRecovery, Base, Typed, HistoryTyped
<1>3. faults' \in 0 .. MaxFaults
  BY FaultCounts DEF ExpireRecovery
<1> QED BY <1>1, <1>2, <1>3
        DEF ExpireRecovery, CalmStep, registryVars, disk, Base, Typed, RegistryTyped, FilesTyped

LEMMA EndDrainCases ==
  ASSUME Base, EndDrain PROVE CalmStep \/ \E os : ForgetStep(os)
<1> DEFINE left == {o \in Objects : Registered(o)}
<1>1. /\ draining = "waiting" /\ draining' = "done"
      /\ UNCHANGED <<disk, maps, req, faults, unrecorded, unshared, restarts>>
      /\ faults' \in 0 .. MaxFaults
  BY DEF EndDrain, Base, Typed, HistoryTyped
<1>2. CASE ActiveCount > 0
  <2>1. Forget(left) /\ Remember(left)
    BY <1>2 DEF EndDrain
  <2>2. left \in SUBSET Objects /\ \A o \in left : Registered(o)
    OBVIOUS
  <2>3. ForgetStep(left)
    BY <1>1, <2>1, <2>2 DEF ForgetStep
  <2> QED BY <2>3
<1>3. CASE ~(ActiveCount > 0)
  <2>1. UNCHANGED <<obj, sessions, toolIndex, forgotten>>
    BY <1>3 DEF EndDrain
  <2>2. CalmStep
    BY <1>1, <1>3, <2>1 DEF CalmStep, disk, maps, Base, Typed, FilesTyped, HistoryTyped
  <2> QED BY <2>2
<1> QED BY <1>2, <1>3

LEMMA SweepIsForget ==
  ASSUME Base, NEW o \in Objects, ForgetSession(o) PROVE ForgetStep({o})
BY FaultCounts DEF ForgetSession, ForgetStep, Base, Typed, RegistryTyped

LEMMA RestartBase ==
  ASSUME Base, Restart PROVE Base'
<1>1. /\ obj' = [o \in Objects |-> IF Exists(o) THEN Gone(o) ELSE NoObject]
      /\ sessions' = [i \in Ids |-> None]
      /\ pendingRecoveries' = [i \in Ids |-> NoPending]
      /\ transcriptRecoveries' = [k \in ResultKeys |-> None]
      /\ req' = [r \in Requests |-> Idle] /\ UNCHANGED disk
  BY DEF Restart
<1>2. ASSUME NEW o \in Objects
      PROVE  /\ obj'[o] \in Object /\ obj'[o].open = NoBatch /\ obj'[o].run = "none"
             /\ obj'[o].boundary = "none" /\ obj'[o].st \in {"none", "closed"}
             /\ Exists(o) => obj'[o].st # "none" /\ obj'[o].id = obj[o].id
             /\ ~Exists(o) => obj'[o] = obj[o]
  <2>1. NoObject.open = NoBatch /\ NoObject.boundary = "none" /\ NoObject.st = "none"
        /\ NoObject.run = "none"
    BY DEF NoObject
  <2>2. CASE Exists(o)
    BY <1>1, <2>2, GoneFacts
  <2>3. CASE ~Exists(o)
    BY <1>1, <2>1, <2>3, NoTypes DEF Base, SessionsInv
  <2> QED BY <2>2, <2>3
<1>3. Typed'
  <2>1. ObjectsTyped'
    BY <1>1, <1>2 DEF ObjectsTyped
  <2>2. RegistryTyped'
    BY DEF Restart, RegistryTyped
  <2>3. FilesTyped'
    BY <1>1, NoTypes DEF FilesTyped, Base, Typed, disk
  <2>4. RequestsTyped'
    <3>1. Idle.pc = "idle" /\ Idle.mode = "none"
      BY DEF Idle
    <3> QED BY <1>1, <3>1, NoTypes DEF RequestsTyped
  <2>5. HistoryTyped'
    BY SwitchAssumption DEF Restart, HistoryTyped, Base, Typed
  <2> QED BY <2>1, <2>2, <2>3, <2>4, <2>5 DEF Typed
<1>4. KeepsObjects /\ Unregisters
  BY <1>1, <1>2 DEF KeepsObjects, Unregisters
<1>5. SessionsInv'
  <2>1. /\ \A i \in Ids : lineage'[i] # NoFile => Exists(i)
        /\ \A k \in ResultKeys : transcriptRecoveries'[k] = None
    BY <1>1 DEF Base, SessionsInv, disk
  <2> QED BY <1>4, <2>1, SessionsKept DEF Base
<1>6. ASSUME NEW p \in Objects PROVE StateOk(p)' /\ DrivenOk(p)'
  <2>1. ~Registered(p)'
    <3>1. Exists(p)' => obj'[p].id \in Ids
      BY <1>5 DEF SessionsInv
    <3> QED BY <3>1, <1>1, NoneFacts DEF Registered
  <2>2. StateOk(p)'
    BY <1>2 DEF StateOk, ActiveStates
  <2>3. DrivenOk(p)'
    BY <1>2, <2>1 DEF DrivenOk
  <2> QED BY <2>2, <2>3
<1>7. ReqInv'
  BY <1>1 DEF ReqInv, Idle, NoPending
<1> QED BY <1>3, <1>5, <1>6, <1>7 DEF Base, StatesInv

-----------------------------------------------------------------------------
(* Every step is one of these *)

NextStep ==
  \/ \E r \in Requests : \E new : QuietStep(r, new)
  \/ \E r \in Requests, o \in Objects, i \in Ids : \E new : CreateStep(r, o, i, new)
  \/ \E r \in Requests, o \in Objects : \E new, ask : FollowStep(r, o, new, ask)
  \/ \E r \in Requests, o \in Objects : \E new, ask : AcceptStep(r, o, new, ask)
  \/ \E r \in Requests, o \in Objects : \E new : OpenedStep(r, o, new)
  \/ \E r \in Requests : OpenFails(r)
  \/ \E o \in Objects : \E new : AskStep(o, new)
  \/ \E o \in Objects : \E new : EndStep(o, new)
  \/ \E o \in Objects : ReleaseStep(o)
  \/ \E o \in Objects : \E new : AnswerStep(o, new)
  \/ \E os : ForgetStep(os)
  \/ CalmStep
  \/ Restart

LEMMA NextCases ==
  ASSUME Base, [Next]_vars PROVE NextStep
<1>1. CASE UNCHANGED vars
  BY <1>1, StutterIsCalm DEF NextStep
<1>2. ASSUME NEW r \in Requests, NEW k \in OpenKeys, StartTurn(r, k) PROVE NextStep
  <2>1. \E o \in Objects : \E new : CreateStep(r, o, o, new)
    BY <1>2, StartIsCreate
  <2> QED BY <2>1, NoneFacts DEF NextStep
<1>3. ASSUME NEW r \in Requests, NEW i \in Ids, FollowUp(r, i) PROVE NextStep
  BY <1>3, FollowIsStep DEF NextStep
<1>4. ASSUME NEW r \in Requests, NEW i \in Ids, ResumeCompleted(r, i) PROVE NextStep
  BY <1>4, ResumeIsCreate DEF NextStep
<1>5. ASSUME NEW r \in Requests, NEW k \in ResultKeys, AcceptResults(r, k) PROVE NextStep
  BY <1>5, AcceptIsStep DEF NextStep
<1>6. ASSUME NEW r \in Requests, NEW k \in ResultKeys, RepeatResults(r, k) PROVE NextStep
  BY <1>6, RepeatIsQuiet DEF NextStep
<1>7. ASSUME NEW r \in Requests, NEW k \in ResultKeys, ResumePending(r, k) PROVE NextStep
  BY <1>7, PendingCases DEF NextStep
<1>8. ASSUME NEW r \in Requests, NEW k \in ResultKeys, RecoverFromTranscript(r, k) PROVE NextStep
  BY <1>8, TranscriptCases DEF NextStep
<1>9. ASSUME NEW r \in Requests, NEW k \in TextKeys, Reconnect(r, k) PROVE NextStep
  BY <1>9, ReconnectIsQuiet DEF NextStep
<1>10. ASSUME NEW r \in Requests, Opened(r) PROVE NextStep
  BY <1>10, OpenedIsStep DEF NextStep
<1>11. ASSUME NEW r \in Requests, OpenFails(r) PROVE NextStep
  BY <1>11 DEF NextStep
<1>12. ASSUME NEW o \in Objects, AskForTools(o) PROVE NextStep
  BY <1>12, AskIsStep DEF NextStep
<1>13. ASSUME NEW o \in Objects, Finish(o) \/ Die(o) PROVE NextStep
  <2>1. \E new : EndStep(o, new)
    BY <1>13, EndIsStep DEF Finish, Die
  <2> QED BY <2>1 DEF NextStep
<1>14. ASSUME NEW o \in Objects, Answer(o) PROVE NextStep
  BY <1>14, AnswerIsStep DEF NextStep
<1>15. ASSUME NEW o \in Objects, ForgetSession(o) PROVE NextStep
  BY <1>15, SweepIsForget DEF NextStep
<1>16. CASE BeginDrain
  BY <1>16, BeginDrainIsCalm DEF NextStep
<1>17. CASE EndDrain
  BY <1>17, EndDrainCases DEF NextStep
<1>18. ASSUME NEW i \in Ids, ExpireRecord(i) PROVE NextStep
  BY <1>18, RecordIsCalm DEF NextStep
<1>19. ASSUME NEW k \in ResultKeys, ExpireRecovery(k) PROVE NextStep
  BY <1>19, RecoveryIsCalm DEF NextStep
<1>20. CASE Restart
  BY <1>20 DEF NextStep
<1> QED
  BY <1>1, <1>2, <1>3, <1>4, <1>5, <1>6, <1>7, <1>8, <1>9, <1>10, <1>11, <1>12, <1>13, <1>14,
     <1>15, <1>16, <1>17, <1>18, <1>19, <1>20 DEF Next

LEMMA InitBase == Init => Base
<1> SUFFICES ASSUME Init PROVE Base
  OBVIOUS
<1>1. Typed
  BY InitTyped
<1>2. \A o \in Objects : obj[o] = NoObject
  BY DEF Init, RegistryInit
<1>3. \A r \in Requests : req[r] = Idle
  BY DEF Init
<1>4. SessionsInv
  BY <1>2 DEF Init, RegistryInit, SessionsInv, Exists, Registered, NoObject
<1>5. StatesInv
  BY <1>2 DEF StatesInv, StateOk, DrivenOk, NoObject, Registered, Exists, ActiveStates
<1>6. ReqInv
  BY <1>3 DEF ReqInv, Idle, Init, NoPending
<1> QED BY <1>1, <1>4, <1>5, <1>6 DEF Base

LEMMA NextBase ==
  ASSUME Base, [Next]_vars PROVE Base'
<1>1. NextStep
  BY NextCases
<1> QED
  BY ONLY <1>1, Base, QuietBase, CreateBase, FollowBase, AcceptBase, OpenedBase, OpenFailsBase,
          AskBase, EndBase, ReleaseBase, AnswerBase, ForgetBase, CalmBase, RestartBase
     DEF NextStep

LEMMA BaseHolds == Spec => []Base
<1>1. Base /\ [Next]_vars => Base'
  BY NextBase
<1> QED BY InitBase, <1>1, PTL DEF Spec

\* The sessions, the registry, the files and the requests stay of their types.
THEOREM TypeCorrect == Spec => []TypeOK
BY BaseHolds, TypedGivesTypeOK, PTL DEF Base

-----------------------------------------------------------------------------
(* Limits *)

Counted == {o \in ActiveRuns : ~obj[o].continued}
CountedOf(c) == {o \in Counted : obj[o].credential = c}

LimitsInv ==
  /\ Cardinality(Counted) <= GlobalActiveRuns
  /\ \A c \in Credentials : Cardinality(CountedOf(c)) <= PerCredentialActiveRuns

LEMMA LimitsGive == LimitsInv <=> ActivatedRunsWithinLimits
BY DEF LimitsInv, Counted, CountedOf, ActivatedRunsWithinLimits

LEMMA ObjectsFinite ==
  ASSUME NEW os \in SUBSET Objects
  PROVE  IsFiniteSet(os) /\ Cardinality(os) \in Nat
<1>1. IsFiniteSet(Objects)
  BY FS_Interval, NoneFacts DEF Objects
<1> QED BY <1>1, FS_Subset, FS_CardinalityType

LEMMA SmallerSet ==
  ASSUME NEW os \in SUBSET Objects, NEW ps \in SUBSET os
  PROVE  Cardinality(ps) <= Cardinality(os)
BY ObjectsFinite, FS_Subset

LEMMA OneMore ==
  ASSUME NEW os \in SUBSET Objects, NEW o \in Objects, NEW ps \in SUBSET (os \cup {o}),
         NEW n \in Nat, Cardinality(os) < n
  PROVE  Cardinality(ps) <= n
<1>1. IsFiniteSet(os) /\ Cardinality(os) \in Nat
  BY ObjectsFinite
<1>2. Cardinality(os \cup {o}) <= Cardinality(os) + 1 /\ Cardinality(os \cup {o}) \in Nat
  <2>1. Cardinality(os \cup {o}) = IF o \in os THEN Cardinality(os) ELSE Cardinality(os) + 1
    BY <1>1, FS_AddElement
  <2>2. PICK m \in Nat : m = Cardinality(os)
    BY <1>1
  <2>3. Cardinality(os \cup {o}) \in {m, m + 1}
    BY <2>1, <2>2
  <2> QED BY <2>2, <2>3
<1>3. Cardinality(ps) <= Cardinality(os \cup {o}) /\ Cardinality(ps) \in Nat
  BY SmallerSet, ObjectsFinite
<1> QED BY <1>1, <1>2, <1>3

\* No run is counted that was not counted before.
NoneBegins ==
  \A p \in Objects : Registered(p)' /\ obj'[p].st \in ActiveStates /\ ~obj'[p].continued =>
    /\ Registered(p) /\ obj[p].st \in ActiveStates /\ ~obj[p].continued
    /\ obj'[p].credential = obj[p].credential

LEMMA LimitsKept ==
  ASSUME LimitsInv, NoneBegins PROVE LimitsInv'
<1>1. Counted' \in SUBSET Counted /\ Counted \in SUBSET Objects
  BY DEF Counted, ActiveRuns, NoneBegins
<1>2. ASSUME NEW c \in Credentials
      PROVE  CountedOf(c)' \in SUBSET CountedOf(c) /\ CountedOf(c) \in SUBSET Objects
  BY <1>1 DEF CountedOf, Counted, ActiveRuns, NoneBegins
<1>3. Cardinality(Counted') <= Cardinality(Counted) /\ Cardinality(Counted) \in Nat
      /\ Cardinality(Counted') \in Nat
  BY <1>1, SmallerSet, ObjectsFinite
<1>4. ASSUME NEW c \in Credentials
      PROVE  /\ Cardinality(CountedOf(c)') <= Cardinality(CountedOf(c))
             /\ Cardinality(CountedOf(c)) \in Nat /\ Cardinality(CountedOf(c)') \in Nat
  BY <1>2, SmallerSet, ObjectsFinite
<1>5. Cardinality(Counted') <= GlobalActiveRuns
  BY <1>3, LimitAssumption DEF LimitsInv
<1>6. \A c \in Credentials : Cardinality(CountedOf(c)') <= PerCredentialActiveRuns
  BY <1>4, LimitAssumption DEF LimitsInv
<1> QED BY <1>5, <1>6 DEF LimitsInv

LEMMA OneBegins ==
  ASSUME LimitsInv, NEW o \in Objects, NEW except, CanActivate(obj'[o].credential, except),
         except \notin ActiveRuns,
         \A p \in Objects \ {o} : Registered(p)' => Registered(p) /\ obj'[p] = obj[p]
  PROVE  LimitsInv'
<1> DEFINE cred == obj'[o].credential
           running == {p \in ActiveRuns : obj[p].credential = cred}
<1>1. ActiveRuns \ {except} = ActiveRuns
  OBVIOUS
<1>2. Cardinality(ActiveRuns) < GlobalActiveRuns /\ Cardinality(running) < PerCredentialActiveRuns
  BY <1>1 DEF CanActivate
<1>3. ActiveRuns \in SUBSET Objects /\ Counted' \in SUBSET (ActiveRuns \cup {o})
  BY DEF ActiveRuns, Counted
<1>4. Cardinality(Counted') <= GlobalActiveRuns
  BY <1>2, <1>3, OneMore, LimitAssumption
<1>5. ASSUME NEW c \in Credentials PROVE Cardinality(CountedOf(c)') <= PerCredentialActiveRuns
  <2>1. CASE c = cred
    <3>1. running \in SUBSET Objects /\ CountedOf(c)' \in SUBSET (running \cup {o})
      BY <2>1 DEF ActiveRuns, Counted, CountedOf
    <3> HIDE DEF running
    <3> QED BY <3>1, <1>2, OneMore, LimitAssumption
  <2>2. CASE c # cred
    <3>1. CountedOf(c)' \in SUBSET CountedOf(c) /\ CountedOf(c) \in SUBSET Objects
      BY <2>2 DEF ActiveRuns, Counted, CountedOf
    <3>2. Cardinality(CountedOf(c)') <= Cardinality(CountedOf(c))
          /\ Cardinality(CountedOf(c)) \in Nat /\ Cardinality(CountedOf(c)') \in Nat
      BY <3>1, SmallerSet, ObjectsFinite
    <3> QED BY <3>2, LimitAssumption DEF LimitsInv
  <2> QED BY <2>1, <2>2
<1> QED BY <1>4, <1>5 DEF LimitsInv

-----------------------------------------------------------------------------
(* The steps by what they do to the registry *)

Unmoved == \A p \in Objects : obj'[p] = obj[p] /\ (Registered(p)' <=> Registered(p))

Moves(o, new) ==
  /\ obj'[o] = new /\ new.id = obj[o].id /\ Exists(o) /\ new.st # "none"
  /\ \A p \in Objects : p # o => obj'[p] = obj[p]
  /\ \A p \in Objects : Registered(p)' <=> Registered(p)

\* Some objects are closed; the ids of those are unregistered.
Leaves(os) ==
  /\ os \in SUBSET Objects /\ \A p \in os : Exists(p) /\ Cut(p, obj'[p]) /\ ~Registered(p)'
  /\ \A p \in Objects \ os : obj'[p] = obj[p]
  /\ \A p \in Objects : Registered(p)' => Registered(p)
  /\ \A p \in Objects : Registered(p) /\ ~Registered(p)' => \E o \in os : obj[o].id = obj[p].id

LEMMA UnmovedSteps ==
  ASSUME Base, (\E r \in Requests : \E new : QuietStep(r, new)) \/ CalmStep
               \/ \E o \in Objects : ReleaseStep(o)
  PROVE  Unmoved
BY DEF Unmoved, QuietStep, CalmStep, ReleaseStep, registryVars, Registered, Exists

LEMMA OneMoves ==
  ASSUME Base, NEW o \in Objects, NEW new, Changes(o, new), Exists(o), new.id = obj[o].id,
         new.st # "none", sessions' = sessions
  PROVE  Moves(o, new)
<1>1. obj'[o] = new /\ \A p \in Objects : p # o => obj'[p] = obj[p]
  BY ChangeTyped DEF Base, Typed
<1>2. \A p \in Objects : Registered(p)' <=> Registered(p)
  BY <1>1 DEF Registered, Exists
<1> QED BY <1>1, <1>2 DEF Moves

LEMMA FollowMoves ==
  ASSUME Base, NEW r \in Requests, NEW o \in Objects, NEW new, NEW ask, FollowStep(r, o, new, ask)
  PROVE  Moves(o, new)
BY OneMoves DEF FollowStep, Registered

LEMMA AcceptMoves ==
  ASSUME Base, NEW r \in Requests, NEW o \in Objects, NEW new, NEW ask, AcceptStep(r, o, new, ask)
  PROVE  Moves(o, new)
BY OneMoves DEF AcceptStep, Registered

LEMMA OpenedMoves ==
  ASSUME Base, NEW r \in Requests, NEW o \in Objects, NEW new, OpenedStep(r, o, new)
  PROVE  Moves(o, new) /\ OpeningOk(r) /\ new.st \in {"running", "resuming", "closed"}
         /\ (new.st = "closed" => obj[o].st = "closed")
<1>1. /\ Exists(o) /\ OpeningOk(r) /\ Changes(o, new) /\ new.id = obj[o].id /\ sessions' = sessions
      /\ req[r].obj = o
      /\ new.st = IF req[r].mode \in {"start", "transcript"} THEN "running" ELSE obj[o].st
  BY DEF OpenedStep, Base, ReqInv
<1>2. new.st \in {"running", "resuming", "closed"} /\ (new.st = "closed" => obj[o].st = "closed")
  BY <1>1 DEF OpeningOk
<1> QED BY <1>1, <1>2, OneMoves

\* An object with a run has been made.
LEMMA RunExists ==
  ASSUME Base, NEW o \in Objects, obj[o].run # "none" \/ obj[o].boundary # "none" PROVE Exists(o)
BY DEF Base, SessionsInv, NoObject

LEMMA AskMoves ==
  ASSUME Base, NEW o \in Objects, NEW new, AskStep(o, new)
  PROVE  Moves(o, new)
<1>1. Exists(o)
  BY RunExists DEF AskStep
<1> QED BY <1>1, OneMoves DEF AskStep, Exists

LEMMA EndMoves ==
  ASSUME Base, NEW o \in Objects, NEW new, EndStep(o, new)
  PROVE  Moves(o, new) /\ (new.st = "closed" \/ new.st = obj[o].st)
<1>1. Exists(o)
  BY RunExists DEF EndStep
<1>2. new.st = "closed" \/ new.st = obj[o].st
  BY GoneFacts DEF EndStep
<1> QED BY <1>1, <1>2, OneMoves DEF EndStep, Exists

LEMMA AnswerMoves ==
  ASSUME Base, NEW o \in Objects, NEW new, AnswerStep(o, new)
  PROVE  Moves(o, new) /\ new.st \in {"awaiting", "completed", "failed"}
<1>1. Exists(o)
  BY RunExists DEF AnswerStep
<1>2. new.st \in {"awaiting", "completed", "failed"}
  BY DEF AnswerStep, StateAfter, Base, Typed, ObjectsTyped, Object
<1> QED BY <1>1, <1>2, OneMoves DEF AnswerStep

LEMMA ForgetLeaves ==
  ASSUME Base, NEW os, os \in SUBSET Objects, \A o \in os : Exists(o), Forget(os)
  PROVE  Leaves(os)
<1>1. /\ KeepsObjects /\ Unregisters
      /\ \A p \in Objects \ os : obj'[p] = obj[p]
      /\ \A p \in os : Cut(p, obj'[p]) /\ ~Registered(p)'
  BY ForgetFacts
<1>2. ASSUME NEW p \in Objects PROVE Registered(p)' => Registered(p)
  <2>1. Exists(p) => obj'[p].id = obj[p].id /\ obj[p].id \in Ids
    BY <1>1 DEF KeepsObjects, Base, SessionsInv
  <2>2. Exists(p)' => Exists(p)
    BY <1>1 DEF KeepsObjects, Exists
  <2> QED BY <1>1, <2>1, <2>2, NoneFacts DEF Registered, Unregisters
<1>3. ASSUME NEW p \in Objects, Registered(p), ~Registered(p)' PROVE \E o \in os : obj[o].id = obj[p].id
  <2>1. obj[p].id \in Ids /\ Exists(p) /\ sessions[obj[p].id] = p
    BY <1>3 DEF Registered, Base, SessionsInv
  <2>2. Exists(p)' /\ obj'[p].id = obj[p].id
    BY <1>1, <2>1 DEF KeepsObjects, Exists
  <2>3. sessions'[obj[p].id] # sessions[obj[p].id]
    BY <1>3, <2>1, <2>2 DEF Registered
  <2> QED BY <2>1, <2>3 DEF Forget
<1> QED BY <1>1, <1>2, <1>3 DEF Leaves

LEMMA RestartLeaves ==
  ASSUME Base, Restart
  PROVE  \A p \in Objects : ~Registered(p)' /\ obj'[p].run = "none" /\ obj'[p].agent = None
                            /\ obj'[p].boundary = "none" /\ obj'[p].pending = {}
                            /\ obj'[p].segment = NoKey
                            /\ (Exists(p) => Exists(p)' /\ obj'[p].id = obj[p].id)
                            /\ obj'[p].rounds = obj[p].rounds - (IF Unshown(p) THEN 1 ELSE 0)
<1> SUFFICES ASSUME NEW p \in Objects
             PROVE  /\ ~Registered(p)' /\ obj'[p].run = "none" /\ obj'[p].agent = None
                    /\ obj'[p].boundary = "none" /\ obj'[p].pending = {}
                    /\ obj'[p].segment = NoKey
                    /\ (Exists(p) => Exists(p)' /\ obj'[p].id = obj[p].id)
                    /\ obj'[p].rounds = obj[p].rounds - (IF Unshown(p) THEN 1 ELSE 0)
  OBVIOUS
<1>1. obj'[p] = IF Exists(p) THEN Gone(p) ELSE NoObject
  BY DEF Restart
<1>2. Base' /\ \A i \in Ids : sessions'[i] = None
  BY RestartBase DEF Restart
<1>3. ~Registered(p)'
  <2>1. Exists(p)' => obj'[p].id \in Ids
    BY <1>2 DEF Base, SessionsInv
  <2> QED BY <2>1, <1>2, NoneFacts DEF Registered
<1>4. CASE Exists(p)
  <2>1. Exists(p)'
    BY <1>1, <1>4, GoneFacts DEF Exists
  <2> QED BY <1>1, <1>3, <1>4, <2>1, GoneFacts
<1>5. CASE ~Exists(p)
  <2>1. obj[p] = NoObject /\ obj'[p] = NoObject
    BY <1>1, <1>5 DEF Base, SessionsInv
  <2>2. /\ NoObject.run = "none" /\ NoObject.agent = None /\ NoObject.boundary = "none"
        /\ NoObject.pending = {} /\ NoObject.segment = NoKey /\ NoObject.rounds = 0
    BY DEF NoObject
  <2>3. ~Unshown(p)
    BY <2>1, <2>2 DEF Unshown
  <2>4. obj[p].rounds - 0 = obj'[p].rounds
    BY <2>1, <2>2
  <2> QED BY <1>3, <1>5, <2>1, <2>2, <2>3, <2>4
<1> QED BY <1>4, <1>5

LEMMA OpenFailsLeaves ==
  ASSUME Base, NEW r \in Requests, OpenFails(r)
  PROVE  /\ req[r].obj \in Objects /\ Opening(req[r].obj) /\ Leaves({req[r].obj})
<1>1. /\ req[r].pc = "opening" /\ req[r].obj \in Objects /\ Exists(req[r].obj) /\ Forget({req[r].obj})
  BY DEF OpenFails, Base, Typed, RequestsTyped, ReqInv
<1>2. \A o \in {req[r].obj} : Exists(o)
  BY <1>1
<1>3. Leaves({req[r].obj})
  BY <1>1, <1>2, ForgetLeaves
<1> QED BY <1>1, <1>3 DEF Opening

-----------------------------------------------------------------------------
(* Which runs are counted *)

LEMMA MoveCounts ==
  ASSUME NEW o \in Objects, NEW new, Moves(o, new), new.credential = obj[o].credential,
         Registered(o) /\ new.st \in ActiveStates /\ ~new.continued =>
           obj[o].st \in ActiveStates /\ ~obj[o].continued
  PROVE  NoneBegins
BY DEF Moves, NoneBegins

LEMMA LeaveCounts ==
  ASSUME NEW os, Leaves(os)
  PROVE  NoneBegins
<1> SUFFICES ASSUME NEW p \in Objects, Registered(p)' PROVE Registered(p) /\ obj'[p] = obj[p]
  BY DEF NoneBegins
<1> QED BY DEF Leaves

\* An object that makes its first step is counted by those who admitted it.
LEMMA CreateLimits ==
  ASSUME Base, LimitsInv, NEW r \in Requests, NEW o \in Objects, NEW i \in Ids, NEW new,
         CreateStep(r, o, i, new)
  PROVE  LimitsInv'
<1>1. /\ obj'[o] = new /\ (\A p \in Objects : p # o => obj'[p] = obj[p])
      /\ sessions'[i] = o /\ (\A j \in Ids : j # i => sessions'[j] = sessions[j])
  BY CreateFacts
<1>2. CanActivate(obj'[o].credential, None) /\ None \notin ActiveRuns
  BY <1>1, NoneFacts DEF CreateStep, ActiveRuns
<1>3. ASSUME NEW p \in Objects \ {o}, Registered(p)' PROVE Registered(p) /\ obj'[p] = obj[p]
  <2>1. Exists(p) /\ obj'[p] = obj[p] /\ sessions'[obj[p].id] = p
    BY <1>1, <1>3 DEF Registered, Exists
  <2>2. obj[p].id \in Ids
    BY <2>1 DEF Base, SessionsInv
  <2>3. obj[p].id # i
    BY <1>1, <2>1
  <2> QED BY <1>1, <2>1, <2>2, <2>3 DEF Registered
<1> QED BY <1>2, <1>3, OneBegins

LEMMA FollowLimits ==
  ASSUME Base, LimitsInv, NEW r \in Requests, NEW o \in Objects, NEW new, NEW ask,
         FollowStep(r, o, new, ask)
  PROVE  LimitsInv'
<1>1. Moves(o, new)
  BY FollowMoves
<1>2. CanActivate(obj'[o].credential, o) /\ o \notin ActiveRuns
  BY <1>1 DEF FollowStep, Moves, ActiveRuns, ActiveStates
<1>3. \A p \in Objects \ {o} : Registered(p)' => Registered(p) /\ obj'[p] = obj[p]
  BY <1>1 DEF Moves
<1> QED BY <1>2, <1>3, OneBegins

LEMMA OpenedCounts ==
  ASSUME Base, NEW r \in Requests, NEW o \in Objects, NEW new, OpenedStep(r, o, new)
  PROVE  NoneBegins
<1>1. Moves(o, new) /\ OpeningOk(r)
  BY OpenedMoves
<1>2. new.credential = obj[o].credential /\ new.continued = obj[o].continued /\ req[r].obj = o
  BY DEF OpenedStep
<1>3. Registered(o) => obj[o].st # "closed"
  BY DEF Base, StatesInv, DrivenOk
<1>4. Registered(o) => obj[o].st \in ActiveStates
  BY <1>1, <1>2, <1>3 DEF OpeningOk, ActiveStates
<1> QED BY <1>1, <1>2, <1>4, MoveCounts

LEMMA EndCounts ==
  ASSUME Base, NEW o \in Objects, NEW new, EndStep(o, new)
  PROVE  NoneBegins
<1>1. Moves(o, new)
  BY EndMoves
<1>2. CASE obj[o].run = "cancelled" /\ new = Gone(o)
  <2>1. ~Registered(o)
    BY <1>2 DEF Base, StatesInv, DrivenOk
  <2> QED BY <1>1, <2>1 DEF Moves, NoneBegins
<1>3. CASE /\ new.credential = obj[o].credential /\ new.st = obj[o].st
           /\ new.continued = obj[o].continued
  BY <1>1, <1>3, MoveCounts
<1> QED BY <1>2, <1>3 DEF EndStep

LEMMA LimitsStep ==
  ASSUME Base, LimitsInv, NextStep PROVE LimitsInv'
<1>1. ASSUME Unmoved PROVE NoneBegins
  BY <1>1 DEF Unmoved, NoneBegins
<1>2. ASSUME NEW r \in Requests, NEW o \in Objects, NEW new, NEW ask, AcceptStep(r, o, new, ask)
      PROVE  NoneBegins
  BY <1>2, AcceptMoves, MoveCounts DEF AcceptStep
<1>3. ASSUME NEW o \in Objects, NEW new, AskStep(o, new) PROVE NoneBegins
  BY <1>3, AskMoves, MoveCounts DEF AskStep
<1>4. ASSUME NEW o \in Objects, NEW new, AnswerStep(o, new) PROVE NoneBegins
  <2>1. new.st \notin ActiveStates /\ Moves(o, new)
    BY <1>4, AnswerMoves DEF ActiveStates
  <2> QED BY <1>4, <2>1, MoveCounts DEF AnswerStep
<1>5. ASSUME NEW os, ForgetStep(os) PROVE NoneBegins
  <2>1. os \in SUBSET Objects /\ (\A o \in os : Exists(o)) /\ Forget(os)
    BY <1>5 DEF ForgetStep, Registered
  <2> QED BY <2>1, ForgetLeaves, LeaveCounts
<1>6. ASSUME NEW r \in Requests, OpenFails(r) PROVE NoneBegins
  BY <1>6, OpenFailsLeaves, LeaveCounts
<1>7. ASSUME Restart PROVE NoneBegins
  <2>1. \A p \in Objects : ~Registered(p)'
    BY <1>7, RestartLeaves
  <2> QED BY <2>1 DEF NoneBegins
<1>8. CASE \E r \in Requests, o \in Objects, i \in Ids : \E new : CreateStep(r, o, i, new)
  BY <1>8, CreateLimits
<1>9. CASE \E r \in Requests, o \in Objects : \E new, ask : FollowStep(r, o, new, ask)
  BY <1>9, FollowLimits
<1>10. CASE NoneBegins
  BY <1>10, LimitsKept
<1> QED
  BY ONLY <1>1, <1>2, <1>3, <1>4, <1>5, <1>6, <1>7, <1>8, <1>9, <1>10, NextStep, Base,
          UnmovedSteps, OpenedCounts, EndCounts
     DEF NextStep

\* Runs that were admitted stay within the limits of the process and of their credential: what is
\* checked before a session is made, adopted or followed up (assertCanActivateRun) is not undone by
\* sends that return, results that come back, sweeps or a restart.
THEOREM RunsWithinLimits == Spec => []ActivatedRunsWithinLimits
<1>1. Init => LimitsInv
  <2> SUFFICES ASSUME Init PROVE LimitsInv
    OBVIOUS
  <2>1. Counted = {} /\ \A c : CountedOf(c) = {}
    BY DEF Init, RegistryInit, Counted, CountedOf, ActiveRuns, Registered, Exists, NoObject
  <2>2. Cardinality({}) = 0
    BY FS_EmptySet
  <2> QED BY <2>1, <2>2, LimitAssumption DEF LimitsInv
<1>2. Base /\ LimitsInv /\ [Next]_vars => LimitsInv'
  BY NextCases, LimitsStep
<1>3. LimitsInv => ActivatedRunsWithinLimits
  BY LimitsGive
<1> QED BY BaseHolds, <1>1, <1>2, <1>3, PTL DEF Spec

-----------------------------------------------------------------------------
(* A drained process is idle *)

InUse(p) == Registered(p) /\ obj[p].st \in ActiveStates \cup {"awaiting"}

DrainInv == draining = "done" => \A p \in Objects : ~InUse(p)

LEMMA DrainGives == DrainInv <=> DrainedStaysEmpty
BY DEF DrainInv, DrainedStaysEmpty, InUse, ActiveRuns, Awaiting

\* Nothing begins, and the drain is over only when it was over before.
LEMMA DrainKept ==
  ASSUME DrainInv, draining' = draining, \A p \in Objects : InUse(p)' => InUse(p)
  PROVE  DrainInv'
BY DEF DrainInv

\* An object that was in use moves.
LEMMA DrainMoves ==
  ASSUME DrainInv, draining' = draining, NEW o \in Objects, NEW new, Moves(o, new),
         Registered(o) => InUse(o) \/ new.st \notin ActiveStates \cup {"awaiting"}
  PROVE  DrainInv'
<1> SUFFICES ASSUME NEW p \in Objects, InUse(p)' PROVE InUse(p)
  BY DrainKept
<1>1. CASE p # o
  BY <1>1 DEF Moves, InUse
<1>2. CASE p = o
  BY <1>2 DEF Moves, InUse
<1> QED BY <1>1, <1>2

LEMMA DrainLeaves ==
  ASSUME DrainInv, draining' = draining, NEW os, Leaves(os)
  PROVE  DrainInv'
<1> SUFFICES ASSUME NEW p \in Objects, InUse(p)' PROVE InUse(p)
  BY DrainKept
<1>1. Registered(p)' /\ Registered(p) /\ obj'[p] = obj[p]
  BY DEF Leaves, InUse
<1> QED BY <1>1 DEF InUse

LEMMA CalmDrain ==
  ASSUME Base, DrainInv, CalmStep
  PROVE  DrainInv'
<1>1. \A p \in Objects : InUse(p)' <=> InUse(p)
  BY DEF CalmStep, InUse, Registered, Exists
<1>2. ASSUME draining' = "done" PROVE \A p \in Objects : ~InUse(p)
  <2>1. CASE draining = "done"
    BY <2>1 DEF DrainInv
  <2>2. CASE ~(ActiveCount > 0)
    <3> DEFINE used == ActiveRuns \cup Awaiting
    <3>1. used \in SUBSET Objects
      BY DEF ActiveRuns, Awaiting
    <3>2. IsFiniteSet(used) /\ Cardinality(used) \in Nat
      BY <3>1, ObjectsFinite
    <3>3. Cardinality(used) = 0
      BY <2>2, <3>2 DEF ActiveCount
    <3>4. used = {}
      BY <3>2, <3>3, FS_EmptySet
    <3> QED BY <3>4 DEF ActiveRuns, Awaiting, InUse
  <2> QED BY <2>1, <2>2, <1>2 DEF CalmStep
<1> QED BY <1>1, <1>2 DEF DrainInv

LEMMA AnswerDrain ==
  ASSUME Base, DrainInv, NEW o \in Objects, NEW new, AnswerStep(o, new)
  PROVE  DrainInv'
<1>1. Moves(o, new) /\ draining' = draining
  BY AnswerMoves DEF AnswerStep
<1>2. ASSUME Registered(o) PROVE InUse(o)
  <2>1. obj[o].st \notin {"completed", "failed", "closed"}
    BY <1>2 DEF AnswerStep, Base, StatesInv, StateOk, DrivenOk
  <2>2. obj[o].st \in States /\ obj[o].st # "none"
    BY <1>2 DEF Registered, Exists, Base, Typed, ObjectsTyped, Object
  <2> QED BY <1>2, <2>1, <2>2 DEF InUse, States
<1> QED BY <1>1, <1>2, DrainMoves

LEMMA OpenedDrain ==
  ASSUME Base, DrainInv, NEW r \in Requests, NEW o \in Objects, NEW new, OpenedStep(r, o, new)
  PROVE  DrainInv'
<1>1. Moves(o, new) /\ OpeningOk(r)
  BY OpenedMoves
<1>2. draining' = draining /\ req[r].obj = o
  BY DEF OpenedStep
<1>3. ASSUME Registered(o) PROVE InUse(o)
  <2>1. obj[o].st # "closed"
    BY <1>3 DEF Base, StatesInv, DrivenOk
  <2> QED BY <1>1, <1>2, <1>3, <2>1 DEF OpeningOk, ActiveStates, InUse
<1> QED BY <1>1, <1>2, <1>3, DrainMoves

LEMMA EndDrainKept ==
  ASSUME Base, DrainInv, NEW o \in Objects, NEW new, EndStep(o, new)
  PROVE  DrainInv'
<1>1. Moves(o, new) /\ draining' = draining
  BY EndMoves DEF EndStep
<1>2. new.st = "closed" \/ new.st = obj[o].st
  BY EndMoves
<1>3. Registered(o) => InUse(o) \/ new.st \notin ActiveStates \cup {"awaiting"}
  BY <1>2 DEF InUse, ActiveStates
<1> QED BY <1>1, <1>3, DrainMoves

LEMMA ForgetDrain ==
  ASSUME Base, DrainInv, NEW os, ForgetStep(os)
  PROVE  DrainInv'
<1>1. os \in SUBSET Objects /\ (\A o \in os : Exists(o)) /\ Forget(os)
      /\ (draining' = draining \/ os = {o \in Objects : Registered(o)})
  BY DEF ForgetStep, Registered
<1>2. Leaves(os)
  BY <1>1, ForgetLeaves
<1>3. CASE draining' = draining
  BY <1>2, <1>3, DrainLeaves
<1>4. CASE os = {o \in Objects : Registered(o)}
  <2>1. \A p \in Objects : ~Registered(p)'
    BY <1>2, <1>4 DEF Leaves
  <2> QED BY <2>1 DEF DrainInv, InUse
<1> QED BY <1>1, <1>3, <1>4

LEMMA DrainStep ==
  ASSUME Base, DrainInv, NextStep PROVE DrainInv'
<1>1. ASSUME NEW r \in Requests, NEW new, QuietStep(r, new) PROVE DrainInv'
  BY <1>1 DEF QuietStep, registryVars, DrainInv, InUse, Registered, Exists
<1>2. ASSUME NEW o \in Objects, ReleaseStep(o) PROVE DrainInv'
  BY <1>2 DEF ReleaseStep, registryVars, DrainInv, InUse, Registered, Exists
<1>3. ASSUME NEW r \in Requests, NEW o \in Objects, NEW i \in Ids, NEW new, CreateStep(r, o, i, new)
      PROVE  DrainInv'
  BY <1>3 DEF CreateStep, CanActivate, DrainInv
<1>4. ASSUME NEW r \in Requests, NEW o \in Objects, NEW new, NEW ask, FollowStep(r, o, new, ask)
      PROVE  DrainInv'
  BY <1>4 DEF FollowStep, CanActivate, DrainInv
<1>5. ASSUME NEW r \in Requests, NEW o \in Objects, NEW new, NEW ask, AcceptStep(r, o, new, ask)
      PROVE  DrainInv'
  <2>1. InUse(o) /\ draining' = draining
    BY <1>5 DEF AcceptStep, InUse
  <2> QED BY <1>5, <2>1, AcceptMoves, DrainMoves
<1>6. ASSUME NEW o \in Objects, NEW new, AskStep(o, new) PROVE DrainInv'
  <2>1. new.st = obj[o].st /\ draining' = draining
    BY <1>6 DEF AskStep
  <2>2. Registered(o) => InUse(o) \/ new.st \notin ActiveStates \cup {"awaiting"}
    BY <2>1 DEF InUse
  <2> QED BY <1>6, <2>1, <2>2, AskMoves, DrainMoves
<1>7. ASSUME NEW r \in Requests, OpenFails(r) PROVE DrainInv'
  <2>1. draining' = draining
    BY <1>7 DEF OpenFails
  <2> QED BY <1>7, <2>1, OpenFailsLeaves, DrainLeaves
<1>8. ASSUME Restart PROVE DrainInv'
  BY <1>8 DEF Restart, DrainInv
<1> QED
  BY ONLY <1>1, <1>2, <1>3, <1>4, <1>5, <1>6, <1>7, <1>8, NextStep, Base, DrainInv,
          CalmDrain, AnswerDrain, OpenedDrain, EndDrainKept, ForgetDrain
     DEF NextStep

\* When drain has returned no session is at work or waiting, and none begins: neither a send that
\* was on the way, nor results or a follow-up that arrive later, brings one back.
THEOREM DrainedIsIdle == Spec => []DrainedStaysEmpty
<1>1. Init => DrainInv
  BY DEF Init, RegistryInit, DrainInv
<1>2. Base /\ DrainInv /\ [Next]_vars => DrainInv'
  BY NextCases, DrainStep
<1>3. DrainInv => DrainedStaysEmpty
  BY DrainGives
<1> QED BY BaseHolds, <1>1, <1>2, <1>3, PTL DEF Spec

-----------------------------------------------------------------------------
(* Ids stay, and the agent of an object, a file or a request belongs to the   *)
(* session it is used for                                                     *)

KeepsIds == \A p \in Objects : Exists(p) => obj'[p].st # "none" /\ obj'[p].id = obj[p].id

LEMMA MovesKeepsIds ==
  ASSUME NEW o, NEW new, Moves(o, new) PROVE KeepsIds
BY DEF Moves, KeepsIds, Exists

LEMMA LeavesKeepsIds ==
  ASSUME NEW os, Leaves(os) PROVE KeepsIds
<1> SUFFICES ASSUME NEW p \in Objects, Exists(p)
             PROVE  obj'[p].st # "none" /\ obj'[p].id = obj[p].id
  BY DEF KeepsIds
<1>1. CASE p \in os
  BY <1>1 DEF Leaves, Cut
<1>2. CASE p \notin os
  BY <1>2 DEF Leaves, Exists
<1> QED BY <1>1, <1>2

LEMMA CreateKeepsIds ==
  ASSUME Base, NEW r \in Requests, NEW o \in Objects, NEW i \in Ids, NEW new,
         CreateStep(r, o, i, new)
  PROVE  KeepsIds
<1>1. ~Exists(o) /\ (\A p \in Objects : p # o => obj'[p] = obj[p])
  BY CreateFacts
<1> QED BY <1>1 DEF KeepsIds, Exists

LEMMA ForgetStepLeaves ==
  ASSUME Base, NEW os, ForgetStep(os) PROVE Leaves(os)
<1>1. os \in SUBSET Objects /\ (\A o \in os : Exists(o)) /\ Forget(os)
  BY DEF ForgetStep, Registered
<1> QED BY <1>1, ForgetLeaves

LEMMA UnmovedKeepsIds ==
  ASSUME Unmoved PROVE KeepsIds
BY DEF Unmoved, KeepsIds, Exists

\* a belongs to the session with id i.
AgentOf(a, i) == a \in Objects /\ Exists(a) /\ obj[a].id = i

AgentsInv ==
  /\ \A o \in Objects : obj[o].agent # None => AgentOf(obj[o].agent, obj[o].id)
  /\ \A i \in Ids : lineage[i].agent # None => AgentOf(lineage[i].agent, i)
  /\ \A r \in Requests : req[r].pc = "opening" /\ req[r].agent # None =>
       AgentOf(req[r].agent, obj[req[r].obj].id)

\* Every agent that is named was named before, by the same, or belongs there.
AgentsNamed ==
  /\ \A o \in Objects : obj'[o].agent # None =>
       \/ Exists(o) /\ obj'[o].agent = obj[o].agent
       \/ AgentOf(obj'[o].agent, obj'[o].id)
  /\ \A i \in Ids : lineage'[i].agent # None =>
       lineage'[i].agent = lineage[i].agent \/ AgentOf(lineage'[i].agent, i)
  /\ \A r \in Requests : req'[r].pc = "opening" /\ req'[r].agent # None =>
       \/ req'[r] = req[r]
       \/ AgentOf(req'[r].agent, obj'[req'[r].obj].id)

LEMMA AgentsKept ==
  ASSUME Base, AgentsInv, KeepsIds, AgentsNamed
  PROVE  AgentsInv'
<1>1. \A a, i : AgentOf(a, i) => a \in Objects /\ obj'[a].st # "none" /\ obj'[a].id = i
  BY DEF AgentOf, KeepsIds
<1>2. ASSUME NEW o \in Objects, obj'[o].agent # None PROVE AgentOf(obj[o].agent, obj[o].id)'
  <2>1. CASE Exists(o) /\ obj'[o].agent = obj[o].agent
    <3>1. AgentOf(obj[o].agent, obj[o].id) /\ obj'[o].id = obj[o].id
      BY <1>2, <2>1 DEF AgentsInv, KeepsIds
    <3> QED BY <3>1, <2>1, <1>1 DEF AgentOf, Exists
  <2>2. CASE AgentOf(obj'[o].agent, obj'[o].id)
    BY <2>2, <1>1 DEF AgentOf, Exists
  <2> QED BY <1>2, <2>1, <2>2 DEF AgentsNamed
<1>3. ASSUME NEW i \in Ids, lineage'[i].agent # None PROVE AgentOf(lineage[i].agent, i)'
  <2>1. AgentOf(lineage'[i].agent, i)
    BY <1>3 DEF AgentsNamed, AgentsInv
  <2> QED BY <2>1, <1>1 DEF AgentOf, Exists
<1>4. ASSUME NEW r \in Requests, req'[r].pc = "opening" /\ req'[r].agent # None
      PROVE  AgentOf(req[r].agent, obj[req[r].obj].id)'
  <2>1. CASE req'[r] = req[r]
    <3>1. req[r].obj \in Objects /\ Exists(req[r].obj)
      BY <1>4, <2>1 DEF Base, Typed, RequestsTyped, ReqInv
    <3>2. obj'[req[r].obj].id = obj[req[r].obj].id
      BY <3>1 DEF KeepsIds
    <3>3. AgentOf(req[r].agent, obj[req[r].obj].id)
      BY <1>4, <2>1 DEF AgentsInv
    <3> QED BY <2>1, <3>2, <3>3, <1>1 DEF AgentOf, Exists
  <2>2. CASE AgentOf(req'[r].agent, obj'[req'[r].obj].id)
    BY <2>2, <1>1 DEF AgentOf, Exists
  <2> QED BY <1>4, <2>1, <2>2 DEF AgentsNamed
<1> QED BY <1>2, <1>3, <1>4 DEF AgentsInv

\* An object with an agent has been made.
LEMMA AgentExists ==
  ASSUME Base, NEW o \in Objects, obj[o].agent # None PROVE Exists(o)
BY DEF Base, SessionsInv, NoObject

\* Only the request that makes the object changes: it opens it, or it is refused.
LEMMA CreateAsks ==
  ASSUME Base, NEW r \in Requests, NEW o \in Objects, NEW i \in Ids, NEW new,
         CreateStep(r, o, i, new)
  PROVE  \A q \in Requests : q # r => req'[q] = req[q]
<1>1. req \in [Requests -> Request]
  BY DEF Base, Typed, RequestsTyped
<1>2. CASE req' = [req EXCEPT ![r] = Idle]
  BY <1>1, <1>2
<1>3. ASSUME NEW mode, NEW k, NEW a, Opens(r, o, k, mode, a)
      PROVE  \A q \in Requests : q # r => req'[q] = req[q]
  BY <1>1, <1>3 DEF Opens
<1> QED BY <1>2, <1>3 DEF CreateStep, OpensNew

LEMMA CreateNames ==
  ASSUME Base, AgentsInv, NEW r \in Requests, NEW o \in Objects, NEW i \in Ids, NEW new,
         CreateStep(r, o, i, new)
  PROVE  AgentsNamed
<1>a. obj'[o] = new /\ (\A p \in Objects : p # o => obj'[p] = obj[p])
  BY CreateFacts
<1>b. new.agent = None /\ new.id = i /\ lineage' = lineage
  BY DEF CreateStep, IsNew, disk
<1>1. /\ obj'[o] = new /\ (\A p \in Objects : p # o => obj'[p] = obj[p])
      /\ new.agent = None /\ new.id = i /\ lineage' = lineage
  BY <1>a, <1>b
<1>2. \A p \in Objects : obj'[p].agent # None => Exists(p) /\ obj'[p].agent = obj[p].agent
  BY <1>1, AgentExists
<1>3. ASSUME NEW q \in Requests, req'[q].pc = "opening", req'[q].agent # None
      PROVE  req'[q] = req[q] \/ AgentOf(req'[q].agent, obj'[req'[q].obj].id)
  <2>1. CASE q # r
    <3>1. req'[q] = req[q]
      BY <2>1, CreateAsks
    <3> QED BY <3>1
  <2>2. CASE q = r
    <3>1. PICK mode \in Modes, k \in Keys, a \in Agents \cup {None} : OpensNew(r, o, i, new, mode, k, a)
      BY <2>2, <1>3 DEF CreateStep, Idle, Base, Typed, RequestsTyped
    <3>2. req'[r].agent = a /\ req'[r].obj = o
      <4>1. Opens(r, o, k, mode, a) /\ (mode = "pending" => k \in ResultKeys)
        BY <3>1 DEF OpensNew
      <4> QED BY <4>1 DEF Opens, Base, Typed, RequestsTyped, Idle
    <3>3. a = lineage[i].agent
      BY <2>2, <1>3, <3>1, <3>2 DEF OpensNew
    <3> QED BY <2>2, <1>1, <1>3, <3>2, <3>3 DEF AgentsInv
  <2> QED BY <2>1, <2>2
<1> QED BY <1>1, <1>2, <1>3 DEF AgentsNamed

LEMMA FollowNames ==
  ASSUME Base, AgentsInv, NEW r \in Requests, NEW o \in Objects, NEW new, NEW ask,
         FollowStep(r, o, new, ask)
  PROVE  AgentsNamed
<1>1. Moves(o, new)
  BY FollowMoves
<1>2. /\ new.agent = obj[o].agent /\ lineage' = lineage /\ ask.agent = obj[o].agent /\ ask.obj = o
      /\ new.id = obj[o].id
  BY DEF FollowStep, disk
<1>3. req'[r] = ask /\ \A q \in Requests : q # r => req'[q] = req[q]
  BY AskTyped DEF FollowStep, Base, Typed
<1>4. \A p \in Objects : obj'[p].agent # None => Exists(p) /\ obj'[p].agent = obj[p].agent
  BY <1>1, <1>2, AgentExists DEF Moves
<1>5. ASSUME NEW q \in Requests, req'[q].pc = "opening", req'[q].agent # None
      PROVE  req'[q] = req[q] \/ AgentOf(req'[q].agent, obj'[req'[q].obj].id)
  BY <1>1, <1>2, <1>3, <1>5 DEF AgentsInv, Moves
<1> QED BY <1>2, <1>4, <1>5 DEF AgentsNamed

LEMMA GoesOnRest ==
  ASSUME NEW r, NEW o, GoesOnStep(r, o)
  PROVE  \A q \in Requests : ~Resolved(r, o, q) => req'[q] = req[q]
<1> SUFFICES ASSUME NEW q \in Requests, ~Resolved(r, o, q) PROVE req'[q] = req[q]
  OBVIOUS
<1> QED BY Zenon DEF GoesOnStep, Resolve, Resolved

LEMMA OpenedNames ==
  ASSUME Base, AgentsInv, NEW r \in Requests, NEW o \in Objects, NEW new, OpenedStep(r, o, new)
  PROVE  AgentsNamed
<1>1. Moves(o, new)
  BY OpenedMoves
<1>2. /\ new.agent = (IF req[r].agent = None THEN o ELSE req[r].agent) /\ lineage' = lineage
      /\ req[r].obj = o /\ req[r].pc = "opening" /\ new.id = obj[o].id /\ GoesOnStep(r, o)
  BY DEF OpenedStep, GoesOnStep
<1>3. AgentOf(new.agent, new.id)
  BY <1>1, <1>2 DEF AgentsInv, AgentOf, Moves
<1>4. \A p \in Objects : obj'[p].agent # None =>
        (Exists(p) /\ obj'[p].agent = obj[p].agent) \/ AgentOf(obj'[p].agent, obj'[p].id)
  BY <1>1, <1>3, AgentExists DEF Moves
<1>5. \A q \in Requests : Resolved(r, o, q) => req'[q].pc = "driving"
  BY <1>2, GoesOn
<1>6. \A q \in Requests : ~Resolved(r, o, q) => req'[q] = req[q]
  BY <1>2, GoesOnRest
<1>7. \A q \in Requests : req'[q].pc = "opening" => req'[q] = req[q]
  BY <1>5, <1>6
<1> QED BY <1>2, <1>4, <1>7 DEF AgentsNamed

\* What ends no agent's use for another.
LEMMA SameNames ==
  ASSUME Base,
         \A p \in Objects : obj'[p].agent \in {obj[p].agent, None},
         \A i \in Ids : lineage'[i] \in {lineage[i], NoFile},
         \A q \in Requests : req'[q].pc = "opening" => req'[q] = req[q]
  PROVE  AgentsNamed
<1>1. \A p \in Objects : obj'[p].agent # None => Exists(p) /\ obj'[p].agent = obj[p].agent
  BY AgentExists
<1>2. \A i \in Ids : lineage'[i].agent # None => lineage'[i].agent = lineage[i].agent
  BY DEF NoFile
<1> QED BY <1>1, <1>2 DEF AgentsNamed

LEMMA AnswerNames ==
  ASSUME Base, AgentsInv, NEW o \in Objects, NEW new, AnswerStep(o, new)
  PROVE  AgentsNamed
<1>1. Moves(o, new) /\ new.st \in {"awaiting", "completed", "failed"}
  BY AnswerMoves
<1>2. Exists(o) /\ PersistLineage(o, new.st) /\ Freed(o) /\ new.agent = obj[o].agent
  BY <1>1 DEF AnswerStep, Moves
<1>3. \A i \in Ids : lineage'[i] = lineage[i] \/ (i = obj[o].id /\ lineage'[i] = RecordOf(o, new.st))
  BY <1>1, <1>2, WriteFacts
<1>4. \A i \in Ids : lineage'[i].agent # None =>
        lineage'[i].agent = lineage[i].agent \/ AgentOf(lineage'[i].agent, i)
  BY <1>3 DEF RecordOf, AgentsInv
<1>5. \A p \in Objects : obj'[p].agent # None => Exists(p) /\ obj'[p].agent = obj[p].agent
  BY <1>1, <1>2, AgentExists DEF Moves
<1>6. \A q \in Requests : req'[q].pc = "opening" => req'[q] = req[q]
  <2>1. /\ \A q \in Requests : q \notin Driving(o) => req'[q] = req[q]
        /\ \A q \in Driving(o) : req'[q].pc = "idle"
    BY <1>2, FreedFacts
  <2> QED BY <2>1
<1> QED BY <1>4, <1>5, <1>6 DEF AgentsNamed

\* Nobody begins to open an object.
OpeningsStay == \A q \in Requests : req'[q].pc = "opening" => req'[q] = req[q]

LEMMA StayOpenings ==
  ASSUME OpeningsStay, NEW p, Opening(p)' PROVE Opening(p)
BY DEF OpeningsStay, Opening

LEMMA QuietStay ==
  ASSUME Base, NEW r \in Requests, NEW new, QuietStep(r, new) PROVE OpeningsStay
<1>1. req'[r] = new /\ \A q \in Requests : q # r => req'[q] = req[q]
  BY AskTyped DEF QuietStep, Base, Typed
<1> QED BY <1>1 DEF QuietStep, OpeningsStay

LEMMA AcceptStay ==
  ASSUME Base, NEW r \in Requests, NEW o \in Objects, NEW new, NEW ask, AcceptStep(r, o, new, ask)
  PROVE  OpeningsStay
<1>1. req'[r] = ask /\ \A q \in Requests : q # r => req'[q] = req[q]
  BY AskTyped DEF AcceptStep, Base, Typed
<1> QED BY <1>1 DEF AcceptStep, OpeningsStay

LEMMA OpenedStay ==
  ASSUME Base, NEW r \in Requests, NEW o \in Objects, NEW new, OpenedStep(r, o, new)
  PROVE  OpeningsStay
<1>1. GoesOnStep(r, o)
  BY DEF OpenedStep, GoesOnStep
<1>2. \A q \in Requests : Resolved(r, o, q) => req'[q].pc = "driving"
  BY <1>1, GoesOn
<1> QED BY <1>1, <1>2, GoesOnRest DEF OpeningsStay

LEMMA GivesUpRest ==
  ASSUME NEW r, NEW o, GivesUpStep(r, o)
  PROVE  \A q \in Requests : ~Resolved(r, o, q) => req'[q] = req[q]
<1> SUFFICES ASSUME NEW q \in Requests, ~Resolved(r, o, q) PROVE req'[q] = req[q]
  OBVIOUS
<1> QED BY Zenon DEF GivesUpStep, Resolve, Resolved

LEMMA OpenFailsStay ==
  ASSUME Base, NEW r \in Requests, OpenFails(r)
  PROVE  /\ OpeningsStay /\ \A q \in Requests : req'[q].pc = "opening" => req[q].obj # req[r].obj
         /\ \A q \in Requests : req'[q].pc # "idle" => req'[q] = req[q]
<1>1. GivesUpStep(r, req[r].obj) /\ req[r].pc = "opening"
  BY DEF OpenFails, GivesUpStep
<1>2. \A q \in Requests : Resolved(r, req[r].obj, q) => req'[q].pc = "idle"
  BY <1>1, GivesUp
<1>3. \A q \in Requests : ~Resolved(r, req[r].obj, q) => req'[q] = req[q]
  BY <1>1, GivesUpRest
<1>4. \A q \in Requests : req[q].pc = "opening" /\ req[q].obj = req[r].obj => q = r
  BY <1>1 DEF Base, ReqInv, OpeningOk
<1> QED BY <1>2, <1>3, <1>4 DEF OpeningsStay, Resolved

LEMMA FreedStay ==
  ASSUME Base, NEW o \in Objects, Freed(o) PROVE OpeningsStay
<1>1. /\ \A q \in Requests : q \notin Driving(o) => req'[q] = req[q]
      /\ \A q \in Driving(o) : req'[q].pc = "idle"
  BY FreedFacts
<1> QED BY <1>1 DEF OpeningsStay

LEMMA RestartStay ==
  ASSUME Restart PROVE OpeningsStay /\ \A q \in Requests : req'[q].pc = "idle"
BY DEF Restart, OpeningsStay, Idle

LEMMA AgentsStep ==
  ASSUME Base, AgentsInv, NextStep PROVE AgentsInv'
<1>1. ASSUME NEW r \in Requests, NEW new, QuietStep(r, new) PROVE AgentsInv'
  <2>1. Unmoved /\ OpeningsStay /\ lineage' = lineage
    BY <1>1, UnmovedSteps, QuietStay DEF QuietStep, disk
  <2>2. AgentsNamed
    BY <2>1, SameNames DEF Unmoved, OpeningsStay
  <2> QED BY <2>1, <2>2, UnmovedKeepsIds, AgentsKept
<1>2. ASSUME NEW r \in Requests, NEW o \in Objects, NEW i \in Ids, NEW new, CreateStep(r, o, i, new)
      PROVE  AgentsInv'
  BY <1>2, CreateNames, CreateKeepsIds, AgentsKept
<1>3. ASSUME NEW r \in Requests, NEW o \in Objects, NEW new, NEW ask, FollowStep(r, o, new, ask)
      PROVE  AgentsInv'
  BY <1>3, FollowNames, FollowMoves, MovesKeepsIds, AgentsKept
<1>4. ASSUME NEW r \in Requests, NEW o \in Objects, NEW new, NEW ask, AcceptStep(r, o, new, ask)
      PROVE  AgentsInv'
  <2>1. Moves(o, new) /\ OpeningsStay /\ lineage' = lineage /\ new.agent = obj[o].agent
    BY <1>4, AcceptMoves, AcceptStay DEF AcceptStep, disk
  <2>2. AgentsNamed
    BY <2>1, SameNames DEF Moves, OpeningsStay
  <2> QED BY <2>1, <2>2, MovesKeepsIds, AgentsKept
<1>5. ASSUME NEW r \in Requests, NEW o \in Objects, NEW new, OpenedStep(r, o, new) PROVE AgentsInv'
  BY <1>5, OpenedNames, OpenedMoves, MovesKeepsIds, AgentsKept
<1>6. ASSUME NEW r \in Requests, OpenFails(r) PROVE AgentsInv'
  <2>1. OpeningsStay /\ Leaves({req[r].obj}) /\ lineage' = lineage
    BY <1>6, OpenFailsLeaves, OpenFailsStay DEF OpenFails, disk
  <2>2. AgentsNamed
    BY <2>1, SameNames DEF Leaves, OpeningsStay, Cut
  <2> QED BY <2>1, <2>2, LeavesKeepsIds, AgentsKept
<1>7. ASSUME NEW o \in Objects, NEW new, AskStep(o, new) PROVE AgentsInv'
  <2>1. Moves(o, new) /\ OpeningsStay /\ lineage' = lineage /\ new.agent = obj[o].agent
    BY <1>7, AskMoves DEF AskStep, disk, OpeningsStay
  <2>2. AgentsNamed
    BY <2>1, SameNames DEF Moves, OpeningsStay
  <2> QED BY <2>1, <2>2, MovesKeepsIds, AgentsKept
<1>8. ASSUME NEW o \in Objects, NEW new, EndStep(o, new) PROVE AgentsInv'
  <2>1. Moves(o, new)
    BY <1>8, EndMoves
  <2>2. OpeningsStay /\ lineage' = lineage
    BY <1>8 DEF EndStep, disk, OpeningsStay
  <2>3. new.agent \in {obj[o].agent, None}
    BY <1>8, GoneFacts DEF EndStep
  <2>4. AgentsNamed
    BY <2>1, <2>2, <2>3, SameNames DEF Moves, OpeningsStay
  <2> QED BY <2>1, <2>4, MovesKeepsIds, AgentsKept
<1>9. ASSUME NEW o \in Objects, ReleaseStep(o) PROVE AgentsInv'
  <2>1. Unmoved /\ OpeningsStay /\ lineage' = lineage
    BY <1>9, UnmovedSteps, FreedStay DEF ReleaseStep, disk
  <2>2. AgentsNamed
    BY <2>1, SameNames DEF Unmoved, OpeningsStay
  <2> QED BY <2>1, <2>2, UnmovedKeepsIds, AgentsKept
<1>10. ASSUME NEW o \in Objects, NEW new, AnswerStep(o, new) PROVE AgentsInv'
  BY <1>10, AnswerNames, AnswerMoves, MovesKeepsIds, AgentsKept
<1>11. ASSUME NEW os, ForgetStep(os) PROVE AgentsInv'
  <2>1. OpeningsStay /\ Leaves(os) /\ lineage' = lineage
    BY <1>11, ForgetStepLeaves DEF ForgetStep, disk, OpeningsStay
  <2>2. AgentsNamed
    BY <2>1, SameNames DEF Leaves, OpeningsStay, Cut
  <2> QED BY <2>1, <2>2, LeavesKeepsIds, AgentsKept
<1>12. ASSUME CalmStep PROVE AgentsInv'
  <2>1. Unmoved
    BY <1>12, UnmovedSteps
  <2>2. OpeningsStay /\ \A i \in Ids : lineage'[i] \in {lineage[i], NoFile}
    BY <1>12 DEF CalmStep, OpeningsStay
  <2>3. AgentsNamed
    BY <2>1, <2>2, SameNames DEF Unmoved, OpeningsStay
  <2> QED BY <2>1, <2>3, UnmovedKeepsIds, AgentsKept
<1>13. ASSUME Restart PROVE AgentsInv'
  <2>1. \A p \in Objects : obj'[p].agent = None /\ (Exists(p) => Exists(p)' /\ obj'[p].id = obj[p].id)
    BY <1>13, RestartLeaves
  <2>2. OpeningsStay /\ lineage' = lineage
    BY <1>13, RestartStay DEF Restart, disk
  <2>3. AgentsNamed
    BY <2>1, <2>2, SameNames DEF OpeningsStay
  <2>4. KeepsIds
    BY <2>1 DEF KeepsIds, Exists
  <2> QED BY <2>3, <2>4, AgentsKept
<1> QED
  BY ONLY <1>1, <1>2, <1>3, <1>4, <1>5, <1>6, <1>7, <1>8, <1>9, <1>10, <1>11, <1>12, <1>13, NextStep
     DEF NextStep

LEMMA AgentsHold == Spec => []AgentsInv
<1>1. Init => AgentsInv
  BY DEF Init, RegistryInit, AgentsInv, NoObject, NoFile, Idle
<1>2. Base /\ AgentsInv /\ [Next]_vars => AgentsInv'
  BY NextCases, AgentsStep
<1> QED BY BaseHolds, <1>1, <1>2, PTL DEF Spec

-----------------------------------------------------------------------------
(* An object that the registry has lost runs on only if it was forgotten while *)
(* its prompt was on the way                                                  *)

UseInv == \A o \in Objects : Exists(o) /\ ~Registered(o) /\ Busy(o) => "sending" \in forgotten[obj[o].id]

Remembers == \A i \in Ids : forgotten[i] \subseteq forgotten'[i]

\* Whoever is busy and lost is one that was so before, or that was remembered.
BusyKept ==
  \A p \in Objects : Exists(p)' /\ ~Registered(p)' /\ Busy(p)' =>
    /\ Exists(p) /\ obj'[p].id = obj[p].id
    /\ (~Registered(p) /\ Busy(p)) \/ "sending" \in forgotten'[obj[p].id]

LEMMA UseKept ==
  ASSUME Base, UseInv, Remembers, BusyKept PROVE UseInv'
<1> SUFFICES ASSUME NEW p \in Objects, Exists(p)', ~Registered(p)', Busy(p)'
             PROVE  "sending" \in forgotten'[obj'[p].id]
  BY DEF UseInv
<1>1. /\ Exists(p) /\ obj'[p].id = obj[p].id
      /\ (~Registered(p) /\ Busy(p)) \/ "sending" \in forgotten'[obj[p].id]
  BY DEF BusyKept
<1>2. obj[p].id \in Ids
  BY <1>1 DEF Base, SessionsInv
<1> QED BY <1>1, <1>2 DEF UseInv, Remembers

LEMMA UnmovedUse ==
  ASSUME Unmoved, OpeningsStay PROVE BusyKept
<1>1. \A p : Opening(p)' => Opening(p)
  BY StayOpenings
<1> QED BY <1>1 DEF Unmoved, BusyKept, Busy, Exists

LEMMA MovesUse ==
  ASSUME NEW o \in Objects, NEW new, Moves(o, new), OpeningsStay, new.run = "live" => Busy(o)
  PROVE  BusyKept
<1>1. \A p : Opening(p)' => Opening(p)
  BY StayOpenings
<1> SUFFICES ASSUME NEW p \in Objects, Exists(p)', ~Registered(p)', Busy(p)'
             PROVE  Exists(p) /\ obj'[p].id = obj[p].id /\ ~Registered(p) /\ Busy(p)
  BY DEF BusyKept
<1>2. CASE p # o
  BY <1>1, <1>2 DEF Moves, Busy, Exists
<1>3. CASE p = o
  BY <1>1, <1>3 DEF Moves, Busy, Exists
<1> QED BY <1>2, <1>3

LEMMA CreateUse ==
  ASSUME Base, UseInv, NEW r \in Requests, NEW o \in Objects, NEW i \in Ids, NEW new,
         CreateStep(r, o, i, new)
  PROVE  BusyKept
<1>1. /\ obj'[o] = new /\ (\A p \in Objects : p # o => obj'[p] = obj[p])
      /\ sessions'[i] = o /\ (\A j \in Ids : j # i => sessions'[j] = sessions[j])
      /\ sessions[i] = None
  BY CreateFacts
<1>2. new.id = i /\ new.st # "none"
  BY DEF CreateStep, IsNew, ActiveStates
<1>3. Registered(o)'
  BY <1>1, <1>2 DEF Registered, Exists
<1> SUFFICES ASSUME NEW p \in Objects, Exists(p)', ~Registered(p)', Busy(p)'
             PROVE  Exists(p) /\ obj'[p].id = obj[p].id /\ ~Registered(p) /\ Busy(p)
  BY DEF BusyKept
<1>4. p # o /\ obj'[p] = obj[p] /\ Exists(p)
  BY <1>1, <1>3 DEF Exists
<1>5. ~Registered(p)
  <2>1. obj[p].id \in Ids
    BY <1>4 DEF Base, SessionsInv
  <2> QED BY <2>1, <1>1, <1>4, NoneFacts DEF Registered, Exists
<1>6. Opening(p)' => Opening(p)
  <2> SUFFICES ASSUME NEW q \in Requests, req'[q].pc = "opening", req'[q].obj = p PROVE Opening(p)
    BY DEF Opening
  <2>1. CASE q # r
    <3>1. req'[q] = req[q]
      BY <2>1, CreateAsks
    <3> QED BY <3>1 DEF Opening
  <2>2. CASE q = r
    <3>1. PICK mode \in Modes, k \in Keys, a \in Agents \cup {None} : OpensNew(r, o, i, new, mode, k, a)
      BY <2>2 DEF CreateStep, Idle, Base, Typed, RequestsTyped
    <3>2. req'[r].obj = o
      <4>1. Opens(r, o, k, mode, a)
        BY <3>1 DEF OpensNew
      <4> QED BY <4>1 DEF Opens, Base, Typed, RequestsTyped, Idle
    <3> QED BY <3>2, <2>2, <1>4
  <2> QED BY <2>1, <2>2
<1> QED BY <1>4, <1>5, <1>6 DEF Busy

LEMMA FollowUse ==
  ASSUME Base, UseInv, NEW r \in Requests, NEW o \in Objects, NEW new, NEW ask,
         FollowStep(r, o, new, ask)
  PROVE  BusyKept
<1>1. Moves(o, new) /\ Registered(o)
  BY FollowMoves DEF FollowStep
<1>2. req'[r] = ask /\ ask.obj = o /\ \A q \in Requests : q # r => req'[q] = req[q]
  BY AskTyped DEF FollowStep, Base, Typed
<1> SUFFICES ASSUME NEW p \in Objects, Exists(p)', ~Registered(p)', Busy(p)'
             PROVE  Exists(p) /\ obj'[p].id = obj[p].id /\ ~Registered(p) /\ Busy(p)
  BY DEF BusyKept
<1>3. p # o /\ obj'[p] = obj[p] /\ Exists(p) /\ ~Registered(p)
  BY <1>1 DEF Moves, Exists
<1>4. Opening(p)' => Opening(p)
  BY <1>2, <1>3 DEF Opening
<1> QED BY <1>3, <1>4 DEF Busy

\* The ids of registered objects name nobody else.
LEMMA RegisteredAlone ==
  ASSUME NEW o \in Objects, NEW p \in Objects, Registered(o), Registered(p), obj[o].id = obj[p].id
  PROVE  o = p
BY DEF Registered

LEMMA ForgetUse ==
  ASSUME Base, UseInv, NEW os, ForgetStep(os)
  PROVE  BusyKept /\ Remembers
<1>1. Leaves(os) /\ os \in SUBSET Objects /\ (\A o \in os : Registered(o)) /\ Remember(os)
  BY ForgetStepLeaves DEF ForgetStep
<1>2. OpeningsStay
  BY DEF ForgetStep, OpeningsStay
<1>3. Remembers
  BY <1>1 DEF Remember, Remembers
<1> SUFFICES ASSUME NEW p \in Objects, Exists(p)', ~Registered(p)', Busy(p)'
             PROVE  /\ Exists(p) /\ obj'[p].id = obj[p].id
                    /\ (~Registered(p) /\ Busy(p)) \/ "sending" \in forgotten'[obj[p].id]
  BY <1>3 DEF BusyKept
<1>4. CASE p \in os
  <2>1. Exists(p) /\ obj'[p].run # "live" /\ obj'[p].id = obj[p].id
    BY <1>1, <1>4 DEF Leaves, Cut
  <2>2. Opening(p)
    BY <1>2, <2>1, StayOpenings DEF Busy
  <2>3. obj[p].id \in Ids
    BY <2>1 DEF Base, SessionsInv
  <2>4. "sending" \in forgotten'[obj[p].id]
    BY <1>1, <1>4, <2>2, <2>3 DEF Remember
  <2> QED BY <2>1, <2>4
<1>5. CASE p \notin os
  <2>1. obj'[p] = obj[p]
    BY <1>1, <1>5 DEF Leaves
  <2>2. ~Registered(p)
    BY <1>1, <1>5, RegisteredAlone DEF Leaves
  <2>3. Busy(p)
    BY <1>2, <2>1, StayOpenings DEF Busy
  <2> QED BY <2>1, <2>2, <2>3 DEF Exists
<1> QED BY <1>4, <1>5

LEMMA OpenFailsUse ==
  ASSUME Base, UseInv, NEW r \in Requests, OpenFails(r)
  PROVE  BusyKept
<1> PICK o : o = req[r].obj
  OBVIOUS
<1>1. o \in Objects /\ Opening(o) /\ Leaves({o})
  BY OpenFailsLeaves
<1>2. OpeningsStay /\ ~Opening(o)'
  BY OpenFailsStay DEF Opening, OpeningsStay
<1>3. forgotten' = forgotten
  BY DEF OpenFails, history
<1> SUFFICES ASSUME NEW p \in Objects, Exists(p)', ~Registered(p)', Busy(p)'
             PROVE  /\ Exists(p) /\ obj'[p].id = obj[p].id
                    /\ (~Registered(p) /\ Busy(p)) \/ "sending" \in forgotten'[obj[p].id]
  BY DEF BusyKept
<1>4. CASE p = o
  <2>1. obj'[p].run # "live"
    BY <1>1, <1>4 DEF Leaves, Cut
  <2> QED BY <1>2, <1>4, <2>1 DEF Busy
<1>5. CASE p # o
  <2>1. obj'[p] = obj[p] /\ Exists(p)
    BY <1>1, <1>5 DEF Leaves, Exists
  <2>2. Busy(p)
    BY <1>2, <2>1, StayOpenings DEF Busy
  <2>3. CASE Registered(p)
    <3>1. obj[o].id = obj[p].id
      BY <1>1, <2>3 DEF Leaves
    <3>2. ~Registered(o) /\ Exists(o) /\ Busy(o)
      BY <1>1, <1>5, <2>3, <3>1, RegisteredAlone DEF Leaves, Busy
    <3>3. "sending" \in forgotten'[obj[p].id]
      BY <1>1, <1>3, <3>1, <3>2 DEF UseInv
    <3> QED BY <2>1, <3>3
  <2> QED BY <2>1, <2>2, <2>3
<1> QED BY <1>4, <1>5

LEMMA UseStep ==
  ASSUME Base, UseInv, NextStep PROVE UseInv'
<1>1. ASSUME forgotten' = forgotten PROVE Remembers
  BY <1>1 DEF Remembers
<1>2. ASSUME NEW r \in Requests, NEW new, QuietStep(r, new) PROVE UseInv'
  <2>1. Unmoved /\ OpeningsStay /\ forgotten' = forgotten
    BY <1>2, UnmovedSteps, QuietStay DEF QuietStep, history
  <2> QED BY <2>1, <1>1, UnmovedUse, UseKept
<1>3. ASSUME NEW r \in Requests, NEW o \in Objects, NEW i \in Ids, NEW new, CreateStep(r, o, i, new)
      PROVE  UseInv'
  <2>1. forgotten' = forgotten
    BY <1>3 DEF CreateStep
  <2> QED BY <2>1, <1>1, <1>3, CreateUse, UseKept
<1>4. ASSUME NEW r \in Requests, NEW o \in Objects, NEW new, NEW ask, FollowStep(r, o, new, ask)
      PROVE  UseInv'
  <2>1. forgotten' = forgotten
    BY <1>4 DEF FollowStep, history
  <2> QED BY <2>1, <1>1, <1>4, FollowUse, UseKept
<1>5. ASSUME NEW r \in Requests, NEW o \in Objects, NEW new, NEW ask, AcceptStep(r, o, new, ask)
      PROVE  UseInv'
  <2>1. Moves(o, new) /\ OpeningsStay
    BY <1>5, AcceptMoves, AcceptStay
  <2>2. forgotten' = forgotten /\ new.run = obj[o].run
    BY <1>5 DEF AcceptStep, history
  <2> QED BY <2>1, <2>2, <1>1, MovesUse, UseKept DEF Busy
<1>6. ASSUME NEW r \in Requests, NEW o \in Objects, NEW new, OpenedStep(r, o, new) PROVE UseInv'
  <2>1. Moves(o, new) /\ OpeningsStay
    BY <1>6, OpenedMoves, OpenedStay
  <2>2. forgotten' = forgotten /\ Opening(o)
    BY <1>6 DEF OpenedStep, history, Opening
  <2> QED BY <2>1, <2>2, <1>1, MovesUse, UseKept DEF Busy
<1>7. ASSUME NEW r \in Requests, OpenFails(r) PROVE UseInv'
  <2>1. forgotten' = forgotten
    BY <1>7 DEF OpenFails, history
  <2> QED BY <2>1, <1>1, <1>7, OpenFailsUse, UseKept
<1>8. ASSUME NEW o \in Objects, NEW new, AskStep(o, new) PROVE UseInv'
  <2>1. Moves(o, new)
    BY <1>8, AskMoves
  <2>2. forgotten' = forgotten /\ OpeningsStay /\ new.run = obj[o].run
    BY <1>8 DEF AskStep, history, OpeningsStay
  <2> QED BY <2>1, <2>2, <1>1, MovesUse, UseKept DEF Busy
<1>9. ASSUME NEW o \in Objects, NEW new, EndStep(o, new) PROVE UseInv'
  <2>1. Moves(o, new)
    BY <1>9, EndMoves
  <2>2. forgotten' = forgotten /\ OpeningsStay
    BY <1>9 DEF EndStep, history, OpeningsStay
  <2>3. new.run # "live"
    BY <1>9, GoneFacts DEF EndStep
  <2> QED BY <2>1, <2>2, <2>3, <1>1, MovesUse, UseKept
<1>10. ASSUME NEW o \in Objects, ReleaseStep(o) PROVE UseInv'
  <2>1. Unmoved /\ OpeningsStay /\ forgotten' = forgotten
    BY <1>10, UnmovedSteps, FreedStay DEF ReleaseStep, history
  <2> QED BY <2>1, <1>1, UnmovedUse, UseKept
<1>11. ASSUME NEW o \in Objects, NEW new, AnswerStep(o, new) PROVE UseInv'
  <2>1. Moves(o, new)
    BY <1>11, AnswerMoves
  <2>2. forgotten' = forgotten /\ OpeningsStay /\ new.run = obj[o].run
    BY <1>11, FreedStay DEF AnswerStep
  <2> QED BY <2>1, <2>2, <1>1, MovesUse, UseKept DEF Busy
<1>12. ASSUME CalmStep PROVE UseInv'
  <2>1. Unmoved
    BY <1>12, UnmovedSteps
  <2>2. forgotten' = forgotten /\ OpeningsStay
    BY <1>12 DEF CalmStep, OpeningsStay
  <2> QED BY <2>1, <2>2, <1>1, UnmovedUse, UseKept
<1>13. ASSUME Restart PROVE UseInv'
  <2>1. \A p \in Objects : obj'[p].run = "none"
    BY <1>13, RestartLeaves
  <2>2. \A p : ~Opening(p)'
    BY <1>13, RestartStay DEF Opening
  <2> QED BY <2>1, <2>2 DEF UseInv, Busy
<1>14. ASSUME NEW os, ForgetStep(os) PROVE UseInv'
  BY <1>14, ForgetUse, UseKept
<1> QED
  BY ONLY <1>2, <1>3, <1>4, <1>5, <1>6, <1>7, <1>8, <1>9, <1>10, <1>11, <1>12, <1>13, <1>14, NextStep
     DEF NextStep

LEMMA UseHolds == Spec => []UseInv
<1>1. Init => UseInv
  BY DEF Init, RegistryInit, UseInv, NoObject, Exists
<1>2. Base /\ UseInv /\ [Next]_vars => UseInv'
  BY NextCases, UseStep
<1> QED BY BaseHolds, <1>1, <1>2, PTL DEF Spec

\* The agent that an object uses belongs to its session.
LEMMA UsedAgent ==
  ASSUME Base, AgentsInv, NEW o \in Objects, AgentInUse(o) # None
  PROVE  Exists(o) /\ Busy(o) /\ AgentOf(AgentInUse(o), obj[o].id)
<1>1. CASE obj[o].run = "live"
  <2>1. Exists(o)
    BY <1>1, RunExists
  <2>2. AgentInUse(o) = obj[o].agent
    BY <1>1 DEF AgentInUse
  <2> QED BY <1>1, <2>1, <2>2 DEF AgentsInv, Busy
<1>2. CASE obj[o].run # "live"
  <2> DEFINE sending == {r \in Requests : req[r].pc = "opening" /\ req[r].obj = o}
  <2>1. AgentInUse(o) = IF sending = {} THEN None ELSE req[CHOOSE r \in sending : TRUE].agent
    BY <1>2 DEF AgentInUse
  <2>2. PICK r \in sending : AgentInUse(o) = req[r].agent
    BY <2>1
  <2>3. Exists(o) /\ Opening(o) /\ AgentOf(req[r].agent, obj[o].id)
    BY <2>2 DEF Base, ReqInv, AgentsInv, Opening
  <2> QED BY <2>2, <2>3 DEF Busy
<1> QED BY <1>1, <1>2

\* One SDK agent never executes two runs at a time: whatever follow-ups, result batches and
\* recoveries of a session arrive together or after a restart, the agent of its lineage file is
\* resumed by one object, except beside a prompt that was on the way when its session was forgotten.
THEOREM AgentsRunOnce == Spec => []OneRunPerAgent
<1>1. Base /\ AgentsInv /\ UseInv => OneRunPerAgent
  <2> SUFFICES ASSUME Base, AgentsInv, UseInv, NEW o \in Objects, NEW q \in Objects, o # q,
                      AgentInUse(o) # None, AgentInUse(o) = AgentInUse(q)
               PROVE  "sending" \in forgotten[obj[o].id]
    BY DEF OneRunPerAgent
  <2>1. Exists(o) /\ Busy(o) /\ AgentOf(AgentInUse(o), obj[o].id)
    BY UsedAgent
  <2>2. Exists(q) /\ Busy(q) /\ AgentOf(AgentInUse(q), obj[q].id)
    BY UsedAgent
  <2>3. obj[o].id = obj[q].id
    BY <2>1, <2>2 DEF AgentOf
  <2>4. ~Registered(o) \/ ~Registered(q)
    BY <2>3, RegisteredAlone
  <2> QED BY <2>1, <2>2, <2>3, <2>4 DEF UseInv
<1> QED BY BaseHolds, AgentsHold, UseHolds, <1>1, PTL

-----------------------------------------------------------------------------
(* An object that the registry has lost is held by nobody, unless it was      *)
(* forgotten while somebody held it                                           *)

Held(o) ==
  \/ \E r \in Requests : req[r].pc \in {"opening", "driving"} /\ req[r].obj = o
  \/ \E k \in ResultKeys : transcriptRecoveries[k] = o

LeftInv == \A o \in Objects : Exists(o) /\ ~Registered(o) /\ Held(o) => forgotten[obj[o].id] # {}

HeldKept ==
  \A p \in Objects : Exists(p)' /\ ~Registered(p)' /\ Held(p)' =>
    /\ Exists(p) /\ obj'[p].id = obj[p].id
    /\ (~Registered(p) /\ Held(p)) \/ forgotten'[obj[p].id] # {}

LEMMA LeftKept ==
  ASSUME Base, LeftInv, Remembers, HeldKept PROVE LeftInv'
<1> SUFFICES ASSUME NEW p \in Objects, Exists(p)', ~Registered(p)', Held(p)'
             PROVE  forgotten'[obj'[p].id] # {}
  BY DEF LeftInv
<1>1. /\ Exists(p) /\ obj'[p].id = obj[p].id
      /\ (~Registered(p) /\ Held(p)) \/ forgotten'[obj[p].id] # {}
  BY DEF HeldKept
<1>2. obj[p].id \in Ids
  BY <1>1 DEF Base, SessionsInv
<1>3. forgotten[obj[p].id] \subseteq forgotten'[obj[p].id]
  BY <1>2 DEF Remembers
<1> QED BY <1>1, <1>3 DEF LeftInv

\* Nobody holds p who did not, but one that finds it in the registry or in a recovery.
HoldersStay == \A p \in Objects : Held(p)' => Held(p) \/ Registered(p)

LEMMA UnmovedHeld ==
  ASSUME Unmoved, HoldersStay PROVE HeldKept
BY DEF Unmoved, HoldersStay, HeldKept, Exists

LEMMA MovesHeld ==
  ASSUME NEW o \in Objects, NEW new, Moves(o, new), HoldersStay PROVE HeldKept
<1> SUFFICES ASSUME NEW p \in Objects, Exists(p)', ~Registered(p)', Held(p)'
             PROVE  Exists(p) /\ obj'[p].id = obj[p].id /\ ~Registered(p) /\ Held(p)
  BY DEF HeldKept
<1>1. CASE p # o
  BY <1>1 DEF Moves, HoldersStay, Exists
<1>2. CASE p = o
  BY <1>2 DEF Moves, HoldersStay, Exists
<1> QED BY <1>1, <1>2

\* The requests that hold an object were there, or let go; the recoveries stay.
LEMMA SameHolders ==
  ASSUME \A q \in Requests : req'[q].pc \in {"opening", "driving"} =>
           \/ req'[q] = req[q]
           \/ \E p \in Objects : req'[q].obj = p /\ (Held(p) \/ Registered(p)),
         \A k \in ResultKeys : transcriptRecoveries'[k] \in {transcriptRecoveries[k], None}
  PROVE  HoldersStay
<1> SUFFICES ASSUME NEW p \in Objects, Held(p)' PROVE Held(p) \/ Registered(p)
  BY DEF HoldersStay
<1>1. CASE \E r \in Requests : req'[r].pc \in {"opening", "driving"} /\ req'[r].obj = p
  BY <1>1 DEF Held
<1>2. CASE \E k \in ResultKeys : transcriptRecoveries'[k] = p
  BY <1>2, NoneFacts DEF Held
<1> QED BY <1>1, <1>2 DEF Held

LEMMA QuietHolders ==
  ASSUME Base, NEW r \in Requests, NEW new, QuietStep(r, new) PROVE HoldersStay
<1>1. req'[r] = new /\ \A q \in Requests : q # r => req'[q] = req[q]
  BY AskTyped DEF QuietStep, Base, Typed
<1>2. new.pc \in {"opening", "driving"} => new.obj \in Objects /\ (Held(new.obj) \/ Registered(new.obj))
  <2>1. new.pc # "idle" => new.obj \in Objects
    BY DEF QuietStep, Asks
  <2> QED BY <2>1 DEF QuietStep, Held
<1>3. transcriptRecoveries' = transcriptRecoveries
  BY DEF QuietStep, maps
<1> QED BY <1>1, <1>2, <1>3, SameHolders

LEMMA AcceptHolders ==
  ASSUME Base, NEW r \in Requests, NEW o \in Objects, NEW new, NEW ask, AcceptStep(r, o, new, ask)
  PROVE  HoldersStay
<1>1. req'[r] = ask /\ \A q \in Requests : q # r => req'[q] = req[q]
  BY AskTyped DEF AcceptStep, Base, Typed
<1>2. ask.obj = o /\ Registered(o) /\ transcriptRecoveries' = transcriptRecoveries
  BY DEF AcceptStep, maps
<1> QED BY <1>1, <1>2, SameHolders

LEMMA FollowHolders ==
  ASSUME Base, NEW r \in Requests, NEW o \in Objects, NEW new, NEW ask, FollowStep(r, o, new, ask)
  PROVE  HoldersStay
<1>1. req'[r] = ask /\ \A q \in Requests : q # r => req'[q] = req[q]
  BY AskTyped DEF FollowStep, Base, Typed
<1>2. ask.obj = o /\ Registered(o) /\ transcriptRecoveries' = transcriptRecoveries
  BY DEF FollowStep, maps
<1> QED BY <1>1, <1>2, SameHolders

LEMMA OpenedHolders ==
  ASSUME Base, NEW r \in Requests, NEW o \in Objects, NEW new, OpenedStep(r, o, new)
  PROVE  HoldersStay
<1>1. GoesOnStep(r, o) /\ Held(o) /\ transcriptRecoveries' = transcriptRecoveries
  BY DEF OpenedStep, GoesOnStep, Held
<1>2. \A q \in Requests : Resolved(r, o, q) => req'[q].obj = o
  BY <1>1, GoesOn
<1>3. \A q \in Requests : ~Resolved(r, o, q) => req'[q] = req[q]
  BY <1>1, GoesOnRest
<1> QED BY <1>1, <1>2, <1>3, SameHolders

LEMMA FreedHolders ==
  ASSUME Base, NEW o \in Objects, Freed(o), transcriptRecoveries' = transcriptRecoveries
  PROVE  HoldersStay
<1>1. /\ \A q \in Requests : q \notin Driving(o) => req'[q] = req[q]
      /\ \A q \in Driving(o) : req'[q].pc = "idle"
  BY FreedFacts
<1>2. \A q \in Requests : req'[q].pc \in {"opening", "driving"} => req'[q] = req[q]
  BY <1>1
<1> QED BY <1>2, SameHolders

LEMMA CreateHeld ==
  ASSUME Base, NEW r \in Requests, NEW o \in Objects, NEW i \in Ids, NEW new,
         CreateStep(r, o, i, new)
  PROVE  HeldKept
<1>1. /\ obj'[o] = new /\ (\A p \in Objects : p # o => obj'[p] = obj[p])
      /\ sessions'[i] = o /\ (\A j \in Ids : j # i => sessions'[j] = sessions[j])
      /\ sessions[i] = None
  BY CreateFacts
<1>2. new.id = i /\ new.st # "none"
  BY DEF CreateStep, IsNew, ActiveStates
<1>3. Registered(o)'
  BY <1>1, <1>2 DEF Registered, Exists
<1> SUFFICES ASSUME NEW p \in Objects, Exists(p)', ~Registered(p)', Held(p)'
             PROVE  Exists(p) /\ obj'[p].id = obj[p].id /\ ~Registered(p) /\ Held(p)
  BY DEF HeldKept
<1>4. p # o /\ obj'[p] = obj[p] /\ Exists(p)
  BY <1>1, <1>3 DEF Exists
<1>5. ~Registered(p)
  <2>1. obj[p].id \in Ids
    BY <1>4 DEF Base, SessionsInv
  <2> QED BY <2>1, <1>1, <1>4, NoneFacts DEF Registered, Exists
<1>6. Held(p)
  <2>1. CASE \E q \in Requests : req'[q].pc \in {"opening", "driving"} /\ req'[q].obj = p
    <3>1. PICK q \in Requests : req'[q].pc \in {"opening", "driving"} /\ req'[q].obj = p
      BY <2>1
    <3>2. CASE q # r
      <4>1. req'[q] = req[q]
        BY <3>2, CreateAsks
      <4> QED BY <3>1, <4>1 DEF Held
    <3>3. CASE q = r
      <4>1. PICK mode \in Modes, k \in Keys, a \in Agents \cup {None} :
              OpensNew(r, o, i, new, mode, k, a)
        BY <3>1, <3>3 DEF CreateStep, Idle, Base, Typed, RequestsTyped
      <4>2. req'[r].obj = o
        <5>1. Opens(r, o, k, mode, a)
          BY <4>1 DEF OpensNew
        <5> QED BY <5>1 DEF Opens, Base, Typed, RequestsTyped, Idle
      <4> QED BY <4>2, <3>1, <3>3, <1>4
    <3> QED BY <3>2, <3>3
  <2>2. CASE \E k \in ResultKeys : transcriptRecoveries'[k] = p
    <3>1. PICK k \in ResultKeys : transcriptRecoveries'[k] = p
      BY <2>2
    <3>2. transcriptRecoveries \in [ResultKeys -> Objects \cup {None}]
      BY DEF Base, Typed, FilesTyped
    <3>3. transcriptRecoveries'[k] \in {transcriptRecoveries[k], o}
      BY <3>2 DEF CreateStep, OpensNew, maps
    <3> QED BY <3>1, <3>3, <1>4 DEF Held
  <2> QED BY <2>1, <2>2 DEF Held
<1> QED BY <1>4, <1>5, <1>6

LEMMA ForgetHeld ==
  ASSUME Base, NEW os, ForgetStep(os)
  PROVE  HeldKept /\ Remembers
<1>1. Leaves(os) /\ os \in SUBSET Objects /\ (\A o \in os : Registered(o)) /\ Remember(os)
  BY ForgetStepLeaves DEF ForgetStep
<1>2. /\ \A p : Held(p)' <=> Held(p)
  BY DEF ForgetStep, Held, maps
<1>3. Remembers
  BY <1>1 DEF Remember, Remembers
<1> SUFFICES ASSUME NEW p \in Objects, Exists(p)', ~Registered(p)', Held(p)'
             PROVE  /\ Exists(p) /\ obj'[p].id = obj[p].id
                    /\ (~Registered(p) /\ Held(p)) \/ forgotten'[obj[p].id] # {}
  BY <1>3 DEF HeldKept
<1>4. CASE p \in os
  <2>1. Exists(p) /\ obj'[p].id = obj[p].id
    BY <1>1, <1>4 DEF Leaves, Cut
  <2>2. obj[p].id \in Ids
    BY <2>1 DEF Base, SessionsInv
  <2>3. Opening(p) \/ Driving(p) # {} \/ \E k \in ResultKeys : transcriptRecoveries[k] = p
    BY <1>2 DEF Held, Opening, Driving
  <2>4. Opening(p) => "sending" \in forgotten'[obj[p].id]
    BY <1>1, <1>4, <2>2 DEF Remember
  <2>5. Driving(p) # {} => "driven" \in forgotten'[obj[p].id]
    BY <1>1, <1>4, <2>2 DEF Remember
  <2>6. (\E k \in ResultKeys : transcriptRecoveries[k] = p) => "recovered" \in forgotten'[obj[p].id]
    BY <1>1, <1>4, <2>2 DEF Remember
  <2> QED BY <2>1, <2>3, <2>4, <2>5, <2>6
<1>5. CASE p \notin os
  <2>1. obj'[p] = obj[p]
    BY <1>1, <1>5 DEF Leaves
  <2>2. ~Registered(p)
    BY <1>1, <1>5, RegisteredAlone DEF Leaves
  <2> QED BY <1>2, <2>1, <2>2 DEF Exists
<1> QED BY <1>4, <1>5

LEMMA OpenFailsHeld ==
  ASSUME Base, LeftInv, NEW r \in Requests, OpenFails(r)
  PROVE  HeldKept
<1> PICK o : o = req[r].obj
  OBVIOUS
<1>1. o \in Objects /\ Opening(o) /\ Leaves({o}) /\ Held(o)
  BY OpenFailsLeaves DEF Opening, Held
<1>2. /\ \A q \in Requests : req'[q].pc # "idle" => req'[q] = req[q]
      /\ \A q \in Requests : req'[q].pc = "opening" => req[q].obj # o
  BY OpenFailsStay
<1>3. forgotten' = forgotten
  BY DEF OpenFails, history
<1>4. \A k \in ResultKeys : transcriptRecoveries'[k] =
        IF transcriptRecoveries[k] = o THEN None ELSE transcriptRecoveries[k]
  BY DEF OpenFails
<1>5. ~Held(o)'
  <2>1. \A q \in Requests : req'[q].pc = "driving" => req'[q].obj # o
    BY <1>1, <1>2 DEF Base, ReqInv
  <2>2. \A q \in Requests : req'[q].pc = "opening" => req'[q].obj # o
    BY <1>2
  <2>3. \A k \in ResultKeys : transcriptRecoveries'[k] # o
    BY <1>1, <1>4, NoneFacts
  <2> QED BY <2>1, <2>2, <2>3 DEF Held
<1>6. \A p \in Objects : Held(p)' => Held(p)
  BY <1>2, <1>4, NoneFacts DEF Held
<1> SUFFICES ASSUME NEW p \in Objects, Exists(p)', ~Registered(p)', Held(p)'
             PROVE  /\ Exists(p) /\ obj'[p].id = obj[p].id
                    /\ (~Registered(p) /\ Held(p)) \/ forgotten'[obj[p].id] # {}
  BY DEF HeldKept
<1>7. p # o /\ Held(p)
  BY <1>5, <1>6
<1>8. obj'[p] = obj[p] /\ Exists(p)
  BY <1>1, <1>7 DEF Leaves, Exists
<1>9. CASE Registered(p)
  <2>1. obj[o].id = obj[p].id
    BY <1>1, <1>9 DEF Leaves
  <2>2. ~Registered(o) /\ Exists(o)
    BY <1>1, <1>7, <1>9, <2>1, RegisteredAlone DEF Leaves
  <2>3. forgotten'[obj[p].id] # {}
    BY <1>1, <1>3, <2>1, <2>2 DEF LeftInv
  <2> QED BY <1>8, <2>3
<1> QED BY <1>7, <1>8, <1>9

LEMMA LeftStep ==
  ASSUME Base, LeftInv, NextStep PROVE LeftInv'
<1>1. ASSUME forgotten' = forgotten PROVE Remembers
  BY <1>1 DEF Remembers
<1>2. ASSUME NEW r \in Requests, NEW new, QuietStep(r, new) PROVE LeftInv'
  <2>1. Unmoved /\ HoldersStay /\ forgotten' = forgotten
    BY <1>2, UnmovedSteps, QuietHolders DEF QuietStep, history
  <2> QED BY <2>1, <1>1, UnmovedHeld, LeftKept
<1>3. ASSUME NEW r \in Requests, NEW o \in Objects, NEW i \in Ids, NEW new, CreateStep(r, o, i, new)
      PROVE  LeftInv'
  <2>1. forgotten' = forgotten
    BY <1>3 DEF CreateStep
  <2> QED BY <2>1, <1>1, <1>3, CreateHeld, LeftKept
<1>4. ASSUME NEW r \in Requests, NEW o \in Objects, NEW new, NEW ask, FollowStep(r, o, new, ask)
      PROVE  LeftInv'
  <2>1. forgotten' = forgotten
    BY <1>4 DEF FollowStep, history
  <2> QED BY <2>1, <1>1, <1>4, FollowMoves, FollowHolders, MovesHeld, LeftKept
<1>5. ASSUME NEW r \in Requests, NEW o \in Objects, NEW new, NEW ask, AcceptStep(r, o, new, ask)
      PROVE  LeftInv'
  <2>1. forgotten' = forgotten
    BY <1>5 DEF AcceptStep, history
  <2> QED BY <2>1, <1>1, <1>5, AcceptMoves, AcceptHolders, MovesHeld, LeftKept
<1>6. ASSUME NEW r \in Requests, NEW o \in Objects, NEW new, OpenedStep(r, o, new) PROVE LeftInv'
  <2>1. Moves(o, new) /\ HoldersStay
    BY <1>6, OpenedMoves, OpenedHolders
  <2>2. forgotten' = forgotten
    BY <1>6 DEF OpenedStep, history
  <2> QED BY <2>1, <2>2, <1>1, MovesHeld, LeftKept
<1>7. ASSUME NEW r \in Requests, OpenFails(r) PROVE LeftInv'
  <2>1. forgotten' = forgotten
    BY <1>7 DEF OpenFails, history
  <2> QED BY <2>1, <1>1, <1>7, OpenFailsHeld, LeftKept
<1>8. ASSUME NEW o \in Objects, NEW new, AskStep(o, new) PROVE LeftInv'
  <2>1. Moves(o, new)
    BY <1>8, AskMoves
  <2>2. forgotten' = forgotten /\ HoldersStay
    BY <1>8 DEF AskStep, history, HoldersStay, Held, maps
  <2> QED BY <2>1, <2>2, <1>1, MovesHeld, LeftKept
<1>9. ASSUME NEW o \in Objects, NEW new, EndStep(o, new) PROVE LeftInv'
  <2>1. Moves(o, new)
    BY <1>9, EndMoves
  <2>2. forgotten' = forgotten /\ HoldersStay
    BY <1>9 DEF EndStep, history, HoldersStay, Held, maps
  <2> QED BY <2>1, <2>2, <1>1, MovesHeld, LeftKept
<1>10. ASSUME NEW o \in Objects, ReleaseStep(o) PROVE LeftInv'
  <2>1. Unmoved /\ HoldersStay /\ forgotten' = forgotten
    BY <1>10, UnmovedSteps, FreedHolders DEF ReleaseStep, history, maps
  <2> QED BY <2>1, <1>1, UnmovedHeld, LeftKept
<1>11. ASSUME NEW o \in Objects, NEW new, AnswerStep(o, new) PROVE LeftInv'
  <2>1. Moves(o, new)
    BY <1>11, AnswerMoves
  <2>2. forgotten' = forgotten /\ HoldersStay
    BY <1>11, FreedHolders DEF AnswerStep, maps
  <2> QED BY <2>1, <2>2, <1>1, MovesHeld, LeftKept
<1>12. ASSUME CalmStep PROVE LeftInv'
  <2>1. Unmoved
    BY <1>12, UnmovedSteps
  <2>2. forgotten' = forgotten
    BY <1>12 DEF CalmStep
  <2>3. HoldersStay
    <3>1. \A q \in Requests : req'[q] = req[q]
      BY <1>12 DEF CalmStep
    <3>2. \A k \in ResultKeys : transcriptRecoveries'[k] \in {transcriptRecoveries[k], None}
      BY <1>12 DEF CalmStep
    <3> QED BY <3>1, <3>2, SameHolders
  <2> QED BY <2>1, <2>2, <2>3, <1>1, UnmovedHeld, LeftKept
<1>13. ASSUME Restart PROVE LeftInv'
  <2>1. \A p \in Objects : ~Held(p)'
    BY <1>13, RestartStay, NoneFacts DEF Restart, Held
  <2> QED BY <2>1 DEF LeftInv
<1>14. ASSUME NEW os, ForgetStep(os) PROVE LeftInv'
  BY <1>14, ForgetHeld, LeftKept
<1> QED
  BY ONLY <1>2, <1>3, <1>4, <1>5, <1>6, <1>7, <1>8, <1>9, <1>10, <1>11, <1>12, <1>13, <1>14, NextStep
     DEF NextStep

LEMMA LeftHolds == Spec => []LeftInv
<1>1. Init => LeftInv
  BY DEF Init, RegistryInit, LeftInv, NoObject, Exists
<1>2. Base /\ LeftInv /\ [Next]_vars => LeftInv'
  BY NextCases, LeftStep
<1> QED BY BaseHolds, <1>1, <1>2, PTL DEF Spec

-----------------------------------------------------------------------------
(* The lineage file of a session at rest                                      *)

AtRest(o) == Registered(o) /\ obj[o].st \in {"awaiting", "completed", "failed"}

\* What the file of o must be, with the exceptions of LineageIsCurrent.
Recorded(o) ==
  obj[o].id \in unrecorded \/ forgotten[obj[o].id] # {} \/ lineage[obj[o].id] \in {NoFile, RecordOf(o, obj[o].st)}

FileInv == \A o \in Objects : AtRest(o) => Recorded(o)

LEMMA FileGives == FileInv => LineageIsCurrent
BY DEF FileInv, AtRest, Recorded, LineageIsCurrent

\* A record is made of these.
LEMMA SameRecord ==
  ASSUME NEW o \in Objects, NEW st, obj'[o].agent = obj[o].agent,
         obj'[o].credential = obj[o].credential, obj'[o].pending = obj[o].pending
  PROVE  RecordOf(o, st)' = RecordOf(o, st)
BY DEF RecordOf

LEMMA FileKept ==
  ASSUME Base, FileInv, Remembers, unrecorded' = unrecorded,
         \A i \in Ids : lineage'[i] \in {lineage[i], NoFile},
         \A p \in Objects : AtRest(p)' =>
           /\ AtRest(p) /\ obj'[p].st = obj[p].st /\ obj'[p].id = obj[p].id
           /\ obj'[p].agent = obj[p].agent /\ obj'[p].credential = obj[p].credential
           /\ obj'[p].pending = obj[p].pending
  PROVE  FileInv'
<1> SUFFICES ASSUME NEW p \in Objects, AtRest(p)' PROVE Recorded(p)'
  BY DEF FileInv
<1>1. /\ AtRest(p) /\ obj'[p].st = obj[p].st /\ obj'[p].id = obj[p].id
      /\ obj'[p].agent = obj[p].agent /\ obj'[p].credential = obj[p].credential
      /\ obj'[p].pending = obj[p].pending
  OBVIOUS
<1>2. Recorded(p) /\ obj[p].id \in Ids
  BY <1>1 DEF FileInv, AtRest, Registered, Base, SessionsInv
<1>3. RecordOf(p, obj[p].st)' = RecordOf(p, obj[p].st)
  BY <1>1 DEF RecordOf
<1>4. forgotten[obj[p].id] \subseteq forgotten'[obj[p].id]
  BY <1>2 DEF Remembers
<1> QED BY <1>1, <1>2, <1>3, <1>4 DEF Recorded

LEMMA UnmovedFiles ==
  ASSUME Base, FileInv, Unmoved, Remembers, unrecorded' = unrecorded,
         \A i \in Ids : lineage'[i] \in {lineage[i], NoFile}
  PROVE  FileInv'
<1>1. \A p \in Objects : AtRest(p)' => AtRest(p) /\ obj'[p] = obj[p]
  BY DEF Unmoved, AtRest
<1> QED BY <1>1, FileKept

LEMMA MovesFiles ==
  ASSUME Base, FileInv, NEW o \in Objects, NEW new, Moves(o, new), Remembers,
         unrecorded' = unrecorded, lineage' = lineage,
         Registered(o) /\ new.st \in {"awaiting", "completed", "failed"} =>
           /\ new.st = obj[o].st /\ new.agent = obj[o].agent
           /\ new.credential = obj[o].credential /\ new.pending = obj[o].pending
  PROVE  FileInv'
<1>1. ASSUME NEW p \in Objects, AtRest(p)'
      PROVE  /\ AtRest(p) /\ obj'[p].st = obj[p].st /\ obj'[p].id = obj[p].id
             /\ obj'[p].agent = obj[p].agent /\ obj'[p].credential = obj[p].credential
             /\ obj'[p].pending = obj[p].pending
  <2>1. CASE p # o
    BY <2>1, <1>1 DEF Moves, AtRest
  <2>2. CASE p = o
    BY <2>2, <1>1 DEF Moves, AtRest
  <2> QED BY <2>1, <2>2
<1> QED BY <1>1, FileKept

LEMMA LeavesFiles ==
  ASSUME Base, FileInv, NEW os, Leaves(os), Remembers, unrecorded' = unrecorded, lineage' = lineage
  PROVE  FileInv'
<1>1. \A p \in Objects : AtRest(p)' => AtRest(p) /\ obj'[p] = obj[p]
  BY DEF Leaves, AtRest
<1> QED BY <1>1, FileKept

\* Only the session of the object itself is written, and its object is the registered one unless
\* somebody held it when it was forgotten.
LEMMA AnswerFiles ==
  ASSUME Base, FileInv, LeftInv, NEW o \in Objects, NEW new, AnswerStep(o, new)
  PROVE  FileInv'
<1>1. Moves(o, new) /\ new.st \in {"awaiting", "completed", "failed"}
  BY AnswerMoves
<1>2. /\ Exists(o) /\ PersistLineage(o, new.st) /\ new.agent = obj[o].agent
      /\ new.credential = obj[o].credential /\ new.pending = obj[o].pending
      /\ forgotten' = forgotten /\ Driving(o) # {} /\ new.id = obj[o].id
  BY <1>1 DEF AnswerStep, Moves
<1> PICK i \in Ids : i = obj[o].id
  BY <1>2 DEF Base, SessionsInv
<1>3. /\ \A j \in Ids : j # i => lineage'[j] = lineage[j] /\ (j \in unrecorded' <=> j \in unrecorded)
      /\ (lineage'[i] = RecordOf(o, new.st) /\ i \notin unrecorded') \/ i \in unrecorded'
  BY <1>1, <1>2, WriteFacts
<1> SUFFICES ASSUME NEW p \in Objects, AtRest(p)' PROVE Recorded(p)'
  BY DEF FileInv
<1>4. CASE p = o
  <2>1. RecordOf(o, new.st)' = RecordOf(o, new.st)
    BY <1>1, <1>2 DEF RecordOf, Moves
  <2>2. obj'[o] = new
    BY <1>1 DEF Moves
  <2> QED BY <1>2, <1>3, <1>4, <2>1, <2>2 DEF Recorded
<1>5. CASE p # o
  <2>1. obj'[p] = obj[p] /\ Registered(p) /\ AtRest(p)
    BY <1>1, <1>5 DEF Moves, AtRest
  <2>2. Recorded(p) /\ obj[p].id \in Ids
    BY <2>1 DEF FileInv, AtRest, Registered, Base, SessionsInv
  <2>3. RecordOf(p, obj[p].st)' = RecordOf(p, obj[p].st)
    BY <2>1 DEF RecordOf
  <2>4. CASE obj[p].id = i
    <3>1. ~Registered(o)
      BY <1>5, <2>1, <2>4, RegisteredAlone
    <3>2. forgotten[i] # {}
      BY <1>2, <3>1 DEF LeftInv, Held, Driving
    <3> QED BY <1>2, <2>1, <2>4, <3>2 DEF Recorded
  <2>5. CASE obj[p].id # i
    BY <1>2, <1>3, <2>1, <2>2, <2>3, <2>5 DEF Recorded
  <2> QED BY <2>4, <2>5
<1> QED BY <1>4, <1>5

LEMMA CreateFiles ==
  ASSUME Base, FileInv, NEW r \in Requests, NEW o \in Objects, NEW i \in Ids, NEW new,
         CreateStep(r, o, i, new)
  PROVE  FileInv'
<1>1. /\ obj'[o] = new /\ (\A p \in Objects : p # o => obj'[p] = obj[p])
      /\ sessions'[i] = o /\ (\A j \in Ids : j # i => sessions'[j] = sessions[j])
  BY CreateFacts
<1>2. /\ new.st \in ActiveStates /\ forgotten' = forgotten /\ unrecorded' = unrecorded
      /\ lineage' = lineage
  BY DEF CreateStep, IsNew, disk
<1>3. ASSUME NEW p \in Objects, AtRest(p)' PROVE AtRest(p) /\ obj'[p] = obj[p]
  <2>1. p # o
    BY <1>1, <1>2, <1>3 DEF AtRest, ActiveStates
  <2>2. obj'[p] = obj[p] /\ Exists(p) /\ sessions'[obj[p].id] = p
    BY <1>1, <1>3, <2>1 DEF AtRest, Registered, Exists
  <2>3. obj[p].id \in Ids /\ obj[p].id # i
    BY <1>1, <2>1, <2>2 DEF Base, SessionsInv
  <2> QED BY <1>1, <1>3, <2>2, <2>3 DEF AtRest, Registered
<1>4. Remembers
  BY <1>2 DEF Remembers
<1> QED BY <1>2, <1>3, <1>4, FileKept

LEMMA FileStep ==
  ASSUME Base, LeftInv, FileInv, NextStep PROVE FileInv'
<1>1. ASSUME forgotten' = forgotten PROVE Remembers
  BY <1>1 DEF Remembers
<1>2. ASSUME NEW r \in Requests, NEW new, QuietStep(r, new) PROVE FileInv'
  <2>1. Unmoved
    BY <1>2, UnmovedSteps
  <2>2. lineage' = lineage /\ forgotten' = forgotten /\ unrecorded' = unrecorded
    BY <1>2 DEF QuietStep, history, disk
  <2> QED BY <2>1, <2>2, <1>1, UnmovedFiles
<1>3. ASSUME NEW r \in Requests, NEW o \in Objects, NEW new, NEW ask, FollowStep(r, o, new, ask)
      PROVE  FileInv'
  <2>1. new.st = "running" /\ lineage' = lineage /\ forgotten' = forgotten /\ unrecorded' = unrecorded
    BY <1>3 DEF FollowStep, history, disk
  <2> QED BY <2>1, <1>1, <1>3, FollowMoves, MovesFiles
<1>4. ASSUME NEW r \in Requests, NEW o \in Objects, NEW new, NEW ask, AcceptStep(r, o, new, ask)
      PROVE  FileInv'
  <2>1. new.st = "resuming" /\ lineage' = lineage /\ forgotten' = forgotten /\ unrecorded' = unrecorded
    BY <1>4 DEF AcceptStep, history, disk
  <2> QED BY <2>1, <1>1, <1>4, AcceptMoves, MovesFiles
<1>5. ASSUME NEW r \in Requests, NEW o \in Objects, NEW new, OpenedStep(r, o, new) PROVE FileInv'
  <2>1. Moves(o, new) /\ new.st \notin {"awaiting", "completed", "failed"}
    BY <1>5, OpenedMoves
  <2>2. lineage' = lineage /\ forgotten' = forgotten /\ unrecorded' = unrecorded
    BY <1>5 DEF OpenedStep, history
  <2> QED BY <2>1, <2>2, <1>1, MovesFiles
<1>6. ASSUME NEW r \in Requests, OpenFails(r) PROVE FileInv'
  <2>1. Leaves({req[r].obj})
    BY <1>6, OpenFailsLeaves
  <2>2. lineage' = lineage /\ forgotten' = forgotten /\ unrecorded' = unrecorded
    BY <1>6 DEF OpenFails, history, disk
  <2> QED BY <2>1, <2>2, <1>1, LeavesFiles
<1>7. ASSUME NEW o \in Objects, NEW new, AskStep(o, new) PROVE FileInv'
  <2>1. Moves(o, new)
    BY <1>7, AskMoves
  <2>2. lineage' = lineage /\ forgotten' = forgotten /\ unrecorded' = unrecorded
    BY <1>7 DEF AskStep, history, disk
  <2>3. new.st \notin {"awaiting", "completed", "failed"}
    BY <1>7 DEF AskStep, Base, StatesInv, StateOk
  <2> QED BY <2>1, <2>2, <2>3, <1>1, MovesFiles
<1>8. ASSUME NEW o \in Objects, NEW new, EndStep(o, new) PROVE FileInv'
  <2>1. Moves(o, new)
    BY <1>8, EndMoves
  <2>2. lineage' = lineage /\ forgotten' = forgotten /\ unrecorded' = unrecorded
    BY <1>8 DEF EndStep, history, disk
  <2>3. Registered(o) => obj[o].run # "cancelled"
    BY DEF Base, StatesInv, DrivenOk
  <2>4. Registered(o) => /\ new.st = obj[o].st /\ new.agent = obj[o].agent
                         /\ new.credential = obj[o].credential /\ new.pending = obj[o].pending
    BY <1>8, <2>3 DEF EndStep
  <2> QED BY <2>1, <2>2, <2>4, <1>1, MovesFiles
<1>9. ASSUME NEW o \in Objects, ReleaseStep(o) PROVE FileInv'
  <2>1. Unmoved
    BY <1>9, UnmovedSteps
  <2>2. lineage' = lineage /\ forgotten' = forgotten /\ unrecorded' = unrecorded
    BY <1>9 DEF ReleaseStep, history, disk
  <2> QED BY <2>1, <2>2, <1>1, UnmovedFiles
<1>10. ASSUME NEW os, ForgetStep(os) PROVE FileInv'
  <2>1. Leaves(os) /\ Remembers
    BY <1>10, ForgetStepLeaves, ForgetHeld
  <2>2. lineage' = lineage /\ unrecorded' = unrecorded
    BY <1>10 DEF ForgetStep, disk
  <2> QED BY <2>1, <2>2, LeavesFiles
<1>11. ASSUME CalmStep PROVE FileInv'
  <2>1. Unmoved
    BY <1>11, UnmovedSteps
  <2>2. /\ \A i \in Ids : lineage'[i] \in {lineage[i], NoFile}
        /\ forgotten' = forgotten /\ unrecorded' = unrecorded
    BY <1>11 DEF CalmStep
  <2> QED BY <2>1, <2>2, <1>1, UnmovedFiles
<1>12. ASSUME Restart PROVE FileInv'
  <2>1. \A p \in Objects : ~Registered(p)'
    BY <1>12, RestartLeaves
  <2> QED BY <2>1 DEF FileInv, AtRest
<1> QED
  BY ONLY <1>2, <1>3, <1>4, <1>5, <1>6, <1>7, <1>8, <1>9, <1>10, <1>11, <1>12, NextStep, Base,
          FileInv, LeftInv, AnswerFiles, CreateFiles
     DEF NextStep

LEMMA FilesHold == Spec => []FileInv
<1>1. Init => FileInv
  BY DEF Init, RegistryInit, FileInv, AtRest, Registered, Exists, NoObject
<1>2. Base /\ LeftInv /\ FileInv /\ [Next]_vars => FileInv'
  BY NextCases, FileStep
<1> QED BY BaseHolds, LeftHolds, <1>1, <1>2, PTL DEF Spec

\* A session at rest is what its lineage file says, so that a restart at any moment finds the same
\* agent with the same calls to answer; with the exceptions that the property names.
THEOREM FilesAreCurrent == Spec => []LineageIsCurrent
BY FilesHold, FileGives, PTL

-----------------------------------------------------------------------------
(* A text whose run the ledger knows                                          *)

LedgerInv == LedgerV2 \/ \A k \in TextKeys : ledger[k].st # "running"

LEMMA LedgerKept ==
  ASSUME LedgerInv, \/ LedgerV2
                    \/ \A k \in TextKeys : ledger'[k].st = "running" => ledger[k].st = "running"
  PROVE  LedgerInv'
BY DEF LedgerInv

LEMMA LedgerStep ==
  ASSUME LedgerInv, NextStep PROVE LedgerInv'
<1>1. CASE UNCHANGED ledger
  BY <1>1 DEF LedgerInv
<1>2. ASSUME NEW r, NEW o, NEW new, OpenedStep(r, o, new) PROVE LedgerInv'
  BY <1>1, <1>2, LedgerKept DEF OpenedStep
<1>3. ASSUME NEW o, NEW new, AnswerStep(o, new) PROVE LedgerInv'
  BY <1>3, LedgerKept DEF AnswerStep
<1>4. ASSUME NEW r, NEW new, QuietStep(r, new) \/ OpenFails(r) PROVE LedgerInv'
  BY <1>1, <1>4 DEF QuietStep, OpenFails, disk
<1>5. ASSUME NEW r, NEW o, NEW i, NEW new, CreateStep(r, o, i, new) PROVE LedgerInv'
  BY <1>1, <1>5 DEF CreateStep, disk
<1>6. ASSUME NEW r, NEW o, NEW new, NEW ask, FollowStep(r, o, new, ask) \/ AcceptStep(r, o, new, ask)
      PROVE  LedgerInv'
  BY <1>1, <1>6 DEF FollowStep, AcceptStep, disk
<1>7. ASSUME NEW o, NEW new, AskStep(o, new) \/ EndStep(o, new) \/ ReleaseStep(o) PROVE LedgerInv'
  BY <1>1, <1>7 DEF AskStep, EndStep, ReleaseStep, disk
<1>8. ASSUME NEW os, ForgetStep(os) \/ CalmStep \/ Restart PROVE LedgerInv'
  BY <1>1, <1>8 DEF ForgetStep, CalmStep, Restart, disk
<1> QED
  BY ONLY <1>2, <1>3, <1>4, <1>5, <1>6, <1>7, <1>8, NextStep DEF NextStep

LEMMA LedgerHolds == Spec => []LedgerInv
<1>1. Init => LedgerInv
  BY DEF Init, LedgerInv, NoRun
<1>2. Base /\ LedgerInv /\ [Next]_vars => LedgerInv'
  BY NextCases, LedgerStep
<1> QED BY BaseHolds, <1>1, <1>2, PTL DEF Spec

SentOnce ==
  \A k \in TextKeys, r \in Requests :
    (ledger[k].st = "running" /\ req'[r].pc = "opening" /\ req'[r].key = k) => req[r] = req'[r]

LEMMA StaySent ==
  ASSUME OpeningsStay PROVE SentOnce
BY DEF OpeningsStay, SentOnce

\* A key that was asked about in the ledger, or that the ledger does not keep.
LEMMA ProceedsUnbound ==
  ASSUME LedgerInv, NEW k \in TextKeys, Proceeds(k) PROVE ledger[k].st # "running"
BY DEF LedgerInv, Proceeds

LEMMA CreateSent ==
  ASSUME Base, LedgerInv, NEW r \in Requests, NEW o \in Objects, NEW i \in Ids, NEW new,
         CreateStep(r, o, i, new)
  PROVE  SentOnce
<1> SUFFICES ASSUME NEW k \in TextKeys, NEW q \in Requests, ledger[k].st = "running",
                    req'[q].pc = "opening", req'[q].key = k
             PROVE  req[q] = req'[q]
  BY DEF SentOnce
<1>1. CASE q # r
  BY <1>1, CreateAsks
<1>2. CASE q = r
  <2>1. PICK mode \in Modes, l \in Keys, a \in Agents \cup {None} : OpensNew(r, o, i, new, mode, l, a)
    BY <1>2 DEF CreateStep, Idle, Base, Typed, RequestsTyped
  <2>2. Opens(r, o, l, mode, a) /\ (l \in ResultKeys \/ Proceeds(l))
    BY <2>1 DEF OpensNew
  <2>3. req'[r].key = l
    BY <2>2 DEF Opens, Base, Typed, RequestsTyped, Idle
  <2>4. l = k /\ k \notin ResultKeys
    BY <2>3, <1>2, KeyFacts
  <2> QED BY <2>2, <2>4, ProceedsUnbound
<1> QED BY <1>1, <1>2

LEMMA FollowSent ==
  ASSUME Base, LedgerInv, NEW r \in Requests, NEW o \in Objects, NEW new, NEW ask,
         FollowStep(r, o, new, ask)
  PROVE  SentOnce
<1>1. req'[r] = ask /\ \A q \in Requests : q # r => req'[q] = req[q]
  BY AskTyped DEF FollowStep, Base, Typed
<1>2. Proceeds(ask.key)
  BY DEF FollowStep
<1> QED BY <1>1, <1>2, ProceedsUnbound DEF SentOnce

LEMMA SentStep ==
  ASSUME Base, LedgerInv, NextStep PROVE SentOnce
<1>1. CASE UNCHANGED req
  BY <1>1 DEF SentOnce
<1>2. ASSUME NEW o \in Objects, Freed(o) PROVE SentOnce
  BY <1>2, FreedStay, StaySent
<1>3. ASSUME NEW r \in Requests, NEW new, QuietStep(r, new) PROVE SentOnce
  BY <1>3, QuietStay, StaySent
<1>4. ASSUME NEW r \in Requests, NEW o \in Objects, NEW new, NEW ask, AcceptStep(r, o, new, ask)
      PROVE  SentOnce
  BY <1>4, AcceptStay, StaySent
<1>5. ASSUME NEW r \in Requests, NEW o \in Objects, NEW new, OpenedStep(r, o, new) PROVE SentOnce
  BY <1>5, OpenedStay, StaySent
<1>6. ASSUME NEW r \in Requests, OpenFails(r) PROVE SentOnce
  BY <1>6, OpenFailsStay, StaySent
<1>7. ASSUME Restart PROVE SentOnce
  BY <1>7, RestartStay, StaySent
<1>8. ASSUME NEW o \in Objects, NEW new, AnswerStep(o, new) \/ ReleaseStep(o) PROVE SentOnce
  BY <1>2, <1>8 DEF AnswerStep, ReleaseStep
<1>9. ASSUME NEW o \in Objects, NEW new, AskStep(o, new) \/ EndStep(o, new) PROVE SentOnce
  BY <1>1, <1>9 DEF AskStep, EndStep
<1>10. ASSUME NEW os, ForgetStep(os) \/ CalmStep PROVE SentOnce
  BY <1>1, <1>10 DEF ForgetStep, CalmStep
<1> QED
  BY ONLY <1>3, <1>4, <1>5, <1>6, <1>7, <1>8, <1>9, <1>10, NextStep, Base, LedgerInv, CreateSent,
          FollowSent
     DEF NextStep

\* While the ledger says that a text is running, also for a process that died, no path sends that
\* text again: neither a turn that starts, nor a follow-up of a live or of a stored session.
THEOREM BoundTextsAreSentOnce == Spec => BoundTextIsNotResent
<1>1. Base /\ LedgerInv /\ [Next]_vars => [SentOnce]_vars
  BY NextCases, SentStep
<1>2. SentOnce <=> \A k \in TextKeys, r \in Requests :
        (ledger[k].st = "running" /\ req'[r].pc = "opening" /\ req'[r].key = k)
        => req[r] = req'[r]
  BY DEF SentOnce
<1> QED BY BaseHolds, LedgerHolds, <1>1, <1>2, PTL DEF Spec, BoundTextIsNotResent

-----------------------------------------------------------------------------
(* Which session a batch belongs to                                           *)

LEMMA Quotient ==
  ASSUME NEW x \in Nat, NEW y \in Nat, NEW m \in Nat, y < m
  PROVE  (x * m + y) \div m = x
OBVIOUS

LEMMA AskerOfBatch ==
  ASSUME NEW o \in Objects, NEW n \in 1 .. MaxRounds
  PROVE  AskedBy(BatchOf(o, n)) = o
<1>1. /\ o \in Nat /\ 1 <= o /\ n \in Nat /\ 1 <= n /\ n <= MaxRounds /\ MaxRounds \in Nat
  BY BoundAssumption DEF Objects
<1>2. PICK x \in Nat, y \in Nat : x = o - 1 /\ y = n - 1 /\ y < MaxRounds
  BY <1>1
<1>3. (x * MaxRounds + y) \div MaxRounds = x
  BY <1>1, <1>2, Quotient
<1>4. x * MaxRounds \in Int
  BY <1>1, <1>2
<1>5. BatchOf(o, n) - 1 = x * MaxRounds + y
  BY <1>1, <1>2, <1>4 DEF BatchOf
<1> QED BY <1>1, <1>2, <1>3, <1>5 DEF AskedBy

AskedFor(o, b) == \E n \in 1 .. MaxRounds : b = BatchOf(o, n)

\* b was asked for by an object of session i.
BatchIn(b, i) == \E o \in Objects : Exists(o) /\ obj[o].id = i /\ AskedFor(o, b)

BatchesInv ==
  /\ \A o \in Objects : \A b \in obj[o].pending : AskedFor(o, b)
  /\ \A o \in Objects : obj[o].boundary = "tools" => BatchOf(o, obj[o].rounds) \in obj[o].pending
  /\ \A i \in Ids : \A b \in lineage[i].pending : BatchIn(b, i)
  /\ \A r \in Requests : req[r].pc = "opening" /\ req[r].mode = "pending" =>
       BatchIn(req[r].key.of, obj[req[r].obj].id)

\* The batches that are named were named before, by the same, or belong there.
BatchesNamed ==
  /\ \A o \in Objects : \A b \in obj'[o].pending : b \in obj[o].pending \/ AskedFor(o, b)
  /\ \A o \in Objects : obj'[o].boundary = "tools" =>
       \/ obj[o].boundary = "tools" /\ obj'[o].rounds = obj[o].rounds /\ obj'[o].pending = obj[o].pending
       \/ BatchOf(o, obj'[o].rounds) \in obj'[o].pending
  /\ \A i \in Ids : \A b \in lineage'[i].pending : b \in lineage[i].pending \/ BatchIn(b, i)
  /\ \A r \in Requests : req'[r].pc = "opening" /\ req'[r].mode = "pending" =>
       req'[r] = req[r] \/ BatchIn(req'[r].key.of, obj'[req'[r].obj].id)

LEMMA BatchesKept ==
  ASSUME Base, BatchesInv, KeepsIds, BatchesNamed
  PROVE  BatchesInv'
<1>1. \A b, i : BatchIn(b, i) =>
        \E o \in Objects : obj'[o].st # "none" /\ obj'[o].id = i /\ AskedFor(o, b)
  BY DEF BatchIn, KeepsIds
<1>2. \A o \in Objects : \A b \in obj'[o].pending : AskedFor(o, b)
  BY DEF BatchesNamed, BatchesInv
<1>3. \A o \in Objects : obj'[o].boundary = "tools" => BatchOf(o, obj'[o].rounds) \in obj'[o].pending
  BY DEF BatchesNamed, BatchesInv
<1>4. ASSUME NEW i \in Ids, NEW b \in lineage'[i].pending
      PROVE  \E o \in Objects : obj'[o].st # "none" /\ obj'[o].id = i /\ AskedFor(o, b)
  BY <1>1, <1>4 DEF BatchesNamed, BatchesInv
<1>5. ASSUME NEW r \in Requests, req'[r].pc = "opening", req'[r].mode = "pending"
      PROVE  \E o \in Objects : /\ obj'[o].st # "none" /\ obj'[o].id = obj'[req'[r].obj].id
                                /\ AskedFor(o, req'[r].key.of)
  <2>1. CASE req'[r] = req[r]
    <3>1. req[r].obj \in Objects /\ Exists(req[r].obj)
      BY <1>5, <2>1 DEF Base, Typed, RequestsTyped, ReqInv
    <3>2. obj'[req[r].obj].id = obj[req[r].obj].id
      BY <3>1 DEF KeepsIds
    <3>3. BatchIn(req[r].key.of, obj[req[r].obj].id)
      BY <1>5, <2>1 DEF BatchesInv
    <3> QED BY <2>1, <3>2, <3>3, <1>1
  <2>2. CASE BatchIn(req'[r].key.of, obj'[req'[r].obj].id)
    BY <2>2, <1>1
  <2> QED BY <1>5, <2>1, <2>2 DEF BatchesNamed
<1> QED BY <1>2, <1>3, <1>4, <1>5 DEF BatchesInv, BatchIn, Exists, AskedFor

\* What asks for nothing and names no batch for another.
LEMMA SameBatches ==
  ASSUME OpeningsStay,
         \A p \in Objects : obj'[p].pending \subseteq obj[p].pending,
         \A p \in Objects : obj'[p].boundary = "tools" =>
           obj[p].boundary = "tools" /\ obj'[p].rounds = obj[p].rounds /\ obj'[p].pending = obj[p].pending,
         \A i \in Ids : lineage'[i] \in {lineage[i], NoFile}
  PROVE  BatchesNamed
<1>1. \A i \in Ids : \A b \in lineage'[i].pending : b \in lineage[i].pending
  BY DEF NoFile
<1> QED BY <1>1 DEF BatchesNamed, OpeningsStay

LEMMA MovesBatches ==
  ASSUME NEW o \in Objects, NEW new, Moves(o, new), OpeningsStay, lineage' = lineage,
         new.pending \subseteq obj[o].pending,
         new.boundary = "tools" =>
           obj[o].boundary = "tools" /\ new.rounds = obj[o].rounds /\ new.pending = obj[o].pending
  PROVE  BatchesNamed
<1>1. ASSUME NEW p \in Objects
      PROVE  /\ obj'[p].pending \subseteq obj[p].pending
             /\ obj'[p].boundary = "tools" =>
                  /\ obj[p].boundary = "tools" /\ obj'[p].rounds = obj[p].rounds
                  /\ obj'[p].pending = obj[p].pending
  BY DEF Moves
<1> QED BY <1>1, SameBatches

LEMMA LeavesBatches ==
  ASSUME NEW os, Leaves(os), OpeningsStay, lineage' = lineage
  PROVE  BatchesNamed
<1>1. ASSUME NEW p \in Objects
      PROVE  /\ obj'[p].pending \subseteq obj[p].pending
             /\ obj'[p].boundary = "tools" =>
                  /\ obj[p].boundary = "tools" /\ obj'[p].rounds = obj[p].rounds
                  /\ obj'[p].pending = obj[p].pending
  BY DEF Leaves, Cut
<1> QED BY <1>1, SameBatches

LEMMA CreateBatches ==
  ASSUME Base, BatchesInv, NEW r \in Requests, NEW o \in Objects, NEW i \in Ids, NEW new,
         CreateStep(r, o, i, new)
  PROVE  BatchesNamed
<1>1. obj'[o] = new /\ (\A p \in Objects : p # o => obj'[p] = obj[p])
  BY CreateFacts
<1>2. new.pending = {} /\ new.boundary = "none" /\ new.id = i /\ lineage' = lineage
  BY DEF CreateStep, IsNew, disk
<1>3. ASSUME NEW q \in Requests, req'[q].pc = "opening", req'[q].mode = "pending"
      PROVE  req'[q] = req[q] \/ BatchIn(req'[q].key.of, obj'[req'[q].obj].id)
  <2>1. CASE q # r
    BY <2>1, CreateAsks
  <2>2. CASE q = r
    <3>1. PICK mode \in Modes, k \in Keys, a \in Agents \cup {None} : OpensNew(r, o, i, new, mode, k, a)
      BY <2>2, <1>3 DEF CreateStep, Idle, Base, Typed, RequestsTyped
    <3>2. req'[r].mode = mode /\ req'[r].obj = o /\ req'[r].key = k
      <4>1. Opens(r, o, k, mode, a)
        BY <3>1 DEF OpensNew
      <4> QED BY <4>1 DEF Opens, Base, Typed, RequestsTyped, Idle
    <3>3. k.of \in lineage[i].pending
      BY <2>2, <1>3, <3>1, <3>2 DEF OpensNew
    <3>4. BatchIn(k.of, i)
      BY <3>3 DEF BatchesInv
    <3> QED BY <2>2, <1>1, <1>2, <3>2, <3>4
  <2> QED BY <2>1, <2>2
<1> QED BY <1>1, <1>2, <1>3 DEF BatchesNamed

LEMMA FollowBatches ==
  ASSUME Base, NEW r \in Requests, NEW o \in Objects, NEW new, NEW ask, FollowStep(r, o, new, ask)
  PROVE  BatchesNamed
<1>1. obj'[o] = new /\ (\A p \in Objects : p # o => obj'[p] = obj[p])
  BY FollowMoves DEF Moves
<1>2. req'[r] = ask /\ \A q \in Requests : q # r => req'[q] = req[q]
  BY AskTyped DEF FollowStep, Base, Typed
<1>3. new.pending = {} /\ new.boundary = "none" /\ ask.mode = "follow" /\ lineage' = lineage
  BY DEF FollowStep, disk
<1> QED BY <1>1, <1>2, <1>3 DEF BatchesNamed

LEMMA AskBatches ==
  ASSUME Base, NEW o \in Objects, NEW new, AskStep(o, new)
  PROVE  BatchesNamed
<1>1. obj'[o] = new /\ (\A p \in Objects : p # o => obj'[p] = obj[p])
  BY AskMoves DEF Moves
<1>2. /\ new.pending = obj[o].pending \cup {BatchOf(o, new.rounds)} /\ new.rounds = obj[o].rounds + 1
      /\ new \in Object /\ lineage' = lineage /\ req' = req
  BY DEF AskStep, disk, Changes
<1>3. new.rounds \in 1 .. MaxRounds
  <2>1. obj[o].rounds \in Nat /\ new.rounds \in 0 .. MaxRounds /\ MaxRounds \in Nat
    BY <1>2, NoneFacts DEF Base, Typed, ObjectsTyped, Object
  <2> QED BY <2>1, <1>2
<1>4. \A b \in new.pending : b \in obj[o].pending \/ AskedFor(o, b)
  BY <1>2, <1>3 DEF AskedFor
<1>5. BatchOf(o, new.rounds) \in new.pending
  BY <1>2
<1> QED BY <1>1, <1>2, <1>4, <1>5 DEF BatchesNamed

LEMMA AnswerBatches ==
  ASSUME Base, BatchesInv, NEW o \in Objects, NEW new, AnswerStep(o, new)
  PROVE  BatchesNamed
<1>1. Moves(o, new) /\ new.st \in {"awaiting", "completed", "failed"}
  BY AnswerMoves
<1>2. /\ Exists(o) /\ PersistLineage(o, new.st) /\ Freed(o) /\ new.pending = obj[o].pending
      /\ new.rounds = obj[o].rounds /\ new.boundary = obj[o].boundary
  BY <1>1 DEF AnswerStep, Moves
<1>3. \A i \in Ids : lineage'[i] = lineage[i] \/ (i = obj[o].id /\ lineage'[i] = RecordOf(o, new.st))
  BY <1>1, <1>2, WriteFacts
<1>4. \A b \in RecordOf(o, new.st).pending : BatchIn(b, obj[o].id)
  BY <1>2 DEF RecordOf, BatchesInv, BatchIn
<1>5. OpeningsStay
  BY <1>2, FreedStay
<1> QED BY <1>1, <1>2, <1>3, <1>4, <1>5 DEF BatchesNamed, OpeningsStay, Moves

LEMMA BatchesStep ==
  ASSUME Base, BatchesInv, NextStep PROVE BatchesInv'
<1>1. ASSUME Unmoved, OpeningsStay, \A i \in Ids : lineage'[i] \in {lineage[i], NoFile}
      PROVE  BatchesInv'
  <2>1. BatchesNamed
    BY <1>1, SameBatches DEF Unmoved
  <2> QED BY <1>1, <2>1, UnmovedKeepsIds, BatchesKept
<1>2. ASSUME NEW r \in Requests, NEW new, QuietStep(r, new) PROVE BatchesInv'
  <2>1. lineage' = lineage
    BY <1>2 DEF QuietStep, disk
  <2> QED BY <2>1, <1>1, <1>2, UnmovedSteps, QuietStay
<1>3. ASSUME NEW r \in Requests, NEW o \in Objects, NEW i \in Ids, NEW new, CreateStep(r, o, i, new)
      PROVE  BatchesInv'
  BY <1>3, CreateBatches, CreateKeepsIds, BatchesKept
<1>4. ASSUME NEW r \in Requests, NEW o \in Objects, NEW new, NEW ask, FollowStep(r, o, new, ask)
      PROVE  BatchesInv'
  BY <1>4, FollowBatches, FollowMoves, MovesKeepsIds, BatchesKept
<1>5. ASSUME NEW r \in Requests, NEW o \in Objects, NEW new, NEW ask, AcceptStep(r, o, new, ask)
      PROVE  BatchesInv'
  <2>1. Moves(o, new) /\ OpeningsStay
    BY <1>5, AcceptMoves, AcceptStay
  <2>2. lineage' = lineage /\ new.pending = obj[o].pending /\ new.boundary = "none"
    BY <1>5 DEF AcceptStep, disk
  <2> QED BY <2>1, <2>2, MovesBatches, MovesKeepsIds, BatchesKept
<1>6. ASSUME NEW r \in Requests, NEW o \in Objects, NEW new, OpenedStep(r, o, new) PROVE BatchesInv'
  <2>1. Moves(o, new) /\ OpeningsStay
    BY <1>6, OpenedMoves, OpenedStay
  <2>2. /\ lineage' = lineage /\ new.pending = obj[o].pending /\ new.boundary = obj[o].boundary
        /\ new.rounds = obj[o].rounds
    BY <1>6 DEF OpenedStep
  <2> QED BY <2>1, <2>2, MovesBatches, MovesKeepsIds, BatchesKept
<1>7. ASSUME NEW r \in Requests, OpenFails(r) PROVE BatchesInv'
  <2>1. OpeningsStay /\ Leaves({req[r].obj}) /\ lineage' = lineage
    BY <1>7, OpenFailsLeaves, OpenFailsStay DEF OpenFails, disk
  <2> QED BY <2>1, LeavesBatches, LeavesKeepsIds, BatchesKept
<1>8. ASSUME NEW o \in Objects, NEW new, AskStep(o, new) PROVE BatchesInv'
  BY <1>8, AskBatches, AskMoves, MovesKeepsIds, BatchesKept
<1>9. ASSUME NEW o \in Objects, NEW new, EndStep(o, new) PROVE BatchesInv'
  <2>1. Moves(o, new)
    BY <1>9, EndMoves
  <2>2. OpeningsStay /\ lineage' = lineage
    BY <1>9 DEF EndStep, disk, OpeningsStay
  <2>3. new.pending \subseteq obj[o].pending /\ new.boundary # "tools"
    BY <1>9, GoneFacts DEF EndStep
  <2> QED BY <2>1, <2>2, <2>3, MovesBatches, MovesKeepsIds, BatchesKept
<1>10. ASSUME NEW o \in Objects, ReleaseStep(o) PROVE BatchesInv'
  <2>1. OpeningsStay /\ lineage' = lineage
    BY <1>10, FreedStay DEF ReleaseStep, disk
  <2> QED BY <2>1, <1>1, <1>10, UnmovedSteps
<1>11. ASSUME NEW o \in Objects, NEW new, AnswerStep(o, new) PROVE BatchesInv'
  BY <1>11, AnswerBatches, AnswerMoves, MovesKeepsIds, BatchesKept
<1>12. ASSUME NEW os, ForgetStep(os) PROVE BatchesInv'
  <2>1. OpeningsStay /\ Leaves(os) /\ lineage' = lineage
    BY <1>12, ForgetStepLeaves DEF ForgetStep, disk, OpeningsStay
  <2> QED BY <2>1, LeavesBatches, LeavesKeepsIds, BatchesKept
<1>13. ASSUME CalmStep PROVE BatchesInv'
  <2>1. OpeningsStay /\ \A i \in Ids : lineage'[i] \in {lineage[i], NoFile}
    BY <1>13 DEF CalmStep, OpeningsStay
  <2> QED BY <2>1, <1>1, <1>13, UnmovedSteps
<1>14. ASSUME Restart PROVE BatchesInv'
  <2>1. \A p \in Objects : /\ obj'[p].pending = {} /\ obj'[p].boundary = "none"
                           /\ Exists(p) => Exists(p)' /\ obj'[p].id = obj[p].id
    BY <1>14, RestartLeaves
  <2>2. OpeningsStay /\ lineage' = lineage
    BY <1>14, RestartStay DEF Restart, disk
  <2>3. BatchesNamed
    BY <2>1, <2>2, SameBatches
  <2>4. KeepsIds
    BY <2>1 DEF KeepsIds, Exists
  <2> QED BY <2>3, <2>4, BatchesKept
<1> QED
  BY ONLY <1>2, <1>3, <1>4, <1>5, <1>6, <1>7, <1>8, <1>9, <1>10, <1>11, <1>12, <1>13, <1>14, NextStep
     DEF NextStep

LEMMA BatchesHold == Spec => []BatchesInv
<1>1. Init => BatchesInv
  BY DEF Init, RegistryInit, BatchesInv, NoObject, NoFile, Idle
<1>2. Base /\ BatchesInv /\ [Next]_vars => BatchesInv'
  BY NextCases, BatchesStep
<1> QED BY BaseHolds, <1>1, <1>2, PTL DEF Spec

-----------------------------------------------------------------------------
(* The last batch of a session that its client was shown                      *)

ShownRounds(o) == obj[o].rounds - (IF Unshown(o) THEN 1 ELSE 0)

\* b is the last batch that the client of session i was shown, and o asked for it.
LastShown(o, b, i) ==
  /\ Exists(o) /\ obj[o].id = i /\ ShownRounds(o) \in 1 .. MaxRounds
  /\ b = BatchOf(o, ShownRounds(o))
  /\ \A q \in Objects : q > o /\ Exists(q) /\ obj[q].id = i => ShownRounds(q) = 0

Certain(i) == i \notin unrecorded /\ forgotten[i] = {}

LastInv ==
  /\ \A i \in Ids : Certain(i) /\ lineage[i].st = "awaiting" =>
       \E o \in Objects : \E b \in lineage[i].pending : LastShown(o, b, i)
  /\ \A r \in Requests : /\ req[r].pc = "opening" /\ req[r].mode = "pending"
                         /\ Certain(obj[req[r].obj].id)
       => \E o \in Objects : LastShown(o, req[r].key.of, obj[req[r].obj].id)

\* Nobody is shown anything.
NothingShown == \A p \in Objects : ShownRounds(p)' = ShownRounds(p)

LEMMA NoneShown ==
  ASSUME Base, NEW p \in Objects, ~Exists(p) PROVE ShownRounds(p) = 0
<1>1. obj[p].rounds = 0 /\ obj[p].boundary = "none"
  BY DEF Base, SessionsInv, NoObject
<1> QED BY <1>1 DEF ShownRounds, Unshown

LEMMA LastShownKept ==
  ASSUME Base, KeepsIds, NothingShown, NEW o \in Objects, NEW b, NEW i, LastShown(o, b, i)
  PROVE  LastShown(o, b, i)'
<1>1. obj'[o].st # "none" /\ obj'[o].id = i /\ ShownRounds(o)' = ShownRounds(o)
  BY DEF KeepsIds, NothingShown, LastShown
<1>2. ASSUME NEW q \in Objects, q > o, Exists(q)', obj'[q].id = i PROVE ShownRounds(q)' = 0
  <2>1. CASE Exists(q)
    <3>1. obj[q].id = i
      BY <1>2, <2>1 DEF KeepsIds
    <3> QED BY <1>2, <2>1, <3>1 DEF LastShown, NothingShown
  <2>2. CASE ~Exists(q)
    BY <2>2, NoneShown DEF NothingShown
  <2> QED BY <2>1, <2>2
<1>3. b = BatchOf(o, ShownRounds(o)) /\ ShownRounds(o) \in 1 .. MaxRounds
  BY DEF LastShown
<1>4. (b = BatchOf(o, ShownRounds(o)))'
  BY <1>1, <1>3 DEF BatchOf
<1> QED BY <1>1, <1>2, <1>3, <1>4 DEF LastShown, Exists

LEMMA LastKept ==
  ASSUME Base, LastInv, KeepsIds, NothingShown, Remembers, unrecorded' = unrecorded,
         \A i \in Ids : lineage'[i] \in {lineage[i], NoFile},
         \A r \in Requests : req'[r].pc = "opening" /\ req'[r].mode = "pending" =>
           \/ req'[r] = req[r]
           \/ \E i \in Ids : /\ obj'[req'[r].obj].id = i /\ lineage[i].st = "awaiting"
                             /\ lineage[i].pending = {req'[r].key.of}
  PROVE  LastInv'
<1>1. \A i \in Ids : Certain(i)' => Certain(i)
  BY DEF Certain, Remembers
<1>2. ASSUME NEW i \in Ids, Certain(i)', lineage'[i].st = "awaiting"
      PROVE  \E o \in Objects : \E b \in lineage'[i].pending : LastShown(o, b, i)'
  <2>1. lineage'[i] = lineage[i]
    BY <1>2 DEF NoFile
  <2>2. PICK o \in Objects, b \in lineage[i].pending : LastShown(o, b, i)
    BY <1>1, <1>2, <2>1 DEF LastInv
  <2> QED BY <2>1, <2>2, LastShownKept
<1>3. ASSUME NEW r \in Requests, req'[r].pc = "opening", req'[r].mode = "pending",
             Certain(obj[req[r].obj].id)'
      PROVE  \E o \in Objects : LastShown(o, req[r].key.of, obj[req[r].obj].id)'
  <2>1. CASE req'[r] = req[r]
    <3>1. req[r].obj \in Objects /\ Exists(req[r].obj)
      BY <1>3, <2>1 DEF Base, Typed, RequestsTyped, ReqInv
    <3> PICK i, b : i = obj[req[r].obj].id /\ b = req[r].key.of
      OBVIOUS
    <3>2. obj'[req'[r].obj].id = i /\ i \in Ids /\ b = req'[r].key.of
      BY <2>1, <3>1 DEF KeepsIds, Base, SessionsInv
    <3>3. Certain(i)
      BY <1>1, <1>3, <3>2 DEF Certain
    <3>4. PICK o \in Objects : LastShown(o, b, i)
      BY <1>3, <2>1, <3>3 DEF LastInv
    <3>5. LastShown(o, b, i)'
      BY <3>4, LastShownKept
    <3> QED BY <3>2, <3>5
  <2>2. ASSUME NEW i \in Ids, obj'[req'[r].obj].id = i, lineage[i].st = "awaiting",
               lineage[i].pending = {req'[r].key.of}
        PROVE  \E o \in Objects : LastShown(o, req[r].key.of, obj[req[r].obj].id)'
    <3> PICK b : b = req'[r].key.of
      OBVIOUS
    <3>1. Certain(i)
      BY <1>1, <1>3, <2>2 DEF Certain
    <3>2. PICK o \in Objects : LastShown(o, b, i)
      BY <2>2, <3>1 DEF LastInv
    <3>3. LastShown(o, b, i)'
      BY <3>2, LastShownKept
    <3> QED BY <2>2, <3>3
  <2> QED BY <1>3, <2>1, <2>2
<1> QED BY <1>2, <1>3 DEF LastInv

LEMMA SameShown ==
  ASSUME NEW p, obj'[p].rounds = obj[p].rounds, Unshown(p)' <=> Unshown(p)
  PROVE  ShownRounds(p)' = ShownRounds(p)
BY DEF ShownRounds

LEMMA MovesShown ==
  ASSUME NEW o \in Objects, NEW new, Moves(o, new),
         \/ new.rounds = obj[o].rounds /\ ~Unshown(o) /\ (new.boundary # "tools" \/ new.applied)
         \/ new.rounds = obj[o].rounds /\ new.boundary = obj[o].boundary /\ new.applied = obj[o].applied
  PROVE  NothingShown
<1> SUFFICES ASSUME NEW p \in Objects PROVE ShownRounds(p)' = ShownRounds(p)
  BY DEF NothingShown
<1>1. obj'[p].rounds = obj[p].rounds /\ (Unshown(p)' <=> Unshown(p))
  BY DEF Moves, Unshown
<1> QED BY <1>1, SameShown

\* What is cut off before it was shown is not counted any more.
LEMMA CutShown ==
  ASSUME Base, NEW p \in Objects, NEW new, Cut(p, new), obj'[p] = new
  PROVE  ShownRounds(p)' = ShownRounds(p)
<1>1. obj[p].rounds \in Nat
  BY NoneFacts DEF Base, Typed, ObjectsTyped, Object
<1> QED BY <1>1 DEF Cut, ShownRounds, Unshown

LEMMA LeavesShown ==
  ASSUME Base, NEW os, Leaves(os) PROVE NothingShown
<1> SUFFICES ASSUME NEW p \in Objects PROVE ShownRounds(p)' = ShownRounds(p)
  BY DEF NothingShown
<1>1. CASE p \in os
  BY <1>1, CutShown DEF Leaves
<1>2. CASE p \notin os
  <2>1. obj'[p] = obj[p]
    BY <1>2 DEF Leaves
  <2> QED BY <2>1 DEF ShownRounds, Unshown
<1> QED BY <1>1, <1>2

\* Nobody asks for tools, or is told to end, before its last batch has been shown.
LEMMA DrainedShown ==
  ASSUME Base, Drained, NEW o \in Objects PROVE ~Unshown(o)
BY DEF Base, StatesInv, DrivenOk, Unshown, Drained, Driving

LEMMA AskShown ==
  ASSUME Base, NEW o \in Objects, NEW new, AskStep(o, new) PROVE NothingShown
<1>1. obj'[o] = new /\ (\A p \in Objects : p # o => obj'[p] = obj[p])
  BY AskMoves DEF Moves
<1>2. /\ ~Unshown(o) /\ new.boundary = "tools" /\ ~new.applied /\ new.rounds = obj[o].rounds + 1
      /\ obj[o].rounds \in Nat
  BY DrainedShown, NoneFacts DEF AskStep, Base, Typed, ObjectsTyped, Object
<1>3. ShownRounds(o)' = ShownRounds(o)
  BY <1>1, <1>2 DEF ShownRounds, Unshown
<1>4. ASSUME NEW p \in Objects, p # o PROVE ShownRounds(p)' = ShownRounds(p)
  BY <1>1, <1>4 DEF ShownRounds, Unshown
<1> QED BY <1>3, <1>4 DEF NothingShown

LEMMA EndShown ==
  ASSUME Base, NEW o \in Objects, NEW new, EndStep(o, new) PROVE NothingShown
<1>1. Moves(o, new) /\ ~Unshown(o)
  BY EndMoves, DrainedShown DEF EndStep
<1>2. new.boundary # "tools" /\ new.rounds = obj[o].rounds
  <2>1. CASE new = Gone(o)
    <3>1. Gone(o).boundary = "none" /\ Gone(o).rounds = obj[o].rounds - 0
      BY <1>1 DEF Gone, NoObject
    <3>2. obj[o].rounds \in Nat
      BY NoneFacts DEF Base, Typed, ObjectsTyped, Object
    <3> QED BY <2>1, <3>1, <3>2
  <2>2. CASE new # Gone(o)
    BY <2>2 DEF EndStep
  <2> QED BY <2>1, <2>2
<1> QED BY <1>1, <1>2, MovesShown

LEMMA CreateShown ==
  ASSUME Base, NEW r \in Requests, NEW o \in Objects, NEW i \in Ids, NEW new,
         CreateStep(r, o, i, new)
  PROVE  NothingShown
<1>1. ~Exists(o) /\ obj'[o] = new /\ \A p \in Objects : p # o => obj'[p] = obj[p]
  BY CreateFacts
<1>2. new.rounds = 0 /\ new.boundary = "none"
  BY DEF CreateStep, IsNew
<1>3. ShownRounds(o)' = ShownRounds(o)
  BY <1>1, <1>2, NoneShown DEF ShownRounds, Unshown
<1>4. ASSUME NEW p \in Objects, p # o PROVE ShownRounds(p)' = ShownRounds(p)
  BY <1>1, <1>4 DEF ShownRounds, Unshown
<1> QED BY <1>3, <1>4 DEF NothingShown

\* No request is giving an agent new results while the object that answers is still driven.
LEMMA AnswerAlone ==
  ASSUME Base, LeftInv, NEW o \in Objects, Driving(o) # {}, Exists(o),
         NEW r \in Requests, req[r].pc = "opening", obj[req[r].obj].id = obj[o].id
  PROVE  forgotten[obj[o].id] # {}
<1> PICK x \in Objects : x = req[r].obj
  BY DEF Base, Typed, RequestsTyped
<1>1. x # o /\ Exists(x) /\ Held(x) /\ Held(o)
  BY DEF Base, ReqInv, Driving, Opening, Held
<1>2. ~Registered(o) \/ ~Registered(x)
  BY <1>1, RegisteredAlone
<1> QED BY <1>1, <1>2 DEF LeftInv

LEMMA AnswerLast ==
  ASSUME Base, LeftInv, BatchesInv, LastInv, NEW o \in Objects, NEW new, AnswerStep(o, new)
  PROVE  LastInv'
<1>1. Moves(o, new) /\ new.st \in {"awaiting", "completed", "failed"}
  BY AnswerMoves
<1>2. /\ Exists(o) /\ PersistLineage(o, new.st) /\ Freed(o) /\ Driving(o) # {}
      /\ new.pending = obj[o].pending /\ new.rounds = obj[o].rounds /\ new.id = obj[o].id
      /\ new.boundary = obj[o].boundary /\ new.applied /\ new.st = StateAfter(obj[o].boundary)
      /\ forgotten' = forgotten /\ obj[o].boundary \in {"tools", "final", "error"}
  BY <1>1 DEF AnswerStep, Moves, Base, Typed, ObjectsTyped, Object
<1> PICK j \in Ids : j = obj[o].id
  BY <1>2 DEF Base, SessionsInv
<1>3. /\ \A i \in Ids : i # j => lineage'[i] = lineage[i] /\ (i \in unrecorded' <=> i \in unrecorded)
      /\ (lineage'[j] = RecordOf(o, new.st) /\ j \notin unrecorded') \/ j \in unrecorded'
  BY <1>1, <1>2, WriteFacts
<1>4. /\ obj'[o] = new /\ \A p \in Objects : p # o => obj'[p] = obj[p]
  BY <1>1 DEF Moves
<1>5. ASSUME NEW i \in Ids, i # j, NEW p \in Objects, NEW b, LastShown(p, b, i)
      PROVE  LastShown(p, b, i)'
  <2>1. p # o
    BY <1>5 DEF LastShown
  <2>2. \A q \in Objects : q # o => ShownRounds(q)' = ShownRounds(q)
    BY <1>4 DEF ShownRounds, Unshown
  <2>3. obj'[p] = obj[p] /\ ShownRounds(p)' = ShownRounds(p)
    BY <1>4, <2>1, <2>2
  <2>4. \A q \in Objects : q > p /\ Exists(q)' /\ obj'[q].id = i => ShownRounds(q)' = 0
    BY <1>2, <1>4, <1>5, <2>2 DEF LastShown, Exists
  <2>5. b = BatchOf(p, ShownRounds(p)) /\ ShownRounds(p) \in 1 .. MaxRounds
    BY <1>5 DEF LastShown
  <2>6. (b = BatchOf(p, ShownRounds(p)))'
    BY <2>3, <2>5 DEF BatchOf
  <2> QED BY <1>5, <2>3, <2>4, <2>5, <2>6 DEF LastShown, Exists
<1>6. ASSUME new.st = "awaiting", forgotten[j] = {}
      PROVE  LastShown(o, BatchOf(o, obj[o].rounds), j)' /\ BatchOf(o, obj[o].rounds) \in obj[o].pending
  <2>1. obj[o].boundary = "tools"
    BY <1>2, <1>6 DEF StateAfter
  <2>2. BatchOf(o, obj[o].rounds) \in obj[o].pending
    BY <2>1 DEF BatchesInv
  <2>3. obj[o].rounds \in 0 .. MaxRounds /\ obj[o].rounds > 0 /\ MaxRounds \in Nat
    BY <2>1, NoneFacts DEF Base, Typed, ObjectsTyped, Object
  <2>4. Registered(o)
    BY <1>2, <1>6 DEF LeftInv, Held, Driving
  <2>5. ShownRounds(o)' = obj[o].rounds
    BY <1>2, <1>4, <2>3 DEF ShownRounds, Unshown
  <2>6. \A q \in Objects : q > o => ~(Exists(q)' /\ obj'[q].id = j)
    <3> SUFFICES ASSUME NEW q \in Objects, q > o, Exists(q)', obj'[q].id = j PROVE FALSE
      OBVIOUS
    <3>1. q # o /\ ~(q <= o)
      BY DEF Objects
    <3>2. Exists(q) /\ obj[q].id = j
      BY <3>1, <1>4 DEF Exists
    <3> QED BY <3>1, <3>2, <2>4 DEF Base, SessionsInv
  <2>7. (BatchOf(o, obj[o].rounds) = BatchOf(o, ShownRounds(o)))'
    BY <2>5, <1>2, <1>4 DEF BatchOf
  <2>8. (obj[o].rounds)' = obj[o].rounds
    BY <1>2, <1>4
  <2>9. Exists(o)' /\ obj'[o].id = j /\ obj[o].rounds \in 1 .. MaxRounds
    BY <1>1, <1>2, <2>3 DEF Moves, Exists
  <2> QED BY <2>2, <2>5, <2>6, <2>7, <2>8, <2>9 DEF LastShown
<1>7. ASSUME NEW i \in Ids, Certain(i)', lineage'[i].st = "awaiting"
      PROVE  \E p \in Objects : \E b \in lineage'[i].pending : LastShown(p, b, i)'
  <2>1. CASE i = j
    <3>1. lineage'[j] = RecordOf(o, new.st) /\ forgotten[j] = {}
      BY <1>2, <1>3, <1>7, <2>1 DEF Certain
    <3>2. new.st = "awaiting" /\ lineage'[j].pending = obj[o].pending
      BY <3>1, <1>7, <2>1 DEF RecordOf
    <3>3. PICK b \in obj[o].pending : b = BatchOf(o, obj[o].rounds)
      BY <1>6, <3>1, <3>2
    <3>4. (obj[o].rounds)' = obj[o].rounds
      BY <1>2, <1>4
    <3>5. LastShown(o, b, j)'
      BY <1>6, <3>1, <3>2, <3>3, <3>4 DEF BatchOf
    <3> QED BY <2>1, <3>2, <3>5
  <2>2. CASE i # j
    <3>1. Certain(i) /\ lineage'[i] = lineage[i]
      BY <1>2, <1>3, <1>7, <2>2 DEF Certain
    <3>2. PICK p \in Objects, b \in lineage[i].pending : LastShown(p, b, i)
      BY <1>7, <3>1 DEF LastInv
    <3>3. LastShown(p, b, i)'
      BY <2>2, <3>2, <1>5
    <3> QED BY <3>1, <3>3
  <2> QED BY <2>1, <2>2
<1>8. ASSUME NEW r \in Requests, req'[r].pc = "opening", req'[r].mode = "pending",
             Certain(obj[req[r].obj].id)'
      PROVE  \E p \in Objects : LastShown(p, req[r].key.of, obj[req[r].obj].id)'
  <2>1. req'[r] = req[r]
    BY <1>2, <1>8, FreedStay DEF OpeningsStay
  <2>2. req[r].obj \in Objects /\ Exists(req[r].obj)
    BY <1>8, <2>1 DEF Base, Typed, RequestsTyped, ReqInv
  <2> PICK i, b : i = obj[req[r].obj].id /\ b = req[r].key.of
    OBVIOUS
  <2>3. i \in Ids /\ obj'[req'[r].obj].id = i /\ b = req'[r].key.of
    BY <1>2, <1>4, <2>1, <2>2 DEF Base, SessionsInv
  <2>4. i \notin unrecorded' /\ forgotten[i] = {}
    BY <1>2, <1>8, <2>3 DEF Certain
  <2>5. i # j
    BY <1>2, <1>8, <2>1, <2>4, AnswerAlone
  <2>6. Certain(i)
    BY <1>3, <2>3, <2>4, <2>5 DEF Certain
  <2>7. PICK p \in Objects : LastShown(p, b, i)
    BY <1>8, <2>1, <2>6 DEF LastInv
  <2>8. LastShown(p, b, i)'
    BY <1>5, <2>3, <2>5, <2>7
  <2> QED BY <2>3, <2>8
<1> QED BY <1>7, <1>8 DEF LastInv

\* A request that takes over a stored session answers what its file says.
LEMMA CreateLast ==
  ASSUME Base, LastInv, NEW r \in Requests, NEW o \in Objects, NEW i \in Ids, NEW new,
         CreateStep(r, o, i, new)
  PROVE  LastInv'
<1>a. obj'[o] = new
  BY CreateFacts
<1>b. new.id = i /\ lineage' = lineage /\ unrecorded' = unrecorded /\ forgotten' = forgotten
  BY DEF CreateStep, IsNew, disk
<1>1. obj'[o] = new /\ new.id = i /\ lineage' = lineage /\ unrecorded' = unrecorded
      /\ forgotten' = forgotten
  BY <1>a, <1>b
<1>2. ASSUME NEW q \in Requests, req'[q].pc = "opening", req'[q].mode = "pending"
      PROVE  \/ req'[q] = req[q]
             \/ \E j \in Ids : /\ obj'[req'[q].obj].id = j /\ lineage[j].st = "awaiting"
                               /\ lineage[j].pending = {req'[q].key.of}
  <2>1. CASE q # r
    BY <2>1, CreateAsks
  <2>2. CASE q = r
    <3>1. PICK mode \in Modes, k \in Keys, a \in Agents \cup {None} : OpensNew(r, o, i, new, mode, k, a)
      BY <2>2, <1>2 DEF CreateStep, Idle, Base, Typed, RequestsTyped
    <3>2. req'[r].mode = mode /\ req'[r].obj = o /\ req'[r].key = k
      <4>1. Opens(r, o, k, mode, a)
        BY <3>1 DEF OpensNew
      <4> QED BY <4>1 DEF Opens, Base, Typed, RequestsTyped, Idle
    <3>3. lineage[i].st = "awaiting" /\ lineage[i].pending = {k.of}
      BY <2>2, <1>2, <3>1, <3>2 DEF OpensNew
    <3> QED BY <2>2, <1>1, <3>2, <3>3
  <2> QED BY <2>1, <2>2
<1>3. Remembers
  BY <1>1 DEF Remembers
<1>4. KeepsIds /\ NothingShown
  BY CreateKeepsIds, CreateShown
<1>5. \A j \in Ids : lineage'[j] \in {lineage[j], NoFile}
  BY <1>1
<1> HIDE DEF NothingShown
<1> QED BY <1>1, <1>2, <1>3, <1>4, <1>5, LastKept

LEMMA FollowLast ==
  ASSUME Base, LastInv, NEW r \in Requests, NEW o \in Objects, NEW new, NEW ask,
         FollowStep(r, o, new, ask)
  PROVE  LastInv'
<1>1. Moves(o, new) /\ KeepsIds
  BY FollowMoves, MovesKeepsIds
<1>2. /\ new.rounds = obj[o].rounds /\ new.boundary = "none" /\ lineage' = lineage
      /\ forgotten' = forgotten /\ unrecorded' = unrecorded /\ ask.mode = "follow" /\ Drained
  BY DEF FollowStep, disk, history, Arrives
<1>3. NothingShown /\ Remembers
  BY <1>1, <1>2, DrainedShown, MovesShown DEF Remembers
<1>4. req'[r] = ask /\ \A q \in Requests : q # r => req'[q] = req[q]
  BY AskTyped DEF FollowStep, Base, Typed
<1>5. \A q \in Requests : req'[q].mode = "pending" => req'[q] = req[q]
  BY <1>2, <1>4
<1> QED BY <1>1, <1>2, <1>3, <1>5, LastKept

LEMMA LastStep ==
  ASSUME Base, LeftInv, BatchesInv, LastInv, NextStep PROVE LastInv'
<1>1. ASSUME KeepsIds, NothingShown, OpeningsStay, Remembers, unrecorded' = unrecorded,
             \A i \in Ids : lineage'[i] \in {lineage[i], NoFile}
      PROVE  LastInv'
  BY <1>1, LastKept DEF OpeningsStay
<1>2. ASSUME forgotten' = forgotten PROVE Remembers
  BY <1>2 DEF Remembers
<1>3. ASSUME Unmoved PROVE KeepsIds /\ NothingShown
  BY <1>3, UnmovedKeepsIds DEF NothingShown, Unmoved, ShownRounds, Unshown
<1>4. ASSUME NEW r \in Requests, NEW new, QuietStep(r, new) PROVE LastInv'
  <2>1. Unmoved /\ OpeningsStay
    BY <1>4, UnmovedSteps, QuietStay
  <2>2. lineage' = lineage /\ forgotten' = forgotten /\ unrecorded' = unrecorded
    BY <1>4 DEF QuietStep, disk, history
  <2> QED BY <2>1, <2>2, <1>1, <1>2, <1>3
<1>5. ASSUME NEW r \in Requests, NEW o \in Objects, NEW new, NEW ask, AcceptStep(r, o, new, ask)
      PROVE  LastInv'
  <2>1. Moves(o, new) /\ OpeningsStay
    BY <1>5, AcceptMoves, AcceptStay
  <2>2. /\ lineage' = lineage /\ forgotten' = forgotten /\ unrecorded' = unrecorded
        /\ new.rounds = obj[o].rounds /\ new.boundary = "none" /\ Drained
    BY <1>5 DEF AcceptStep, disk, history, Arrives
  <2>3. NothingShown
    BY <2>1, <2>2, DrainedShown, MovesShown
  <2> QED BY <2>1, <2>2, <2>3, <1>1, <1>2, MovesKeepsIds
<1>6. ASSUME NEW r \in Requests, NEW o \in Objects, NEW new, OpenedStep(r, o, new) PROVE LastInv'
  <2>1. Moves(o, new) /\ OpeningsStay
    BY <1>6, OpenedMoves, OpenedStay
  <2>2. /\ lineage' = lineage /\ forgotten' = forgotten /\ unrecorded' = unrecorded
        /\ new.rounds = obj[o].rounds /\ new.boundary = obj[o].boundary
        /\ new.applied = obj[o].applied
    BY <1>6 DEF OpenedStep, history
  <2>3. NothingShown
    BY <2>1, <2>2, MovesShown
  <2> QED BY <2>1, <2>2, <2>3, <1>1, <1>2, MovesKeepsIds
<1>7. ASSUME NEW r \in Requests, OpenFails(r) PROVE LastInv'
  <2>1. OpeningsStay /\ Leaves({req[r].obj})
    BY <1>7, OpenFailsLeaves, OpenFailsStay
  <2>2. lineage' = lineage /\ forgotten' = forgotten /\ unrecorded' = unrecorded
    BY <1>7 DEF OpenFails, disk, history
  <2> QED BY <2>1, <2>2, <1>1, <1>2, LeavesShown, LeavesKeepsIds
<1>8. ASSUME NEW o \in Objects, NEW new, AskStep(o, new) PROVE LastInv'
  <2>1. KeepsIds /\ NothingShown
    BY <1>8, AskMoves, MovesKeepsIds, AskShown
  <2>2. lineage' = lineage /\ forgotten' = forgotten /\ unrecorded' = unrecorded /\ OpeningsStay
    BY <1>8 DEF AskStep, disk, history, OpeningsStay
  <2> QED BY <2>1, <2>2, <1>1, <1>2
<1>9. ASSUME NEW o \in Objects, NEW new, EndStep(o, new) PROVE LastInv'
  <2>1. KeepsIds /\ NothingShown
    BY <1>9, EndMoves, MovesKeepsIds, EndShown
  <2>2. lineage' = lineage /\ forgotten' = forgotten /\ unrecorded' = unrecorded /\ OpeningsStay
    BY <1>9 DEF EndStep, disk, history, OpeningsStay
  <2> QED BY <2>1, <2>2, <1>1, <1>2
<1>10. ASSUME NEW o \in Objects, ReleaseStep(o) PROVE LastInv'
  <2>1. Unmoved /\ OpeningsStay
    BY <1>10, UnmovedSteps, FreedStay DEF ReleaseStep
  <2>2. lineage' = lineage /\ forgotten' = forgotten /\ unrecorded' = unrecorded
    BY <1>10 DEF ReleaseStep, disk, history
  <2> QED BY <2>1, <2>2, <1>1, <1>2, <1>3
<1>11. ASSUME NEW os, ForgetStep(os) PROVE LastInv'
  <2>1. Leaves(os) /\ Remembers
    BY <1>11, ForgetStepLeaves, ForgetHeld
  <2>2. lineage' = lineage /\ unrecorded' = unrecorded /\ OpeningsStay
    BY <1>11 DEF ForgetStep, disk, OpeningsStay
  <2> QED BY <2>1, <2>2, <1>1, LeavesShown, LeavesKeepsIds
<1>12. ASSUME CalmStep PROVE LastInv'
  <2>1. Unmoved
    BY <1>12, UnmovedSteps
  <2>2. /\ \A i \in Ids : lineage'[i] \in {lineage[i], NoFile}
        /\ forgotten' = forgotten /\ unrecorded' = unrecorded /\ OpeningsStay
    BY <1>12 DEF CalmStep, OpeningsStay
  <2> QED BY <2>1, <2>2, <1>1, <1>2, <1>3
<1>13. ASSUME Restart PROVE LastInv'
  <2>1. \A p \in Objects : /\ Exists(p) => Exists(p)' /\ obj'[p].id = obj[p].id
                           /\ obj'[p].rounds = obj[p].rounds - (IF Unshown(p) THEN 1 ELSE 0)
                           /\ obj'[p].boundary = "none"
    BY <1>13, RestartLeaves
  <2>2. /\ lineage' = lineage /\ forgotten' = forgotten /\ unrecorded' = unrecorded
        /\ OpeningsStay
    BY <1>13, RestartStay DEF Restart, disk
  <2>3. KeepsIds
    BY <2>1 DEF KeepsIds, Exists
  <2>4. NothingShown
    <3> SUFFICES ASSUME NEW p \in Objects PROVE ShownRounds(p)' = ShownRounds(p)
      BY DEF NothingShown
    <3>1. obj[p].rounds \in Nat
      BY NoneFacts DEF Base, Typed, ObjectsTyped, Object
    <3> QED BY <2>1, <3>1 DEF ShownRounds, Unshown
  <2> QED BY <2>2, <2>3, <2>4, <1>1, <1>2
<1> QED
  BY ONLY <1>4, <1>5, <1>6, <1>7, <1>8, <1>9, <1>10, <1>11, <1>12, <1>13, NextStep, Base, LeftInv,
          BatchesInv, LastInv, CreateLast, FollowLast, AnswerLast
     DEF NextStep

LEMMA LastHolds == Spec => []LastInv
<1>1. Init => LastInv
  BY DEF Init, LastInv, NoFile, Idle
<1>2. Base /\ LeftInv /\ BatchesInv /\ LastInv /\ [Next]_vars => LastInv'
  BY NextCases, LastStep
<1> QED BY BaseHolds, LeftHolds, BatchesHold, <1>1, <1>2, PTL DEF Spec

\* Results that are given to a stored agent answer the last batch that it asked for, in whatever
\* process it did, and none that was answered before the restart; unless the last write of the
\* session's file failed, or it was forgotten while something still held it.
THEOREM ResumesTheLastBatch == Spec => []ResumedBatchIsTheLast
<1>1. Base /\ LeftInv /\ BatchesInv /\ LastInv => ResumedBatchIsTheLast
  <2> SUFFICES ASSUME Base, LeftInv, BatchesInv, LastInv, NEW r \in Requests,
                      req[r].pc = "opening", req[r].mode = "pending",
                      NEW o, o = AskedBy(req[r].key.of), Certain(obj[o].id)
               PROVE  /\ req[r].key.of = BatchOf(o, obj[o].rounds)
                      /\ \A q \in Objects : q > o /\ obj[q].id = obj[o].id => obj[q].rounds = 0
    BY DEF ResumedBatchIsTheLast, Certain
  <2> PICK x \in Objects : x = req[r].obj /\ Exists(x)
    BY DEF Base, Typed, RequestsTyped, ReqInv
  <2>1. o \in Objects /\ Exists(o) /\ obj[o].id = obj[x].id
    <3>1. PICK p \in Objects : Exists(p) /\ obj[p].id = obj[x].id /\ AskedFor(p, req[r].key.of)
      BY DEF BatchesInv, BatchIn
    <3>2. o = p
      BY <3>1, AskerOfBatch DEF AskedFor
    <3> QED BY <3>1, <3>2
  <2>2. LastShown(o, req[r].key.of, obj[o].id)
    <3>1. PICK p \in Objects : LastShown(p, req[r].key.of, obj[x].id)
      BY <2>1 DEF LastInv
    <3>2. o = p
      BY <3>1, AskerOfBatch DEF LastShown
    <3> QED BY <2>1, <3>1, <3>2
  <2>3. ASSUME NEW q \in Objects, obj[q].id = obj[o].id
        PROVE  Exists(q) /\ ShownRounds(q) = obj[q].rounds
    <3>1. obj[o].id \in Ids
      BY <2>1 DEF Base, SessionsInv
    <3>2. Exists(q)
      BY <2>3, <3>1, NoneFacts DEF Base, SessionsInv, NoObject
    <3>3. ~Unshown(q)
      <4> SUFFICES ASSUME Unshown(q) PROVE FALSE
        OBVIOUS
      <4>1. Driving(q) # {}
        BY DEF Unshown, Base, StatesInv, DrivenOk
      <4> QED BY <2>1, <2>3, <3>2, <4>1, AnswerAlone DEF Certain
    <3>4. obj[q].rounds \in Nat
      BY NoneFacts DEF Base, Typed, ObjectsTyped, Object
    <3> QED BY <3>2, <3>3, <3>4 DEF ShownRounds
  <2> QED BY <2>1, <2>2, <2>3 DEF LastShown
<1> QED BY BaseHolds, LeftHolds, BatchesHold, LastHolds, <1>1, PTL
=============================================================================
