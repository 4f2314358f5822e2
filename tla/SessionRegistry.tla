---------------------------- MODULE SessionRegistry ----------------------------
(***************************************************************************)
(* The sessions of a process and the registry that finds, limits and       *)
(* forgets them (session.ts, session-registry.ts).  A session object is a  *)
(* number; objects that take over a stored session carry its id, so an id  *)
(* may have had several objects, at most one of them registered.  What     *)
(* requests do to sessions is in Recovery, which extends this module.      *)
(***************************************************************************)
EXTENDS Naturals, FiniteSets

CONSTANTS
  MaxSessions,        \* bound: session objects ever made
  MaxRounds,          \* bound: tool batches one object asks for
  Credentials,
  GlobalActiveRuns, PerCredentialActiveRuns, MaxAwaitingSessions

ASSUME BoundAssumption == MaxSessions \in Nat \ {0} /\ MaxRounds \in Nat
ASSUME LimitAssumption ==
  /\ GlobalActiveRuns \in Nat /\ PerCredentialActiveRuns \in Nat
  /\ MaxAwaitingSessions \in Nat

VARIABLES
  obj,        \* the session objects
  sessions,   \* registry.sessions: the object registered for an id, or none
  toolIndex,  \* registry.toolIndex: the session id of each tool batch, or none
  draining    \* shuttingDown, and whether drain is over

registryVars == <<obj, sessions, toolIndex, draining>>

Objects == 1 .. MaxSessions
None    == 0
Ids     == Objects                    \* an id is that of the object made with it
Agents  == Objects                    \* so is an SDK agent
Batches == 1 .. MaxSessions * MaxRounds
NoBatch == 0

\* The k-th batch of tool calls that the run of object o asks for.
BatchOf(o, k) == (o - 1) * MaxRounds + k

ActiveStates == {"creating", "running", "resuming"}   \* ACTIVE_RUN_STATES

\* A key stands for the digest of what a credential asks (logical key, result digest
\* or transcript digest).
NoKey == [kind |-> "none", by |-> None, of |-> 0, value |-> 0]

NoObject ==
  [st |-> "none", id |-> None, credential |-> None, agent |-> None, run |-> "none",
   pending |-> {}, open |-> NoBatch, rounds |-> 0, digest |-> NoKey, segment |-> NoKey,
   boundary |-> "none", applied |-> FALSE, continued |-> FALSE,
   logicalKey |-> NoKey, ledgerKey |-> NoKey]

Exists(o)     == obj[o].st # "none"
Registered(o) == Exists(o) /\ sessions[obj[o].id] = o
Fresh(o)      == ~Exists(o) /\ \A q \in Objects : q < o => Exists(q)

ActiveRuns  == {o \in Objects : Registered(o) /\ obj[o].st \in ActiveStates}
Awaiting    == {o \in Objects : Registered(o) /\ obj[o].st = "awaiting"}
ActiveCount == Cardinality(ActiveRuns \cup Awaiting)

RegistryInit ==
  /\ obj = [o \in Objects |-> NoObject]
  /\ sessions = [i \in Ids |-> None]
  /\ toolIndex = [b \in Batches |-> None]
  /\ draining = "no"

-----------------------------------------------------------------------------
(* Capacity *)

\* (mutant: runs of every kind are counted for the whole process only)
CanActivateGlobally(credential, except) ==
  /\ draining = "no"
  /\ Cardinality(ActiveRuns \ {except}) < GlobalActiveRuns

\* (mutant: a process that drains still takes new runs)
CanActivateDraining(credential, except) ==
  LET active == ActiveRuns \ {except}
  IN  /\ Cardinality(active) < GlobalActiveRuns
      /\ Cardinality({o \in active : obj[o].credential = credential}) < PerCredentialActiveRuns

\* assertCanActivateRun.  Its sweep is the action Forget of any other session.
CanActivate(credential, except) ==
  /\ draining = "no"
  /\ LET active == ActiveRuns \ {except}
     IN  /\ Cardinality(active) < GlobalActiveRuns
         /\ Cardinality({o \in active : obj[o].credential = credential}) < PerCredentialActiveRuns

\* create
CanCreate(credential) ==
  /\ CanActivate(credential, None)
  /\ Cardinality(Awaiting) < MaxAwaitingSessions

-----------------------------------------------------------------------------
(* Look-up and removal *)

\* lookupByToolIds: the registered owner of a batch.
OwnerOf(b) == IF toolIndex[b] = None THEN None ELSE sessions[toolIndex[b]]

\* A client sends results only for a batch that it was shown.
Unshown(o) == obj[o].boundary = "tools" /\ ~obj[o].applied

Shown(b) ==
  \E o \in Objects, n \in 1 .. MaxRounds :
    b = BatchOf(o, n) /\ n <= obj[o].rounds /\ ~(n = obj[o].rounds /\ Unshown(o))

\* What is left of an object that nothing runs for and nothing finds.
Gone(o) == [NoObject EXCEPT !.st = "closed", !.id = obj[o].id,
                            !.rounds = obj[o].rounds - IF Unshown(o) THEN 1 ELSE 0]

\* (mutant: a forgotten session drops its calls but still names the batch to answer)
ClosedKeepsBatch(o) == [obj[o] EXCEPT !.st = "closed", !.run = "cancelled", !.pending = {}]

\* forget: the id is unregistered whatever object it names by now.  A run is told to
\* end; one that is only being sent has no handle yet and goes on.
Closed(o) ==
  CASE obj[o].run = "none" -> [obj[o] EXCEPT !.st = "closed"]
    [] obj[o].run \in {"live", "cancelled"} -> [obj[o] EXCEPT !.st = "closed", !.run = "cancelled"]
    [] obj[o].run = "over" -> IF obj[o].applied THEN Gone(o) ELSE [obj[o] EXCEPT !.st = "closed"]

Forget(os) ==
  LET gone == {obj[o].id : o \in os}
  IN  /\ obj' = [o \in Objects |-> IF o \in os THEN Closed(o) ELSE obj[o]]
      /\ sessions' = [i \in Ids |-> IF i \in gone THEN None ELSE sessions[i]]
      /\ toolIndex' = [b \in Batches |-> IF toolIndex[b] \in gone THEN None ELSE toolIndex[b]]

RegistryTypeOK ==
  /\ \A o \in Objects :
       /\ obj[o].st \in ActiveStates \cup {"none", "awaiting", "completed", "failed", "closed"}
       /\ obj[o].id \in Ids \cup {None} /\ obj[o].agent \in Agents \cup {None}
       /\ obj[o].credential \in Credentials \cup {None}
       /\ obj[o].run \in {"none", "live", "cancelled", "over"}
       /\ obj[o].pending \subseteq Batches /\ obj[o].open \in obj[o].pending \cup {NoBatch}
       /\ obj[o].rounds \in 0 .. MaxRounds
       /\ obj[o].boundary \in {"none", "tools", "final", "error"}
       /\ obj[o].applied \in BOOLEAN /\ obj[o].continued \in BOOLEAN
  /\ sessions \in [Ids -> Objects \cup {None}]
  /\ toolIndex \in [Batches -> Ids \cup {None}]
  /\ draining \in {"no", "waiting", "done"}
=============================================================================
