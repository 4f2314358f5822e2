------------------------------- MODULE Accounts -------------------------------
(***************************************************************************)
(* The Cursor accounts of a managed gateway: their files, the round-robin  *)
(* pool over them and the cached model catalogs that decide which account  *)
(* serves a model (file-store.ts, account-pool.ts, catalog.ts).            *)
(* A key stands for its fingerprint, an id for the time it was added; the  *)
(* gateway serves one model, which an account has or lacks.                *)
(***************************************************************************)
EXTENDS Naturals, FiniteSets

CONSTANTS
  Keys,          \* Cursor API keys
  NoKey,
  MaxAccounts,   \* bound: account files ever written
  Priorities,
  CatalogTtl,
  MaxTime        \* bound: ticks of the clock

ASSUME AccountsAssumption ==
  /\ NoKey \notin Keys /\ Priorities \subseteq Nat
  /\ \E lowest \in Priorities : \A p \in Priorities : p <= lowest
  /\ MaxAccounts \in Nat /\ CatalogTtl \in Nat /\ MaxTime \in Nat

VARIABLES
  files,     \* $STATE_DIR/auths: one file for each id
  added,     \* how many ids were ever given
  cursors,   \* CursorAccountPool: the cursor of each tier
  catalog,   \* ModelCatalog: the last listing of each key
  now

Ids == 1 .. MaxAccounts

Profiles == {"sdk", "sand"}
Proxies  == {"none", "open", "secret"}       \* no proxy, or one without or with credentials

File ==
  [key : Keys \cup {NoKey}, disabled : BOOLEAN, priority : Priorities, profile : Profiles,
   failed : BOOLEAN, token : BOOLEAN, proxy : Proxies]

DefaultPriority == CHOOSE p \in Priorities : \A q \in Priorities : q <= p

NewFile(k) ==
  [key |-> k, disabled |-> FALSE, priority |-> DefaultPriority, profile |-> "sdk",
   failed |-> FALSE, token |-> FALSE, proxy |-> "none"]

NoFile == NewFile(NoKey)

NeverListed == [has |-> FALSE, at |-> MaxTime + 1]

AccountsTypeOK ==
  /\ files \in [Ids -> File] /\ added \in 0 .. MaxAccounts
  /\ cursors \in [Priorities -> 0 .. MaxAccounts]
  /\ catalog \in [Keys -> [has : BOOLEAN, at : 0 .. MaxTime + 1]]
  /\ now \in 0 .. MaxTime

-----------------------------------------------------------------------------
(* The file store: every operation reads the file and replaces it in one go *)

Listed == {i \in Ids : files[i].key # NoKey}

IdsOf(k) == {i \in Listed : files[i].key = k}

\* findByFingerprint: the first by added_at
IdOf(k) == IF IdsOf(k) = {} THEN 0 ELSE CHOOSE i \in IdsOf(k) : \A j \in IdsOf(k) : i <= j

CanAdd(k) == IdsOf(k) # {} \/ added < MaxAccounts

\* add: a known key keeps its file.  The files and the id of the account.
Added(k) ==
  IF IdsOf(k) # {} THEN [files |-> files, id |-> IdOf(k)]
  ELSE [files |-> [files EXCEPT ![added + 1] = NewFile(k)], id |-> added + 1]

Counted(k) == added' = IF IdsOf(k) # {} THEN added ELSE added + 1

\* mutate: there is no file to change once the account was removed.
Mutate(i, changed) == files' = IF i \in Listed THEN [files EXCEPT ![i] = changed] ELSE files

\* setProxy: an address without credentials keeps those that are stored.
Proxied(old, new) == IF new = "open" /\ old = "secret" THEN "secret" ELSE new

-----------------------------------------------------------------------------
(* The pool *)

\* (mutant: disabled accounts take part)
EligibleAll(seen, candidates) == candidates

Eligible(seen, candidates) == {i \in candidates : ~seen[i].disabled}

Best(seen, eligible) ==
  CHOOSE p \in {seen[i].priority : i \in eligible} : \A i \in eligible : p <= seen[i].priority

Tier(seen, eligible) == {i \in eligible : seen[i].priority = Best(seen, eligible)}

Nth(ids, n) == CHOOSE i \in ids : Cardinality({j \in ids : j < i}) = n

Advanced(tier, cursor) == (cursor + 1) % Cardinality(tier)

\* pick among accounts as they were seen when the list was read
Picked(seen, eligible) ==
  LET tier == Tier(seen, eligible)
  IN  Nth(tier, cursors[Best(seen, eligible)] % Cardinality(tier))

MoveCursor(seen, eligible) ==
  LET p == Best(seen, eligible)
  IN  cursors' = [cursors EXCEPT ![p] = Advanced(Tier(seen, eligible), @)]

-----------------------------------------------------------------------------
(* The catalog *)

Cached(entry)    == entry.at <= MaxTime
Fresh(entry, at) == Cached(entry) /\ at - entry.at < CatalogTtl

\* list, when the listing began at a time with the entry then; live is the answer of the
\* SDK to a listing that no fresh entry made needless.
ServesModel(entry, at, live) ==
  IF Fresh(entry, at) \/ (live = "fails" /\ Cached(entry)) THEN entry.has ELSE live = "has"

Relisted(entry, began, live, current) ==
  IF Fresh(entry, began) \/ live = "fails" THEN current
  ELSE [has |-> live = "has", at |-> began]
=============================================================================
