------------------------------- MODULE Failover -------------------------------
(***************************************************************************)
(* Model requests of a managed gateway: which account serves them, the     *)
(* retry after a credential probe, the one alternate account (app.ts:      *)
(* resolveManagedAuth, runWithProviderRecovery, withTelemetry).  What a    *)
(* run does is in ToolSession and Recovery; here it begins a response or   *)
(* not and ends well or with a class of error.                             *)
(***************************************************************************)
EXTENDS Anchors, Rings

CONSTANTS
  Requests,
  PerCredentialActiveRuns,
  Budgets                 \* bounds, one of which holds in a behavior: how many requests
                          \* arrive, and how many acts of each other kind there are

VARIABLES
  req,       \* what each request is doing
  probes,    \* probes of each key that are under way upstream
  left       \* what is left of the budget

requestVars == <<req, probes, anchorVars>>
accountVars == <<files, added, cursors, catalog, now>>

NoRequest ==
  [pc |-> "idle", stage |-> "none", bound |-> NoKey, continues |-> FALSE, answer |-> "none",
   compacts |-> "no", token |-> NoToken, first |-> NoKey, ref |-> NoKey,
   profile |-> "sdk", seen |-> {}, cached |-> {}, began |-> 0, ran |-> <<>>, barred |-> {}]

FailoverTypeOK ==
  /\ \A r \in Requests :
       /\ req[r].pc \in {"idle", "listing", "running", "probing", "valid", "invalid"}
       /\ req[r].stage \in {"none", "first", "retry", "alternate"}
       /\ req[r].bound \in Keys \cup {NoKey} /\ req[r].first \in Keys \cup {NoKey}
       /\ req[r].ref \in Keys \cup {NoKey} /\ req[r].barred \subseteq Keys
       /\ req[r].answer \in {"none", "begun", "gone"}
       /\ req[r].token \in 0 .. Len(issued) /\ req[r].profile \in Profiles
  /\ probes \in [Keys -> Nat]

FailoverInit ==
  /\ req = [r \in Requests |-> NoRequest]
  /\ probes = [k \in Keys |-> 0]
  /\ left \in Budgets

\* What comes from outside is bounded.
Act(kind) == left[kind] > 0 /\ left' = [left EXCEPT ![kind] = @ - 1]

\* Of an answer: nothing is written yet, its first byte is out, or the client went away.
ResponseStarted(r) == req[r].answer # "none"

\* History: the keys that no account in use has had since the request arrived.
Unusable(fs) == {k \in Keys : \A i \in Ids : fs[i].key = k => fs[i].disabled}

ActiveRunCount(k) == Cardinality({r \in Requests : req[r].pc = "running" /\ req[r].ref = k})

-----------------------------------------------------------------------------
(* The steps that handlers share, on the record q of a request *)

\* run(auth) of the protocol routes: the record of the request names the account.
Runs(q, k, profile) ==
  [q EXCEPT !.pc = "running", !.ref = k, !.ran = Append(@, k),
            !.first = IF @ = NoKey THEN k ELSE @, !.profile = profile, !.seen = {}, !.cached = {}]

Lists(q) == [q EXCEPT !.pc = "listing", !.seen = files, !.cached = catalog, !.began = now]

\* withTelemetry and the error path of the handler: one record for each request, but not
\* for the compact endpoint, one log entry for each that failed.
Answered(r, q, ok) ==
  /\ req' = [req EXCEPT ![r] = NoRequest]
  /\ Push((IF q.compacts = "endpoint" THEN {} ELSE {"activity"}) \cup (IF ok THEN {} ELSE {"log"}))

Finish(r, q, ok) == Answered(r, q, ok) /\ UNCHANGED anchorVars

\* A second run is logged.  Entries that one step logs count as one.
GoesOn(r, q) ==
  /\ req' = [req EXCEPT ![r] = q]
  /\ UNCHANGED anchorVars
  /\ IF q.pc = "running" /\ q.stage # "first" THEN Push({"log"}) ELSE UNCHANGED ringVars

\* (mutant: the token is looked at for the first account only)
BindsOnce(q, k, profile) ==
  q.token # NoToken /\ q.stage = "first" => Vouched(q.token, k, profile)

\* bindCompactContinuation, in every run
Binds(q, k, profile) == q.token # NoToken => Vouched(q.token, k, profile)

\* An account and its default profile are resolved.  A request that compacts is answered
\* without a run, and has neither a retry nor an alternate account; a run whose token is
\* not vouched for is refused for good.
Goes(r, q, k, profile) ==
  CASE q.compacts # "no" ->
         \/ Answered(r, q, TRUE) /\ Mint(k, profile)
         \/ Finish(r, q, FALSE)
    [] q.compacts = "no" /\ Binds(q, k, profile) -> GoesOn(r, Runs(q, k, profile))
    [] OTHER -> Finish(r, q, FALSE)

\* (mutant: the alternate account may be the one that failed)
ExcludesNothing(q) == {}

\* resolveManagedAuth before it awaits the catalogs: the account of the session, unless
\* it was excluded or is gone.
Excluded(q) == IF q.stage = "alternate" THEN {q.first} ELSE {}

BoundTo(q) == IF q.bound \in Keys \ Excluded(q) THEN IdOf(q.bound) ELSE 0

Lost(q) == q.bound \in Keys \ Excluded(q) /\ BoundTo(q) = 0 /\ ~q.continues

Resolve(r, q) ==
  CASE BoundTo(q) # 0 -> Goes(r, q, q.bound, files[BoundTo(q)].profile)
    [] Lost(q) \/ (BoundTo(q) = 0 /\ Listed = {}) -> Finish(r, q, FALSE)
    [] OTHER -> GoesOn(r, Lists(q))

-----------------------------------------------------------------------------
(* Requests *)

\* Results (continues) or a follow-up of a session that is bound to an account, or a
\* conversation that opens; with all of them, in Responses, a compact token, or a trigger item
\* or endpoint that makes one.
Arrive(r, bound, continues, compacts, token) ==
  LET q == [NoRequest EXCEPT !.stage = "first", !.bound = bound, !.continues = continues,
                             !.compacts = compacts, !.token = token, !.barred = Unusable(files)]
  IN  /\ Act(IF compacts # "no" \/ token # NoToken THEN "compact" ELSE "request")
      /\ bound = NoKey => ~continues
      /\ compacts # "no" => token = NoToken
      /\ Resolve(r, q)
      /\ UNCHANGED <<accountVars, probes>>

\* The catalogs of all accounts have answered.
Candidates(q, live) ==
  {i \in Ids : /\ q.seen[i].key # NoKey
               /\ ServesModel(q.cached[q.seen[i].key], q.began, live[q.seen[i].key])
               /\ q.seen[i].key \notin Excluded(q)
               /\ ActiveRunCount(q.seen[i].key) < PerCredentialActiveRuns}

EndListing(r) ==
  LET q == req[r]
  IN  /\ q.pc = "listing"
      /\ \E live \in [{q.seen[i].key : i \in Ids} \ {NoKey} -> {"has", "lacks", "fails"}] :
           LET eligible == Eligible(q.seen, Candidates(q, live))
           IN  /\ catalog' = [k \in Keys |->
                                IF k \in DOMAIN live
                                THEN Relisted(q.cached[k], q.began, live[k], catalog[k])
                                ELSE catalog[k]]
               /\ IF eligible = {}
                    THEN Finish(r, q, FALSE) /\ UNCHANGED cursors
                    ELSE /\ MoveCursor(q.seen, eligible)
                         /\ LET picked == q.seen[Picked(q.seen, eligible)]
                            IN  Goes(r, q, picked.key, picked.profile)
      /\ UNCHANGED <<files, added, now, probes, left>>

\* The first byte of the answer is written, or the client goes away before it.
Begin(r) ==
  /\ req[r].pc = "running" /\ ~ResponseStarted(r)
  /\ req' = [req EXCEPT ![r].answer = "begun"]
  /\ UNCHANGED <<accountVars, anchorVars, probes, left, ringVars>>

ClientGone(r) ==
  /\ req[r].pc # "idle" /\ ~ResponseStarted(r)
  /\ req' = [req EXCEPT ![r].answer = "gone"]
  /\ UNCHANGED <<accountVars, anchorVars, probes, left, ringVars>>

RunEndsWell(r) ==
  /\ req[r].pc = "running"
  /\ Finish(r, req[r], TRUE)
  /\ UNCHANGED <<accountVars, probes, left>>

\* (mutant: a failure is retried elsewhere even when the answer has begun)
FailsOverAlways(r, error) == req[r].stage # "alternate" /\ error # "final"

\* managedPreSemanticFailureCanFailover; the alternate is tried once.
FailsOver(r, error) ==
  ~ResponseStarted(r) /\ req[r].stage # "alternate" /\ error # "final"

AfterFailure(r, error) ==
  IF FailsOver(r, error) THEN Resolve(r, [req[r] EXCEPT !.stage = "alternate"])
  ELSE Finish(r, req[r], FALSE)

\* The run rejects: its credential may be stale, another account may do better, or the
\* error is final.
RunFails(r, error) ==
  /\ req[r].pc = "running"
  /\ IF ~ResponseStarted(r) /\ error = "stale" /\ req[r].stage = "first"
       THEN /\ req' = [req EXCEPT ![r].pc = "probing"]
            /\ probes' = IF probes[req[r].first] > 0 THEN probes
                         ELSE [probes EXCEPT ![req[r].first] = @ + 1]
            /\ UNCHANGED <<anchorVars, ringVars>>
       ELSE AfterFailure(r, error) /\ UNCHANGED probes
  /\ UNCHANGED <<accountVars, left>>

\* One probe answers all that wait for it.
ProbeEnds(k, valid) ==
  /\ probes[k] > 0
  /\ probes' = [probes EXCEPT ![k] = @ - 1]
  /\ req' = [r \in Requests |->
               IF req[r].pc = "probing" /\ req[r].first = k
               THEN [req[r] EXCEPT !.pc = IF valid THEN "valid" ELSE "invalid"] ELSE req[r]]
  /\ UNCHANGED <<accountVars, anchorVars, left, ringVars>>

AfterProbe(r) ==
  /\ \/ /\ req[r].pc = "valid"
        /\ Goes(r, [req[r] EXCEPT !.stage = "retry"], req[r].first, req[r].profile)
     \/ req[r].pc = "invalid" /\ AfterFailure(r, "stale")
  /\ UNCHANGED <<accountVars, probes, left>>

RequestSteps ==
  \/ \E r \in Requests :
       \/ /\ req[r].pc = "idle"
          /\ \E bound \in Keys \cup {NoKey}, continues \in BOOLEAN,
               compacts \in {"no", "item", "endpoint"}, token \in 0 .. Len(issued) :
                 Arrive(r, bound, continues, compacts, token)
       \/ EndListing(r) \/ Begin(r) \/ ClientGone(r) \/ RunEndsWell(r) \/ AfterProbe(r)
       \/ \E error \in {"stale", "elsewhere", "final"} : RunFails(r, error)
  \/ \E k \in Keys, valid \in BOOLEAN : ProbeEnds(k, valid)

-----------------------------------------------------------------------------
(* Properties *)

\* Once the first byte of an answer is out, its request is not run again, by whatever
\* path: the probe, the alternate account.
BegunAnswerIsNotRunAgain ==
  [][\A r \in Requests : (req[r].answer = "begun" /\ req'[r].pc # "idle") => req'[r].ran = req[r].ran]_req

\* A request runs at most twice on its first account and once on one other, and never
\* comes back to the first.
FailoverIsBounded ==
  \A r \in Requests :
    \/ req[r].ran = <<>>
    \/ \E a \in Keys : req[r].ran \in {<<a>>, <<a, a>>}
    \/ \E a, b \in Keys : a # b /\ req[r].ran \in {<<a, b>>, <<a, a, b>>}

\* An account that was disabled or removed before a request arrived, and was not put
\* back since, gets that request only for a session that is bound to it.
DisabledAccountsGetNoNewWork ==
  \A r \in Requests :
    (req[r].pc = "running" /\ req[r].ref # req[r].bound) => req[r].ref \notin req[r].barred

\* A request that carries a compact token runs, also when it is retried or goes to another
\* account, only on the account and profile that the token was made for.
CompactedTurnsStayHome ==
  \A r \in Requests : (req[r].pc # "idle" /\ req[r].token # NoToken) =>
    /\ \A n \in 1 .. Len(req[r].ran) : req[r].ran[n] = issued[req[r].token].key
    /\ req[r].ran # <<>> => req[r].profile = issued[req[r].token].profile
=============================================================================
