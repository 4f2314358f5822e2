------------------------------- MODULE CursorWeb -------------------------------
(***************************************************************************)
(* Console calls that ask Cursor's web API and then write an account file: *)
(* the default profile and the verification of an account, both with the   *)
(* sand quota of its key, and onboarding from a session token              *)
(* (cursor-dashboard.ts, cursor-onboarding.ts, and their routes in         *)
(* app.ts).  Every answer of Cursor is a choice of the model.              *)
(***************************************************************************)
EXTENDS Accounts, Rings

CONSTANT Operators      \* console calls at a time

VARIABLES
  web,         \* what each console call is doing
  exchanges,   \* of each key: exchanges of it for an access token that are under way
  sandCache,   \* keys whose granted quota is cached
  received,    \* history: keys that this process got from Cursor by onboarding
  stored,      \* history: keys that ever had a file
  cut,         \* history: keys whose onboarding broke off while a body was read
  edits        \* history: of each id, what the operator last said of it

webVars == <<web, exchanges, sandCache, received, stored, cut, edits>>

Quota == {"exchange", "failed", "cached", "access", "usage"}
Steps == {"check", "create", "consent", "grant", "claim", "me", "team", "mark", "trial"}

NoCall == [pc |-> "idle", op |-> "none", id |-> 0, key |-> NoKey, then |-> "none", again |-> FALSE,
           profile |-> "sdk", wants |-> {}]

Edited(file) == [disabled |-> file.disabled, priority |-> file.priority, proxy |-> file.proxy,
                 gone |-> file.key = NoKey]

WebTypeOK ==
  /\ \A c \in Operators :
       /\ web[c].pc \in Quota \cup Steps \cup {"idle"}
       /\ web[c].op \in {"none", "profile", "verify", "onboard"}
       /\ web[c].id \in Ids \cup {0} /\ web[c].key \in Keys \cup {NoKey}
  /\ exchanges \in [Keys -> Nat]
  /\ sandCache \subseteq Keys /\ received \subseteq Keys /\ stored \subseteq Keys

WebInit ==
  /\ web = [c \in Operators |-> NoCall]
  /\ exchanges = [k \in Keys |-> 0]
  /\ sandCache = {} /\ received = {} /\ cut = {}
  /\ stored = {files[i].key : i \in Listed}
  /\ edits = [i \in Ids |-> Edited(files[i])]

histories == <<received, stored, cut, edits>>
rest == <<added, cursors, catalog, now>>

\* What a call that throws, and one that does not, leaves behind.
Throws  == Push({"log"})
Replies == UNCHANGED ringVars

-----------------------------------------------------------------------------
(* fetchCursorSandQuota, as a part of a call *)

\* exchangeApiKey: calls that need a token for one key share the exchange.
Exchange(c, call) ==
  /\ web' = [web EXCEPT ![c] = [call EXCEPT !.pc = "exchange"]]
  /\ exchanges' = IF exchanges[call.key] > 0 THEN exchanges
                  ELSE [exchanges EXCEPT ![call.key] = @ + 1]

\* (mutant: the account as it was before it was edited is written back)
VerifiedStale(f, usable) ==
  [NewFile(f.key) EXCEPT !.failed = ~usable, !.profile = f.profile, !.token = f.token]

\* setLastError
Verified(f, usable) == [f EXCEPT !.failed = ~usable]

\* The quota is known: the profile is refused or set, or the verification is recorded
\* with what the SDK says of the account.  A call whose account is gone writes nothing.
QuotaKnown(c, available) ==
  LET i == web[c].id
  IN  /\ web' = [web EXCEPT ![c] = NoCall]
      /\ IF web[c].op = "profile"
           THEN IF web[c].profile = "sand" /\ ~available THEN Throws /\ UNCHANGED files
                ELSE /\ Mutate(i, [files[i] EXCEPT !.profile = web[c].profile])
                     /\ IF i \in Listed THEN Replies ELSE Throws
           ELSE \E usable \in BOOLEAN :
                  Mutate(i, Verified(files[i], usable)) /\ Replies

BeginQuota(c, op, i, profile) ==
  LET call == [NoCall EXCEPT !.op = op, !.id = i, !.key = files[i].key, !.then = "access",
                             !.profile = profile]
  IN  /\ web[c].pc = "idle" /\ i \in Listed
      /\ IF call.key \in sandCache
           THEN web' = [web EXCEPT ![c] = [call EXCEPT !.pc = "cached"]] /\ UNCHANGED exchanges
           ELSE Exchange(c, call)
      /\ UNCHANGED <<files, rest, sandCache, histories, ringVars>>

\* All that share an exchange go on with its token, or its failure is their answer.
Exchanged(k, fine) ==
  /\ exchanges[k] > 0
  /\ exchanges' = [exchanges EXCEPT ![k] = @ - 1]
  /\ web' = [c \in Operators |->
               IF web[c].pc = "exchange" /\ web[c].key = k
               THEN [web[c] EXCEPT !.pc = IF fine THEN web[c].then ELSE "failed"] ELSE web[c]]
  /\ UNCHANGED <<files, rest, sandCache, histories, ringVars>>

QuotaAtOnce(c) ==
  /\ web[c].pc \in {"cached", "failed"}
  /\ QuotaKnown(c, web[c].pc = "cached")
  /\ UNCHANGED <<rest, exchanges, sandCache, histories>>

\* dashboardPostRefreshing: a token that is refused is exchanged for once.
TokenRefused(c) ==
  /\ web[c].pc \in {"access", "usage"}
  /\ IF web[c].again THEN QuotaKnown(c, FALSE) /\ UNCHANGED exchanges
     ELSE /\ Exchange(c, [web[c] EXCEPT !.again = TRUE])
          /\ UNCHANGED <<files, ringVars>>
  /\ UNCHANGED <<rest, sandCache, histories>>

AccessKnown(c, granted) ==
  /\ web[c].pc = "access"
  /\ IF granted
       THEN /\ web' = [web EXCEPT ![c].pc = "usage", ![c].then = "usage", ![c].again = FALSE]
            /\ UNCHANGED <<files, sandCache, ringVars>>
       ELSE /\ sandCache' = sandCache \ {web[c].key}
            /\ QuotaKnown(c, FALSE)
  /\ UNCHANGED <<rest, exchanges, histories>>

UsageKnown(c, complete) ==
  /\ web[c].pc = "usage"
  /\ sandCache' = IF complete THEN sandCache \cup {web[c].key} ELSE sandCache
  /\ QuotaKnown(c, complete)
  /\ UNCHANGED <<rest, exchanges, histories>>

ForgetGrant(k) ==
  /\ k \in sandCache /\ sandCache' = sandCache \ {k}
  /\ UNCHANGED <<files, rest, web, exchanges, histories, ringVars>>

-----------------------------------------------------------------------------
(* Onboarding *)

BeginOnboarding(c, wants) ==
  /\ web[c].pc = "idle"
  /\ web' = [web EXCEPT ![c] = [NoCall EXCEPT !.pc = "check", !.op = "onboard", !.wants = wants]]
  /\ UNCHANGED <<files, rest, exchanges, sandCache, histories, ringVars>>

\* The steps that may follow once the key was made; "store" ends them.
AfterConsent(call) == IF "sand" \in call.wants THEN {"claim"} ELSE {"store"}

AfterKey(call) == IF "fable5" \in call.wants THEN {"consent"} ELSE AfterConsent(call)

AfterStep(call) ==
  CASE call.pc = "create"  -> AfterKey(call)
    [] call.pc = "consent" -> {"grant"} \cup AfterConsent(call)
    [] call.pc = "grant"   -> AfterConsent(call)
    [] call.pc = "claim"   -> {"store", "me"}       \* granted or dead; else who is it
    [] call.pc = "me"      -> {"team", "trial"}
    [] call.pc = "team"    -> {"mark", "store"}
    [] OTHER               -> {"store"}

\* accounts.add, and the session token when that was asked for.
Store(c, k) ==
  LET a == Added(k)
  IN  /\ CanAdd(k)
      /\ files' = [a.files EXCEPT ![a.id].token = @ \/ "token" \in web[c].wants]
      /\ Counted(k)
      /\ stored' = stored \cup {k}
      /\ edits' = [edits EXCEPT ![a.id] = Edited(a.files[a.id])]
      /\ web' = [web EXCEPT ![c] = NoCall]

GoesOnTo(c, k, step) ==
  IF step = "store" THEN Store(c, k)
  ELSE /\ web' = [web EXCEPT ![c].pc = step, ![c].key = k]
       /\ UNCHANGED <<files, added, stored, edits>>

\* The account may make keys; one is made, which is new.
OnboardingAllowed(c) ==
  /\ web[c].pc = "check"
  /\ web' = [web EXCEPT ![c].pc = "create"]
  /\ UNCHANGED <<files, rest, exchanges, sandCache, histories, ringVars>>

KeyMade(c, k) ==
  /\ web[c].pc = "create" /\ k \notin received \cup stored
  /\ received' = received \cup {k}
  /\ \E step \in AfterKey(web[c]) : GoesOnTo(c, k, step)
  /\ UNCHANGED <<cursors, catalog, now, exchanges, sandCache, cut, ringVars>>

\* A later step is answered, or fails in a way that dashboardCall reports.
StepOver(c) ==
  /\ web[c].pc \in Steps \ {"check", "create"}
  /\ \E step \in AfterStep(web[c]) : GoesOnTo(c, web[c].key, step)
  /\ UNCHANGED <<cursors, catalog, now, exchanges, sandCache, received, cut, ringVars>>

\* (mutant: a failed consent ends the call)
FatalAnywhere(c) == web[c].pc \in Steps

\* What ends the call with an error before there is a key.
Fatal(c) == web[c].pc \in {"check", "create"}

OnboardingFails(c) ==
  /\ Fatal(c)
  /\ web' = [web EXCEPT ![c] = NoCall]
  /\ Throws
  /\ UNCHANGED <<files, rest, exchanges, sandCache, histories>>

\* The body of an answer breaks off: response.text() throws, which grantFable5Consent
\* catches and the soft calls of claimSand do not.
BodyCut(c) ==
  /\ web[c].pc \in {"claim", "me", "team", "mark", "trial"}
  /\ web' = [web EXCEPT ![c] = NoCall]
  /\ cut' = cut \cup {web[c].key}
  /\ Throws
  /\ UNCHANGED <<files, rest, exchanges, sandCache, received, stored, edits>>

WebSteps ==
  \/ \E c \in Operators :
       \/ QuotaAtOnce(c) \/ TokenRefused(c)
       \/ \E b \in BOOLEAN : AccessKnown(c, b) \/ UsageKnown(c, b)
       \/ OnboardingAllowed(c) \/ StepOver(c) \/ OnboardingFails(c) \/ BodyCut(c)
       \/ \E k \in Keys : KeyMade(c, k)
  \/ \E k \in Keys : Exchanged(k, TRUE) \/ Exchanged(k, FALSE) \/ ForgetGrant(k)

-----------------------------------------------------------------------------
(* Properties *)

\* A call that ends after an operator has edited, disabled or removed the account writes
\* its own result only: no edit is undone and no account comes back.
LateResultsKeepEdits == \A i \in Ids : Edited(files[i]) = edits[i]

InOnboarding(k) == \E c \in Operators : web[c].op = "onboard" /\ web[c].key = k

\* A key that Cursor made for the gateway is stored, whatever fails of the consent and
\* the claim that follow; unless the body of an answer breaks off, or the process ends.
SoftFailuresKeepTheKey ==
  \A k \in received : k \in stored \cup cut \/ InOnboarding(k)

\* The same without the exceptions for a body that breaks off: claimSand "Never throws:
\* a claim failure must not abort a key exchange that already succeeded".
ClaimNeverLosesTheKey ==
  \A k \in received : k \in stored \/ InOnboarding(k)
=============================================================================
