-------------------------------- MODULE Gateway --------------------------------
(***************************************************************************)
(* The HTTP application of a managed gateway: model requests (Failover),   *)
(* and the console with its login, account edits, calls to Cursor          *)
(* (CursorWeb), settings (Settings) and event streams (Rings), over the    *)
(* same account files (Accounts).  app.ts, console-auth.ts, service.ts.    *)
(***************************************************************************)
EXTENDS Failover, CursorWeb, Settings

CONSTANTS
  Tokens,      \* console sessions
  OnFile,      \* what the process may find on file: sequences of keys, the oldest first
  Seed         \* the managed key of the environment, or NoKey

ASSUME GatewayAssumption == OnFile \subseteq Seq(Keys) /\ Seed \in Keys \cup {NoKey}

VARIABLE tokens     \* ConsoleSessionStore: those that are not past their 12 hours

Kinds == {"request", "compact", "edit", "web", "settings", "ring", "tick", "restart"}

vars == <<accountVars, requestVars, ringVars, webVars, settingsVars, tokens, left>>

TypeOK ==
  /\ AccountsTypeOK /\ AnchorsTypeOK /\ FailoverTypeOK /\ RingsTypeOK /\ WebTypeOK /\ SettingsTypeOK
  /\ tokens \subseteq Tokens /\ left \in [Kinds -> Nat]

\* The constructor of the file store adds the key of the environment when it is unknown.
Seeded(keys) ==
  IF Seed = NoKey \/ \E n \in DOMAIN keys : keys[n] = Seed THEN keys ELSE Append(keys, Seed)

\* The bounds: there are ids for what is on file, and a number of acts of every kind.
ASSUME BoundsAssumption ==
  /\ \A found \in OnFile : Len(Seeded(found)) <= MaxAccounts
  /\ Budgets \subseteq [Kinds -> Nat]

Init ==
  /\ \E found \in OnFile :
       LET keys == Seeded(found)
       IN  /\ files = [i \in Ids |-> IF i \in DOMAIN keys THEN NewFile(keys[i]) ELSE NoFile]
           /\ added = Len(keys)
  /\ cursors = [p \in Priorities |-> 0]
  /\ catalog = [k \in Keys |-> NeverListed] /\ now = 0
  /\ AnchorsInit /\ FailoverInit /\ RingsInit /\ WebInit /\ SettingsInit
  /\ tokens = {}

others == <<cursors, catalog, now, probes, anchorVars, settingsVars, tokens>>

-----------------------------------------------------------------------------
(* Console login *)

\* The gate of all calls under /v0/management/.
Call(kind) == tokens # {} /\ Act(kind)

SetTokens(ts) ==
  /\ tokens' = ts
  /\ UNCHANGED <<accountVars, requestVars, ringVars, webVars, settingsVars, left>>

Login(t)     == t \notin tokens /\ SetTokens(tokens \cup {t})
LogsOut(t)   == t \in tokens /\ SetTokens(tokens \ {t})          \* or gets too old

-----------------------------------------------------------------------------
(* Account edits: update, proxy, batch, add and delete *)

SeenByRequests == req' = [r \in Requests |-> [req[r] EXCEPT !.barred = @ \cap Unusable(files')]]

\* What an operator says holds from now on.
Says(newFiles) ==
  /\ files' = newFiles
  /\ edits' = [i \in Ids |-> Edited(newFiles[i])]
  /\ SeenByRequests

UnchangedByEdits ==
  UNCHANGED <<others, web, exchanges, sandCache, received, cut>>

\* One account or a batch; those that are not on file are reported one by one.
Change(is, changed) ==
  /\ Call("edit")
  /\ Says([i \in Ids |-> IF i \in is \cap Listed THEN changed[i] ELSE files[i]])
  /\ UnchangedByEdits /\ UNCHANGED <<added, stored, ringVars>>

EditAccounts(is) ==
  \/ \E d \in BOOLEAN : Change(is, [i \in Ids |-> [files[i] EXCEPT !.disabled = d]])
  \/ \E p \in Priorities : Change(is, [i \in Ids |-> [files[i] EXCEPT !.priority = p]])
  \/ Change(is, [i \in Ids |-> NoFile])

EditProxy(i, proxy) == 
  Change({i}, [files EXCEPT ![i].proxy = Proxied(@, proxy)])

AddAccount(k) ==
  /\ Call("edit") /\ CanAdd(k)
  /\ Says(Added(k).files) /\ Counted(k) /\ stored' = stored \cup {k}
  /\ UnchangedByEdits /\ UNCHANGED ringVars

-----------------------------------------------------------------------------
(* Other console calls *)

AskCursor(c) ==
  /\ Call("web")
  /\ \/ \E i \in Ids, p \in Profiles : BeginQuota(c, "profile", i, p)
     \/ \E i \in Ids : BeginQuota(c, "verify", i, "sdk")
     \/ \E wants \in SUBSET {"fable5", "sand", "token"} : BeginOnboarding(c, wants)
  /\ UNCHANGED <<requestVars, settingsVars, tokens>>

PutSettings(patch) ==
  /\ Call("settings") /\ UpdateSettings(patch)
  /\ UNCHANGED <<accountVars, requestVars, ringVars, webVars, tokens>>

FollowRing ==
  /\ Call("ring")
  /\ \/ \E v \in Viewers, n \in RingNames : OpenStream(v, n)
     \/ \E size \in CapacitySteps \ {capacity} : SetCapacity(size)
  /\ UNCHANGED <<accountVars, requestVars, webVars, settingsVars, tokens>>

LeaveRing(v) ==
  /\ CloseStream(v)
  /\ UNCHANGED <<accountVars, requestVars, webVars, settingsVars, tokens, left>>

-----------------------------------------------------------------------------
(* The process *)

Tick ==
  /\ Act("tick") /\ now < MaxTime /\ now' = now + 1
  /\ UNCHANGED <<files, added, cursors, catalog, requestVars, ringVars, webVars, settingsVars,
                 tokens>>

\* The sweep timer, and a record that is found unreadable.
AnchorsGo ==
  /\ \/ SweepAnchors /\ UNCHANGED left
     \/ \E t \in anchors : Act("tick") /\ LoseAnchor(t)
  /\ UNCHANGED <<accountVars, req, probes, ringVars, webVars, settingsVars, tokens>>

EditConfig(content) ==
  /\ Act("settings") /\ EditConfigFile(content)
  /\ UNCHANGED <<accountVars, requestVars, ringVars, webVars, tokens>>

\* The process ends at any point and is started again: what was in memory is gone.  The
\* key of the environment comes back also when the operator had removed its account.
Restart(env) ==
  /\ Act("restart")
  /\ StartSettings(env)
  /\ IF Seed = NoKey THEN UNCHANGED <<files, added, stored, edits>>
     ELSE /\ CanAdd(Seed) /\ files' = Added(Seed).files /\ Counted(Seed)
          /\ stored' = stored \cup {Seed}
          /\ edits' = [i \in Ids |-> Edited(files'[i])]
  /\ cursors' = [p \in Priorities |-> 0]
  /\ catalog' = [k \in Keys |-> NeverListed]
  /\ req' = [r \in Requests |-> NoRequest] /\ probes' = [k \in Keys |-> 0]
  /\ rings' = [n \in RingNames |-> [buf |-> <<>>, pushed |-> 0]]
  /\ streams' = [v \in Viewers |-> NoStream] /\ capacity' = CHOOSE c \in CapacitySteps :
                                                 \A d \in CapacitySteps : d <= c
  /\ web' = [c \in Operators |-> NoCall] /\ exchanges' = [k \in Keys |-> 0]
  /\ sandCache' = {} /\ received' = received \cap stored
  /\ tokens' = {}
  /\ UNCHANGED <<now, anchorVars, cut>>

Running == settings # NotRunning

\* Hand edits and environments that give all settings one value, which may be out of range.
Uniform == {[f \in Fields |-> v] : v \in Values}

Next ==
  \/ /\ Running
     /\ \/ RequestSteps /\ UNCHANGED <<webVars, settingsVars, tokens>>
        \/ WebSteps /\ SeenByRequests
           /\ UNCHANGED <<probes, anchorVars, settingsVars, tokens, left>>
        \/ \E t \in Tokens : Login(t) \/ LogsOut(t)
        \/ \E is \in SUBSET Ids \ {{}} : EditAccounts(is)
        \/ \E i \in Ids, proxy \in Proxies : EditProxy(i, proxy)
        \/ \E k \in Keys : AddAccount(k)
        \/ \E c \in Operators : AskCursor(c)
        \/ \E fs \in SUBSET Fields : \E patch \in [fs -> Values] : PutSettings(patch)
        \/ FollowRing \/ \E v \in Viewers : LeaveRing(v)
        \/ Tick \/ AnchorsGo
  \/ \E content \in Uniform \cup {NoConfig, Corrupt} : EditConfig(content)
  \/ \E env \in Uniform : Restart(env)

Spec == Init /\ [][Next]_vars

===============================================================================
