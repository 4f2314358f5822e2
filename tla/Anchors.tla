-------------------------------- MODULE Anchors --------------------------------
(***************************************************************************)
(* Compact anchors (compact-anchor.ts): a client trades its transcript for *)
(* a token that names the account and the profile it was made under.  The  *)
(* token is signed with a key that outlives the process, so it is what was *)
(* issued; a record on disk has to vouch for it as well.  Model and policy *)
(* are those of the client's next request.                                 *)
(***************************************************************************)
EXTENDS Accounts, Sequences

CONSTANTS
  AnchorTtl,
  MaxAnchors     \* bound: tokens ever issued

ASSUME AnchorsAssumption == AnchorTtl \in Nat

VARIABLES
  issued,        \* the payloads of all tokens; a token is its place here
  anchors        \* the tokens that have a record

anchorVars == <<issued, anchors>>

NoToken == 0

AnchorsTypeOK ==
  /\ issued \in Seq([key : Keys, profile : Profiles, exp : Nat])
  /\ anchors \subseteq 1 .. Len(issued)

AnchorsInit == issued = <<>> /\ anchors = {}

Unexpired(token) == issued[token].exp > now

\* mint; a record that cannot be written is a failure, and no token is given out.
Mint(k, profile) ==
  /\ Len(issued) < MaxAnchors
  /\ issued' = Append(issued, [key |-> k, profile |-> profile, exp |-> now + AnchorTtl])
  /\ anchors' = anchors \cup {Len(issued) + 1}

\* verify
Vouched(token, k, profile) ==
  /\ Unexpired(token) /\ token \in anchors
  /\ issued[token].key = k /\ issued[token].profile = profile

SweepAnchors ==
  /\ anchors # {t \in anchors : Unexpired(t)}
  /\ anchors' = {t \in anchors : Unexpired(t)} /\ UNCHANGED issued

\* A record that cannot be read is set aside.
LoseAnchor(t) == t \in anchors /\ anchors' = anchors \ {t} /\ UNCHANGED issued
=============================================================================
