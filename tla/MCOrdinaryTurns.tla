-------------------------- MODULE MCOrdinaryTurns --------------------------
(***************************************************************************)
(* Small instance of OrdinaryTurns for TLC: a first turn askA, the turns   *)
(* askB and askC that both continue its answer, and another first turn     *)
(* askD; the session header is used with askD and with no other turn.      *)
(***************************************************************************)
EXTENDS OrdinaryTurns, TLC

CONSTANTS askA, askB, askC, askD, first, afterA, afterB, afterC, afterD

MCKey  == (askA :> first) @@ (askB :> afterA) @@ (askC :> afterA) @@ (askD :> first)
MCNext == (askA :> afterA) @@ (askB :> afterB) @@ (askC :> afterC) @@ (askD :> afterD)
MCIndex == (first :> 1) @@ (afterA :> 2) @@ (afterB :> 3) @@ (afterC :> 3) @@ (afterD :> 2)

\* Bound of the search: askD is never claimed and only askD follows up by header.
HeaderOnly ==
  /\ journal[askD].state = "none"
  /\ \A r \in Requests : req[r].mode = "hinted" => req[r].turn = askD

\* The two successors may be exchanged, each with its answer.
Exchange == (askB :> askC) @@ (askC :> askB) @@ (afterB :> afterC) @@ (afterC :> afterB)
Keep     == (askB :> askB) @@ (askC :> askC) @@ (afterB :> afterB) @@ (afterC :> afterC)
Symmetry == {p @@ q : p \in Permutations(Requests), q \in {Exchange, Keep}}
=============================================================================
