------------------------------- MODULE MCGateway -------------------------------
(* The instance of Gateway that TLC explores: requests and console connections  *)
(* of a kind are interchangeable.  Each behavior has one of several budgets, so *)
(* that what interacts is explored together and the rest is not multiplied.     *)
EXTENDS Gateway

CONSTANT k2

Symmetry == Permutations(Requests) \cup Permutations(Operators)

MCOnFile == {<<>>, <<k2>>}

NoBudget == [kind \in Kinds |-> 0]

MCBudgets ==
  {"request" :> 2 @@ NoBudget,
   "request" :> 1 @@ "tick" :> 1 @@ "edit" :> 1 @@ NoBudget,
   "request" :> 1 @@ "edit" :> 2 @@ NoBudget,
   "request" :> 1 @@ "edit" :> 1 @@ "restart" :> 1 @@ NoBudget,
   "request" :> 1 @@ "ring" :> 2 @@ NoBudget,
   "request" :> 1 @@ "web" :> 1 @@ NoBudget,
   "compact" :> 2 @@ "edit" :> 1 @@ NoBudget,
   "compact" :> 2 @@ "tick" :> 1 @@ NoBudget,
   "web" :> 2 @@ NoBudget,
   "web" :> 1 @@ "edit" :> 2 @@ NoBudget,
   "web" :> 1 @@ "edit" :> 1 @@ "restart" :> 1 @@ NoBudget,
   "web" :> 1 @@ "ring" :> 2 @@ NoBudget,
   "settings" :> 3 @@ "restart" :> 2 @@ NoBudget}
=============================================================================
