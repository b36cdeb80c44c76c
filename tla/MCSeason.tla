------------------------------- MODULE MCSeason -------------------------------
(* Small instance of Season.                                                   *)
EXTENDS Season, TLC

CONSTANTS ada, ben, cleo, s1, s2

CleoComesLater == ada :> 1 @@ ben :> 2 @@ cleo :> 0

BenIsKnown == ada :> 0 @@ ben :> 1 @@ cleo :> 0

FirstIsActive == s1 :> "ACTIVE" @@ s2 :> "ABSENT"

HalfThenAll == s1 :> 50 @@ s2 :> 100

FirstOnly == <<[stage |-> s1, status |-> "ACTIVE"], [stage |-> s2, status |-> "UPCOMING"]>>

SmallWorkloads ==
    {{"stages", "remove stage"}, {"stages", "seed"}, {"submit", "remove stage", "seed"},
     {"submit", "remove", "moderate"}, {"submit", "reset", "moderate"},
     {"submit", "reset", "register"}, {"submit", "review"},
     {"cast", "moderate"}, {"cast", "remove"}, {"cast", "remove stage"},
     {"cast", "reset votes", "register"},
     {"eliminate", "reset votes", "cast"}, {"eliminate", "remove", "moderate"},
     {"declare", "register", "reset"}, {"declare", "cast"}}

Interchangeable == Permutations(Reqs)
=============================================================================
