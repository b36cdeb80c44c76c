------------------------------- MODULE MCIntake -------------------------------
(* Small instance of Intake: two addresses, two uploads, two payments.        *)
EXTENDS Intake, TLC

CONSTANTS k1, k2

(* One address with a key of its own and one it shares with another, and a    *)
(* connection without an address.                                             *)
SmallSenders == {<<k1, None>>, <<k1, k2>>, <<k2, None>>, <<None, None>>}

(* A picture, a picture with a wrong extension, a video, a video that is too  *)
(* large, and an animation.                                                   *)
SmallFiles == {[type |-> "jpg", ext |-> "image", size |-> 1],
               [type |-> "jpg", ext |-> "other", size |-> 1],
               [type |-> "mp4", ext |-> "other", size |-> 2],
               [type |-> "mp4", ext |-> "other", size |-> 3],
               [type |-> "gif", ext |-> "image", size |-> 1]}

SizePerKind == [video |-> 2, image |-> 3, registration |-> 1, proof |-> 1]

Interchangeable == Permutations(Reqs) \cup Permutations(Payments)
                     \cup Permutations(Assets)

(* Votes and uploads share nothing but the process: one kind per behaviour.   *)
OneKind == {{"votes"}, {"uploads"}}
=============================================================================
