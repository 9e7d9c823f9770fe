------------------------------ MODULE MCLooper ------------------------------
(* Small instances of Looper for TLC. *)
EXTENDS Looper, TLC

CONSTANTS c1, c2

Does(verbs, n) == [verbs |-> verbs, calls |-> n]

(* One client makes any calls but flush while the other only posts delayed   *)
(* jobs; one posts while the other merges and cancels; both post and one     *)
(* looks a job up.                                                           *)
OneMovesOneDelays == c1 :> Does(Verbs \ {"flush"}, 2) @@ c2 :> Does({"delay", "release"}, 1)
OnePostsOneCancels == c1 :> Does({"post", "delay", "release"}, 2)
                      @@ c2 :> Does({"exists", "remove", "flush", "release"}, 2)
BothPostOneLooksUp == c1 :> Does({"post", "exists", "release"}, 2)
                      @@ c2 :> Does({"post", "release"}, 1)
Alone == c1 :> Does(Verbs, 3) @@ c2 :> Does({"release"}, 0)
Scenarios == {Alone, BothPostOneLooksUp, OneMovesOneDelays, OnePostsOneCancels}

BothPost == {[c \in Client |-> Does({"post"}, 1)]}
PostAndRelease == {[c \in Client |-> Does({"post", "release"}, 1)]}
=============================================================================
