--------------------------- MODULE MCDispatchQueue ---------------------------
(* Small instances of DispatchQueue for TLC. *)
EXTENDS DispatchQueue, TLC

CONSTANTS c1, c2, j1, j2

Scenario(verbs, n, jobs, spurious) ==
    [verbs |-> verbs, calls |-> n, jobs |-> jobs, spurious |-> spurious]

(* One client calls whatever it likes, or posts and removes two jobs, while  *)
(* the other only releases; or one dispatches while the other merges and     *)
(* cancels, the last also with waits that return for no reason.              *)
Alone(verbs) == c1 :> verbs @@ c2 :> {"release"}
OneDispatchesOneCancels == c1 :> {"dispatch", "delay", "sync", "release"}
                           @@ c2 :> {"exists", "remove", "flush", "release"}
OneSyncsOneCancels == c1 :> {"dispatch", "sync", "release"}
                      @@ c2 :> {"remove", "flush", "release"}
Scenarios == {Scenario(Alone(Verbs), 3, {j1}, FALSE),
              Scenario(Alone({"dispatch", "delay", "remove"}), 3, {j1, j2}, FALSE),
              Scenario(OneDispatchesOneCancels, 2, {j1}, FALSE),
              Scenario(OneSyncsOneCancels, 2, {j1}, TRUE)}
==============================================================================
