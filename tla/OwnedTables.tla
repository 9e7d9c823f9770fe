----------------------------- MODULE OwnedTables -----------------------------
(***************************************************************************)
(* What tables and messages promise: every holder has a table of its own   *)
(* from keys to values, and a change of one is never seen in another.      *)
(***************************************************************************)
CONSTANTS Holders, Keys, NoValue

VARIABLE value

Empty == [k \in Keys |-> NoValue]

Init == value = [h \in Holders |-> NoValue]

Exists(h) == value[h] # NoValue
Become(h, table) == value' = [value EXCEPT ![h] = table]

Make(h) == ~Exists(h) /\ Become(h, Empty)
Copy(g, h) == Exists(h) /\ Become(g, value[h])
Drop(h) == Exists(h) /\ Become(h, NoValue)
Put(h, k, x) == Exists(h) /\ Become(h, [value[h] EXCEPT ![k] = x])
Take(h, k) == Put(h, k, NoValue)
Wipe(h) == Exists(h) /\ Become(h, Empty)
=============================================================================
