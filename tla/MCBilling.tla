----------------------------- MODULE MCBilling -----------------------------
(***************************************************************************)
(* Instances of Billing for TLC.  Users, API keys and sessions are named   *)
(* by strings, so that who owns what can be written down here.             *)
(***************************************************************************)
EXTENDS Billing

\* SQLite: one chat, one stream, one embedding and one top-up of a single user, one
\* write lock for the whole database.
OneUser == {"u1"}
OneKey == {"k1"}
MixOwner == [s \in {"chat", "stream", "embed", "topup"} |-> "u1"]
MixKey == [s \in {"chat", "stream", "embed"} |-> "k1"]
OneLock == {"db"}
DatabaseLock == [row \in OneUser \cup OneKey |-> "db"]
MixBalance == [u \in OneUser |-> 3]

\* Parts of it.
TopUpOwner == [s \in {"chat", "topup"} |-> "u1"]
ChatOwner == [s \in {"chat"} |-> "u1"]
ChatKey == [s \in {"chat"} |-> "k1"]
StreamOwner == [s \in {"stream"} |-> "u1"]
StreamKey == [s \in {"stream"} |-> "k1"]

\* PostgreSQL: a chat and an embedding of u1 with one key, a stream of u1 with another
\* and a chat of u2; one lock per row.
TwoUsers == {"u1", "u2"}
ThreeKeys == {"k1", "k2", "k3"}
RowLocks == TwoUsers \cup ThreeKeys
RowLock == [row \in RowLocks |-> row]
RowOwner == [s \in {"c1", "c2", "e1", "s1"} |-> IF s = "c2" THEN "u2" ELSE "u1"]
RowKey == [s \in {"c1", "c2", "e1", "s1"} |->
             IF s = "c2" THEN "k3" ELSE IF s = "s1" THEN "k2" ELSE "k1"]
RowBalance == [u \in TwoUsers |-> IF u = "u1" THEN 3 ELSE 2]
=============================================================================
