------------------------------ MODULE MCRelay ------------------------------
(***************************************************************************)
(* Instances of Relay for TLC.  Keys and requests are named by strings, so *)
(* that the provider of each can be written down here.                     *)
(***************************************************************************)
EXTENDS Relay

\* Two keys of one provider and one of another, whose key comes first.
ThreeKeys == {"k1", "k2", "k3"}
TwoProviders == {"p", "q"}
Url == [k \in ThreeKeys |-> k]
Priorities == [k \in ThreeKeys |-> IF k = "k2" THEN 2 ELSE 1]

\* A stream and an embedding of the first provider.
Provider == [x \in ThreeKeys \cup {"stream", "embed"} |-> IF x = "k3" THEN "q" ELSE "p"]

\* A chat and an embedding of it.
ChatProvider == [x \in ThreeKeys \cup {"chat", "embed"} |-> IF x = "k3" THEN "q" ELSE "p"]
=============================================================================
