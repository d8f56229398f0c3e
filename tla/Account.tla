------------------------------ MODULE Account ------------------------------
(***************************************************************************)
(* What the billing of Token Relay promises about a user's credits, with   *)
(* sessions, locks and uncommitted writes left out.  A request is charged  *)
(* at most once, in one step, and never more than the user owns at that    *)
(* step; an administrator's top-up adds exactly its amount.                *)
(***************************************************************************)
EXTENDS Integers

CONSTANTS
    Users,
    Requests,        \* proxied requests
    TopUps,          \* administrators' credit adjustments
    Owner,           \* Owner[s]: the user whom request or top-up s concerns
    InitialBalance,  \* InitialBalance[u]: credits of u at the start
    Amounts,         \* amounts a top-up may add
    Pending          \* the entry of a request or top-up not yet booked

VARIABLES
    balance,         \* balance[u]: credits of u
    booked           \* booked[s]: credits s took (request) or added (top-up)

vars == <<balance, booked>>

Init ==
    /\ balance = InitialBalance
    /\ booked = [s \in Requests \cup TopUps |-> Pending]

\* Request r takes c credits, which its user owns.
Charge(r) ==
    /\ booked[r] = Pending
    /\ \E c \in 0 .. balance[Owner[r]] :
          /\ balance' = [balance EXCEPT ![Owner[r]] = @ - c]
          /\ booked' = [booked EXCEPT ![r] = c]

\* Top-up t adds its amount to what its user owns at this step.
Credit(t) ==
    /\ booked[t] = Pending
    /\ \E a \in Amounts :
          /\ balance' = [balance EXCEPT ![Owner[t]] = @ + a]
          /\ booked' = [booked EXCEPT ![t] = a]

Next ==
    \/ \E r \in Requests : Charge(r)
    \/ \E t \in TopUps : Credit(t)

Spec == Init /\ [][Next]_vars
=============================================================================
