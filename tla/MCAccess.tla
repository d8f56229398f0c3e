------------------------------ MODULE MCAccess ------------------------------
(***************************************************************************)
(* Instances of Sessions, and with it of Access, for TLC.                  *)
(***************************************************************************)
EXTENDS Sessions

TwoRoots == {"root1", "root2"}
OneRoot == {"root1"}
Addresses == {"admin@", "user@"}

\* Users of one address and their administrators; keys at the limit; a user who may be
\* disabled while a key is created and used; an administrator who logs in, is demoted and
\* opens a page; and a user who renews tokens.
OnesAccounts == {"register", "profile", "edit1", "edit2"}
OnesKeys == {"create1", "create2", "delete", "call1", "call2"}
OnesOwner == {"edit1", "edit2", "create1", "call1"}
OnesAdmin == {"edit1"}
OnesRenewals == {"profile"}

SmallWorkloads == {OnesAccounts, OnesKeys, OnesOwner, OnesAdmin, OnesRenewals}

VisitorsWith == [w \in SmallWorkloads |->
    CASE w = OnesAdmin -> {"login1", "login2", "renew1", "adminpage"}
      [] w = OnesRenewals -> {"login1", "renew1", "renew2", "page"}
      [] OTHER -> {}]

TwoCreations == {KeyCreations}
Nobody == [w \in TwoCreations |-> {}]
=============================================================================
