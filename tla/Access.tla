------------------------------- MODULE Access -------------------------------
(***************************************************************************)
(* Who may use Token Relay: the users, their API keys, and the requests    *)
(* that register a user, edit one, create or delete a key, or present one. *)
(*                                                                         *)
(* A request is one database session.  What it writes is flushed last and  *)
(* committed right after, and no step of its own lies between, so a write  *)
(* and its commit are one step here; reads before it see what was          *)
(* committed at their time.  Two requests may therefore check the same     *)
(* condition before either writes.                                         *)
(*                                                                         *)
(* Abstracted: passwords.  Sessions adds the tokens that users sign in     *)
(* with, and the specification.  A row is named by the request that        *)
(* inserts it (its uuid).  Registration is open.  A call that is refused   *)
(* later, by the limits or for credits, writes nothing here.               *)
(***************************************************************************)
EXTENDS Integers, FiniteSets

CONSTANTS
    Roots,           \* rows that startups may insert
    Registrations,   \* POST /api/auth/register
    Profiles,        \* PATCH /api/users/me
    AdminEdits,      \* PATCH /api/admin/users/{user_id}
    KeyCreations,    \* POST /api/users/me/keys
    KeyDeletions,    \* DELETE /api/users/me/keys/{key_id}
    Calls,           \* requests that present an API key
    Emails,          \* addresses
    AdminEmail,      \* settings.ADMIN_EMAIL
    MaxKeys,         \* most active keys of a user, 10 in the code
    MaxRestarts,     \* most restarts of the process (bound of the model)
    Workloads,       \* sets of requests; those of one of them are sent (bound of the model)
    NoRow            \* what stands for a row that does not exist

Users == Roots \cup Registrations
Portal == Profiles \cup AdminEdits \cup KeyCreations \cup KeyDeletions
Requests == Registrations \cup Portal \cup Calls

UserRow == [email : Emails, role : {"user", "admin"}, is_active : BOOLEAN]
KeyRow == [owner : Users, is_active : BOOLEAN, last_used_at : BOOLEAN]

\* A request is of one kind, and there is a row for every startup.
ASSUME AccessAssumption ==
    /\ Roots \cap Registrations = {}
    /\ Registrations \cap (Portal \cup Calls) = {} /\ Portal \cap Calls = {}
    /\ Profiles \cap (AdminEdits \cup KeyCreations \cup KeyDeletions) = {}
    /\ AdminEdits \cap (KeyCreations \cup KeyDeletions) = {}
    /\ KeyCreations \cap KeyDeletions = {}
    /\ AdminEmail \in Emails
    /\ MaxKeys \in Nat \ {0} /\ MaxRestarts \in Nat
    /\ IsFiniteSet(Roots) /\ Cardinality(Roots) > MaxRestarts
    /\ Workloads \subseteq SUBSET Requests
    /\ NoRow \notin Users \cup KeyCreations \cup UserRow \cup KeyRow

VARIABLES
    server,    \* the process: "down", "up" or "failed"
    users,     \* users[u]: row u of table users
    keys,      \* keys[k]: row k of table api_keys
    pc,        \* pc[r]: where the handler of r is
    actor,     \* actor[r]: the user whom a portal request acts for
    target,    \* target[r]: the row it edits, deletes or presents
    seen,      \* seen[r]: that row as r read it
    change,    \* change[r]: the columns r sets
    answer,    \* answer[r]: what the client is told
    restarts   \* restarts of the process so far

access == <<server, users, keys, pc, actor, target, seen, change, answer, restarts>>
handler == <<actor, target, seen, change>>

NoChange == <<>>

AccessInit ==
    /\ server = "down"
    /\ users = [u \in Users |-> NoRow]
    /\ keys = [k \in KeyCreations |-> NoRow]
    /\ \E sent \in Workloads : pc = [r \in Requests |-> IF r \in sent THEN "start" ELSE "unsent"]
    /\ actor = [r \in Requests |-> NoRow]
    /\ target = [r \in Requests |-> NoRow]
    /\ seen = [r \in Requests |-> NoRow]
    /\ change = [r \in Requests |-> NoChange]
    /\ answer = [r \in Requests |-> "none"]
    /\ restarts = 0

Stored == {u \in Users : users[u] # NoRow}
Live(u) == users[u] # NoRow /\ users[u].is_active

\* The row that a request of an account is about.
Row(r) == IF r \in Registrations THEN r ELSE actor[r]

\* Mutant: every column of the object goes into the UPDATE.
FlushedWhole(row, read, columns) ==
    [c \in DOMAIN row |-> IF c \in DOMAIN columns THEN columns[c] ELSE read[c]]

\* A row after a flush: of the object as it was read, only the columns that were set to
\* something else go into the UPDATE.
Flushed(row, read, columns) ==
    [c \in DOMAIN row |-> IF c \in DOMAIN columns /\ columns[c] # read[c] THEN columns[c] ELSE row[c]]

\* Mutant: the object is saved instead of one column updated.
TouchedWhole(row, read) == [read EXCEPT !.last_used_at = TRUE]

\* The row of a key after update(ApiKey).values(last_used_at).
Touched(row, read) == [row EXCEPT !.last_used_at = TRUE]

\* Mutant: the column is indexed, not unique.
IndexAdmitsAny(u, e) == TRUE

\* The unique index on users.email lets u have address e.
IndexAdmits(u, e) == \A v \in Stored \ {u} : users[v].email # e

NewUser(e, role) == [email |-> e, role |-> role, is_active |-> TRUE]

ActiveKeys(u) == {k \in KeyCreations : keys[k] # NoRow /\ keys[k].owner = u /\ keys[k].is_active}

-----------------------------------------------------------------------------
(***************************************************************************)
(* The process.  At startup _ensure_admin looks for an administrator and   *)
(* inserts the one of the settings if there is none.                       *)
(***************************************************************************)
\* Mutant: a disabled administrator does not count.
HasActiveAdmin == \E u \in Stored : users[u].role = "admin" /\ users[u].is_active

HasAdmin == \E u \in Stored : users[u].role = "admin"

NextRoot == CHOOSE u \in Roots : u \notin Stored

StartUp ==
    /\ server = "down"
    /\ \/ HasAdmin /\ UNCHANGED users
       \/ /\ ~HasAdmin
          /\ IndexAdmits(NextRoot, AdminEmail)
          /\ users' = [users EXCEPT ![NextRoot] = NewUser(AdminEmail, "admin")]
    /\ server' = "up"
    /\ UNCHANGED <<keys, pc, handler, answer, restarts>>

\* The address of the settings belongs to somebody: the insert raises, nothing is served.
FailToStart ==
    /\ server = "down"
    /\ ~HasAdmin
    /\ ~IndexAdmits(NextRoot, AdminEmail)
    /\ server' = "failed"
    /\ UNCHANGED <<users, keys, pc, handler, answer, restarts>>

\* The process stops; the requests it was handling are lost.
Stop ==
    /\ server = "up"
    /\ restarts < MaxRestarts
    /\ restarts' = restarts + 1
    /\ server' = "down"
    /\ pc' = [r \in Requests |-> IF pc[r] \in {"start", "unsent"} THEN pc[r] ELSE "done"]
    /\ answer' = [r \in Requests |-> IF pc[r] \in {"start", "unsent", "done"} THEN answer[r] ELSE "lost"]
    /\ seen' = [r \in Requests |-> NoRow]
    /\ change' = [r \in Requests |-> NoChange]
    /\ UNCHANGED <<users, keys, actor, target>>

-----------------------------------------------------------------------------
(***************************************************************************)
(* Requests.                                                               *)
(***************************************************************************)
Goes(r, from, to) ==
    /\ server = "up"
    /\ pc[r] = from
    /\ pc' = [pc EXCEPT ![r] = to]
    /\ UNCHANGED <<server, restarts>>

Answered(r, reply) ==
    /\ answer' = [answer EXCEPT ![r] = reply]
    /\ seen' = [seen EXCEPT ![r] = NoRow]
    /\ change' = [change EXCEPT ![r] = NoChange]
    /\ UNCHANGED <<actor, target>>

\* get_current_user, and get_current_admin for an edit.
SignIn(r) ==
    /\ r \in Portal
    /\ Goes(r, "start", "signed in")
    /\ \E u \in Users :
          /\ Live(u)
          /\ r \in AdminEdits => users[u].role = "admin"
          /\ actor' = [actor EXCEPT ![r] = u]
          /\ seen' = [seen EXCEPT ![r] = users[u]]
    /\ UNCHANGED <<users, keys, target, change, answer>>

\* 401 or 403: no user, none that is active, or no administrator.
Reject(r) ==
    /\ Goes(r, "start", "done")
    /\ r \in Portal \cup Calls
    /\ Answered(r, "refused")
    /\ UNCHANGED <<users, keys>>

\* register and update_user look for another user with the address.
Asks(r, to) ==
    \/ r \in Registrations /\ Goes(r, "start", to)
    \/ r \in Profiles /\ Goes(r, "signed in", to)

Taken(r, e) == \E v \in Stored \ {Row(r)} : users[v].email = e

CheckEmail(r, e) ==
    /\ Asks(r, "checked")
    /\ ~Taken(r, e)
    /\ change' = [change EXCEPT ![r] = [email |-> e]]
    /\ UNCHANGED <<users, keys, actor, target, seen, answer>>

\* 409: there is one.
Conflict(r) ==
    /\ Asks(r, "done")
    /\ \E e \in Emails : Taken(r, e)
    /\ Answered(r, "refused")
    /\ UNCHANGED <<users, keys>>

\* The address that was free is no longer, and there is an INSERT or an UPDATE of it.
Collides(r) ==
    /\ r \in Profiles => change[r].email # seen[r].email
    /\ ~IndexAdmits(Row(r), change[r].email)

\* register inserts the row.
InsertUser(r) ==
    /\ r \in Registrations
    /\ Goes(r, "checked", "done")
    /\ ~Collides(r)
    /\ users' = [users EXCEPT ![r] = NewUser(change[r].email, "user")]
    /\ Answered(r, "ok")
    /\ UNCHANGED keys

\* update_user sets the address.
UpdateEmail(r) ==
    /\ r \in Profiles
    /\ Goes(r, "checked", "done")
    /\ ~Collides(r)
    /\ users' = [users EXCEPT ![Row(r)] = Flushed(@, seen[r], change[r])]
    /\ Answered(r, "ok")
    /\ UNCHANGED keys

\* IntegrityError, which nothing catches.
Collide(r) ==
    /\ r \in Registrations \cup Profiles
    /\ Goes(r, "checked", "done")
    /\ Collides(r)
    /\ Answered(r, "error")
    /\ UNCHANGED <<users, keys>>

\* update_user_admin reads the row of any user, then sets the column it was sent.  The
\* session knows the administrator's own row already and does not read it anew.
ReadUser(r) ==
    /\ r \in AdminEdits
    /\ Goes(r, "signed in", "checked")
    /\ \E u \in Stored :
          /\ target' = [target EXCEPT ![r] = u]
          /\ seen' = [seen EXCEPT ![r] = IF u = actor[r] THEN @ ELSE users[u]]
    /\ \E c \in [role : {"user", "admin"}] \cup [is_active : BOOLEAN] :
          change' = [change EXCEPT ![r] = c]
    /\ UNCHANGED <<users, keys, actor, answer>>

EditUser(r) ==
    /\ r \in AdminEdits
    /\ Goes(r, "checked", "done")
    /\ users' = [users EXCEPT ![target[r]] = Flushed(@, seen[r], change[r])]
    /\ Answered(r, "ok")
    /\ UNCHANGED keys

\* create_user_key counts the user's active keys.
CountKeys(r) ==
    /\ r \in KeyCreations
    /\ Goes(r, "signed in", "checked")
    /\ Cardinality(ActiveKeys(actor[r])) < MaxKeys
    /\ UNCHANGED <<users, keys, handler, answer>>

\* 400: there are enough.
LimitReached(r) ==
    /\ r \in KeyCreations
    /\ Goes(r, "signed in", "done")
    /\ Cardinality(ActiveKeys(actor[r])) >= MaxKeys
    /\ Answered(r, "refused")
    /\ UNCHANGED <<users, keys>>

InsertKey(r) ==
    /\ r \in KeyCreations
    /\ Goes(r, "checked", "done")
    /\ keys' = [keys EXCEPT ![r] = [owner |-> actor[r], is_active |-> TRUE, last_used_at |-> FALSE]]
    /\ Answered(r, "ok")
    /\ UNCHANGED users

\* What row may have been earlier: since then a key was used or deactivated at most.
Earlier(read, row) ==
    /\ read.owner = row.owner
    /\ row.is_active => read.is_active
    /\ read.last_used_at => row.last_used_at

\* delete_user_key finds a key of the user and deactivates it.  The session knows the keys
\* that the user had at the sign-in (User.api_keys is loaded with the user) as of then.
FindKey(r) ==
    /\ r \in KeyDeletions
    /\ Goes(r, "signed in", "checked")
    /\ \E k \in KeyCreations, read \in KeyRow :
          /\ keys[k] # NoRow /\ keys[k].owner = actor[r]
          /\ Earlier(read, keys[k])
          /\ target' = [target EXCEPT ![r] = k]
          /\ seen' = [seen EXCEPT ![r] = read]
    /\ change' = [change EXCEPT ![r] = [is_active |-> FALSE]]
    /\ UNCHANGED <<users, keys, actor, answer>>

DeactivateKey(r) ==
    /\ r \in KeyDeletions
    /\ Goes(r, "checked", "done")
    /\ keys' = [keys EXCEPT ![target[r]] = Flushed(@, seen[r], change[r])]
    /\ Answered(r, "ok")
    /\ UNCHANGED users

\* 404: no such row, or not one of the user's.
NotFound(r) ==
    /\ r \in AdminEdits \cup KeyDeletions
    /\ Goes(r, "signed in", "done")
    /\ Answered(r, "refused")
    /\ UNCHANGED <<users, keys>>

(***************************************************************************)
(* get_user_from_api_key: the key, then its owner, then last_used_at.      *)
(***************************************************************************)
PresentKey(r) ==
    /\ r \in Calls
    /\ Goes(r, "start", "keyed")
    /\ \E k \in KeyCreations :
          /\ keys[k] # NoRow /\ keys[k].is_active
          /\ target' = [target EXCEPT ![r] = k]
          /\ seen' = [seen EXCEPT ![r] = keys[k]]
    /\ UNCHANGED <<users, keys, actor, change, answer>>

\* Mutant: a key is as good as its owner was when it was created.
OwnerExists(u) == users[u] # NoRow

OwnerMayCall(u) == Live(u)

FindOwner(r) ==
    /\ r \in Calls
    /\ Goes(r, "keyed", "admitted")
    /\ OwnerMayCall(seen[r].owner)
    /\ UNCHANGED <<users, keys, handler, answer>>

\* 403: the owner is disabled.
RejectOwner(r) ==
    /\ r \in Calls
    /\ Goes(r, "keyed", "done")
    /\ ~OwnerMayCall(seen[r].owner)
    /\ Answered(r, "refused")
    /\ UNCHANGED <<users, keys>>

\* last_used_at is written, and the request is served.
UseKey(r) ==
    /\ r \in Calls
    /\ Goes(r, "admitted", "done")
    /\ keys' = [keys EXCEPT ![target[r]] = Touched(@, seen[r])]
    /\ Answered(r, "ok")
    /\ UNCHANGED users

Account(r) == InsertUser(r) \/ UpdateEmail(r) \/ Collide(r) \/ Conflict(r) \/ ReadUser(r) \/ EditUser(r)
Key(r) == CountKeys(r) \/ LimitReached(r) \/ InsertKey(r) \/ FindKey(r) \/ DeactivateKey(r)
Call(r) == PresentKey(r) \/ FindOwner(r) \/ RejectOwner(r) \/ UseKey(r)

Step(r) == Reject(r) \/ NotFound(r) \/ Account(r) \/ Key(r) \/ Call(r)

-----------------------------------------------------------------------------
\* Types; what a row, a request or its object refers to is stored.
AccessTypeOK ==
    /\ server \in {"down", "up", "failed"}
    /\ \A u \in Users : users[u] \in UserRow \cup {NoRow}
    /\ \A k \in KeyCreations : keys[k] \in KeyRow \cup {NoRow}
    /\ \A k \in KeyCreations : keys[k] # NoRow => keys[k].owner \in Stored
    /\ \A r \in Requests :
          /\ pc[r] \in {"unsent", "start", "signed in", "keyed", "admitted", "checked", "done"}
          /\ actor[r] \in Stored \cup {NoRow}
          /\ target[r] \in Stored \cup {k \in KeyCreations : keys[k] # NoRow} \cup {NoRow}
          /\ seen[r] \in UserRow \cup KeyRow \cup {NoRow}
          /\ answer[r] \in {"none", "ok", "refused", "error", "lost"}
          /\ DOMAIN change[r] \subseteq {"email", "role", "is_active"}
    /\ restarts \in 0..MaxRestarts

\* No two users have one address, although registrations and profile updates look for
\* it before they write it (auth_service.py:27, user_service.py:23) and startups do not
\* look at all.  What remains of a race is an error for one of them.
UniqueEmail == \A u, v \in Stored : users[u].email = users[v].email => u = v

\* A column changes only by a request that was sent a new value for it: a role and a
\* disabled account by an administrator's edit, a deleted key by nobody, an address by
\* the user's own update.  Objects are read long before they are flushed, and none may
\* carry back what another request has changed since.
Sets(r, row, column) ==
    /\ pc[r] # "done" /\ pc'[r] = "done"
    /\ column \in DOMAIN change[r]
    /\ row = IF r \in Profiles THEN actor[r] ELSE target[r]

EditsOnly ==
    /\ \A u \in Stored, column \in {"email", "role", "is_active"} :
          users'[u][column] # users[u][column] => \E r \in Profiles \cup AdminEdits : Sets(r, u, column)
    /\ \A k \in KeyCreations :
          keys[k] # NoRow /\ keys'[k].is_active => keys[k].is_active

ColumnsArePreserved == [][EditsOnly]_access

\* A key that was deleted serves no call that arrives afterwards, whatever the calls and
\* deletions on their way write: "It will stop working immediately" (user.js:171).
DeletedKeyIsRefused ==
    \A k \in KeyCreations, c \in Calls :
       []((keys[k] # NoRow /\ ~keys[k].is_active /\ pc[c] = "start")
             => []~(answer[c] = "ok" /\ target[c] = k))

\* A user who is disabled, and not enabled again, is served by no request of the portal,
\* with a token, and by no call, with a key, that arrives afterwards, although each looks at
\* the user's row in a transaction of its own (deps.py:26, 72) and acts later.  It is not
\* said of renewals: refresh_token looks at no row and gives a disabled user new tokens.
ServedTo(r, u) ==
    /\ answer[r] = "ok"
    /\ \/ r \in Portal /\ actor[r] = u
       \/ r \in Calls /\ keys[target[r]].owner = u

Disabled(u) == u \in Stored /\ ~users[u].is_active

DisabledUserIsShutOut ==
    \A u \in Users, r \in Portal \cup Calls :
       []((pc[r] = "start" /\ []Disabled(u)) => []~ServedTo(r, u))

\* The service fails to start only if an administrator it once inserted has been
\* demoted since: neither a disabled one nor a renamed one prevents it.
StartupFailsOnlyAfterDemotion ==
    server = "failed" => \E u \in Roots \cap Stored : users[u].role = "user"

\* "Maximum 10 active API keys" (user_service.py:46).
KeyLimit == \A u \in Stored : Cardinality(ActiveKeys(u)) <= MaxKeys
=============================================================================
