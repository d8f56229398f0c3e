---------------------------- MODULE AccessProofs ----------------------------
(***************************************************************************)
(* Theorems about Access and Sessions, for any number of users, requests   *)
(* and visitors, any lifetimes of tokens and any number of restarts.       *)
(*                                                                         *)
(* Handlers read, and write a step or more later.  Whether a write is      *)
(* right depends on what the handler still knows then, so the invariant    *)
(* says of every request what it holds at each place: RequestInv.  What    *)
(* tokens open depends on how far ahead of the last login their times of   *)
(* expiry may be: TokenInv.                                                *)
(***************************************************************************)
EXTENDS Sessions, FiniteSetTheorems, TLAPS

StoredKeys == {k \in KeyCreations : keys[k] # NoRow}

\* What a portal request may set.
Edited == [role : {"user", "admin"}] \cup [is_active : BOOLEAN]
Changed == [email : Emails] \cup Edited

Places == {"unsent", "start", "signed in", "keyed", "admitted", "checked", "done"}

Shape ==
    /\ server \in {"down", "up", "failed"}
    /\ users \in [Users -> UserRow \cup {NoRow}]
    /\ keys \in [KeyCreations -> KeyRow \cup {NoRow}]
    /\ pc \in [Requests -> Places]
    /\ actor \in [Requests -> Users \cup {NoRow}]
    /\ target \in [Requests -> Users \cup KeyCreations \cup {NoRow}]
    /\ seen \in [Requests -> UserRow \cup KeyRow \cup {NoRow}]
    /\ change \in [Requests -> Changed \cup {NoChange}]
    /\ answer \in [Requests -> {"none", "ok", "refused", "error", "lost"}]
    /\ restarts \in 0..MaxRestarts

\* Keys have owners.
Owned == \A k \in StoredKeys : keys[k].owner \in Stored

Signed(r) == pc[r] = "signed in" => actor[r] \in Stored /\ seen[r] \in UserRow

Keyed(r) ==
    pc[r] \in {"keyed", "admitted"} =>
        r \in Calls /\ target[r] \in StoredKeys /\ seen[r] \in KeyRow /\ seen[r].owner \in Stored

\* What a request holds that is about to write.
Checked(r) ==
    pc[r] = "checked" =>
        /\ r \in Registrations \cup Profiles => change[r] \in [email : Emails]
        /\ r \in Profiles => actor[r] \in Stored /\ seen[r] \in UserRow
        /\ r \in AdminEdits => target[r] \in Stored /\ seen[r] \in UserRow /\ change[r] \in Edited
        /\ r \in KeyCreations => actor[r] \in Stored
        /\ r \in KeyDeletions =>
              target[r] \in StoredKeys /\ seen[r] \in KeyRow /\ change[r] = [is_active |-> FALSE]

RequestInv(r) ==
    /\ actor[r] \in Stored \cup {NoRow}
    /\ target[r] \in Stored \cup StoredKeys \cup {NoRow}
    /\ Signed(r)
    /\ Keyed(r)
    /\ Checked(r)

\* Nobody has a row before it is inserted.
Unborn ==
    /\ \A r \in Registrations : pc[r] # "done" => users[r] = NoRow
    /\ \A r \in KeyCreations : pc[r] # "done" => keys[r] = NoRow

\* There is a free row for the next startup, and no user without a first administrator.
Rooted ==
    /\ Cardinality(Roots \cap Stored) <= restarts + (IF server = "down" THEN 0 ELSE 1)
    /\ Stored # {} => Roots \cap Stored # {}
    /\ server = "up" => Stored # {}

\* The invariant of users, keys and requests.
AInv ==
    /\ Shape
    /\ Owned
    /\ Unborn
    /\ Rooted
    /\ UniqueEmail
    /\ StartupFailsOnlyAfterDemotion
    /\ \A r \in Requests : RequestInv(r)

-----------------------------------------------------------------------------
(***************************************************************************)
(* Rows.                                                                   *)
(***************************************************************************)
LEMMA FlushedUser ==
    ASSUME NEW row \in UserRow, NEW read, NEW columns \in Changed
    PROVE  /\ Flushed(row, read, columns) \in UserRow
           /\ \A c \in {"email", "role", "is_active"} :
                 Flushed(row, read, columns)[c] # row[c] =>
                     /\ c \in DOMAIN columns
                     /\ columns[c] # read[c]
                     /\ Flushed(row, read, columns)[c] = columns[c]
  <1>1. DOMAIN row = {"email", "role", "is_active"}
    BY DEF UserRow
  <1>2. \A c \in DOMAIN columns : /\ c = "email" => columns[c] \in Emails
                                  /\ c = "role" => columns[c] \in {"user", "admin"}
                                  /\ c = "is_active" => columns[c] \in BOOLEAN
    BY DEF Changed, Edited
  <1>3. /\ row["email"] \in Emails
        /\ row["role"] \in {"user", "admin"}
        /\ row["is_active"] \in BOOLEAN
    BY DEF UserRow
  <1> QED
    BY <1>1, <1>2, <1>3 DEF UserRow, Flushed

LEMMA FlushedKey ==
    ASSUME NEW row \in KeyRow, NEW read
    PROVE  LET new == Flushed(row, read, [is_active |-> FALSE])
           IN new \in KeyRow /\ new.owner = row.owner /\ (new.is_active => row.is_active)
  <1>1. DOMAIN row = {"owner", "is_active", "last_used_at"}
    BY DEF KeyRow
  <1>2. /\ row["owner"] \in Users
        /\ row["last_used_at"] \in BOOLEAN
        /\ row["is_active"] \in BOOLEAN
    BY DEF KeyRow
  <1> DEFINE columns == [is_active |-> FALSE]
  <1>3. DOMAIN columns = {"is_active"} /\ columns["is_active"] = FALSE
    OBVIOUS
  <1> HIDE DEF columns
  <1>4. Flushed(row, read, columns) \in KeyRow /\ Flushed(row, read, columns).owner = row.owner
        /\ (Flushed(row, read, columns).is_active => row.is_active)
    BY <1>1, <1>2, <1>3 DEF KeyRow, Flushed
  <1> QED
    BY <1>4 DEF columns

-----------------------------------------------------------------------------
(***************************************************************************)
(* Frames: what holds of a request goes on to hold while others step.      *)
(***************************************************************************)
Same(q) ==
    /\ pc'[q] = pc[q] /\ actor'[q] = actor[q] /\ target'[q] = target[q]
    /\ seen'[q] = seen[q] /\ change'[q] = change[q]

Grown == Stored \subseteq Stored' /\ StoredKeys \subseteq StoredKeys'

LEMMA Others ==
    ASSUME NEW q \in Requests, RequestInv(q), Grown, Same(q)
    PROVE  RequestInv(q)'
  <1>1. Signed(q)' /\ Keyed(q)'
    BY DEF RequestInv, Grown, Same, Signed, Keyed
  <1>2. Checked(q)'
    BY DEF RequestInv, Grown, Same, Checked
  <1> QED
    BY <1>1, <1>2 DEF RequestInv, Grown, Same

\* The tables do not change.
Quiet == UNCHANGED <<server, users, keys, restarts>>

LEMMA QuietFrame ==
    ASSUME AInv, Quiet
    PROVE  /\ Stored' = Stored /\ StoredKeys' = StoredKeys
           /\ Owned' /\ Rooted' /\ UniqueEmail' /\ StartupFailsOnlyAfterDemotion'
           /\ EditsOnly
  <1>1. Stored' = Stored /\ StoredKeys' = StoredKeys
    BY DEF Quiet, Stored, StoredKeys
  <1>2. Owned' /\ UniqueEmail' /\ StartupFailsOnlyAfterDemotion'
    BY <1>1 DEF AInv, Quiet, Owned, UniqueEmail, StartupFailsOnlyAfterDemotion
  <1>3. Rooted'
    BY <1>1 DEF AInv, Quiet, Rooted
  <1>4. EditsOnly
    BY DEF Quiet, EditsOnly
  <1> QED
    BY <1>1, <1>2, <1>3, <1>4

\* A handler that ends.
LEMMA Ends ==
    ASSUME AInv, NEW r \in Requests, NEW reply \in {"ok", "refused", "error"},
           pc' = [pc EXCEPT ![r] = "done"], Answered(r, reply), Grown
    PROVE  /\ pc' \in [Requests -> Places]
           /\ actor' \in [Requests -> Users \cup {NoRow}]
           /\ target' \in [Requests -> Users \cup KeyCreations \cup {NoRow}]
           /\ seen' \in [Requests -> UserRow \cup KeyRow \cup {NoRow}]
           /\ change' \in [Requests -> Changed \cup {NoChange}]
           /\ answer' \in [Requests -> {"none", "ok", "refused", "error", "lost"}]
           /\ \A q \in Requests : RequestInv(q)'
           /\ \A q \in Requests : q = r \/ pc'[q] = pc[q]
  <1>1. /\ pc' \in [Requests -> Places]
        /\ actor' \in [Requests -> Users \cup {NoRow}]
        /\ target' \in [Requests -> Users \cup KeyCreations \cup {NoRow}]
        /\ seen' \in [Requests -> UserRow \cup KeyRow \cup {NoRow}]
        /\ change' \in [Requests -> Changed \cup {NoChange}]
        /\ answer' \in [Requests -> {"none", "ok", "refused", "error", "lost"}]
    BY DEF AInv, Shape, Answered, Places
  <1>2. RequestInv(r)'
    <2>1. pc'[r] = "done"
      BY DEF AInv, Shape
    <2>2. actor'[r] = actor[r] /\ target'[r] = target[r]
      BY DEF Answered
    <2>3. RequestInv(r)
      BY DEF AInv
    <2> QED
      BY <2>1, <2>2, <2>3 DEF RequestInv, Signed, Keyed, Checked, Grown
  <1>3. \A q \in Requests \ {r} : Same(q)
    BY DEF AInv, Shape, Answered, Same
  <1>4. \A q \in Requests \ {r} : RequestInv(q)'
    BY <1>3, Others DEF AInv
  <1> QED
    BY <1>1, <1>2, <1>3, <1>4 DEF Same

\* A handler that ends without a write.
LEMMA EndsQuietly ==
    ASSUME AInv, NEW r \in Requests, NEW reply \in {"ok", "refused", "error"},
           pc' = [pc EXCEPT ![r] = "done"], Answered(r, reply), Quiet
    PROVE  AInv' /\ EditsOnly
  <1>1. Stored' = Stored /\ StoredKeys' = StoredKeys
    BY QuietFrame
  <1>2. Grown
    BY <1>1 DEF Grown
  <1>3. /\ server' \in {"down", "up", "failed"} /\ restarts' \in 0..MaxRestarts
        /\ users' \in [Users -> UserRow \cup {NoRow}]
        /\ keys' \in [KeyCreations -> KeyRow \cup {NoRow}]
    BY DEF AInv, Shape, Quiet
  <1>4. Unborn'
    BY <1>2, Ends DEF AInv, Shape, Unborn, Quiet, Requests, Portal
  <1> QED
    BY <1>2, <1>3, <1>4, Ends, QuietFrame DEF AInv, Shape

\* A handler that goes on without a write: what it holds must be what its place demands.
LEMMA GoesOn ==
    ASSUME AInv, NEW r \in Requests, Quiet, pc[r] # "done",
           pc' \in [Requests -> Places],
           actor' \in [Requests -> Users \cup {NoRow}],
           target' \in [Requests -> Users \cup KeyCreations \cup {NoRow}],
           seen' \in [Requests -> UserRow \cup KeyRow \cup {NoRow}],
           change' \in [Requests -> Changed \cup {NoChange}],
           answer' = answer,
           \A q \in Requests \ {r} : Same(q),
           RequestInv(r)'
    PROVE  AInv' /\ EditsOnly
  <1>1. Stored' = Stored /\ StoredKeys' = StoredKeys
    BY QuietFrame
  <1>2. Grown
    BY <1>1 DEF Grown
  <1>3. \A q \in Requests \ {r} : RequestInv(q)'
    BY <1>2, Others DEF AInv
  <1>4. Shape'
    BY DEF AInv, Shape, Quiet
  <1>5. Unborn'
    BY DEF AInv, Unborn, Quiet, Same, Requests, Portal
  <1> QED
    BY <1>3, <1>4, <1>5, QuietFrame DEF AInv

-----------------------------------------------------------------------------
(***************************************************************************)
(* The actions of handlers.                                                *)
(***************************************************************************)
LEMMA RefusalStep ==
    ASSUME AInv, NEW r \in Requests,
           Reject(r) \/ Conflict(r) \/ Collide(r) \/ LimitReached(r) \/ NotFound(r) \/ RejectOwner(r)
    PROVE  AInv' /\ EditsOnly
  <1>1. \E reply \in {"ok", "refused", "error"} : Answered(r, reply)
    BY DEF Reject, Conflict, Collide, LimitReached, NotFound, RejectOwner
  <1>2. pc' = [pc EXCEPT ![r] = "done"] /\ Quiet
    BY DEF Reject, Conflict, Collide, LimitReached, NotFound, RejectOwner, Goes, Asks, Quiet
  <1> QED
    BY <1>1, <1>2, EndsQuietly

LEMMA SignInStep ==
    ASSUME AInv, NEW r \in Requests, SignIn(r)
    PROVE  AInv' /\ EditsOnly
  <1>1. PICK u \in Users : /\ Live(u)
                           /\ actor' = [actor EXCEPT ![r] = u]
                           /\ seen' = [seen EXCEPT ![r] = users[u]]
    BY DEF SignIn
  <1>2. u \in Stored /\ users[u] \in UserRow
    BY <1>1 DEF Live, Stored, AInv, Shape
  <1>3. Quiet /\ pc[r] = "start" /\ pc' = [pc EXCEPT ![r] = "signed in"] /\ target' = target /\ change' = change /\ answer' = answer
    BY DEF SignIn, Goes, Quiet
  <1>4. Stored' = Stored /\ StoredKeys' = StoredKeys
    BY <1>3, QuietFrame
  <1>5. /\ pc' \in [Requests -> Places]
        /\ actor' \in [Requests -> Users \cup {NoRow}]
        /\ target' \in [Requests -> Users \cup KeyCreations \cup {NoRow}]
        /\ seen' \in [Requests -> UserRow \cup KeyRow \cup {NoRow}]
        /\ change' \in [Requests -> Changed \cup {NoChange}]
        /\ \A q \in Requests \ {r} : Same(q)
    BY <1>1, <1>2, <1>3 DEF AInv, Shape, Places, Same
  <1>6. RequestInv(r)'
    <2>1. pc'[r] = "signed in" /\ actor'[r] = u /\ seen'[r] = users[u] /\ target'[r] = target[r]
      BY <1>1, <1>3 DEF AInv, Shape
    <2>2. RequestInv(r)
      BY DEF AInv
    <2> QED
      BY <2>1, <2>2, <1>2, <1>4 DEF RequestInv, Signed, Keyed, Checked
  <1> QED
    BY <1>3, <1>5, <1>6, GoesOn

LEMMA CheckEmailStep ==
    ASSUME AInv, NEW r \in Requests, NEW e \in Emails, CheckEmail(r, e)
    PROVE  AInv' /\ EditsOnly
  <1>1. r \in Registrations \cup Profiles /\ (r \in Profiles => pc[r] = "signed in")
    BY AccessAssumption DEF CheckEmail, Asks, Goes, Portal
  <1>2. /\ Quiet /\ pc[r] \in {"start", "signed in"}
        /\ pc' = [pc EXCEPT ![r] = "checked"] /\ change' = [change EXCEPT ![r] = [email |-> e]]
        /\ actor' = actor /\ target' = target /\ seen' = seen /\ answer' = answer
    BY DEF CheckEmail, Asks, Goes, Quiet
  <1>3. Stored' = Stored /\ StoredKeys' = StoredKeys
    BY <1>2, QuietFrame
  <1>4. /\ pc' \in [Requests -> Places]
        /\ change' \in [Requests -> Changed \cup {NoChange}]
        /\ \A q \in Requests \ {r} : Same(q)
    BY <1>2 DEF AInv, Shape, Places, Same, Changed
  <1>5. RequestInv(r)'
    <2>1. pc'[r] = "checked" /\ change'[r] \in [email : Emails]
      BY <1>2 DEF AInv, Shape
    <2>2. RequestInv(r)
      BY DEF AInv
    <2>3. r \notin AdminEdits \cup KeyCreations \cup KeyDeletions
      BY <1>1, AccessAssumption DEF Portal
    <2>4. Checked(r)'
      BY <2>1, <2>2, <2>3, <1>1, <1>2, <1>3 DEF RequestInv, Signed, Checked
    <2> QED
      BY <2>1, <2>2, <2>4, <1>2, <1>3 DEF RequestInv, Signed, Keyed
  <1> QED
    BY <1>2, <1>4, <1>5, GoesOn DEF AInv, Shape

LEMMA ReadUserStep ==
    ASSUME AInv, NEW r \in Requests, ReadUser(r)
    PROVE  AInv' /\ EditsOnly
  <1>1. PICK u \in Stored : /\ target' = [target EXCEPT ![r] = u]
                            /\ seen' = [seen EXCEPT ![r] = IF u = actor[r] THEN @ ELSE users[u]]
    BY DEF ReadUser
  <1>2. PICK c \in Edited : change' = [change EXCEPT ![r] = c]
    BY DEF ReadUser, Edited
  <1>3. u \in Users /\ users[u] \in UserRow
    BY DEF Stored, AInv, Shape
  <1>4. /\ Quiet /\ pc[r] = "signed in" /\ pc' = [pc EXCEPT ![r] = "checked"] /\ r \in AdminEdits
        /\ actor' = actor /\ answer' = answer
    BY DEF ReadUser, Goes, Quiet
  <1>5. Stored' = Stored /\ StoredKeys' = StoredKeys
    BY <1>4, QuietFrame
  <1>6. RequestInv(r)
    BY DEF AInv
  <1>7. seen[r] \in UserRow
    BY <1>4, <1>6 DEF RequestInv, Signed
  <1>8. /\ pc'[r] = "checked" /\ actor'[r] = actor[r] /\ target'[r] = u
        /\ seen'[r] \in UserRow /\ change'[r] = c
    BY <1>1, <1>2, <1>3, <1>4, <1>7 DEF AInv, Shape
  <1>9. /\ pc' \in [Requests -> Places]
        /\ target' \in [Requests -> Users \cup KeyCreations \cup {NoRow}]
        /\ seen' \in [Requests -> UserRow \cup KeyRow \cup {NoRow}]
        /\ change' \in [Requests -> Changed \cup {NoChange}]
        /\ \A q \in Requests \ {r} : Same(q)
    BY <1>1, <1>2, <1>3, <1>4, <1>7 DEF AInv, Shape, Places, Same, Changed
  <1>10. RequestInv(r)'
    <2>1. r \notin Registrations \cup Profiles \cup KeyCreations \cup KeyDeletions
      BY <1>4, AccessAssumption DEF Portal
    <2>2. Checked(r)'
      BY <2>1, <1>5, <1>8 DEF Checked
    <2> QED
      BY <2>2, <1>5, <1>6, <1>8 DEF RequestInv, Signed, Keyed
  <1> QED
    BY <1>4, <1>9, <1>10, GoesOn DEF AInv, Shape

LEMMA CountKeysStep ==
    ASSUME AInv, NEW r \in Requests, CountKeys(r)
    PROVE  AInv' /\ EditsOnly
  <1>1. /\ Quiet /\ pc[r] = "signed in" /\ pc' = [pc EXCEPT ![r] = "checked"] /\ r \in KeyCreations
        /\ actor' = actor /\ target' = target /\ seen' = seen /\ change' = change /\ answer' = answer
    BY DEF CountKeys, Goes, Quiet, handler
  <1>2. Stored' = Stored /\ StoredKeys' = StoredKeys
    BY <1>1, QuietFrame
  <1>3. pc' \in [Requests -> Places] /\ \A q \in Requests \ {r} : Same(q)
    BY <1>1 DEF AInv, Shape, Places, Same
  <1>4. RequestInv(r)'
    <2>1. r \notin Registrations \cup Profiles \cup AdminEdits \cup KeyDeletions
      BY <1>1, AccessAssumption DEF Portal
    <2>2. RequestInv(r) /\ pc'[r] = "checked"
      BY <1>1 DEF AInv, Shape
    <2>3. Checked(r)'
      BY <2>1, <2>2, <1>1, <1>2 DEF RequestInv, Signed, Checked
    <2> QED
      BY <2>2, <2>3, <1>1, <1>2 DEF RequestInv, Signed, Keyed
  <1> QED
    BY <1>1, <1>3, <1>4, GoesOn DEF AInv, Shape

LEMMA FindKeyStep ==
    ASSUME AInv, NEW r \in Requests, FindKey(r)
    PROVE  AInv' /\ EditsOnly
  <1>1. PICK k \in StoredKeys, read \in KeyRow : /\ target' = [target EXCEPT ![r] = k]
                                                /\ seen' = [seen EXCEPT ![r] = read]
    BY DEF FindKey, StoredKeys
  <1>2. k \in KeyCreations /\ keys[k] \in KeyRow
    BY DEF StoredKeys, AInv, Shape
  <1>3. /\ Quiet /\ pc[r] = "signed in" /\ pc' = [pc EXCEPT ![r] = "checked"] /\ r \in KeyDeletions
        /\ change' = [change EXCEPT ![r] = [is_active |-> FALSE]]
        /\ actor' = actor /\ answer' = answer
    BY DEF FindKey, Goes, Quiet
  <1>4. Stored' = Stored /\ StoredKeys' = StoredKeys
    BY <1>3, QuietFrame
  <1>5. [is_active |-> FALSE] \in Changed
    BY DEF Changed, Edited
  <1>6. /\ pc' \in [Requests -> Places]
        /\ target' \in [Requests -> Users \cup KeyCreations \cup {NoRow}]
        /\ seen' \in [Requests -> UserRow \cup KeyRow \cup {NoRow}]
        /\ change' \in [Requests -> Changed \cup {NoChange}]
        /\ \A q \in Requests \ {r} : Same(q)
    BY <1>1, <1>2, <1>3, <1>5 DEF AInv, Shape, Places, Same
  <1>7. /\ pc'[r] = "checked" /\ actor'[r] = actor[r] /\ target'[r] = k
        /\ seen'[r] = read /\ change'[r] = [is_active |-> FALSE]
    BY <1>1, <1>3 DEF AInv, Shape
  <1>8. RequestInv(r)'
    <2>1. r \notin Registrations \cup Profiles \cup AdminEdits \cup KeyCreations
      BY <1>3, AccessAssumption DEF Portal
    <2>2. Checked(r)'
      BY <2>1, <1>2, <1>4, <1>7 DEF Checked
    <2>3. RequestInv(r)
      BY DEF AInv
    <2> QED
      BY <2>2, <2>3, <1>4, <1>7 DEF RequestInv, Signed, Keyed
  <1> QED
    BY <1>3, <1>6, <1>8, GoesOn DEF AInv, Shape

LEMMA PresentKeyStep ==
    ASSUME AInv, NEW r \in Requests, PresentKey(r)
    PROVE  AInv' /\ EditsOnly
  <1>1. PICK k \in StoredKeys : /\ target' = [target EXCEPT ![r] = k]
                                /\ seen' = [seen EXCEPT ![r] = keys[k]]
    BY DEF PresentKey, StoredKeys
  <1>2. k \in KeyCreations /\ keys[k] \in KeyRow /\ keys[k].owner \in Stored
    BY DEF StoredKeys, AInv, Shape, Owned
  <1>3. /\ Quiet /\ pc[r] = "start" /\ pc' = [pc EXCEPT ![r] = "keyed"] /\ r \in Calls
        /\ change' = change /\ actor' = actor /\ answer' = answer
    BY DEF PresentKey, Goes, Quiet
  <1>4. Stored' = Stored /\ StoredKeys' = StoredKeys
    BY <1>3, QuietFrame
  <1>5. /\ pc' \in [Requests -> Places]
        /\ target' \in [Requests -> Users \cup KeyCreations \cup {NoRow}]
        /\ seen' \in [Requests -> UserRow \cup KeyRow \cup {NoRow}]
        /\ \A q \in Requests \ {r} : Same(q)
    BY <1>1, <1>2, <1>3 DEF AInv, Shape, Places, Same
  <1>6. pc'[r] = "keyed" /\ actor'[r] = actor[r] /\ target'[r] = k /\ seen'[r] = keys[k]
    BY <1>1, <1>3 DEF AInv, Shape
  <1>7. RequestInv(r)'
    <2>1. RequestInv(r)
      BY DEF AInv
    <2> QED
      BY <2>1, <1>2, <1>3, <1>4, <1>6 DEF RequestInv, Signed, Keyed, Checked
  <1> QED
    BY <1>3, <1>5, <1>7, GoesOn DEF AInv, Shape

LEMMA FindOwnerStep ==
    ASSUME AInv, NEW r \in Requests, FindOwner(r)
    PROVE  AInv' /\ EditsOnly
  <1>1. /\ Quiet /\ pc[r] = "keyed" /\ pc' = [pc EXCEPT ![r] = "admitted"]
        /\ actor' = actor /\ target' = target /\ seen' = seen /\ change' = change /\ answer' = answer
    BY DEF FindOwner, Goes, Quiet, handler
  <1>2. Stored' = Stored /\ StoredKeys' = StoredKeys
    BY <1>1, QuietFrame
  <1>3. pc' \in [Requests -> Places] /\ \A q \in Requests \ {r} : Same(q)
    BY <1>1 DEF AInv, Shape, Places, Same
  <1>4. RequestInv(r)'
    <2>1. RequestInv(r) /\ pc'[r] = "admitted"
      BY <1>1 DEF AInv, Shape
    <2> QED
      BY <2>1, <1>1, <1>2 DEF RequestInv, Signed, Keyed, Checked
  <1> QED
    BY <1>1, <1>3, <1>4, GoesOn DEF AInv, Shape

LEMMA InsertUserStep ==
    ASSUME AInv, NEW r \in Requests, InsertUser(r)
    PROVE  AInv' /\ EditsOnly
  <1> DEFINE e == change[r].email
  <1>1. /\ r \in Registrations /\ r \in Users /\ r \notin Roots /\ r \notin Profiles /\ Row(r) = r
        /\ pc[r] = "checked" /\ pc' = [pc EXCEPT ![r] = "done"] /\ Answered(r, "ok")
        /\ server = "up" /\ server' = server /\ restarts' = restarts /\ keys' = keys
        /\ users' = [users EXCEPT ![r] = NewUser(e, "user")]
    BY AccessAssumption DEF InsertUser, Goes, Users, Row, Portal
  <1>2. RequestInv(r) /\ users[r] = NoRow
    BY <1>1 DEF AInv, Unborn
  <1>3. change[r] \in [email : Emails]
    BY <1>1, <1>2 DEF RequestInv, Checked
  <1>4. e \in Emails /\ \A v \in Stored \ {r} : users[v].email # e
    BY <1>1, <1>3 DEF InsertUser, Collides, IndexAdmits
  <1>5. NewUser(e, "user") \in UserRow /\ NewUser(e, "user").email = e
    BY <1>4 DEF NewUser, UserRow
  <1> HIDE DEF e
  <1>6. /\ Stored' = Stored \cup {r} /\ r \notin Stored /\ StoredKeys' = StoredKeys
        /\ users'[r] = NewUser(e, "user") /\ \A u \in Stored : users'[u] = users[u]
        /\ users' \in [Users -> UserRow \cup {NoRow}]
    BY <1>1, <1>2, <1>5, AccessAssumption DEF Stored, StoredKeys, AInv, Shape
  <1>7. Grown
    BY <1>6 DEF Grown
  <1>8. Shape' /\ \A q \in Requests : RequestInv(q)' /\ (q = r \/ pc'[q] = pc[q])
    BY <1>1, <1>6, <1>7, Ends DEF AInv, Shape
  <1>9. Owned'
    BY <1>1, <1>6 DEF AInv, Owned
  <1>10. Unborn'
    <2>1. \A q \in Registrations : pc'[q] # "done" => users'[q] = NoRow
      BY <1>1, <1>8 DEF AInv, Shape, Unborn, Requests, Users
    <2>2. \A q \in KeyCreations : pc'[q] # "done" => keys'[q] = NoRow
      BY <1>1, <1>8, AccessAssumption DEF AInv, Unborn, Requests, Portal
    <2> QED
      BY <2>1, <2>2 DEF Unborn
  <1>11. Rooted'
    <2>1. Roots \cap Stored' = Roots \cap Stored
      BY <1>1, <1>6
    <2> QED
      BY <2>1, <1>1, <1>6 DEF AInv, Rooted
  <1>12. UniqueEmail'
    BY <1>4, <1>5, <1>6 DEF AInv, UniqueEmail
  <1>13. StartupFailsOnlyAfterDemotion'
    BY <1>1 DEF StartupFailsOnlyAfterDemotion
  <1>14. EditsOnly
    BY <1>1, <1>6 DEF EditsOnly
  <1> QED
    BY <1>8, <1>9, <1>10, <1>11, <1>12, <1>13, <1>14 DEF AInv

\* A handler that ends with an UPDATE of a user's row.
LEMMA RewritesUser ==
    ASSUME AInv, NEW r \in Requests, NEW u \in Stored, NEW new \in UserRow,
           pc[r] = "checked", pc' = [pc EXCEPT ![r] = "done"], Answered(r, "ok"),
           server = "up", server' = server, restarts' = restarts, keys' = keys,
           users' = [users EXCEPT ![u] = new],
           \A v \in Stored \ {u} : users[v].email # new.email,
           \A c \in {"email", "role", "is_active"} :
              new[c] # users[u][c] => \E q \in Profiles \cup AdminEdits : Sets(q, u, c)
    PROVE  AInv' /\ EditsOnly
  <1>1. /\ Stored' = Stored /\ StoredKeys' = StoredKeys /\ u \in Users
        /\ users'[u] = new /\ \A v \in Users \ {u} : users'[v] = users[v]
        /\ users' \in [Users -> UserRow \cup {NoRow}]
    BY AccessAssumption DEF Stored, StoredKeys, AInv, Shape
  <1>2. Grown
    BY <1>1 DEF Grown
  <1>3. Shape' /\ \A q \in Requests : RequestInv(q)' /\ (q = r \/ pc'[q] = pc[q])
    BY <1>1, <1>2, Ends DEF AInv, Shape
  <1>4. Owned' /\ Rooted' /\ StartupFailsOnlyAfterDemotion'
    BY <1>1 DEF AInv, Owned, Rooted, StartupFailsOnlyAfterDemotion
  <1>5. Unborn'
    <2>1. pc'[r] = "done" /\ users[u] # NoRow
      BY DEF AInv, Shape, Stored
    <2>2. \A q \in Registrations : pc'[q] # "done" => users'[q] = NoRow
      BY <2>1, <1>1, <1>3 DEF AInv, Unborn, Requests, Users
    <2> QED
      BY <2>1, <2>2, <1>3 DEF AInv, Unborn, Requests, Portal
  <1>6. UniqueEmail'
    BY <1>1 DEF AInv, UniqueEmail, Stored
  <1>7. EditsOnly
    BY <1>1 DEF EditsOnly, Stored
  <1> QED
    BY <1>3, <1>4, <1>5, <1>6, <1>7 DEF AInv

LEMMA UpdateEmailStep ==
    ASSUME AInv, NEW r \in Requests, UpdateEmail(r)
    PROVE  AInv' /\ EditsOnly
  <1> DEFINE u == actor[r]
             new == Flushed(users[u], seen[r], change[r])
  <1>1. /\ r \in Profiles /\ Row(r) = u
        /\ pc[r] = "checked" /\ pc' = [pc EXCEPT ![r] = "done"] /\ Answered(r, "ok")
        /\ server = "up" /\ server' = server /\ restarts' = restarts /\ keys' = keys
        /\ users' = [users EXCEPT ![u] = new]
    BY AccessAssumption DEF UpdateEmail, Goes, Row, Portal
  <1>2. u \in Stored /\ seen[r] \in UserRow /\ change[r] \in [email : Emails]
    BY <1>1 DEF AInv, RequestInv, Checked
  <1>3. users[u] \in UserRow /\ change[r] \in Changed /\ DOMAIN change[r] = {"email"}
    BY <1>2 DEF Stored, AInv, Shape, Changed
  <1>4. /\ new \in UserRow
        /\ \A c \in {"email", "role", "is_active"} :
              new[c] # users[u][c] => /\ c \in DOMAIN change[r]
                                      /\ change[r][c] # seen[r][c]
                                      /\ new[c] = change[r][c]
    BY <1>3, FlushedUser
  <1>5. pc'[r] = "done"
    BY <1>1 DEF AInv, Shape
  <1>6. ~Collides(r)
    BY DEF UpdateEmail
  <1> HIDE DEF u, new
  <1>7. ASSUME new.email # users[u].email
        PROVE  \A v \in Stored \ {u} : users[v].email # new.email
    BY <1>1, <1>4, <1>6, <1>7 DEF Collides, IndexAdmits
  <1>8. \A v \in Stored \ {u} : users[v].email # new.email
    BY <1>2, <1>7 DEF AInv, UniqueEmail
  <1>9. \A c \in {"email", "role", "is_active"} :
           new[c] # users[u][c] => \E q \in Profiles \cup AdminEdits : Sets(q, u, c)
    BY <1>1, <1>4, <1>5 DEF Sets, u
  <1> QED
    BY <1>1, <1>2, <1>4, <1>8, <1>9, RewritesUser

LEMMA EditUserStep ==
    ASSUME AInv, NEW r \in Requests, EditUser(r)
    PROVE  AInv' /\ EditsOnly
  <1> DEFINE u == target[r]
             new == Flushed(users[u], seen[r], change[r])
  <1>1. /\ r \in AdminEdits /\ r \notin Profiles
        /\ pc[r] = "checked" /\ pc' = [pc EXCEPT ![r] = "done"] /\ Answered(r, "ok")
        /\ server = "up" /\ server' = server /\ restarts' = restarts /\ keys' = keys
        /\ users' = [users EXCEPT ![u] = new]
    BY AccessAssumption DEF EditUser, Goes, Portal
  <1>2. u \in Stored /\ change[r] \in Edited
    BY <1>1 DEF AInv, RequestInv, Checked
  <1>3. users[u] \in UserRow /\ change[r] \in Changed /\ "email" \notin DOMAIN change[r]
    BY <1>2 DEF Stored, AInv, Shape, Changed, Edited
  <1>4. /\ new \in UserRow
        /\ \A c \in {"email", "role", "is_active"} :
              new[c] # users[u][c] => c \in DOMAIN change[r]
    BY <1>3, FlushedUser
  <1>5. pc'[r] = "done"
    BY <1>1 DEF AInv, Shape
  <1> HIDE DEF u, new
  <1>6. new.email = users[u].email
    BY <1>3, <1>4
  <1>7. \A v \in Stored \ {u} : users[v].email # new.email
    BY <1>2, <1>6 DEF AInv, UniqueEmail
  <1>8. \A c \in {"email", "role", "is_active"} :
           new[c] # users[u][c] => \E q \in Profiles \cup AdminEdits : Sets(q, u, c)
    BY <1>1, <1>4, <1>5 DEF Sets, u
  <1> QED
    BY <1>1, <1>2, <1>4, <1>7, <1>8, RewritesUser

LEMMA InsertKeyStep ==
    ASSUME AInv, NEW r \in Requests, InsertKey(r)
    PROVE  AInv' /\ EditsOnly
  <1> DEFINE new == [owner |-> actor[r], is_active |-> TRUE, last_used_at |-> FALSE]
  <1>1. /\ r \in KeyCreations
        /\ pc[r] = "checked" /\ pc' = [pc EXCEPT ![r] = "done"] /\ Answered(r, "ok")
        /\ server' = server /\ restarts' = restarts /\ users' = users
        /\ keys' = [keys EXCEPT ![r] = new]
    BY DEF InsertKey, Goes
  <1>2. actor[r] \in Stored
    BY <1>1 DEF AInv, RequestInv, Checked
  <1>3. new \in KeyRow /\ new.owner = actor[r]
    BY <1>2 DEF KeyRow, Stored
  <1> HIDE DEF new
  <1>4. /\ Stored' = Stored /\ StoredKeys' = StoredKeys \cup {r} /\ r \notin StoredKeys
        /\ keys'[r] = new /\ \A k \in KeyCreations \ {r} : keys'[k] = keys[k]
        /\ keys' \in [KeyCreations -> KeyRow \cup {NoRow}]
    BY <1>1, <1>3, AccessAssumption DEF Stored, StoredKeys, AInv, Shape, Unborn
  <1>5. Grown
    BY <1>4 DEF Grown
  <1>6. Shape' /\ \A q \in Requests : RequestInv(q)' /\ (q = r \/ pc'[q] = pc[q])
    BY <1>1, <1>4, <1>5, Ends DEF AInv, Shape
  <1>7. Owned'
    BY <1>2, <1>3, <1>4 DEF AInv, Owned, StoredKeys
  <1>8. Rooted' /\ UniqueEmail' /\ StartupFailsOnlyAfterDemotion'
    BY <1>1, <1>4 DEF AInv, Rooted, UniqueEmail, StartupFailsOnlyAfterDemotion
  <1>9. Unborn'
    <2>1. pc'[r] = "done"
      BY <1>1 DEF AInv, Shape
    <2> QED
      BY <2>1, <1>1, <1>4, <1>6 DEF AInv, Unborn, Requests, Portal
  <1>10. EditsOnly
    BY <1>1, <1>4 DEF EditsOnly, StoredKeys
  <1> QED
    BY <1>6, <1>7, <1>8, <1>9, <1>10 DEF AInv

\* A handler that ends with an UPDATE of a key's row.
LEMMA RewritesKey ==
    ASSUME AInv, NEW r \in Requests, NEW k \in StoredKeys, NEW new \in KeyRow,
           pc' = [pc EXCEPT ![r] = "done"], Answered(r, "ok"),
           server' = server, restarts' = restarts, users' = users,
           keys' = [keys EXCEPT ![k] = new],
           new.owner = keys[k].owner, new.is_active => keys[k].is_active
    PROVE  AInv' /\ EditsOnly
  <1>1. /\ Stored' = Stored /\ StoredKeys' = StoredKeys
        /\ keys'[k] = new /\ \A j \in KeyCreations \ {k} : keys'[j] = keys[j]
        /\ keys' \in [KeyCreations -> KeyRow \cup {NoRow}]
    BY AccessAssumption DEF Stored, StoredKeys, AInv, Shape
  <1>2. Grown
    BY <1>1 DEF Grown
  <1>3. Shape' /\ \A q \in Requests : RequestInv(q)' /\ (q = r \/ pc'[q] = pc[q])
    BY <1>1, <1>2, Ends DEF AInv, Shape
  <1>4. Owned'
    BY <1>1 DEF AInv, Owned, StoredKeys
  <1>5. Rooted' /\ UniqueEmail' /\ StartupFailsOnlyAfterDemotion'
    BY <1>1 DEF AInv, Rooted, UniqueEmail, StartupFailsOnlyAfterDemotion
  <1>6. Unborn'
    <2>1. pc'[r] = "done"
      BY DEF AInv, Shape
    <2> QED
      BY <2>1, <1>1, <1>3 DEF AInv, Unborn, Requests, Portal, StoredKeys
  <1>7. EditsOnly
    BY <1>1 DEF EditsOnly
  <1> QED
    BY <1>3, <1>4, <1>5, <1>6, <1>7 DEF AInv

LEMMA DeactivateKeyStep ==
    ASSUME AInv, NEW r \in Requests, DeactivateKey(r)
    PROVE  AInv' /\ EditsOnly
  <1>1. /\ r \in KeyDeletions
        /\ pc[r] = "checked" /\ pc' = [pc EXCEPT ![r] = "done"] /\ Answered(r, "ok")
        /\ server' = server /\ restarts' = restarts /\ users' = users
        /\ keys' = [keys EXCEPT ![target[r]] = Flushed(keys[target[r]], seen[r], change[r])]
    BY DEF DeactivateKey, Goes
  <1>2. target[r] \in StoredKeys /\ change[r] = [is_active |-> FALSE]
    BY <1>1 DEF AInv, RequestInv, Checked
  <1>3. keys[target[r]] \in KeyRow
    BY <1>2 DEF StoredKeys, AInv, Shape
  <1> QED
    BY <1>1, <1>2, <1>3, FlushedKey, RewritesKey

LEMMA UseKeyStep ==
    ASSUME AInv, NEW r \in Requests, UseKey(r)
    PROVE  AInv' /\ EditsOnly
  <1> DEFINE k == target[r]
             new == Touched(keys[k], seen[r])
  <1>1. /\ pc[r] = "admitted" /\ pc' = [pc EXCEPT ![r] = "done"] /\ Answered(r, "ok")
        /\ server' = server /\ restarts' = restarts /\ users' = users
        /\ keys' = [keys EXCEPT ![k] = new]
    BY DEF UseKey, Goes
  <1>2. k \in StoredKeys
    BY <1>1 DEF AInv, RequestInv, Keyed
  <1>3. keys[k] \in KeyRow
    BY <1>2 DEF StoredKeys, AInv, Shape
  <1>4. new \in KeyRow /\ new.owner = keys[k].owner /\ new.is_active = keys[k].is_active
    BY <1>3 DEF Touched, KeyRow
  <1> QED
    BY <1>1, <1>2, <1>4, RewritesKey

LEMMA HandlerStep ==
    ASSUME AInv, NEW r \in Requests, Step(r)
    PROVE  AInv' /\ EditsOnly
  BY RefusalStep, InsertUserStep, UpdateEmailStep, ReadUserStep, EditUserStep, CountKeysStep,
     InsertKeyStep, FindKeyStep, DeactivateKeyStep, PresentKeyStep, FindOwnerStep, UseKeyStep
     DEF Step, Account, Key, Call

-----------------------------------------------------------------------------
(***************************************************************************)
(* The process.                                                            *)
(***************************************************************************)
\* Roots that were inserted can be counted.
LEMMA RootsCount ==
    /\ IsFiniteSet(Roots \cap Stored) /\ Cardinality(Roots \cap Stored) \in Nat
    /\ Cardinality(Roots) \in Nat
  BY AccessAssumption, FS_Subset, FS_CardinalityType

\* A startup finds a free row.
LEMMA FreeRoot ==
    ASSUME AInv, server = "down"
    PROVE  NextRoot \in Roots /\ NextRoot \notin Stored
  <1>1. Cardinality(Roots \cap Stored) <= restarts /\ restarts <= MaxRestarts
        /\ restarts \in Nat /\ MaxRestarts \in Nat
    BY AccessAssumption DEF AInv, Rooted, Shape
  <1>2. ASSUME Roots \cap Stored = Roots PROVE FALSE
    <2>1. Cardinality(Roots) <= restarts
      BY <1>1, <1>2
    <2>2. Cardinality(Roots) > MaxRestarts
      BY AccessAssumption
    <2> QED
      BY <1>1, <2>1, <2>2, RootsCount
  <1>3. \E u \in Roots : u \notin Stored
    BY <1>2
  <1> QED
    BY <1>3 DEF NextRoot

LEMMA StartUpStep ==
    ASSUME AInv, StartUp
    PROVE  AInv' /\ EditsOnly
  <1>1. /\ server = "down" /\ server' = "up" /\ restarts' = restarts /\ keys' = keys /\ pc' = pc
        /\ actor' = actor /\ target' = target /\ seen' = seen /\ change' = change /\ answer' = answer
    BY DEF StartUp, handler
  <1>2. StoredKeys' = StoredKeys
    BY <1>1 DEF StoredKeys
  <1>3. StartupFailsOnlyAfterDemotion'
    BY <1>1 DEF StartupFailsOnlyAfterDemotion
  <1>4. \A q \in Requests : Same(q)
    BY <1>1 DEF Same
  <1>5. Cardinality(Roots \cap Stored) <= restarts /\ restarts \in Nat
    BY <1>1 DEF AInv, Rooted, Shape
  <1>6. CASE HasAdmin /\ users' = users
    <2>1. Stored' = Stored /\ Stored # {}
      BY <1>6 DEF Stored, HasAdmin
    <2>2. Owned' /\ UniqueEmail' /\ EditsOnly /\ Unborn' /\ Shape'
      BY <1>1, <1>2, <1>6, <2>1 DEF AInv, Owned, UniqueEmail, EditsOnly, Unborn, Shape
    <2>3. Rooted'
      BY <1>1, <1>5, <2>1, RootsCount DEF AInv, Rooted
    <2>4. \A q \in Requests : RequestInv(q)'
      BY <1>2, <1>4, <2>1, Others DEF AInv, Grown
    <2> QED
      BY <1>3, <2>2, <2>3, <2>4 DEF AInv
  <1>7. CASE /\ IndexAdmits(NextRoot, AdminEmail)
             /\ users' = [users EXCEPT ![NextRoot] = NewUser(AdminEmail, "admin")]
    <2> DEFINE new == NewUser(AdminEmail, "admin")
    <2>1. new \in UserRow /\ new.email = AdminEmail
      BY AccessAssumption DEF NewUser, UserRow
    <2> HIDE DEF new
    <2>2. NextRoot \in Roots /\ NextRoot \in Users /\ NextRoot \notin Stored /\ NextRoot \notin Registrations
      BY <1>1, FreeRoot, AccessAssumption DEF Users
    <2> HIDE DEF NextRoot
    <2>3. /\ Stored' = Stored \cup {NextRoot}
          /\ users'[NextRoot] = new /\ \A u \in Users \ {NextRoot} : users'[u] = users[u]
          /\ users' \in [Users -> UserRow \cup {NoRow}]
      BY <1>7, <2>1, <2>2, AccessAssumption DEF Stored, AInv, Shape, new
    <2>4. Grown
      BY <1>2, <2>3 DEF Grown
    <2>5. \A q \in Requests : RequestInv(q)'
      BY <1>4, <2>4, Others DEF AInv
    <2>6. Shape' /\ Owned'
      BY <1>1, <1>2, <2>3 DEF AInv, Shape, Owned
    <2>7. Unborn'
      BY <1>1, <2>2, <2>3 DEF AInv, Unborn, Users
    <2>8. UniqueEmail'
      BY <1>7, <2>1, <2>2, <2>3 DEF AInv, UniqueEmail, IndexAdmits, Stored
    <2>9. Rooted'
      <3>1. Roots \cap Stored' = (Roots \cap Stored) \cup {NextRoot} /\ NextRoot \notin Roots \cap Stored
        BY <2>2, <2>3
      <3>2. Cardinality(Roots \cap Stored') = Cardinality(Roots \cap Stored) + 1
        BY <3>1, RootsCount, FS_AddElement
      <3> QED
        BY <3>1, <3>2, <1>1, <1>5, <2>3, RootsCount DEF Rooted
    <2>10. EditsOnly
      BY <1>1, <2>2, <2>3 DEF EditsOnly, Stored
    <2> QED
      BY <1>3, <2>5, <2>6, <2>7, <2>8, <2>9, <2>10 DEF AInv
  <1> QED
    BY <1>6, <1>7 DEF StartUp

LEMMA FailToStartStep ==
    ASSUME AInv, FailToStart
    PROVE  AInv' /\ EditsOnly
  <1>1. /\ server = "down" /\ server' = "failed" /\ restarts' = restarts /\ keys' = keys /\ pc' = pc
        /\ users' = users
        /\ actor' = actor /\ target' = target /\ seen' = seen /\ change' = change /\ answer' = answer
    BY DEF FailToStart, handler
  <1>2. Stored' = Stored /\ StoredKeys' = StoredKeys
    BY <1>1 DEF Stored, StoredKeys
  <1>3. Owned' /\ UniqueEmail' /\ EditsOnly /\ Unborn' /\ Shape'
    BY <1>1, <1>2 DEF AInv, Owned, UniqueEmail, EditsOnly, Unborn, Shape
  <1>4. Rooted'
    BY <1>1, <1>2, RootsCount DEF AInv, Rooted, Shape
  <1>5. \A q \in Requests : RequestInv(q)'
    BY <1>1, <1>2, Others DEF AInv, Grown, Same
  <1>6. StartupFailsOnlyAfterDemotion'
    <2>1. Stored # {}
      BY DEF FailToStart, IndexAdmits
    <2>2. PICK u \in Roots \cap Stored : TRUE
      BY <2>1 DEF AInv, Rooted
    <2>3. users[u] \in UserRow /\ users[u].role # "admin"
      BY DEF FailToStart, HasAdmin, Stored, AInv, Shape
    <2>4. users[u].role = "user"
      BY <2>3 DEF UserRow
    <2> QED
      BY <2>4, <1>1, <1>2 DEF StartupFailsOnlyAfterDemotion
  <1> QED
    BY <1>3, <1>4, <1>5, <1>6 DEF AInv

LEMMA StopStep ==
    ASSUME AInv, Stop
    PROVE  AInv' /\ EditsOnly
  <1>1. /\ server = "up" /\ server' = "down" /\ restarts < MaxRestarts /\ restarts' = restarts + 1
        /\ users' = users /\ keys' = keys /\ actor' = actor /\ target' = target
        /\ pc' = [r \in Requests |-> IF pc[r] \in {"start", "unsent"} THEN pc[r] ELSE "done"]
        /\ seen' = [r \in Requests |-> NoRow] /\ change' = [r \in Requests |-> NoChange]
    BY DEF Stop
  <1>2. Stored' = Stored /\ StoredKeys' = StoredKeys
    BY <1>1 DEF Stored, StoredKeys
  <1>3. restarts' \in 0..MaxRestarts
    BY <1>1, AccessAssumption DEF AInv, Shape
  <1>4. answer' \in [Requests -> {"none", "ok", "refused", "error", "lost"}]
    BY DEF Stop, AInv, Shape
  <1>5. Shape'
    BY <1>1, <1>3, <1>4 DEF AInv, Shape, Places
  <1>6. Owned' /\ UniqueEmail' /\ EditsOnly /\ StartupFailsOnlyAfterDemotion'
    BY <1>1, <1>2 DEF AInv, Owned, UniqueEmail, EditsOnly, StartupFailsOnlyAfterDemotion
  <1>7. Unborn'
    BY <1>1 DEF AInv, Unborn, Requests, Portal
  <1>8. Rooted'
    BY <1>1, <1>2, RootsCount DEF AInv, Rooted, Shape
  <1>9. ASSUME NEW q \in Requests PROVE RequestInv(q)'
    <2>1. pc'[q] \in {"start", "unsent", "done"}
      BY <1>1
    <2>2. RequestInv(q)
      BY DEF AInv
    <2> QED
      BY <2>1, <2>2, <1>1, <1>2 DEF RequestInv, Signed, Keyed, Checked
  <1> QED
    BY <1>5, <1>6, <1>7, <1>8, <1>9 DEF AInv

-----------------------------------------------------------------------------
(***************************************************************************)
(* Every step, those of visitors included.                                 *)
(***************************************************************************)
LEMMA AccessUnchanged ==
    ASSUME AInv, UNCHANGED access
    PROVE  AInv' /\ EditsOnly
  <1>1. Stored' = Stored /\ StoredKeys' = StoredKeys
    BY DEF access, Stored, StoredKeys
  <1>2. Quiet /\ \A q \in Requests : Same(q)
    BY DEF access, Quiet, Same
  <1>3. \A q \in Requests : RequestInv(q)'
    BY <1>1, <1>2, Others DEF AInv, Grown
  <1>4. Shape' /\ Unborn'
    BY DEF access, AInv, Shape, Unborn
  <1> QED
    BY <1>2, <1>3, <1>4, QuietFrame DEF AInv

LEMMA AInvInit == Init => AInv
  <1> SUFFICES ASSUME Init PROVE AInv
    OBVIOUS
  <1>1. AccessInit
    BY DEF Init
  <1>2. pc \in [Requests -> {"start", "unsent"}]
    BY <1>1 DEF AccessInit
  <1>3. Stored = {} /\ StoredKeys = {}
    BY <1>1 DEF AccessInit, Stored, StoredKeys
  <1>4. Shape
    BY <1>1, <1>2, AccessAssumption DEF AccessInit, Shape, Places
  <1>5. Owned /\ UniqueEmail /\ StartupFailsOnlyAfterDemotion /\ Unborn
    <2>1. Owned /\ UniqueEmail
      BY <1>3 DEF Owned, UniqueEmail
    <2>2. StartupFailsOnlyAfterDemotion
      BY <1>1 DEF AccessInit, StartupFailsOnlyAfterDemotion
    <2>3. Unborn
      BY <1>1 DEF AccessInit, Unborn, Users
    <2> QED
      BY <2>1, <2>2, <2>3
  <1>6. Rooted
    <2>1. Roots \cap Stored = {} /\ server = "down" /\ restarts = 0
      BY <1>1, <1>3 DEF AccessInit
    <2>2. Cardinality(Roots \cap Stored) = 0
      BY <2>1, FS_EmptySet
    <2> QED
      BY <1>3, <2>1, <2>2 DEF Rooted
  <1>7. \A q \in Requests : RequestInv(q)
    BY <1>1, <1>2 DEF AccessInit, RequestInv, Signed, Keyed, Checked
  <1> QED
    BY <1>4, <1>5, <1>6, <1>7 DEF AInv

LEMMA AInvStep ==
    ASSUME AInv, [Next]_vars
    PROVE  AInv' /\ EditsOnly
  <1>1. CASE Process
    BY <1>1, StartUpStep, FailToStartStep, StopStep DEF Process
  <1>2. CASE \E r \in Requests : SignInWithToken(r)
    BY <1>2, SignInStep DEF SignInWithToken
  <1>3. CASE \E r \in Requests : Step(r)
    BY <1>3, HandlerStep
  <1>4. CASE \E r \in Requests, e \in Emails : CheckEmail(r, e)
    BY <1>4, CheckEmailStep
  <1>5. CASE UNCHANGED access
    BY <1>5, AccessUnchanged
  <1>6. ASSUME \E v \in Visitors : Login(v) \/ Renew(v) \/ ShowPage(v) \/ ShowAdminPage(v) \/ TurnAway(v)
        PROVE  UNCHANGED access
    BY <1>6 DEF Login, Renew, ShowPage, ShowAdminPage, TurnAway, Visits
  <1>7. Tick \/ Finished \/ UNCHANGED vars => UNCHANGED access
    BY DEF Tick, Finished, vars
  <1> QED
    BY <1>1, <1>2, <1>3, <1>4, <1>5, <1>6, <1>7 DEF Next

\* The invariant of users, keys and requests, for any number of each.
THEOREM AccessInductive == Spec => []AInv
  <1>1. AInv /\ [Next]_vars => AInv'
    BY AInvStep
  <1> QED
    BY <1>1, AInvInit, PTL DEF Spec

\* No two users ever share an address, however registrations, profile updates and
\* startups interleave and crash: the index holds what their checks cannot promise.
THEOREM AddressesAreUnique == Spec => []UniqueEmail
  <1>1. AInv => UniqueEmail
    BY DEF AInv
  <1> QED
    BY <1>1, AccessInductive, PTL

\* The service fails to start only after its administrator was demoted, whatever the
\* number of restarts.
THEOREM StartsUnlessDemoted == Spec => []StartupFailsOnlyAfterDemotion
  <1>1. AInv => StartupFailsOnlyAfterDemotion
    BY DEF AInv
  <1> QED
    BY <1>1, AccessInductive, PTL

\* No flush of an object that was read earlier undoes what another request committed.
THEOREM NothingIsUndone == Spec => ColumnsArePreserved
  <1>1. AInv /\ [Next]_vars => [EditsOnly]_access
    BY AInvStep
  <1> QED
    BY <1>1, AccessInductive, PTL DEF Spec, ColumnsArePreserved

-----------------------------------------------------------------------------
(***************************************************************************)
(* Sessions.                                                               *)
(***************************************************************************)
\* How long after a login, or after a time as administrator, a token may expire.
Ahead(t) == RefreshLifetime + (IF t.type = "access" THEN AccessLifetime ELSE 0)

TokenInv(t) ==
    /\ t.sub \in Stored
    /\ t.exp <= loggedIn[t.sub] + Ahead(t)
    /\ t.role = "admin" => t.exp <= wasAdmin[t.sub] + Ahead(t)

Clocks ==
    /\ now \in 0..MaxTime
    /\ loggedIn \in [Users -> Nat]
    /\ wasAdmin \in [Users -> Nat]
    /\ \A u \in Users : loggedIn[u] <= now /\ wasAdmin[u] <= now

VisitorInv ==
    /\ at \in [Visitors -> {"unsent", "start", "done"}]
    /\ visitor \in [Visitors -> Users \cup {NoRow}]
    /\ \A v \in Visitors : visitor[v] # NoRow => v \in UserPages \cup AdminPages /\ visitor[v] \in Stored
    /\ Standing => now = 0

\* The invariant of tokens and visitors.
SInv ==
    /\ Clocks
    /\ VisitorInv
    /\ tokens \subseteq Token
    /\ \A t \in tokens : TokenInv(t)

\* A user who is stored remains so.
LEMMA RowsStay ==
    ASSUME AInv, [Next]_vars
    PROVE  Stored \subseteq Stored'
  <1>1. ASSUME users' = users PROVE Stored \subseteq Stored'
    BY <1>1 DEF Stored
  <1>2. ASSUME NEW u, NEW new \in UserRow, users' = [users EXCEPT ![u] = new]
        PROVE  Stored \subseteq Stored'
    <2>1. new # NoRow
      BY AccessAssumption
    <2> QED
      BY <1>2, <2>1 DEF Stored, AInv, Shape
  <1>3. CASE Process
    <2>1. NewUser(AdminEmail, "admin") \in UserRow
      BY AccessAssumption DEF NewUser, UserRow
    <2> QED
      BY <1>1, <1>2, <1>3, <2>1 DEF Process, StartUp, FailToStart, Stop
  <1>4. CASE \E r \in Requests : SignInWithToken(r)
    BY <1>1, <1>4 DEF SignInWithToken, SignIn
  <1>5. ASSUME NEW r \in Requests, Step(r) PROVE Stored \subseteq Stored'
    <2>1. CASE InsertUser(r)
      <3>1. r \in Registrations /\ pc[r] = "checked" /\ users' = [users EXCEPT ![r] = NewUser(change[r].email, "user")]
        BY <2>1 DEF InsertUser, Goes
      <3>2. change[r] \in [email : Emails]
        BY <3>1 DEF AInv, RequestInv, Checked
      <3>3. NewUser(change[r].email, "user") \in UserRow
        BY <3>2 DEF NewUser, UserRow
      <3> QED
        BY <1>2, <3>1, <3>3
    <2>2. CASE UpdateEmail(r)
      <3>1. r \in Profiles /\ pc[r] = "checked" /\ Row(r) = actor[r]
            /\ users' = [users EXCEPT ![Row(r)] = Flushed(users[Row(r)], seen[r], change[r])]
        BY <2>2, AccessAssumption DEF UpdateEmail, Goes, Row, Portal
      <3>2. change[r] \in Changed /\ actor[r] \in Stored
        BY <3>1 DEF AInv, RequestInv, Checked, Changed
      <3>3. users[actor[r]] \in UserRow
        BY <3>2 DEF AInv, Shape, Stored
      <3>4. Flushed(users[actor[r]], seen[r], change[r]) \in UserRow
        BY <3>2, <3>3, FlushedUser
      <3> QED
        BY <1>2, <3>1, <3>4
    <2>3. CASE EditUser(r)
      <3>1. r \in AdminEdits /\ pc[r] = "checked"
            /\ users' = [users EXCEPT ![target[r]] = Flushed(users[target[r]], seen[r], change[r])]
        BY <2>3 DEF EditUser, Goes
      <3>2. change[r] \in Changed /\ target[r] \in Stored
        BY <3>1 DEF AInv, RequestInv, Checked, Changed
      <3>3. users[target[r]] \in UserRow
        BY <3>2 DEF AInv, Shape, Stored
      <3>4. Flushed(users[target[r]], seen[r], change[r]) \in UserRow
        BY <3>2, <3>3, FlushedUser
      <3> QED
        BY <1>2, <3>1, <3>4
    <2>4. CASE Reject(r) \/ NotFound(r) \/ Collide(r) \/ Conflict(r) \/ ReadUser(r)
      BY <1>1, <2>4 DEF Reject, NotFound, Collide, Conflict, ReadUser
    <2>5. CASE Key(r) \/ Call(r)
      BY <1>1, <2>5 DEF Key, Call, CountKeys, LimitReached, InsertKey, FindKey, DeactivateKey,
                        PresentKey, FindOwner, RejectOwner, UseKey
    <2> QED
      BY <1>5, <2>1, <2>2, <2>3, <2>4, <2>5 DEF Step, Account
  <1>6. ASSUME \E r \in Requests, e \in Emails : CheckEmail(r, e) PROVE users' = users
    BY <1>6 DEF CheckEmail
  <1>7. ASSUME \E v \in Visitors : Login(v) \/ Renew(v) \/ ShowPage(v) \/ ShowAdminPage(v) \/ TurnAway(v)
        PROVE  users' = users
    BY <1>7 DEF Login, Renew, ShowPage, ShowAdminPage, TurnAway, Visits, access
  <1>8. Tick \/ Finished \/ UNCHANGED vars => users' = users
    BY DEF Tick, Finished, vars, access
  <1> QED
    BY <1>1, <1>3, <1>4, <1>5, <1>6, <1>7, <1>8 DEF Next

\* What is remembered of administrators only moves forward.
LEMMA Remembers ==
    ASSUME Clocks, Remember, now' \in Nat, now <= now'
    PROVE  /\ wasAdmin' \in [Users -> Nat]
           /\ \A u \in Users : wasAdmin[u] <= wasAdmin'[u] /\ wasAdmin'[u] <= now'
  BY SessionsAssumption DEF Clocks, Remember

\* Old tokens remain as good as they were.
LEMMA TokensLast ==
    ASSUME SInv, NEW t \in tokens, Stored \subseteq Stored',
           loggedIn' \in [Users -> Nat], wasAdmin' \in [Users -> Nat],
           \A u \in Users : loggedIn[u] <= loggedIn'[u] /\ wasAdmin[u] <= wasAdmin'[u]
    PROVE  TokenInv(t)'
  <1>1. t \in Token /\ TokenInv(t)
    BY DEF SInv
  <1>2. t.sub \in Users /\ t.exp \in Nat /\ t.type \in {"access", "refresh"}
    BY <1>1 DEF Token
  <1>3. Ahead(t) \in Nat
    BY SessionsAssumption DEF Ahead
  <1>4. t.sub \in Stored'
    BY <1>1 DEF TokenInv
  <1>5. t.exp <= loggedIn'[t.sub] + Ahead(t)
    BY <1>1, <1>2, <1>3 DEF TokenInv, SInv, Clocks
  <1>6. t.role = "admin" => t.exp <= wasAdmin'[t.sub] + Ahead(t)
    BY <1>1, <1>2, <1>3 DEF TokenInv, SInv, Clocks
  <1> QED
    BY <1>4, <1>5, <1>6 DEF TokenInv, Ahead

\* Steps that issue no token: those of the process, of requests, and of the clock.
LEMMA NothingIssued ==
    ASSUME SInv, Remember, Stored \subseteq Stored',
           UNCHANGED <<tokens, at, visitor, loggedIn>>,
           now' \in now..MaxTime, now' = now \/ ~Standing
    PROVE  SInv'
  <1>1. now \in Nat /\ now' \in Nat /\ now' \in 0..MaxTime /\ now <= now' /\ MaxTime \in Nat
    BY SessionsAssumption DEF SInv, Clocks
  <1>2. /\ wasAdmin' \in [Users -> Nat]
        /\ \A u \in Users : wasAdmin[u] <= wasAdmin'[u] /\ wasAdmin'[u] <= now'
    BY <1>1, Remembers DEF SInv
  <1>3. Clocks'
    BY <1>1, <1>2 DEF SInv, Clocks
  <1>4. VisitorInv'
    BY DEF SInv, VisitorInv, Standing
  <1>5. \A u \in Users : loggedIn[u] <= loggedIn'[u]
    BY DEF SInv, Clocks
  <1>6. ASSUME NEW t \in tokens PROVE TokenInv(t)'
    BY <1>2, <1>5, TokensLast DEF SInv, Clocks
  <1> QED
    BY <1>3, <1>4, <1>6 DEF SInv

\* Steps of a visitor: whom it sees, and what it is given.
LEMMA VisitorStep ==
    ASSUME SInv, AInv, [Next]_vars, Remember, NEW v \in Visitors, NEW visitors \in SUBSET Visitors,
           Visits(v, visitors),
           tokens' \subseteq Token,
           \A t \in tokens' : t \in tokens \/ TokenInv(t)',
           \/ visitor' = visitor
           \/ /\ v \in UserPages \cup AdminPages
              /\ \E u \in Stored : visitor' = [visitor EXCEPT ![v] = u],
           \/ loggedIn' = loggedIn
           \/ \E u \in Users : loggedIn' = [loggedIn EXCEPT ![u] = now]
    PROVE  SInv'
  <1>1. Stored \subseteq Stored' /\ Stored \subseteq Users
    BY RowsStay DEF Stored
  <1>2. now' = now /\ now \in Nat /\ at' = [at EXCEPT ![v] = "done"] /\ at[v] = "start"
    BY SessionsAssumption DEF Visits, SInv, Clocks
  <1>3. /\ wasAdmin' \in [Users -> Nat]
        /\ \A u \in Users : wasAdmin[u] <= wasAdmin'[u] /\ wasAdmin'[u] <= now'
    BY <1>2, Remembers DEF SInv
  <1>4. /\ loggedIn' \in [Users -> Nat]
        /\ \A u \in Users : loggedIn[u] <= loggedIn'[u] /\ loggedIn'[u] <= now'
    BY <1>2 DEF SInv, Clocks
  <1>5. Clocks'
    BY <1>2, <1>3, <1>4 DEF SInv, Clocks
  <1>6. VisitorInv'
    <2>1. at' \in [Visitors -> {"unsent", "start", "done"}]
      BY <1>2 DEF SInv, VisitorInv
    <2>2. \A w \in Visitors : at'[w] # "unsent" <=> at[w] # "unsent"
      BY <1>2 DEF SInv, VisitorInv
    <2>3. Standing' <=> Standing
      BY <2>2 DEF Standing
    <2>4. /\ visitor' \in [Visitors -> Users \cup {NoRow}]
          /\ \A w \in Visitors : visitor'[w] # NoRow => w \in UserPages \cup AdminPages /\ visitor'[w] \in Stored'
      BY <1>1 DEF SInv, VisitorInv
    <2> QED
      BY <2>1, <2>3, <2>4, <1>2 DEF SInv, VisitorInv
  <1>7. \A t \in tokens : TokenInv(t)'
    BY <1>1, <1>3, <1>4, TokensLast
  <1> QED
    BY <1>5, <1>6, <1>7 DEF SInv

LEMMA LiveIsStored ==
    ASSUME NEW u \in Users, Live(u)
    PROVE  u \in Stored
  BY DEF Live, Stored

\* What is issued at a login, or of a token that may be renewed, is right.
LEMMA LoginStep ==
    ASSUME AInv, SInv, [Next]_vars, NEW v \in Visitors, Login(v), Remember
    PROVE  SInv'
  <1>1. PICK u \in Users :
          /\ Live(u)
          /\ tokens' = tokens \cup {Issued(u, users[u].role, "access", AccessLifetime),
                                    Issued(u, users[u].role, "refresh", RefreshLifetime)}
          /\ loggedIn' = [loggedIn EXCEPT ![u] = now]
    BY DEF Login
  <1>2. now' = now /\ now \in Nat /\ AccessLifetime \in Nat /\ RefreshLifetime \in Nat
        /\ users' = users /\ visitor' = visitor
    BY SessionsAssumption DEF Login, Visits, SInv, Clocks, access
  <1>3. u \in Stored /\ users[u] \in UserRow /\ Stored' = Stored
    BY <1>1, <1>2, LiveIsStored DEF AInv, Shape, Stored
  <1>4. users[u].role \in {"user", "admin"} /\ (users[u].role = "admin" => wasAdmin'[u] = now)
    BY <1>2, <1>3 DEF UserRow, Remember
  <1>5. loggedIn'[u] = now
    BY <1>1 DEF SInv, Clocks
  <1>6. ASSUME NEW t, t \in tokens', t \notin tokens PROVE t \in Token /\ TokenInv(t)'
    <2>1. \/ t = [sub |-> u, role |-> users[u].role, type |-> "access", exp |-> now + AccessLifetime]
          \/ t = [sub |-> u, role |-> users[u].role, type |-> "refresh", exp |-> now + RefreshLifetime]
      BY <1>1, <1>6 DEF Issued
    <2>2. t \in Token /\ t.sub = u /\ t.role = users[u].role
      BY <2>1, <1>2, <1>4 DEF Token
    <2>3. Ahead(t) \in Nat /\ t.exp <= now + Ahead(t)
      BY <2>1, <1>2 DEF Ahead
    <2>4. Ahead(t)' = Ahead(t)
      BY DEF Ahead
    <2>5. t.sub \in Stored' /\ t.exp <= loggedIn'[t.sub] + Ahead(t)
      BY <2>2, <2>3, <1>3, <1>5
    <2>6. t.role = "admin" => t.exp <= wasAdmin'[t.sub] + Ahead(t)
      BY <2>2, <2>3, <1>4
    <2> QED
      BY <2>2, <2>4, <2>5, <2>6 DEF TokenInv
  <1>7. Visits(v, Logins) /\ Logins \in SUBSET Visitors
    BY DEF Login, Visitors
  <1> QED
    BY <1>1, <1>2, <1>6, <1>7, VisitorStep DEF SInv

LEMMA RenewStep ==
    ASSUME AInv, SInv, [Next]_vars, NEW v \in Visitors, Renew(v), Remember
    PROVE  SInv'
  <1>1. PICK o \in Renewable : tokens' = tokens \cup {Issued(o.sub, o.role, "access", AccessLifetime)}
    BY DEF Renew
  <1>2. now' = now /\ now \in Nat /\ AccessLifetime \in Nat /\ RefreshLifetime \in Nat
        /\ users' = users /\ visitor' = visitor /\ loggedIn' = loggedIn
    BY SessionsAssumption DEF Renew, Visits, SInv, Clocks, access
  <1>3. o \in Token /\ TokenInv(o) /\ o.exp >= now /\ Ahead(o) = RefreshLifetime /\ o.sub \in Users
    BY <1>1, <1>2 DEF Renewable, Decoded, SInv, Ahead, Token
  <1>4. o.role \in {"user", "admin"} /\ o.exp \in Nat
    BY <1>3 DEF Token
  <1>5. /\ wasAdmin' \in [Users -> Nat] /\ wasAdmin \in [Users -> Nat] /\ loggedIn \in [Users -> Nat]
        /\ \A u \in Users : wasAdmin[u] <= wasAdmin'[u]
    BY <1>2, Remembers DEF SInv, Clocks
  <1>6. ASSUME NEW t, t \in tokens', t \notin tokens PROVE t \in Token /\ TokenInv(t)'
    <2>1. t = [sub |-> o.sub, role |-> o.role, type |-> "access", exp |-> now + AccessLifetime]
      BY <1>1, <1>6 DEF Issued
    <2>2. t \in Token /\ t.sub = o.sub /\ t.role = o.role
      BY <2>1, <1>2, <1>3, <1>4 DEF Token
    <2>3. Ahead(t)' = RefreshLifetime + AccessLifetime /\ t.exp = now + AccessLifetime
      BY <2>1 DEF Ahead
    <2>4. t.sub \in Stored'
      BY <2>2, <1>2, <1>3 DEF TokenInv, Stored
    <2>5. now <= loggedIn[o.sub] + RefreshLifetime
      BY <1>2, <1>3, <1>4, <1>5 DEF TokenInv
    <2>6. o.role = "admin" => now <= wasAdmin'[o.sub] + RefreshLifetime
      BY <1>2, <1>3, <1>4, <1>5 DEF TokenInv
    <2>7. t.exp <= loggedIn'[t.sub] + Ahead(t)'
      BY <2>2, <2>3, <2>5, <1>2, <1>3, <1>5
    <2>8. t.role = "admin" => t.exp <= wasAdmin'[t.sub] + Ahead(t)'
      BY <2>2, <2>3, <2>6, <1>2, <1>3, <1>5
    <2> QED
      BY <2>2, <2>4, <2>7, <2>8 DEF TokenInv
  <1>7. Visits(v, Renewals) /\ Renewals \in SUBSET Visitors
    BY DEF Renew, Visitors
  <1> QED
    BY <1>1, <1>2, <1>6, <1>7, VisitorStep DEF SInv

LEMMA PageStep ==
    ASSUME AInv, SInv, [Next]_vars, NEW v \in Visitors, Remember,
           ShowPage(v) \/ ShowAdminPage(v) \/ TurnAway(v)
    PROVE  SInv'
  <1>1. tokens' = tokens /\ loggedIn' = loggedIn /\ tokens \subseteq Token
    BY DEF ShowPage, ShowAdminPage, TurnAway, Shown, SInv
  <1>2. \E visitors \in SUBSET Visitors : Visits(v, visitors)
    BY DEF ShowPage, ShowAdminPage, TurnAway, Visitors
  <1>3. \/ visitor' = visitor
        \/ /\ v \in UserPages \cup AdminPages
           /\ \E u \in Stored : visitor' = [visitor EXCEPT ![v] = u]
    <2>1. CASE TurnAway(v)
      BY <2>1 DEF TurnAway
    <2>2. CASE ShowPage(v) \/ ShowAdminPage(v)
      <3>1. v \in UserPages \cup AdminPages
        BY <2>2 DEF ShowPage, ShowAdminPage, Visits
      <3>2. PICK t \in tokens : Live(t.sub) /\ visitor' = [visitor EXCEPT ![v] = t.sub]
        BY <2>2 DEF ShowPage, ShowAdminPage, Shown, AdminTokens, Decoded
      <3>3. t.sub \in Stored
        BY <3>2 DEF SInv, TokenInv
      <3> QED
        BY <3>1, <3>2, <3>3
    <2> QED
      BY <2>1, <2>2
  <1> QED
    BY <1>1, <1>2, <1>3, VisitorStep

LEMMA SInvInit == Init => SInv
  <1> SUFFICES ASSUME Init PROVE SInv
    OBVIOUS
  <1>1. Clocks
    BY SessionsAssumption DEF Init, Clocks
  <1>2. VisitorInv
    BY DEF Init, VisitorInv
  <1> QED
    BY <1>1, <1>2 DEF Init, SInv

LEMMA SInvStep ==
    ASSUME AInv, SInv, [Next]_vars
    PROVE  SInv'
  <1>1. Stored \subseteq Stored' /\ now \in Nat /\ now \in now..MaxTime
    BY RowsStay, SessionsAssumption DEF SInv, Clocks
  <1>2. CASE UNCHANGED <<visits, loggedIn>> /\ Remember
    BY <1>1, <1>2, NothingIssued DEF visits
  <1>3. CASE Tick /\ Remember
    <2>1. now' \in now..MaxTime
      BY <1>1, <1>3, SessionsAssumption DEF Tick
    <2> QED
      BY <1>1, <1>3, <2>1, NothingIssued DEF Tick
  <1>4. CASE \E v \in Visitors : (Login(v) \/ Renew(v) \/ ShowPage(v) \/ ShowAdminPage(v) \/ TurnAway(v)) /\ Remember
    BY <1>4, LoginStep, RenewStep, PageStep
  <1>5. CASE UNCHANGED vars
    BY <1>5 DEF vars, access, visits, SInv, Clocks, VisitorInv, Standing, TokenInv, Ahead, Stored
  <1>6. (\E r \in Requests : SignInWithToken(r) /\ Remember) => UNCHANGED <<visits, loggedIn>> /\ Remember
    BY DEF SignInWithToken
  <1> QED
    BY <1>2, <1>3, <1>4, <1>5, <1>6 DEF Next, Finished

-----------------------------------------------------------------------------
(***************************************************************************)
(* Theorems about Sessions.                                                *)
(***************************************************************************)
\* Both invariants together: pages and portal requests act for users of tokens.
LEMMA Inductive == Spec => [](AInv /\ SInv)
  <1>1. Init => AInv /\ SInv
    BY AInvInit, SInvInit
  <1>2. AInv /\ SInv /\ [Next]_vars => AInv' /\ SInv'
    BY AInvStep, SInvStep
  <1> QED
    BY <1>1, <1>2, PTL DEF Spec

\* Types, and that whatever a row, a request, a token or a page refers to is stored.
THEOREM TypeCorrect == Spec => []TypeOK
  <1>1. ASSUME AInv, SInv PROVE TypeOK
    <2>1. \A r \in Requests : DOMAIN change[r] \subseteq {"email", "role", "is_active"}
      <3>1. ASSUME NEW c \in Changed \cup {NoChange}
            PROVE  DOMAIN c \subseteq {"email", "role", "is_active"}
        BY DEF Changed, Edited, NoChange
      <3> QED
        BY <1>1, <3>1 DEF AInv, Shape
    <2>2. \A r \in Requests : /\ actor[r] \in Stored \cup {NoRow}
                              /\ target[r] \in Stored \cup {k \in KeyCreations : keys[k] # NoRow} \cup {NoRow}
      BY <1>1 DEF AInv, RequestInv, StoredKeys
    <2>3. \A k \in KeyCreations : keys[k] # NoRow => keys[k].owner \in Stored
      BY <1>1 DEF AInv, Owned, StoredKeys
    <2>4. AccessTypeOK
      BY <1>1, <2>1, <2>2, <2>3 DEF AInv, Shape, AccessTypeOK, Places
    <2>5. \A u \in Users : loggedIn[u] \in 0..now /\ wasAdmin[u] \in 0..now
      BY <1>1, SessionsAssumption DEF SInv, Clocks
    <2>6. \A t \in tokens : t \in Token /\ t.sub \in Stored
      BY <1>1 DEF SInv, TokenInv
    <2> QED
      BY <1>1, <2>4, <2>5, <2>6 DEF SInv, Clocks, VisitorInv, TypeOK
  <1> QED
    BY <1>1, Inductive, PTL

\* A token that still opens anything was issued not long ago.
LEMMA DecodedInTime ==
    ASSUME SInv, NEW t \in Decoded
    PROVE  /\ t.sub \in Stored
           /\ now <= loggedIn[t.sub] + RefreshLifetime + AccessLifetime
           /\ t.role = "admin" => now <= wasAdmin[t.sub] + RefreshLifetime + AccessLifetime
  <1>1. t \in Token /\ TokenInv(t) /\ t.exp >= now
    BY DEF Decoded, SInv
  <1>2. t.sub \in Users /\ t.exp \in Nat /\ now \in Nat /\ loggedIn[t.sub] \in Nat /\ wasAdmin[t.sub] \in Nat
    BY <1>1, SessionsAssumption DEF Token, SInv, Clocks
  <1>3. Ahead(t) = RefreshLifetime + AccessLifetime \/ Ahead(t) = RefreshLifetime
    BY SessionsAssumption DEF Ahead
  <1> QED
    BY <1>1, <1>2, <1>3, SessionsAssumption DEF TokenInv

\* Only pages show themselves to somebody new, and only to the user of a token.
LEMMA WhoAppears ==
    ASSUME SInv, [Next]_vars, NEW v \in Visitors, NEW u \in Users, Appears(v, u)
    PROVE  \E t \in Decoded : t.sub = u /\ (v \in AdminPages => t.role = "admin")
  <1>1. visitor' # visitor
    BY DEF Appears
  <1>2. \E w \in Visitors : ShowPage(w) \/ ShowAdminPage(w)
    BY <1>1 DEF Next, Process, SignInWithToken, Tick, Finished, vars, visits, Login, Renew, TurnAway
  <1>3. PICK w \in Visitors : ShowPage(w) \/ ShowAdminPage(w)
    BY <1>2
  <1>4. \/ w \in UserPages /\ \E t \in Decoded : visitor' = [visitor EXCEPT ![w] = t.sub]
        \/ w \in AdminPages /\ \E t \in AdminTokens : visitor' = [visitor EXCEPT ![w] = t.sub]
    BY <1>3 DEF ShowPage, ShowAdminPage, Visits, Shown
  <1>5. visitor \in [Visitors -> Users \cup {NoRow}]
    BY DEF SInv, VisitorInv
  <1>6. \A x : visitor' = [visitor EXCEPT ![w] = x] => v = w /\ u = x
    BY <1>5 DEF Appears
  <1> QED
    BY <1>4, <1>6, SessionsAssumption DEF AdminTokens

\* Only a token signs a request in, but for users who are taken to have logged in before.
LEMMA WhoSignsIn ==
    ASSUME AInv, SInv, [Next]_vars, NEW r \in Portal, NEW u \in Users, SignsIn(r, u)
    PROVE  Standing \/ \E t \in Decoded : t.sub = u
  <1>1. r \in Requests /\ pc \in [Requests -> Places] /\ pc[r] = "start" /\ pc'[r] = "signed in"
    BY DEF Requests, SignsIn, AInv, Shape
  <1>2. CASE \E q \in Requests : SignInWithToken(q)
    <2>1. PICK q \in Requests : SignInWithToken(q)
      BY <1>2
    <2>2. pc' = [pc EXCEPT ![q] = "signed in"]
      BY <2>1 DEF SignInWithToken, SignIn, Goes
    <2>3. q = r
      BY <1>1, <2>2
    <2> QED
      BY <2>1, <2>3 DEF SignInWithToken, SignsIn
  <1>3. CASE pc' = pc
    BY <1>1, <1>3
  <1>4. ASSUME NEW q \in Requests, NEW to \in {"done", "checked", "keyed", "admitted"},
               pc' = [pc EXCEPT ![q] = to]
        PROVE  FALSE
    BY <1>1, <1>4
  <1>5. ASSUME NEW q \in Requests, Step(q) PROVE FALSE
    <2>1. \E to \in {"done", "checked", "keyed", "admitted"} : pc' = [pc EXCEPT ![q] = to]
      BY <1>5 DEF Step, Account, Key, Call, Goes, Asks, Reject, NotFound, InsertUser, UpdateEmail, Collide,
                  Conflict, ReadUser, EditUser, CountKeys, LimitReached, InsertKey, FindKey, DeactivateKey,
                  PresentKey, FindOwner, RejectOwner, UseKey
    <2> QED
      BY <1>4, <2>1
  <1>6. ASSUME NEW q \in Requests, NEW e \in Emails, CheckEmail(q, e) PROVE FALSE
    BY <1>4, <1>6 DEF CheckEmail, Asks, Goes
  <1>7. CASE Process
    <2>1. pc' = pc \/ pc'[r] = pc[r]
      BY <1>1, <1>7 DEF Process, StartUp, FailToStart, Stop
    <2> QED
      BY <1>1, <2>1
  <1>8. (\E v \in Visitors : Login(v) \/ Renew(v) \/ ShowPage(v) \/ ShowAdminPage(v) \/ TurnAway(v)) => pc' = pc
    BY DEF Login, Renew, ShowPage, ShowAdminPage, TurnAway, Visits, access
  <1>9. Tick \/ Finished \/ UNCHANGED vars => pc' = pc
    BY DEF Tick, Finished, vars, access
  <1> QED
    BY <1>2, <1>3, <1>5, <1>6, <1>7, <1>8, <1>9 DEF Next

\* Renewing access does not outlive the refresh token by more than one access token,
\* whatever the lifetimes and however often it is renewed.
THEOREM SessionsExpire == Spec => SessionsEnd
  <1>1. ASSUME AInv, SInv, [Next]_vars PROVE ServedInTime
    <2>1. ASSUME NEW u \in Users, NEW v \in UserPages \cup AdminPages, Appears(v, u)
          PROVE  now <= loggedIn[u] + RefreshLifetime + AccessLifetime
      BY <1>1, <2>1, WhoAppears, DecodedInTime DEF Visitors
    <2>2. ASSUME NEW u \in Users, NEW r \in Portal, SignsIn(r, u)
          PROVE  now <= loggedIn[u] + RefreshLifetime + AccessLifetime
      <3>1. CASE Standing
        BY <1>1, <3>1, SessionsAssumption DEF SInv, VisitorInv, Clocks
      <3> QED
        BY <1>1, <2>2, <3>1, WhoSignsIn, DecodedInTime
    <2> QED
      BY <2>1, <2>2 DEF ServedInTime
  <1>2. AInv /\ SInv /\ [Next]_vars => [ServedInTime]_vars
    BY <1>1
  <1> QED
    BY <1>2, Inductive, PTL DEF Spec, SessionsEnd

\* A demoted administrator is shown the administrators' pages no longer than two
\* lifetimes of tokens.
THEOREM AdminsLeave == Spec => AdminPagesLag
  <1>1. ASSUME AInv, SInv, [Next]_vars PROVE AdminsInTime
    BY <1>1, WhoAppears, DecodedInTime DEF AdminsInTime, Visitors
  <1>2. AInv /\ SInv /\ [Next]_vars => [AdminsInTime]_vars
    BY <1>1
  <1> QED
    BY <1>2, Inductive, PTL DEF Spec, AdminPagesLag

-----------------------------------------------------------------------------
(***************************************************************************)
(* Who is refused: a deleted API key and a disabled user.                  *)
(*                                                                         *)
(* Both properties speak of a request that arrives after the deletion or   *)
(* while the account is disabled, and of everything it does from then on.  *)
(* They are proved for one request and one key or user at a time, from a   *)
(* predicate that holds when the request arrives, that every step keeps,   *)
(* and that rules the answer out: Shut(k, c) and Out(u, r).                *)
(***************************************************************************)
\* A request that is not over has no answer.
Pending(r) == pc[r] # "done" => answer[r] = "none"

\* The owner that a call looks for is the one of the key it presented.
OwnsTarget(c) == pc[c] \in {"keyed", "admitted"} => seen[c].owner = keys[target[c]].owner

PendingInv ==
    /\ \A r \in Requests : Pending(r)
    /\ \A c \in Calls : OwnsTarget(c)

\* The key is deleted, and the call has not arrived, presents another key or was refused.
Shut(k, c) ==
    /\ keys[k] # NoRow /\ ~keys[k].is_active
    /\ \/ pc[c] \in {"unsent", "start"}
       \/ target[c] # k
       \/ pc[c] = "done" /\ answer[c] # "ok"

\* The request has not arrived, acts for somebody else or was refused.  A call acts for
\* the owner of the key it presented, once it has looked for him.
Out(u, r) ==
    \/ pc[r] \in {"unsent", "start"}
    \/ pc[r] = "done" /\ answer[r] # "ok"
    \/ r \in Portal /\ actor[r] # u
    \/ r \in Calls /\ pc[r] = "keyed"
    \/ r \in Calls /\ target[r] \in StoredKeys /\ keys[target[r]].owner # u

-----------------------------------------------------------------------------
(***************************************************************************)
(* What the steps of others leave of a request.                            *)
(***************************************************************************)
Untouched(r) == Same(r) /\ answer'[r] = answer[r]

\* A step of the handler of r.
Handles(r) == SignIn(r) \/ Step(r) \/ \E e \in Emails : CheckEmail(r, e)

LEMMA OneHandler ==
    ASSUME AInv, NEW q \in Requests, NEW r \in Requests, q # r, Handles(q)
    PROVE  Untouched(r)
  <1>1. pc'[r] = pc[r]
    BY DEF AInv, Shape, Handles, SignIn, Step, CheckEmail, Account, Key, Call, Goes, Asks, Reject, NotFound,
           InsertUser, UpdateEmail, Collide, Conflict, ReadUser, EditUser, CountKeys, LimitReached,
           InsertKey, FindKey, DeactivateKey, PresentKey, FindOwner, RejectOwner, UseKey
  <1>2. actor'[r] = actor[r] /\ target'[r] = target[r] /\ change'[r] = change[r]
    BY DEF AInv, Shape, Handles, SignIn, Step, CheckEmail, Account, Key, Call, Answered, Reject, NotFound,
           InsertUser, UpdateEmail, Collide, Conflict, ReadUser, EditUser, CountKeys, LimitReached,
           InsertKey, FindKey, DeactivateKey, PresentKey, FindOwner, RejectOwner, UseKey, handler
  <1>3. seen'[r] = seen[r] /\ answer'[r] = answer[r]
    BY DEF AInv, Shape, Handles, SignIn, Step, CheckEmail, Account, Key, Call, Answered, Reject, NotFound,
           InsertUser, UpdateEmail, Collide, Conflict, ReadUser, EditUser, CountKeys, LimitReached,
           InsertKey, FindKey, DeactivateKey, PresentKey, FindOwner, RejectOwner, UseKey, handler
  <1> QED
    BY <1>1, <1>2, <1>3 DEF Untouched, Same

\* A request is handled, stopped with the process or left alone.
LEMMA WhatHappens ==
    ASSUME AInv, [Next]_vars, NEW r \in Requests
    PROVE  Handles(r) \/ Stop \/ Untouched(r)
  <1>1. (\E q \in Requests : Handles(q)) => Handles(r) \/ Untouched(r)
    BY OneHandler
  <1>2. CASE StartUp \/ FailToStart \/ UNCHANGED access
    BY <1>2 DEF StartUp, FailToStart, access, Untouched, Same, handler
  <1>3. ASSUME \E v \in Visitors : Login(v) \/ Renew(v) \/ ShowPage(v) \/ ShowAdminPage(v) \/ TurnAway(v)
        PROVE  UNCHANGED access
    BY <1>3 DEF Login, Renew, ShowPage, ShowAdminPage, TurnAway, Visits
  <1>4. Tick \/ Finished \/ UNCHANGED vars => UNCHANGED access
    BY DEF Tick, Finished, vars
  <1> QED
    BY <1>1, <1>2, <1>3, <1>4 DEF Next, Process, SignInWithToken, Handles

\* The row of a key stays, with its owner, and does not become active again.
LEMMA KeysStay ==
    ASSUME AInv, [Next]_vars, NEW k \in StoredKeys
    PROVE  /\ k \in StoredKeys'
           /\ keys'[k].owner = keys[k].owner
           /\ keys'[k].is_active => keys[k].is_active
  <1>1. keys'[k].is_active => keys[k].is_active
    BY AInvStep DEF EditsOnly, StoredKeys
  <1>2. keys[k] \in KeyRow /\ NoRow \notin KeyRow /\ k \in KeyCreations
    BY AccessAssumption DEF AInv, Shape, StoredKeys
  <1>3. CASE keys' = keys
    BY <1>1, <1>3 DEF StoredKeys
  <1>4. ASSUME NEW j \in KeyCreations, j # k, NEW new, keys' = [keys EXCEPT ![j] = new]
        PROVE  k \in StoredKeys' /\ keys'[k].owner = keys[k].owner
    BY <1>4 DEF AInv, Shape, StoredKeys
  <1>5. ASSUME NEW j \in StoredKeys, NEW new \in KeyRow, new.owner = keys[j].owner,
               keys' = [keys EXCEPT ![j] = new]
        PROVE  k \in StoredKeys' /\ keys'[k].owner = keys[k].owner
    BY <1>2, <1>5 DEF AInv, Shape, StoredKeys
  <1>6. ASSUME NEW r \in Requests, InsertKey(r) \/ DeactivateKey(r) \/ UseKey(r)
        PROVE  k \in StoredKeys' /\ keys'[k].owner = keys[k].owner
    <2>1. CASE InsertKey(r)
      <3>1. pc[r] = "checked" /\ r \in KeyCreations
        BY <2>1 DEF InsertKey, Goes
      <3>2. r # k
        BY <3>1 DEF AInv, Unborn, StoredKeys
      <3> QED
        BY <2>1, <3>1, <3>2, <1>4 DEF InsertKey
    <2>2. CASE DeactivateKey(r)
      <3>1. /\ r \in KeyDeletions /\ pc[r] = "checked"
            /\ keys' = [keys EXCEPT ![target[r]] = Flushed(keys[target[r]], seen[r], change[r])]
        BY <2>2 DEF DeactivateKey, Goes
      <3>2. target[r] \in StoredKeys /\ change[r] = [is_active |-> FALSE]
        BY <3>1 DEF AInv, RequestInv, Checked
      <3>3. keys[target[r]] \in KeyRow
        BY <3>2 DEF StoredKeys, AInv, Shape
      <3>4. /\ Flushed(keys[target[r]], seen[r], change[r]) \in KeyRow
            /\ Flushed(keys[target[r]], seen[r], change[r]).owner = keys[target[r]].owner
        BY <3>2, <3>3, FlushedKey
      <3> QED
        BY <3>1, <3>2, <3>4, <1>5
    <2>3. CASE UseKey(r)
      <3>1. pc[r] = "admitted" /\ keys' = [keys EXCEPT ![target[r]] = Touched(keys[target[r]], seen[r])]
        BY <2>3 DEF UseKey, Goes
      <3>2. target[r] \in StoredKeys
        BY <3>1 DEF AInv, RequestInv, Keyed
      <3>3. keys[target[r]] \in KeyRow
        BY <3>2 DEF StoredKeys, AInv, Shape
      <3>4. /\ Touched(keys[target[r]], seen[r]) \in KeyRow
            /\ Touched(keys[target[r]], seen[r]).owner = keys[target[r]].owner
        BY <3>3 DEF Touched, KeyRow
      <3> QED
        BY <3>1, <3>2, <3>4, <1>5
    <2> QED
      BY <1>6, <2>1, <2>2, <2>3
  <1>7. CASE ~ \E r \in Requests : InsertKey(r) \/ DeactivateKey(r) \/ UseKey(r)
    <2>1. keys' = keys
      <3>1. ASSUME NEW r \in Requests, Step(r) PROVE keys' = keys
        BY <1>7, <3>1 DEF Step, Account, Key, Call, Reject, NotFound, InsertUser, UpdateEmail, Collide, Conflict,
               ReadUser, EditUser, CountKeys, LimitReached, FindKey, PresentKey, FindOwner, RejectOwner
      <3>2. ASSUME Process PROVE keys' = keys
        BY <3>2 DEF Process, StartUp, FailToStart, Stop
      <3>3. ASSUME NEW r \in Requests, SignInWithToken(r) \/ \E e \in Emails : CheckEmail(r, e)
            PROVE  keys' = keys
        BY <3>3 DEF SignInWithToken, SignIn, CheckEmail
      <3>4. ASSUME NEW v \in Visitors, Login(v) \/ Renew(v) \/ ShowPage(v) \/ ShowAdminPage(v) \/ TurnAway(v)
            PROVE  keys' = keys
        BY <3>4 DEF Login, Renew, ShowPage, ShowAdminPage, TurnAway, Visits, access
      <3>5. Tick \/ Finished \/ UNCHANGED vars => keys' = keys
        BY DEF Tick, Finished, vars, access
      <3> QED
        BY <3>1, <3>2, <3>3, <3>4, <3>5 DEF Next
    <2> QED
      BY <1>3, <2>1
  <1> QED
    BY <1>1, <1>6, <1>7

-----------------------------------------------------------------------------
(***************************************************************************)
(* The steps of one request.                                               *)
(***************************************************************************)
\* A call has steps of its own kind only.
LEMMA CallSteps ==
    ASSUME NEW c \in Calls, Handles(c)
    PROVE  Reject(c) \/ PresentKey(c) \/ FindOwner(c) \/ RejectOwner(c) \/ UseKey(c)
  BY AccessAssumption DEF Handles, SignIn, Step, CheckEmail, Asks, Account, Key, Call, NotFound, InsertUser,
     UpdateEmail, Collide, Conflict, ReadUser, EditUser, CountKeys, LimitReached, InsertKey, FindKey,
     DeactivateKey, Portal

\* A step of a handler gives an answer only when it is the last.
LEMMA AnswersLast ==
    ASSUME AInv, NEW r \in Requests, Handles(r)
    PROVE  /\ pc[r] # "done"
           /\ pc'[r] \notin {"unsent", "start"}
           /\ pc'[r] # "done" => answer'[r] = answer[r]
  <1>1. PICK to \in {"signed in", "keyed", "admitted", "checked", "done"} :
           pc[r] # "done" /\ pc' = [pc EXCEPT ![r] = to] /\ (to # "done" => answer' = answer)
    BY DEF Handles, SignIn, Step, CheckEmail, Account, Key, Call, Goes, Asks, Reject, NotFound, InsertUser,
           UpdateEmail, Collide, Conflict, ReadUser, EditUser, CountKeys, LimitReached, InsertKey, FindKey,
           DeactivateKey, PresentKey, FindOwner, RejectOwner, UseKey, handler
  <1> QED
    BY <1>1 DEF AInv, Shape

LEMMA Presenting ==
    ASSUME AInv, NEW c \in Calls, PresentKey(c)
    PROVE  /\ pc[c] = "start" /\ pc'[c] = "keyed"
           /\ target'[c] \in StoredKeys /\ keys[target'[c]].is_active
           /\ seen'[c] = keys[target'[c]]
           /\ keys' = keys /\ answer'[c] = answer[c]
  BY DEF PresentKey, Goes, AInv, Shape, StoredKeys, Requests

LEMMA CallEnds ==
    ASSUME AInv, NEW c \in Calls, Reject(c) \/ RejectOwner(c) \/ UseKey(c)
    PROVE  /\ pc'[c] = "done" /\ target'[c] = target[c]
           /\ answer'[c] = IF UseKey(c) THEN "ok" ELSE "refused"
           /\ UseKey(c) => pc[c] = "admitted"
  BY DEF Reject, RejectOwner, UseKey, Goes, Answered, AInv, Shape, Requests

LEMMA Stopping ==
    ASSUME AInv, Stop, NEW r \in Requests
    PROVE  /\ keys' = keys /\ actor' = actor /\ target' = target
           /\ pc[r] \in {"unsent", "start"} => pc'[r] = pc[r] /\ answer'[r] = answer[r]
           /\ pc[r] = "done" => pc'[r] = "done" /\ answer'[r] = answer[r]
           /\ pc[r] \notin {"unsent", "start", "done"} => pc'[r] = "done" /\ answer'[r] = "lost"
  BY DEF Stop

LEMMA PendingInit == Init => PendingInv
  <1> SUFFICES ASSUME Init PROVE PendingInv
    OBVIOUS
  <1>1. AccessInit
    BY DEF Init
  <1>2. \A r \in Requests : answer[r] = "none" /\ pc[r] \in {"start", "unsent"}
    BY <1>1 DEF AccessInit
  <1> QED
    BY <1>2 DEF PendingInv, Pending, OwnsTarget, Requests

LEMMA PendingStep ==
    ASSUME AInv, PendingInv, [Next]_vars
    PROVE  PendingInv'
  <1>1. ASSUME NEW r \in Requests PROVE Pending(r)'
    <2>1. CASE Handles(r)
      BY <2>1, AnswersLast DEF PendingInv, Pending
    <2>2. CASE Stop
      BY <2>2, Stopping DEF PendingInv, Pending
    <2>3. CASE Untouched(r)
      BY <2>3 DEF PendingInv, Pending, Untouched, Same
    <2> QED
      BY <2>1, <2>2, <2>3, WhatHappens
  <1>2. ASSUME NEW c \in Calls PROVE OwnsTarget(c)'
    <2>1. c \in Requests /\ OwnsTarget(c)
      BY DEF Requests, PendingInv
    <2>2. pc[c] \in {"keyed", "admitted"} => target[c] \in StoredKeys
      BY <2>1 DEF AInv, RequestInv, Keyed
    <2>3. CASE Untouched(c)
      BY <2>1, <2>2, <2>3, KeysStay DEF Untouched, Same, OwnsTarget
    <2>4. CASE Stop
      BY <2>1, <2>4, Stopping DEF OwnsTarget
    <2>5. CASE PresentKey(c)
      BY <2>5, Presenting DEF OwnsTarget
    <2>6. CASE FindOwner(c)
      BY <2>1, <2>6 DEF FindOwner, Goes, handler, OwnsTarget
    <2>7. CASE Reject(c) \/ RejectOwner(c) \/ UseKey(c)
      BY <2>7, CallEnds DEF OwnsTarget
    <2> QED
      BY <2>1, <2>3, <2>4, <2>5, <2>6, <2>7, WhatHappens, CallSteps
  <1> QED
    BY <1>1, <1>2 DEF PendingInv

LEMMA PendingInductive == Spec => [](AInv /\ PendingInv)
  <1>1. AInv /\ PendingInv /\ [Next]_vars => PendingInv'
    BY PendingStep
  <1> QED
    BY <1>1, AccessInductive, PendingInit, PTL DEF Spec

-----------------------------------------------------------------------------
(***************************************************************************)
(* A deleted key.                                                          *)
(***************************************************************************)
\* A deleted key remains deleted, and a call that arrives presents another one.
LEMMA ShutStep ==
    ASSUME NEW k \in KeyCreations, NEW c \in Calls, AInv, PendingInv, Shut(k, c), [Next]_vars
    PROVE  Shut(k, c)'
  <1>1. c \in Requests /\ k \in StoredKeys
    BY DEF Requests, Shut, StoredKeys
  <1>2. keys'[k] # NoRow /\ ~keys'[k].is_active
    BY <1>1, KeysStay DEF Shut, StoredKeys
  <1>3. CASE Untouched(c)
    BY <1>2, <1>3 DEF Shut, Untouched, Same
  <1>4. CASE Stop
    BY <1>1, <1>2, <1>4, Stopping DEF Shut
  <1>5. CASE PresentKey(c)
    BY <1>2, <1>5, Presenting DEF Shut
  <1>6. CASE FindOwner(c)
    <2>1. pc[c] = "keyed" /\ target'[c] = target[c]
      BY <1>6 DEF FindOwner, Goes, handler
    <2> QED
      BY <1>2, <2>1 DEF Shut
  <1>7. CASE Reject(c) \/ RejectOwner(c) \/ UseKey(c)
    BY <1>2, <1>7, CallEnds DEF Shut
  <1> QED
    BY <1>1, <1>3, <1>4, <1>5, <1>6, <1>7, WhatHappens, CallSteps

LEMMA OneDeletedKey ==
    ASSUME NEW k \in KeyCreations, NEW c \in Calls
    PROVE  Spec => []((keys[k] # NoRow /\ ~keys[k].is_active /\ pc[c] = "start")
                        => []~(answer[c] = "ok" /\ target[c] = k))
  <1>1. keys[k] # NoRow /\ ~keys[k].is_active /\ pc[c] = "start" => Shut(k, c)
    BY DEF Shut
  <1>2. AInv /\ PendingInv /\ Shut(k, c) /\ [Next]_vars => Shut(k, c)'
    BY ShutStep
  <1>3. AInv /\ PendingInv /\ Shut(k, c) => ~(answer[c] = "ok" /\ target[c] = k)
    BY DEF Shut, PendingInv, Pending, Requests
  <1> QED
    BY <1>1, <1>2, <1>3, PendingInductive, PTL DEF Spec

\* A key that was deleted serves no call that arrives afterwards, for any number of keys
\* and calls.
THEOREM DeletedKeysAreRefused == Spec => DeletedKeyIsRefused
  BY OneDeletedKey DEF DeletedKeyIsRefused

-----------------------------------------------------------------------------
(***************************************************************************)
(* A disabled user.                                                        *)
(***************************************************************************)
\* Portal requests act for whom they signed in, from their first step on.
LEMMA PortalSteps ==
    ASSUME AInv, NEW r \in Portal, Handles(r)
    PROVE  \/ SignIn(r) /\ pc[r] = "start" /\ \E u \in Users : Live(u) /\ actor'[r] = u
           \/ Reject(r) /\ pc'[r] = "done" /\ answer'[r] = "refused"
           \/ pc[r] # "start" /\ actor'[r] = actor[r]
  <1>1. r \in Requests /\ r \notin Registrations
    BY AccessAssumption DEF Requests
  <1>2. SignIn(r) => pc[r] = "start" /\ \E u \in Users : Live(u) /\ actor'[r] = u
    BY <1>1 DEF SignIn, Goes, AInv, Shape
  <1>3. Reject(r) => pc'[r] = "done" /\ answer'[r] = "refused"
    BY <1>1 DEF Reject, Goes, Answered, AInv, Shape
  <1>4. CASE ~SignIn(r) /\ ~Reject(r)
    <2>1. r \notin Calls
      BY AccessAssumption
    <2> QED
      BY <1>1, <1>4, <2>1 DEF Handles, Step, CheckEmail, Asks, Account, Key, Call, Goes, Answered, NotFound,
           InsertUser, UpdateEmail, Collide, Conflict, ReadUser, EditUser, CountKeys, LimitReached, InsertKey,
           FindKey, DeactivateKey, PresentKey, FindOwner, RejectOwner, UseKey, handler
  <1> QED
    BY <1>2, <1>3, <1>4

\* As long as the user is disabled, no request begins to act for him.
LEMMA OutStep ==
    ASSUME NEW u \in Users, NEW r \in Portal \cup Calls, AInv, PendingInv, Disabled(u), Out(u, r),
           [Next]_vars
    PROVE  Out(u, r)'
  <1>1. r \in Requests /\ ~Live(u)
    BY DEF Requests, Disabled, Live
  <1>2. r \in Calls /\ target[r] \in StoredKeys /\ keys[target[r]].owner # u /\ target'[r] = target[r]
          => target'[r] \in StoredKeys' /\ keys'[target'[r]].owner # u
    BY KeysStay
  <1>3. CASE Untouched(r)
    BY <1>2, <1>3 DEF Out, Untouched, Same
  <1>4. CASE Stop
    BY <1>1, <1>2, <1>4, Stopping DEF Out
  <1>5. CASE r \in Portal /\ Handles(r)
    <2>1. r \notin Calls /\ pc[r] # "done"
      BY <1>1, <1>5, AccessAssumption, AnswersLast
    <2>2. CASE \E v \in Users : Live(v) /\ actor'[r] = v
      BY <1>1, <1>5, <2>2 DEF Out
    <2>3. CASE pc'[r] = "done" /\ answer'[r] = "refused"
      BY <2>3 DEF Out
    <2>4. CASE pc[r] # "start" /\ actor'[r] = actor[r]
      <3>1. pc[r] # "unsent"
        BY <1>5 DEF Handles, SignIn, Step, CheckEmail, Account, Key, Call, Goes, Asks, Reject, NotFound,
           InsertUser, UpdateEmail, Collide, Conflict, ReadUser, EditUser, CountKeys, LimitReached, InsertKey,
           FindKey, DeactivateKey, PresentKey, FindOwner, RejectOwner, UseKey
      <3> QED
        BY <1>5, <2>1, <2>4, <3>1 DEF Out
    <2> QED
      BY <1>5, <2>2, <2>3, <2>4, PortalSteps
  <1>6. CASE r \in Calls /\ Handles(r)
    <2>1. r \notin Portal
      BY <1>6, AccessAssumption
    <2>2. CASE PresentKey(r)
      BY <1>6, <2>2, Presenting DEF Out
    <2>3. CASE FindOwner(r)
      <3>1. /\ pc[r] = "keyed" /\ Live(seen[r].owner) /\ keys' = keys /\ target' = target
        BY <2>3 DEF FindOwner, Goes, OwnerMayCall, handler
      <3>2. target[r] \in StoredKeys /\ seen[r].owner = keys[target[r]].owner
        BY <1>1, <1>6, <3>1 DEF AInv, RequestInv, Keyed, PendingInv, OwnsTarget
      <3>3. target'[r] \in StoredKeys' /\ keys'[target'[r]].owner # u
        BY <1>1, <3>1, <3>2 DEF StoredKeys
      <3> QED
        BY <1>6, <3>3 DEF Out
    <2>4. CASE Reject(r) \/ RejectOwner(r)
      <3>1. ~UseKey(r) \/ answer'[r] = "refused"
        BY <2>4, AccessAssumption DEF Reject, RejectOwner, Answered, UseKey, Goes, AInv, Shape
      <3>2. pc'[r] = "done" /\ answer'[r] = "refused"
        BY <1>6, <2>4, <3>1, CallEnds
      <3> QED
        BY <3>2 DEF Out
    <2>5. CASE UseKey(r)
      <3>1. pc[r] = "admitted" /\ target'[r] = target[r]
        BY <1>6, <2>5, CallEnds
      <3> QED
        BY <1>2, <1>6, <2>1, <3>1 DEF Out
    <2> QED
      BY <1>6, <2>2, <2>3, <2>4, <2>5, CallSteps
  <1> QED
    BY <1>1, <1>3, <1>4, <1>5, <1>6, WhatHappens

LEMMA OneDisabledUser ==
    ASSUME NEW u \in Users, NEW r \in Portal \cup Calls
    PROVE  Spec => []((pc[r] = "start" /\ []Disabled(u)) => []~ServedTo(r, u))
  <1>1. pc[r] = "start" => Out(u, r)
    BY DEF Out
  <1>2. AInv /\ PendingInv /\ Disabled(u) /\ Out(u, r) /\ [Next]_vars => Out(u, r)'
    BY OutStep
  <1>3. AInv /\ PendingInv /\ Out(u, r) => ~ServedTo(r, u)
    BY AccessAssumption DEF Out, ServedTo, PendingInv, Pending, Requests
  <1> QED
    BY <1>1, <1>2, <1>3, PendingInductive, PTL DEF Spec

\* A user who is disabled, and not enabled again, is served by no request of the portal and by
\* no call with an API key that arrives afterwards.
THEOREM DisabledUsersAreShutOut == Spec => DisabledUserIsShutOut
  BY OneDisabledUser DEF DisabledUserIsShutOut
=============================================================================
