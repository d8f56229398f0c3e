------------------------------ MODULE Sessions ------------------------------
(***************************************************************************)
(* How users come to be known to the requests of Access: they log in, get  *)
(* an access and a refresh token, renew the one with the other, and send   *)
(* them with requests of the portal and with pages.  Nothing of this is    *)
(* stored: what a token says is what was true when its user logged in.     *)
(*                                                                         *)
(* Abstracted: passwords, signatures, and who holds a token: whatever was  *)
(* issued may be sent.  Logins, renewals and pages read once and are one   *)
(* step each.                                                              *)
(***************************************************************************)
EXTENDS Access

CONSTANTS
    Logins,          \* POST /api/auth/login and /api/auth/login-form
    Renewals,        \* POST /api/auth/refresh
    UserPages,       \* GET /dashboard and the pages below it
    AdminPages,      \* GET /admin and the pages below it
    VisitorsOf,      \* VisitorsOf[w]: the visitors that come with workload w
    AccessLifetime,  \* ACCESS_TOKEN_EXPIRE_MINUTES
    RefreshLifetime, \* REFRESH_TOKEN_EXPIRE_DAYS
    MaxTime          \* how far the clock goes (bound of the model)

Visitors == Logins \cup Renewals \cup UserPages \cup AdminPages

ASSUME SessionsAssumption ==
    /\ DOMAIN VisitorsOf = Workloads /\ \A w \in Workloads : VisitorsOf[w] \subseteq Visitors
    /\ UserPages \cap AdminPages = {}
    /\ AccessLifetime \in Nat \ {0} /\ RefreshLifetime \in Nat \ {0} /\ MaxTime \in Nat

VARIABLES
    tokens,      \* every token that was issued
    at,          \* at[v]: where visitor v is
    visitor,     \* visitor[v]: the user whom a page was shown to
    now,         \* the clock
    loggedIn,    \* loggedIn[u]: when u last logged in (history)
    wasAdmin     \* wasAdmin[u]: when u was last an administrator (history)

visits == <<tokens, at, visitor, now>>
vars == <<access, visits, loggedIn, wasAdmin>>

Token == [sub : Users, role : {"user", "admin"}, type : {"access", "refresh"}, exp : Nat]

\* No visitor logs in: then users are taken to have done so before (bound of the model).
Standing == Logins \cap {v \in Visitors : at[v] # "unsent"} = {}

Init ==
    /\ AccessInit
    /\ tokens = {}
    /\ at = [v \in Visitors |-> IF v \in VisitorsOf[{r \in Requests : pc[r] = "start"}] THEN "start" ELSE "unsent"]
    /\ visitor = [v \in Visitors |-> NoRow]
    /\ now = 0
    /\ loggedIn = [u \in Users |-> 0]
    /\ wasAdmin = [u \in Users |-> 0]

Tick ==
    /\ now < MaxTime /\ ~Standing
    /\ now' = now + 1
    /\ UNCHANGED <<access, tokens, at, visitor, loggedIn>>

\* The signature is right and the time of expiry has not passed.
Decoded == {t \in tokens : t.exp >= now}

\* Mutant: the claim that tells the two apart is left out.
IssuedWithoutType(u, role, type, lifetime) == [sub |-> u, role |-> role, exp |-> now + lifetime]

Issued(u, role, type, lifetime) == [sub |-> u, role |-> role, type |-> type, exp |-> now + lifetime]

Visits(v, visitors) ==
    /\ v \in visitors
    /\ server = "up"
    /\ at[v] = "start"
    /\ at' = [at EXCEPT ![v] = "done"]
    /\ UNCHANGED <<access, now>>

\* login: both tokens carry the role that the user has now.
Login(v) ==
    /\ Visits(v, Logins)
    /\ \E u \in Users :
          /\ Live(u)
          /\ tokens' = tokens \cup {Issued(u, users[u].role, "access", AccessLifetime),
                                    Issued(u, users[u].role, "refresh", RefreshLifetime)}
          /\ loggedIn' = [loggedIn EXCEPT ![u] = now]
    /\ UNCHANGED visitor

\* Mutant: the type is not looked at, and an access token renews itself.
RenewableOfAnyType == Decoded

Renewable == {t \in Decoded : t.type = "refresh"}

\* refresh_token: a new access token of the role that the old one says; no row is read.
Renew(v) ==
    /\ Visits(v, Renewals)
    /\ \E t \in Renewable : tokens' = tokens \cup {Issued(t.sub, t.role, "access", AccessLifetime)}
    /\ UNCHANGED <<visitor, loggedIn>>

Shown(v, us) ==
    /\ \E u \in us : Live(u) /\ visitor' = [visitor EXCEPT ![v] = u]
    /\ UNCHANGED <<tokens, loggedIn>>

\* _get_user_from_cookie: any token of a user who is active.
ShowPage(v) ==
    /\ Visits(v, UserPages)
    /\ Shown(v, {t.sub : t \in Decoded})

\* Mutant: as for other pages.
AdminTokensOfAnyRole == Decoded

AdminTokens == {t \in Decoded : t.role = "admin"}

\* get_admin_from_cookie: the role is the token's, the row says whether the user is active.
ShowAdminPage(v) ==
    /\ Visits(v, AdminPages)
    /\ Shown(v, {t.sub : t \in AdminTokens})

\* 401, 403 or a redirect to the login page.
TurnAway(v) ==
    /\ Visits(v, Visitors)
    /\ UNCHANGED <<tokens, visitor, loggedIn>>

\* get_current_user takes a token of either type and looks for its user.
SignInWithToken(r) ==
    /\ SignIn(r)
    /\ Standing \/ \E t \in Decoded : t.sub = actor'[r]
    /\ UNCHANGED <<visits, loggedIn>>

Finished ==
    /\ \/ server = "failed"
       \/ /\ server = "up"
          /\ \A r \in Requests : pc[r] \in {"unsent", "done"}
          /\ \A v \in Visitors : at[v] \in {"unsent", "done"}
    /\ UNCHANGED vars

\* Administrators are remembered at every step.
Remember ==
    wasAdmin' = [u \in Users |-> IF u \in Stored /\ users[u].role = "admin" THEN now' ELSE wasAdmin[u]]

Process == StartUp \/ FailToStart \/ Stop

Next ==
    \/ Process /\ UNCHANGED <<visits, loggedIn>> /\ Remember
    \/ \E r \in Requests : SignInWithToken(r) /\ Remember
    \/ \E r \in Requests : Step(r) /\ UNCHANGED <<visits, loggedIn>> /\ Remember
    \/ \E r \in Requests, e \in Emails : CheckEmail(r, e) /\ UNCHANGED <<visits, loggedIn>> /\ Remember
    \/ \E v \in Visitors : (Login(v) \/ Renew(v) \/ ShowPage(v) \/ ShowAdminPage(v) \/ TurnAway(v)) /\ Remember
    \/ Tick /\ Remember
    \/ Finished

Spec == Init /\ [][Next]_vars

-----------------------------------------------------------------------------
\* Types; tokens are of users, and only pages have visitors.
TypeOK ==
    /\ AccessTypeOK
    /\ \A t \in tokens : t \in Token /\ t.sub \in Stored
    /\ \A v \in Visitors : at[v] \in {"unsent", "start", "done"}
    /\ \A v \in Visitors : visitor[v] # NoRow => v \in UserPages \cup AdminPages /\ visitor[v] \in Stored
    /\ now \in 0..MaxTime
    /\ \A u \in Users : loggedIn[u] \in 0..now /\ wasAdmin[u] \in 0..now

Appears(v, u) == visitor[v] # u /\ visitor'[v] = u
SignsIn(r, u) == pc[r] = "start" /\ pc'[r] = "signed in" /\ actor'[r] = u

\* Who is served has logged in not long ago: a refresh token renews access until it
\* expires, and what it renewed last lives on for its own time, but no renewal can be
\* renewed (auth_service.py:62, jwt.py:11-20).
ServedInTime ==
    \A u \in Users :
       \/ \E v \in UserPages \cup AdminPages : Appears(v, u)
       \/ \E r \in Portal : SignsIn(r, u)
       => now <= loggedIn[u] + RefreshLifetime + AccessLifetime

SessionsEnd == [][ServedInTime]_vars

\* The administrators' pages go by the role in the token (templates_router.py:25), the
\* requests behind them by the row (deps.py:51).  Whom a page is shown to was an
\* administrator within the lifetimes of both tokens, if no longer.
AdminsInTime ==
    \A v \in AdminPages, u \in Users :
       Appears(v, u) => u \in Stored /\ now <= wasAdmin[u] + RefreshLifetime + AccessLifetime

AdminPagesLag == [][AdminsInTime]_vars
=============================================================================
