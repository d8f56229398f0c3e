------------------------------ MODULE Billing ------------------------------
(***************************************************************************)
(* The billing pipeline of Token Relay: proxied requests that hold an      *)
(* estimated cost, call the upstream provider, refund the difference and   *)
(* log the usage, and administrators who add credits, all against one      *)
(* database through one SQLAlchemy session per HTTP request (get_db).      *)
(*                                                                         *)
(* A session's writes are private until its commit.  Before it writes a    *)
(* row it must own the lock that covers the row, and it keeps every lock   *)
(* until it commits, rolls back or is reclaimed.  The answer is sent after *)
(* that, and may be lost on its way.  Reads see the last committed version *)
(* and take no lock.  LockOf says what a lock covers: the whole database   *)
(* (SQLite) or one row (PostgreSQL).                                       *)
(*                                                                         *)
(* Abstracted: prices and token counts are the costs they lead to          *)
(* (Estimates, Actuals); the body of a request, the provider keys and the  *)
(* text of an answer are left out; the checks made before the hold (API    *)
(* key, rate limit, body, model) may pass or fail.                         *)
(***************************************************************************)
EXTENDS Integers, Sequences, FiniteSetsExt

CONSTANTS
    Users,           \* rows of table users
    Keys,            \* rows of table api_keys
    Chats,           \* POST /v1/chat/completions with stream = false
    Streams,         \* POST /v1/chat/completions with stream = true
    Embeds,          \* POST /v1/embeddings
    TopUps,          \* POST /api/admin/users/{user_id}/credits
    Owner,           \* Owner[s]: the user whose row session s writes
    KeyOf,           \* KeyOf[r]: the API key request r presents
    Locks,           \* write locks of the database
    LockOf,          \* LockOf[row]: the lock that covers a row of users or api_keys
    BusyTimeout,     \* TRUE if waiting for a lock ends in an error (SQLite)
    InitialBalance,  \* InitialBalance[u]: credits of u at the start
    Estimates,       \* costs that may be estimated before the call
    Actuals,         \* costs the reported usage may come to; 0: no usage reported
    Amounts,         \* amounts an administrator may add
    NoSession        \* the owner of a free lock

Requests == Chats \cup Streams \cup Embeds
Sessions == Requests \cup TopUps

ASSUME BillingAssumption ==
    /\ Chats \cap Streams = {} /\ Chats \cap Embeds = {} /\ Streams \cap Embeds = {}
    /\ TopUps \cap Requests = {}
    /\ Owner \in [Sessions -> Users]
    /\ KeyOf \in [Requests -> Keys]
    /\ LockOf \in [Users \cup Keys -> Locks]
    /\ BusyTimeout \in BOOLEAN
    /\ InitialBalance \in [Users -> Nat]
    /\ Estimates \subseteq Nat
    /\ Actuals \subseteq Nat
    /\ Amounts \subseteq Nat \ {0}
    /\ NoSession \notin Sessions

VARIABLES
    credit_balance,  \* credit_balance[u]: committed users.credit_balance
    transactions,    \* transactions[s]: committed credit_transactions rows that s inserted
    usage_logs,      \* usage_logs[r]: committed usage_logs rows that r inserted
    lock,            \* lock[l]: the session that owns lock l
    work,            \* work[s]: uncommitted writes of session s
    estimated_cost,  \* estimated_cost[r]: what r held
    pc,              \* pc[s]: where the handler of s is
    answer           \* answer[s]: what the client of s is told

vars == <<credit_balance, transactions, usage_logs, lock, work, estimated_cost, pc, answer>>
tables == <<credit_balance, transactions, usage_logs>>

(***************************************************************************)
(* Rows.  work[s].bal is the version of its owner's credit_balance that s  *)
(* works with: the uncommitted one once s wrote the row, and for a top-up  *)
(* that has not yet written it the one it read.                            *)
(***************************************************************************)
Transaction == [type : {"consumption", "refund", "admin_adjust"}, amount : Int, balance_after : Int]
UsageLog == [credits_consumed : Nat, status : {"success", "error"}]

NoWork == [bal |-> 0, rows |-> <<>>, logs |-> {}]

\* The change of the balance that the rows one session inserts add up to: a
\* session inserts at most two, a hold and its refund.
Net(rows) ==
    (IF Len(rows) >= 1 THEN rows[1].amount ELSE 0) + (IF Len(rows) >= 2 THEN rows[2].amount ELSE 0)

\* Mutant of Moved: balance_after is read before the update instead of returned by it.
MovedBefore(bal, rows, type, amount) ==
    [bal |-> bal + amount,
     rows |-> Append(rows, [type |-> type, amount |-> amount, balance_after |-> bal]),
     logs |-> {}]

\* The session's version of the balance moves by amount, and a row says so.
Moved(bal, rows, type, amount) ==
    [bal |-> bal + amount,
     rows |-> Append(rows, [type |-> type, amount |-> amount, balance_after |-> bal + amount]),
     logs |-> {}]

\* Mutant of Logged: the log takes the signed amount of a transaction.
LoggedSigned(w, credits, status) ==
    [w EXCEPT !.logs = {[credits_consumed |-> -credits, status |-> status]}]

Logged(w, credits, status) == [w EXCEPT !.logs = {[credits_consumed |-> credits, status |-> status]}]

(***************************************************************************)
(* Locks.                                                                  *)
(***************************************************************************)
\* Mutant of CanLock: a write that waits for no lock.
NeverWaits(s, row) == TRUE

CanLock(s, row) == lock[LockOf[row]] \in {s, NoSession}
Locked(s, row) == [lock EXCEPT ![LockOf[row]] = s]
Released(s) == [l \in Locks |-> IF lock[l] = s THEN NoSession ELSE lock[l]]

\* Mutant of NextRow: embeddings write their user's row first and their key's after it.
EmbedsReversed(s) == IF (pc[s] = "start") # (s \in Embeds) THEN KeyOf[s] ELSE Owner[s]

\* The row that s writes next: a request's API key when it is authenticated, then, like
\* a top-up, its user.
NextRow(s) == IF pc[s] = "start" THEN KeyOf[s] ELSE Owner[s]

(***************************************************************************)
(* Where a handler goes when it is through.  An endpoint that returns is   *)
(* committed by get_db, one that raises is rolled back.  chat_completions  *)
(* turns every exception of the pipeline into an answer, so it returns.    *)
(* The body of a stream runs after get_db has committed and closed the     *)
(* session: whatever the pipeline then writes is left in a transaction     *)
(* that nobody ends.                                                       *)
(***************************************************************************)
\* Mutant of AfterRaise: every endpoint turns an exception into an answer.
AfterCaught(s) == IF s \in Streams THEN "abandoned" ELSE "returning"

AfterReturn(s) == IF s \in Streams THEN "abandoned" ELSE "returning"
AfterRaise(s) == IF s \in Streams THEN "abandoned" ELSE IF s \in Chats THEN "returning" ELSE "raising"

Leave(s, next, reply) ==
    /\ pc' = [pc EXCEPT ![s] = next]
    /\ answer' = [answer EXCEPT ![s] = reply]

-----------------------------------------------------------------------------
Init ==
    /\ credit_balance = InitialBalance
    /\ transactions = [s \in Sessions |-> <<>>]
    /\ usage_logs = [r \in Requests |-> {}]
    /\ lock = [l \in Locks |-> NoSession]
    /\ work = [s \in Sessions |-> NoWork]
    /\ estimated_cost = [r \in Requests |-> 0]
    /\ pc = [s \in Sessions |-> "start"]
    /\ answer = [s \in Sessions |-> "none"]

\* get_user_from_api_key accepts the key and updates its last_used_at, which
\* takes the lock on the key's row.
Authenticate(r) ==
    /\ pc[r] = "start"
    /\ CanLock(r, NextRow(r))
    /\ lock' = Locked(r, NextRow(r))
    /\ pc' = [pc EXCEPT ![r] = "authenticated"]
    /\ UNCHANGED <<tables, work, estimated_cost, answer>>

\* get_user_from_api_key raises 401 or 403.
Reject(r) ==
    /\ pc[r] = "start"
    /\ Leave(r, "raising", "refused")
    /\ UNCHANGED <<tables, lock, work, estimated_cost>>

\* The rate limit or the body's validation answers 429 or 400, or, for a request
\* that is not streamed, the model, its price or its provider key is missing.
Refuse(r) ==
    /\ pc[r] = "authenticated"
    /\ Leave(r, "returning", "refused")
    /\ UNCHANGED <<tables, lock, work, estimated_cost>>

\* chat_completions returns the StreamingResponse; get_db commits last_used_at and
\* closes the session before the first byte of the body is produced.
OpenStream(r) ==
    /\ r \in Streams
    /\ pc[r] = "authenticated"
    /\ lock' = Released(r)
    /\ pc' = [pc EXCEPT ![r] = "opened"]
    /\ UNCHANGED <<tables, work, estimated_cost, answer>>

\* The pipeline of a stream raises before its hold: the model is not found or no
\* cost can be estimated.
RefuseStream(r) ==
    /\ pc[r] = "opened"
    /\ Leave(r, AfterRaise(r), "refused")
    /\ UNCHANGED <<tables, lock, work, estimated_cost>>

Ready(r) == pc[r] = IF r \in Streams THEN "opened" ELSE "authenticated"

\* Mutant of Affords: the update has no condition on the balance.
AffordsAnything(u, cost) == TRUE

\* The WHERE clause of the conditional update.
Affords(u, cost) == credit_balance[u] >= cost

\* The conditional update takes the lock on the user's row, finds the credits there
\* and takes them; the row of the hold is flushed with it.
Hold(r) ==
    /\ Ready(r)
    /\ CanLock(r, NextRow(r))
    /\ lock' = Locked(r, NextRow(r))
    /\ \E cost \in Estimates :
          /\ Affords(Owner[r], cost)
          /\ work' = [work EXCEPT ![r] = Moved(credit_balance[Owner[r]], <<>>, "consumption", -cost)]
          /\ estimated_cost' = [estimated_cost EXCEPT ![r] = cost]
    /\ pc' = [pc EXCEPT ![r] = "upstream"]
    /\ UNCHANGED <<tables, answer>>

\* The conditional update matches no row: 402.
Decline(r) ==
    /\ Ready(r)
    /\ CanLock(r, NextRow(r))
    /\ \E cost \in Estimates : ~Affords(Owner[r], cost)
    /\ lock' = Locked(r, NextRow(r))
    /\ Leave(r, AfterReturn(r), "refused")
    /\ UNCHANGED <<tables, work, estimated_cost>>

\* Mutant of Settled: a negative difference is settled, too.
SettledAlways(r, actual) ==
    Moved(work[r].bal, work[r].rows, "refund", estimated_cost[r] - actual)

\* Only a positive difference is settled.
Settled(r, actual) ==
    LET delta == estimated_cost[r] - actual
    IN  IF delta > 0 THEN Moved(work[r].bal, work[r].rows, "refund", delta) ELSE work[r]

\* Upstream answered: the cost of the reported usage is settled and logged.  No
\* usage costs a chat nothing and an embedding its estimate.
Serve(r) ==
    /\ pc[r] = "upstream"
    /\ \E reported \in Actuals :
          LET actual == IF r \in Embeds /\ reported = 0 THEN estimated_cost[r] ELSE reported
          IN  work' = [work EXCEPT ![r] = Logged(Settled(r, actual), actual, "success")]
    /\ Leave(r, AfterReturn(r), "served")
    /\ UNCHANGED <<tables, lock, estimated_cost>>

\* A chat whose provider keys all failed, or whose upstream answered with an error
\* or a body that is no JSON, is settled at no usage.
FailChat(r) ==
    /\ r \in Chats \cup Streams
    /\ pc[r] = "upstream"
    /\ \E status \in {"success", "error"} :
          work' = [work EXCEPT ![r] = Logged(Settled(r, 0), 0, status)]
    /\ Leave(r, AfterReturn(r), "error")
    /\ UNCHANGED <<tables, lock, estimated_cost>>

\* An embedding whose call failed gets its whole hold back.
FailEmbedding(r) ==
    /\ r \in Embeds
    /\ pc[r] = "upstream"
    /\ work' = [work EXCEPT ![r] =
                  Logged(Moved(@.bal, @.rows, "refund", estimated_cost[r]), 0, "error")]
    /\ Leave(r, AfterReturn(r), "error")
    /\ UNCHANGED <<tables, lock, estimated_cost>>

\* An exception that the pipeline does not handle leaves it after the hold: a stored
\* provider key that does not decrypt, or usage that is no number.
Raise(r) ==
    /\ pc[r] = "upstream"
    /\ Leave(r, AfterRaise(r), "error")
    /\ UNCHANGED <<tables, lock, work, estimated_cost>>

\* The client of a stream goes away: the body's generator is closed where it stands.
Disconnect(r) ==
    /\ r \in Streams
    /\ pc[r] \in {"opened", "upstream"}
    /\ Leave(r, "abandoned", "lost")
    /\ UNCHANGED <<tables, lock, work, estimated_cost>>

\* add_credits reads the user's row.
ReadBalance(t) ==
    /\ pc[t] = "start"
    /\ work' = [work EXCEPT ![t].bal = credit_balance[Owner[t]]]
    /\ pc' = [pc EXCEPT ![t] = "read"]
    /\ UNCHANGED <<tables, lock, estimated_cost, answer>>

\* add_credits flushes the sum it computed from what it read, and a row for it.
AddCredits(t) ==
    /\ t \in TopUps
    /\ pc[t] = "read"
    /\ CanLock(t, NextRow(t))
    /\ lock' = Locked(t, NextRow(t))
    /\ \E amount \in Amounts :
          work' = [work EXCEPT ![t] = Moved(@.bal, <<>>, "admin_adjust", amount)]
    /\ Leave(t, AfterReturn(t), "served")
    /\ UNCHANGED <<tables, estimated_cost>>

\* Mutant of Waiting: only the dependency's statement has a timeout.
WaitingForKey(s) == s \in Requests /\ pc[s] = "start" /\ ~CanLock(s, KeyOf[s])

\* A statement of s waits for a lock that another session owns.
Waiting(s) ==
    /\ IF s \in Requests THEN pc[s] = "start" \/ Ready(s) ELSE pc[s] = "read"
    /\ ~CanLock(s, NextRow(s))

\* The wait ends in "database is locked": in the dependency the request fails, in
\* the pipeline the endpoint decides.
TimeOut(s) ==
    /\ BusyTimeout
    /\ Waiting(s)
    /\ Leave(s, IF pc[s] = "start" THEN "raising" ELSE AfterRaise(s), "error")
    /\ UNCHANGED <<tables, lock, work, estimated_cost>>

\* The session ends; nothing of it stays but what the tables say.
Close(s, next) ==
    /\ work' = [work EXCEPT ![s] = NoWork]
    /\ lock' = Released(s)
    /\ pc' = [pc EXCEPT ![s] = next]

\* get_db commits: the session's rows and its version of the balance become visible.
Commit(s) ==
    /\ pc[s] = "returning"
    /\ IF work[s].rows = <<>>
       THEN UNCHANGED tables
       ELSE /\ credit_balance' = [credit_balance EXCEPT ![Owner[s]] = work[s].bal]
            /\ transactions' = [transactions EXCEPT ![s] = work[s].rows]
            /\ usage_logs' = IF s \in Requests
                             THEN [usage_logs EXCEPT ![s] = work[s].logs]
                             ELSE usage_logs
    /\ Close(s, "answering")
    /\ UNCHANGED <<estimated_cost, answer>>

\* Mutant of AnswerWithoutCommit: the answer is sent before the commit.
AnswerFirst(s) == answer[s]

\* What the client is told when the commit that precedes the answer fails.
AnswerWithoutCommit(s) == IF pc[s] = "returning" THEN "error" ELSE answer[s]

\* get_db rolls back: the endpoint raised, or the commit itself failed.
RollBack(s) ==
    /\ pc[s] \in {"returning", "raising"}
    /\ answer' = [answer EXCEPT ![s] = AnswerWithoutCommit(s)]
    /\ Close(s, "answering")
    /\ UNCHANGED <<tables, estimated_cost>>

\* FastAPI sends the answer once get_db is through with the session; the client may
\* be gone by then.
Send(s) ==
    /\ pc[s] = "answering"
    /\ \E reply \in {answer[s], "lost"} : Leave(s, "done", reply)
    /\ UNCHANGED <<tables, lock, work, estimated_cost>>

\* The connection of a session that nobody ended is collected; the database drops
\* its transaction.
Reclaim(r) ==
    /\ pc[r] = "abandoned"
    /\ Close(r, "done")
    /\ UNCHANGED <<tables, estimated_cost, answer>>

\* The server process dies and is restarted; the database drops every open
\* transaction.  Clients of the requests it was handling get no answer, those whose
\* transaction is committed included.
Crash ==
    /\ \E s \in Sessions : pc[s] \notin {"start", "done"}
    /\ work' = [s \in Sessions |-> NoWork]
    /\ lock' = [l \in Locks |-> NoSession]
    /\ pc' = [s \in Sessions |-> IF pc[s] = "start" THEN "start" ELSE "done"]
    /\ answer' = [s \in Sessions |->
                    IF pc[s] \in {"start", "abandoned", "done"} THEN answer[s] ELSE "lost"]
    /\ UNCHANGED <<tables, estimated_cost>>

\* Every request has been answered.
Finished ==
    /\ \A s \in Sessions : pc[s] = "done"
    /\ UNCHANGED vars

Refusal(r) == Reject(r) \/ Refuse(r) \/ RefuseStream(r)
Handling(r) ==
    \/ Authenticate(r) \/ OpenStream(r) \/ Hold(r) \/ Decline(r)
    \/ Serve(r) \/ FailChat(r) \/ FailEmbedding(r) \/ Raise(r)
RequestStep(r) == Refusal(r) \/ Handling(r)
TopUpStep(t) == ReadBalance(t) \/ AddCredits(t)
SessionStep(s) == TimeOut(s) \/ Commit(s) \/ RollBack(s) \/ Send(s)

Next ==
    \/ \E r \in Requests : RequestStep(r) \/ Disconnect(r) \/ Reclaim(r)
    \/ \E t \in TopUps : TopUpStep(t)
    \/ \E s \in Sessions : SessionStep(s)
    \/ Crash
    \/ Finished

Spec == Init /\ [][Next]_vars

(***************************************************************************)
(* Fairness.  asyncio resumes every handler whose statement has ended, a   *)
(* statement ends once its lock is free or, on SQLite, its busy timeout is *)
(* over, an answer is sent or lost, and the upstream call of a request     *)
(* that is not streamed ends: the HTTP client's timeout is 120 seconds.    *)
(* Nothing is assumed of a stream, whose client may stop reading, nor of   *)
(* the collection of what it leaves.  A request need not be refused in     *)
(* order to end.                                                           *)
(***************************************************************************)
Progress(s) ==
    \/ s \in Requests /\ Handling(s)
    \/ s \in TopUps /\ TopUpStep(s)
    \/ SessionStep(s)

Unstreamed == Sessions \ Streams

FairSpec == Spec /\ \A s \in Unstreamed : WF_vars(Progress(s))

-----------------------------------------------------------------------------
(***************************************************************************)
(* Correctness.                                                            *)
(***************************************************************************)
PCs == {"start", "authenticated", "opened", "upstream", "read", "returning", "raising",
        "answering", "abandoned", "done"}

\* Every variable has its type, a session inserts at most two transactions and a
\* request at most one usage log.
TypeOK ==
    /\ credit_balance \in [Users -> Int]
    /\ transactions \in [Sessions -> Seq(Transaction)]
    /\ usage_logs \in [Requests -> SUBSET UsageLog]
    /\ lock \in [Locks -> Sessions \cup {NoSession}]
    /\ work \in [Sessions -> [bal : Int, rows : Seq(Transaction), logs : SUBSET UsageLog]]
    /\ estimated_cost \in [Requests -> Nat]
    /\ pc \in [Sessions -> PCs]
    /\ answer \in [Sessions -> {"none", "served", "refused", "error", "lost"}]

\* No interleaving of holds, refunds and top-ups, no failure and no crash ever leaves
\* a user with a negative balance.
NoOverdraft == \A u \in Users : credit_balance[u] >= 0

Lesser(a, b) == IF a <= b THEN a ELSE b

\* A request whose usage is on record was charged what that usage costs, or all that
\* it held where the usage costs more: the hold and its refund add up to the charge
\* and were both committed, or neither.
SettledCharge ==
    \A r \in Requests : \A l \in usage_logs[r] :
        -Net(transactions[r]) = Lesser(estimated_cost[r], l.credits_consumed)

\* A client is sent, and holds, the answer of a chat that is not streamed, or an
\* embedding, only if the charge and the usage behind it are committed: get_db commits
\* before the answer is sent.
ServedIsBilled ==
    \A r \in Chats \cup Embeds :
        pc[r] \in {"answering", "done"} /\ answer[r] = "served" => usage_logs[r] # {}

\* An embedding costs nothing unless upstream gave its vectors and the transaction that
\* charges and logs them was committed with the answer ready to be sent: not when its call
\* failed, it raised after its hold, its commit failed or the server died before the
\* commit.  Only an answer that is lost after the commit, because the client is gone or
\* the server dies then, is paid for by a client that does not have it.
EmbedChargedOnlyIfServed ==
    \A r \in Embeds : Net(transactions[r]) # 0 =>
        /\ \/ pc[r] \in {"answering", "done"} /\ answer[r] = "served"
           \/ pc[r] = "done" /\ answer[r] = "lost"
        /\ \E l \in usage_logs[r] : l.status = "success"

\* A request's commit changes its user's balance by what its rows add up to, whatever
\* was committed between its hold and its commit: none of its writes is computed
\* from a balance that is no longer there.
RequestCommitsAreCharges ==
    [][\A r \in Requests : transactions'[r] # transactions[r] =>
          credit_balance' = [credit_balance EXCEPT ![Owner[r]] = @ + Net(transactions'[r])]]_vars

\* The statement of a user reads like one of a bank: each row's balance_after is where
\* the session's next one starts and the last one is the balance that is committed, for
\* requests and top-ups; and the first row of a request starts at the balance of that
\* time.  That of a top-up may not: see TopUpAddsItsAmount.
StatementIsContinuous ==
    [][\A s \in Sessions : transactions'[s] # transactions[s] =>
          LET rows == transactions'[s]
          IN  /\ s \in Requests =>
                    rows[1].balance_after = credit_balance[Owner[s]] + rows[1].amount
              /\ \A i \in 2 .. Len(rows) :
                    rows[i].balance_after = rows[i - 1].balance_after + rows[i].amount
              /\ rows[Len(rows)].balance_after = credit_balance'[Owner[s]]]_vars

\* The balance of a user is the initial one and all that the committed transactions
\* add to it.  It is only claimed without top-ups: see TopUpAddsItsAmount.
LedgerExplainsBalance ==
    \A u \in Users :
        credit_balance[u] =
            InitialBalance[u] + SumFunction([s \in {x \in Sessions : Owner[x] = u} |-> Net(transactions[s])])

\* Without top-ups a request's commit is one step of the abstract account: all that
\* happens between a hold and its settlement is invisible.
booked == [s \in Sessions |-> IF transactions[s] = <<>> THEN -1 ELSE -Net(transactions[s])]
A == INSTANCE Account WITH balance <- credit_balance, Pending <- -1
ImplementsAccount == A!Spec

\* The owner of the lock that s needs next.
Blocker(s) == lock[LockOf[NextRow(s)]]

\* Who waits for a lock waits for another session, one that still has its transaction, and
\* if that one waits, too, then for a third one that does not: no sessions wait for each
\* other, also where a wait has no timeout, and every wait ends when the session at the
\* end of it does.
WaitsEnd ==
    \A s \in Sessions : Waiting(s) =>
       LET t == Blocker(s)
           u == Blocker(t)
       IN /\ t \in Sessions \ {s} /\ pc[t] \notin {"answering", "done"}
          /\ Waiting(t) => /\ u \in Sessions \ {s, t} /\ pc[u] \notin {"answering", "done"}
                           /\ ~Waiting(u)

\* Every request that is not streamed and every top-up ends, however long an abandoned
\* stream keeps the database's write lock and whatever crashes.  It is claimed where a wait
\* has a timeout (SQLite): a stream that nobody ends may keep a row of PostgreSQL for ever,
\* and who needs that row waits as long.
RequestsFinish == \A s \in Unstreamed : <>(pc[s] = "done")

(***************************************************************************)
(* What the documentation says and the code does not do.                   *)
(***************************************************************************)
\* README.md: "Streaming support with accurate per-token billing".
StreamServedIsBilled ==
    \A r \in Streams : pc[r] = "done" /\ answer[r] = "served" => usage_logs[r] # {}

\* README.md, Billing Flow: "Refund delta (estimate - actual)", "Log transaction + usage".
ChatChargedOnlyIfServed ==
    \A r \in Chats :
        pc[r] = "done" /\ answer[r] \in {"refused", "error"} => Net(transactions[r]) = 0

\* schemas/admin.py: "Positive amount in cents to add".
TopUpAddsItsAmount ==
    [][\A t \in TopUps : transactions'[t] # transactions[t] =>
          credit_balance' = [credit_balance EXCEPT ![Owner[t]] = @ + Net(transactions'[t])]]_vars
=============================================================================
