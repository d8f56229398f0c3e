--------------------------- MODULE BillingProofs ---------------------------
(***************************************************************************)
(* Theorems about Billing, for any number of users, API keys, requests,    *)
(* top-ups and locks, whatever a lock covers.                              *)
(*                                                                         *)
(* What a session is about to commit is computed from balances that it     *)
(* read; it is right as long as nobody else commits to the same row.  That *)
(* is why the invariant relates the session's uncommitted work to the      *)
(* committed balance and to the lock: SessionInv(s) says that whoever has  *)
(* written a user's row owns its lock, and that a request which owns it    *)
(* works with the committed balance plus its own rows.                     *)
(***************************************************************************)
EXTENDS Billing, SequenceTheorems, Sums, TLAPS

\* The session has written nothing yet, or nothing any more.
Clean(s) == work[s].rows = <<>> /\ work[s].logs = {}

\* Nothing of the session is committed.
Unbooked(s) == transactions[s] = <<>> /\ (s \in Requests => usage_logs[s] = {})

\* Who has written its user's row owns the row's lock.
Guarded(s) == work[s].rows # <<>> => lock[LockOf[Owner[s]]] = s

\* What a session would commit is no debt.
Solvent(s) == pc[s] = "read" \/ work[s].rows # <<>> => work[s].bal >= 0

\* A request's version of the balance is the committed one and its own rows, which
\* take credits and never add any.
Fresh(r) ==
    work[r].rows # <<>> =>
        /\ work[r].bal = credit_balance[Owner[r]] + Net(work[r].rows)
        /\ Net(work[r].rows) <= 0

\* A request that waits for upstream has its hold and nothing else.
Held(r) ==
    pc[r] = "upstream" =>
        /\ Len(work[r].rows) = 1
        /\ Net(work[r].rows) = -estimated_cost[r]
        /\ work[r].logs = {}

\* The usage that a request is about to log is what its rows charge.
Settles(r) ==
    \A l \in work[r].logs :
        -Net(work[r].rows) = Lesser(estimated_cost[r], l.credits_consumed)

SessionInv(s) ==
    /\ pc[s] \in {"start", "authenticated", "opened", "read", "answering", "done"} => Clean(s)
    /\ pc[s] \notin {"answering", "done"} => Unbooked(s)
    /\ Guarded(s)
    /\ Solvent(s)
    /\ s \in Requests => Fresh(s) /\ Held(s) /\ Settles(s)

\* The inductive invariant.
IInv ==
    /\ TypeOK
    /\ NoOverdraft
    /\ SettledCharge
    /\ \A s \in Sessions : SessionInv(s)

-----------------------------------------------------------------------------
(***************************************************************************)
(* Rows.                                                                   *)
(***************************************************************************)
Work == [bal : Int, rows : Seq(Transaction), logs : SUBSET UsageLog]
TransactionType == {"consumption", "refund", "admin_adjust"}

\* The first row of a session: the hold of a request or an administrator's amount.
LEMMA FirstMove ==
    ASSUME NEW bal, bal \in Int, NEW type \in TransactionType, NEW amount, amount \in Int
    PROVE  /\ Moved(bal, <<>>, type, amount) \in Work
           /\ Moved(bal, <<>>, type, amount).bal = bal + amount
           /\ Moved(bal, <<>>, type, amount).logs = {}
           /\ Moved(bal, <<>>, type, amount).rows # <<>>
           /\ Len(Moved(bal, <<>>, type, amount).rows) = 1
           /\ Net(Moved(bal, <<>>, type, amount).rows) = amount
<1> DEFINE row == [type |-> type, amount |-> amount, balance_after |-> bal + amount]
<1>1. row \in Transaction
  BY DEF Transaction, TransactionType
<1>2. /\ Append(<<>>, row) \in Seq(Transaction)
      /\ Len(Append(<<>>, row)) = 1
      /\ Append(<<>>, row)[1] = row
      /\ Append(<<>>, row) # <<>>
  BY <1>1
<1>3. Net(Append(<<>>, row)) = amount
  BY <1>2 DEF Net
<1> QED
  BY <1>1, <1>2, <1>3 DEF Moved, Work

LEMMA OneIsNotEmpty ==
    ASSUME NEW S, NEW rows \in Seq(S), Len(rows) = 1
    PROVE  rows # <<>>
  OBVIOUS

\* A sequence of one element and the one that follows it.
LEMMA AppendToOne ==
    ASSUME NEW S, NEW rows \in Seq(S), Len(rows) = 1, NEW row \in S
    PROVE  /\ Append(rows, row) \in Seq(S)
           /\ Len(Append(rows, row)) = 2
           /\ Append(rows, row)[1] = rows[1]
           /\ Append(rows, row)[2] = row
           /\ Append(rows, row) # <<>>
<1>1. /\ Append(rows, row) \in Seq(S)
      /\ Append(rows, row) # <<>>
      /\ Len(Append(rows, row)) = Len(rows) + 1
      /\ \A i \in 1 .. Len(rows) : Append(rows, row)[i] = rows[i]
      /\ Append(rows, row)[Len(rows) + 1] = row
  BY AppendProperties
<1> QED
  BY <1>1

\* The second row of a session: the refund after a hold.
LEMMA SecondMove ==
    ASSUME NEW bal, bal \in Int, NEW rows \in Seq(Transaction), Len(rows) = 1,
           NEW type \in TransactionType, NEW amount, amount \in Int
    PROVE  /\ Moved(bal, rows, type, amount) \in Work
           /\ Moved(bal, rows, type, amount).bal = bal + amount
           /\ Moved(bal, rows, type, amount).logs = {}
           /\ Moved(bal, rows, type, amount).rows # <<>>
           /\ Net(Moved(bal, rows, type, amount).rows) = Net(rows) + amount
<1> DEFINE row == [type |-> type, amount |-> amount, balance_after |-> bal + amount]
<1>1. row \in Transaction
  BY DEF Transaction, TransactionType
<1>2. rows[1] \in Transaction
  OBVIOUS
<1>3. /\ Append(rows, row) \in Seq(Transaction)
      /\ Len(Append(rows, row)) = 2
      /\ Append(rows, row)[1] = rows[1]
      /\ Append(rows, row)[2] = row
      /\ Append(rows, row) # <<>>
  BY <1>1, AppendToOne
<1>4. Net(rows) = rows[1].amount
  BY <1>2 DEF Net, Transaction
<1>5. Net(Append(rows, row)) = rows[1].amount + amount
  BY <1>3 DEF Net
<1> QED
  BY <1>1, <1>3, <1>4, <1>5 DEF Moved, Work

\* What rows add up to is an integer.
LEMMA NetType ==
    ASSUME NEW rows \in Seq(Transaction)
    PROVE  Net(rows) \in Int
<1>1. \A i \in 1 .. Len(rows) : rows[i] \in Transaction
  OBVIOUS
<1>2. \A i \in 1 .. Len(rows) : rows[i].amount \in Int
  BY <1>1 DEF Transaction
<1>3. Len(rows) \in Nat
  OBVIOUS
<1> QED
  BY <1>2, <1>3 DEF Net

\* Logging adds a usage log and leaves rows and balance alone.
LEMMA LoggedWork ==
    ASSUME NEW w \in Work, NEW credits \in Nat, NEW status \in {"success", "error"}
    PROVE  /\ Logged(w, credits, status) \in Work
           /\ Logged(w, credits, status).bal = w.bal
           /\ Logged(w, credits, status).rows = w.rows
           /\ Logged(w, credits, status).logs =
                 {[credits_consumed |-> credits, status |-> status]}
  BY DEF Logged, Work, UsageLog

\* Settling a hold leaves the request with rows that charge the cost of its usage, or
\* what it held where the usage costs more.
LEMMA SettledWork ==
    ASSUME NEW r \in Requests, NEW actual \in Nat, work[r] \in Work,
           estimated_cost[r] \in Nat, work[r].bal >= 0,
           Len(work[r].rows) = 1, Net(work[r].rows) = -estimated_cost[r]
    PROVE  /\ Settled(r, actual) \in Work
           /\ Settled(r, actual).rows # <<>>
           /\ Net(Settled(r, actual).rows) = -Lesser(estimated_cost[r], actual)
           /\ Settled(r, actual).bal =
                 work[r].bal + estimated_cost[r] + Net(Settled(r, actual).rows)
           /\ Settled(r, actual).bal >= 0
<1> DEFINE delta == estimated_cost[r] - actual
           w == Moved(work[r].bal, work[r].rows, "refund", delta)
<1>1. work[r].bal \in Int /\ work[r].rows \in Seq(Transaction) /\ delta \in Int
  BY DEF Work
<1>2. CASE delta > 0
  <2>1. "refund" \in TransactionType
    BY DEF TransactionType
  <2> HIDE DEF delta
  <2>2. /\ w \in Work
        /\ w.bal = work[r].bal + delta
        /\ w.rows # <<>>
        /\ Net(w.rows) = Net(work[r].rows) + delta
    BY <1>1, <2>1, SecondMove
  <2> USE DEF delta
  <2>3. Settled(r, actual) = w
    BY <1>2 DEF Settled
  <2>4. Lesser(estimated_cost[r], actual) = actual
    BY <1>2 DEF Lesser
  <2> HIDE DEF w
  <2> QED
    BY <1>1, <1>2, <2>2, <2>3, <2>4
<1>3. CASE ~(delta > 0)
  <2>1. work[r].rows # <<>>
    BY <1>1, OneIsNotEmpty
  <2> QED
    BY <1>1, <1>3, <2>1 DEF Settled, Lesser
<1> QED
  BY <1>2, <1>3

-----------------------------------------------------------------------------
(***************************************************************************)
(* What a step of one session leaves alone.                                *)
(***************************************************************************)
\* A session whose own state, lock and user's balance stay keeps its invariant.
LEMMA Frame ==
    ASSUME NEW x \in Sessions, SessionInv(x),
           pc'[x] = pc[x], work'[x] = work[x], transactions'[x] = transactions[x],
           x \in Requests => usage_logs'[x] = usage_logs[x] /\ estimated_cost'[x] = estimated_cost[x],
           work[x].rows # <<>> =>
               /\ lock'[LockOf[Owner[x]]] = x
               /\ credit_balance'[Owner[x]] = credit_balance[Owner[x]]
    PROVE  SessionInv(x)'
<1>1. /\ (pc[x] \in {"start", "authenticated", "opened", "read", "answering", "done"} => Clean(x))'
      /\ (pc[x] \notin {"answering", "done"} => Unbooked(x))'
  BY DEF SessionInv, Clean, Unbooked
<1>2. Guarded(x)' /\ Solvent(x)'
  BY DEF SessionInv, Guarded, Solvent
<1>3. x \in Requests => Fresh(x)' /\ Held(x)' /\ Settles(x)'
  BY DEF SessionInv, Fresh, Held, Settles
<1> QED
  BY <1>1, <1>2, <1>3 DEF SessionInv

\* A step of session s keeps the invariant if it takes nothing from another session:
\* neither its lock nor, while it works with it, its user's balance.
LEMMA OneSession ==
    ASSUME IInv, NEW s \in Sessions,
           \A x \in Sessions \ {s} :
              /\ pc'[x] = pc[x] /\ work'[x] = work[x] /\ transactions'[x] = transactions[x]
              /\ x \in Requests => usage_logs'[x] = usage_logs[x] /\ estimated_cost'[x] = estimated_cost[x]
              /\ work[x].rows # <<>> =>
                    /\ lock'[LockOf[Owner[x]]] = x
                    /\ credit_balance'[Owner[x]] = credit_balance[Owner[x]],
           TypeOK', NoOverdraft', SettledCharge', SessionInv(s)'
    PROVE  IInv'
<1>1. ASSUME NEW x \in Sessions PROVE SessionInv(x)'
  <2>1. CASE x = s
    BY <2>1
  <2>2. CASE x # s
    <3>1. SessionInv(x)
      BY DEF IInv
    <3> QED
      BY <2>2, <3>1, Frame
  <2> QED
    BY <2>1, <2>2
<1> QED
  BY <1>1 DEF IInv

\* Taking a free lock takes it from nobody.
LEMMA Locking ==
    ASSUME TypeOK, NEW s \in Sessions, NEW row \in Users \cup Keys,
           CanLock(s, row), lock' = Locked(s, row)
    PROVE  /\ lock' \in [Locks -> Sessions \cup {NoSession}]
           /\ lock'[LockOf[row]] = s
           /\ \A x \in Sessions : \A l \in Locks : lock[l] = x => lock'[l] = x
  BY BillingAssumption DEF TypeOK, CanLock, Locked

\* Releasing a session's locks takes none from another one.
LEMMA Releasing ==
    ASSUME TypeOK, NEW s \in Sessions, lock' = Released(s)
    PROVE  /\ lock' \in [Locks -> Sessions \cup {NoSession}]
           /\ \A x \in Sessions \ {s} : \A l \in Locks : lock[l] = x => lock'[l] = x
  BY DEF TypeOK, Released

\* The lock of a session's user is a lock.
LEMMA LockType ==
    ASSUME NEW s \in Sessions
    PROVE  /\ Owner[s] \in Users
           /\ LockOf[Owner[s]] \in Locks
           /\ s \in Requests => KeyOf[s] \in Users \cup Keys
  BY BillingAssumption

\* A request writes the row of its key first, and everybody that of the user later.
LEMMA RowOrder ==
    ASSUME NEW s \in Sessions
    PROVE  /\ pc[s] = "start" => NextRow(s) = KeyOf[s]
           /\ pc[s] # "start" => NextRow(s) = Owner[s]
           /\ s \in Requests \/ pc[s] # "start" => NextRow(s) \in Users \cup Keys
  BY LockType DEF NextRow

\* A step that changes where a session is, and perhaps its locks, keeps the invariant
\* if it loses no lock of a session that has written.
LEMMA Going ==
    ASSUME IInv, NEW s \in Sessions, pc[s] \notin {"answering", "done"},
           NEW next \in {"authenticated", "opened", "returning", "raising", "abandoned"},
           next \in {"authenticated", "opened"} => Clean(s),
           pc' = [pc EXCEPT ![s] = next],
           answer' \in [Sessions -> {"none", "served", "refused", "error", "lost"}],
           UNCHANGED <<tables, work, estimated_cost>>,
           lock' \in [Locks -> Sessions \cup {NoSession}],
           \A x \in Sessions : work[x].rows # <<>> =>
               \A l \in Locks : lock[l] = x => lock'[l] = x
    PROVE  IInv'
<1>1. TypeOK'
  BY DEF IInv, TypeOK, tables, PCs
<1>2. NoOverdraft' /\ SettledCharge'
  BY DEF IInv, NoOverdraft, SettledCharge, tables
<1>3. \A x \in Sessions : work[x].rows # <<>> => lock'[LockOf[Owner[x]]] = x
  BY LockType DEF IInv, SessionInv, Guarded
<1>4. SessionInv(s)'
  <2>1. pc'[s] = next
    BY DEF IInv, TypeOK
  <2>2. (pc[s] \in {"start", "authenticated", "opened", "read", "answering", "done"} => Clean(s))'
    BY <2>1 DEF Clean
  <2>3. (pc[s] \notin {"answering", "done"} => Unbooked(s))'
    BY DEF IInv, SessionInv, Unbooked, tables
  <2>4. Guarded(s)' /\ Solvent(s)'
    BY <1>3, <2>1 DEF IInv, SessionInv, Guarded, Solvent
  <2>5. s \in Requests => Fresh(s)' /\ Held(s)' /\ Settles(s)'
    BY <2>1 DEF IInv, SessionInv, Fresh, Held, Settles, tables
  <2> QED
    BY <2>2, <2>3, <2>4, <2>5 DEF SessionInv
<1>5. \A x \in Sessions \ {s} : pc'[x] = pc[x]
  BY DEF IInv, TypeOK
<1> QED
  BY <1>1, <1>2, <1>3, <1>4, <1>5, OneSession DEF tables

\* A step that only changes the uncommitted work of one session keeps the invariant if
\* that work is solvent, guarded by the user's lock and, for a request, based on the
\* committed balance.
LEMMA Writing ==
    ASSUME IInv, NEW s \in Sessions, pc[s] \notin {"answering", "done"}, NEW w \in Work,
           NEW next \in {"read", "upstream", "returning", "abandoned"},
           pc' = [pc EXCEPT ![s] = next],
           work' = [work EXCEPT ![s] = w],
           UNCHANGED tables,
           answer' \in [Sessions -> {"none", "served", "refused", "error", "lost"}],
           estimated_cost' \in [Requests -> Nat],
           \A x \in Requests \ {s} : estimated_cost'[x] = estimated_cost[x],
           lock' \in [Locks -> Sessions \cup {NoSession}],
           \A x \in Sessions : \A l \in Locks : lock[l] = x => lock'[l] = x,
           next = "read" => w.rows = <<>> /\ w.logs = {},
           w.rows # <<>> => lock'[LockOf[Owner[s]]] = s,
           next = "read" \/ w.rows # <<>> => w.bal >= 0,
           s \in Requests =>
               /\ w.rows # <<>> => w.bal = credit_balance[Owner[s]] + Net(w.rows) /\ Net(w.rows) <= 0
               /\ next = "upstream" =>
                     Len(w.rows) = 1 /\ Net(w.rows) = -estimated_cost'[s] /\ w.logs = {}
               /\ \A l \in w.logs : -Net(w.rows) = Lesser(estimated_cost'[s], l.credits_consumed)
    PROVE  IInv'
<1>1. work'[s] = w /\ pc'[s] = next
  BY DEF IInv, TypeOK
<1>2. TypeOK'
  BY DEF IInv, TypeOK, tables, PCs, Work
<1>3. NoOverdraft'
  BY DEF IInv, NoOverdraft, tables
<1>4. Unbooked(s)
  BY DEF IInv, SessionInv
<1>5. SettledCharge'
  <2>1. ASSUME NEW r \in Requests, NEW l \in usage_logs[r]
        PROVE  estimated_cost'[r] = estimated_cost[r]
    BY <1>4 DEF Unbooked
  <2> QED
    BY <2>1 DEF IInv, SettledCharge, tables
<1>6. \A x \in Sessions \ {s} : work[x].rows # <<>> => lock'[LockOf[Owner[x]]] = x
  BY LockType DEF IInv, SessionInv, Guarded
<1>7. SessionInv(s)'
  <2>1. (pc[s] \in {"start", "authenticated", "opened", "read", "answering", "done"} => Clean(s))'
    BY <1>1 DEF Clean
  <2>2. (pc[s] \notin {"answering", "done"} => Unbooked(s))'
    BY <1>4 DEF Unbooked, tables
  <2>3. Guarded(s)' /\ Solvent(s)'
    BY <1>1 DEF Guarded, Solvent
  <2>4. s \in Requests => Fresh(s)' /\ Held(s)' /\ Settles(s)'
    BY <1>1 DEF Fresh, Held, Settles, tables
  <2> QED
    BY <2>1, <2>2, <2>3, <2>4 DEF SessionInv
<1>8. \A x \in Sessions \ {s} : pc'[x] = pc[x] /\ work'[x] = work[x]
  BY DEF IInv, TypeOK
<1> QED
  BY <1>2, <1>3, <1>5, <1>6, <1>7, <1>8, OneSession DEF tables

\* A session that ends without committing keeps the invariant.
LEMMA Ending ==
    ASSUME IInv, NEW s \in Sessions, NEW next \in {"answering", "done"}, Close(s, next),
           pc[s] \notin {"answering", "done"} \/ next = "done",
           answer' \in [Sessions -> {"none", "served", "refused", "error", "lost"}],
           UNCHANGED <<tables, estimated_cost>>
    PROVE  IInv'
<1>1. work'[s] = NoWork /\ pc'[s] = next
  BY DEF IInv, TypeOK, Close
<1>2. NoWork \in Work
  BY DEF NoWork, Work
<1>3. TypeOK'
  BY <1>2, Releasing DEF IInv, TypeOK, tables, PCs, Work, Close
<1>4. NoOverdraft' /\ SettledCharge'
  BY DEF IInv, NoOverdraft, SettledCharge, tables
<1>5. SessionInv(s)'
  BY <1>1 DEF SessionInv, Clean, Guarded, Solvent, Fresh, Held, Settles, NoWork
<1>6. ASSUME NEW x \in Sessions \ {s}
      PROVE  /\ pc'[x] = pc[x] /\ work'[x] = work[x]
             /\ work[x].rows # <<>> => lock'[LockOf[Owner[x]]] = x
  BY LockType, Releasing DEF IInv, TypeOK, SessionInv, Guarded, Close
<1> QED
  BY <1>3, <1>4, <1>5, <1>6, OneSession DEF tables

-----------------------------------------------------------------------------
(***************************************************************************)
(* The invariant holds initially and every step keeps it.                  *)
(***************************************************************************)
LEMMA InitInv == Init => IInv
<1> SUFFICES ASSUME Init PROVE IInv
  OBVIOUS
<1>1. NoWork \in Work /\ NoWork.rows = <<>> /\ NoWork.logs = {}
  BY DEF NoWork, Work
<1>2. <<>> \in Seq(Transaction)
  OBVIOUS
<1>3. TypeOK
  BY <1>1, <1>2, BillingAssumption DEF Init, TypeOK, PCs, Work
<1>4. NoOverdraft
  BY BillingAssumption DEF Init, NoOverdraft
<1>5. SettledCharge
  BY DEF Init, SettledCharge
<1>6. ASSUME NEW s \in Sessions PROVE SessionInv(s)
  BY <1>1 DEF Init, SessionInv, Clean, Unbooked, Guarded, Solvent, Fresh, Held, Settles
<1> QED
  BY <1>3, <1>4, <1>5, <1>6 DEF IInv

\* The steps of a request up to its hold, and those that only end its handler.
LEMMA GoingSteps ==
    ASSUME IInv, NEW r \in Requests,
           \/ Authenticate(r) \/ Reject(r) \/ Refuse(r) \/ OpenStream(r) \/ RefuseStream(r)
           \/ Decline(r) \/ Raise(r) \/ Disconnect(r)
    PROVE  IInv'
<1>1. r \in Sessions /\ TypeOK
  BY DEF Sessions, IInv
<1>2. NextRow(r) \in Users \cup Keys
  BY <1>1, RowOrder
<1>3. lock \in [Locks -> Sessions \cup {NoSession}]
  BY <1>1 DEF TypeOK
<1>4. pc[r] \in {"start", "authenticated", "opened"} => Clean(r)
  BY <1>1 DEF IInv, SessionInv
<1>5. answer \in [Sessions -> {"none", "served", "refused", "error", "lost"}]
  BY <1>1 DEF TypeOK
<1>6. CASE Authenticate(r)
  BY <1>1, <1>2, <1>4, <1>5, <1>6, Locking, Going DEF Authenticate
<1>7. CASE Reject(r)
  BY <1>1, <1>3, <1>5, <1>7, Going DEF Reject, Leave
<1>8. CASE Refuse(r)
  BY <1>1, <1>3, <1>5, <1>8, Going DEF Refuse, Leave
<1>9. CASE OpenStream(r)
  <2>1. Clean(r) /\ pc[r] \notin {"answering", "done"}
    BY <1>4, <1>9 DEF OpenStream
  <2>2. lock' \in [Locks -> Sessions \cup {NoSession}]
    BY <1>1, <1>9, Releasing DEF OpenStream
  <2>3. \A x \in Sessions : work[x].rows # <<>> =>
            \A l \in Locks : lock[l] = x => lock'[l] = x
    BY <1>1, <1>9, <2>1, Releasing DEF OpenStream, Clean
  <2> QED
    BY <1>1, <1>5, <1>9, <2>1, <2>2, <2>3, Going DEF OpenStream
<1>10. CASE RefuseStream(r)
  BY <1>1, <1>3, <1>5, <1>10, Going DEF RefuseStream, Leave, AfterRaise
<1>11. CASE Decline(r)
  BY <1>1, <1>2, <1>5, <1>11, Locking, Going DEF Decline, Leave, Ready, AfterReturn
<1>12. CASE Raise(r)
  BY <1>1, <1>3, <1>5, <1>12, Going DEF Raise, Leave, AfterRaise
<1>13. CASE Disconnect(r)
  BY <1>1, <1>3, <1>5, <1>13, Going DEF Disconnect, Leave
<1> QED
  BY <1>6, <1>7, <1>8, <1>9, <1>10, <1>11, <1>12, <1>13

LEMMA HoldStep == ASSUME IInv, NEW r \in Requests, Hold(r) PROVE IInv'
<1>1. r \in Sessions /\ TypeOK /\ NoOverdraft
  BY DEF Sessions, IInv
<1>2. Owner[r] \in Users
  BY <1>1, LockType
<1>3. credit_balance[Owner[r]] \in Int
  BY <1>1, <1>2 DEF TypeOK
<1>4. PICK cost \in Estimates :
         /\ Affords(Owner[r], cost)
         /\ work' = [work EXCEPT ![r] = Moved(credit_balance[Owner[r]], <<>>, "consumption", -cost)]
         /\ estimated_cost' = [estimated_cost EXCEPT ![r] = cost]
  BY DEF Hold
<1>5. cost \in Nat /\ -cost \in Int
  BY BillingAssumption
<1> DEFINE w == Moved(credit_balance[Owner[r]], <<>>, "consumption", -cost)
<1>6. "consumption" \in TransactionType
  BY DEF TransactionType
<1>7. /\ w \in Work
      /\ w.bal = credit_balance[Owner[r]] + -cost
      /\ w.logs = {}
      /\ w.rows # <<>>
      /\ Len(w.rows) = 1
      /\ Net(w.rows) = -cost
  BY <1>3, <1>5, <1>6, FirstMove
<1>8. work' = [work EXCEPT ![r] = w]
  BY <1>4
<1> HIDE DEF w
<1>9. /\ lock' \in [Locks -> Sessions \cup {NoSession}]
      /\ lock'[LockOf[Owner[r]]] = r
      /\ \A x \in Sessions : \A l \in Locks : lock[l] = x => lock'[l] = x
  <2>1. NextRow(r) = Owner[r]
    BY <1>1, RowOrder DEF Hold, Ready
  <2> QED
    BY <1>1, <1>2, <2>1, Locking DEF Hold
<1>10. /\ estimated_cost' \in [Requests -> Nat]
       /\ estimated_cost'[r] = cost
       /\ \A x \in Requests \ {r} : estimated_cost'[x] = estimated_cost[x]
  BY <1>1, <1>4, <1>5 DEF TypeOK
<1>11. w.bal >= 0 /\ w.bal = credit_balance[Owner[r]] + Net(w.rows) /\ Net(w.rows) <= 0
  BY <1>3, <1>4, <1>5, <1>7 DEF Affords
<1>12. /\ pc[r] \notin {"answering", "done"}
       /\ pc' = [pc EXCEPT ![r] = "upstream"]
       /\ UNCHANGED tables
       /\ answer' \in [Sessions -> {"none", "served", "refused", "error", "lost"}]
  BY <1>1 DEF Hold, Ready, TypeOK
<1> QED
  BY <1>1, <1>7, <1>8, <1>9, <1>10, <1>11, <1>12, Writing

\* A request that waits for upstream is all that its hold made it.
LEMMA Upstream ==
    ASSUME IInv, NEW r \in Requests, pc[r] = "upstream"
    PROVE  /\ work[r] \in Work /\ estimated_cost[r] \in Nat
           /\ Len(work[r].rows) = 1 /\ Net(work[r].rows) = -estimated_cost[r]
           /\ work[r].bal >= 0
           /\ work[r].bal = credit_balance[Owner[r]] - estimated_cost[r]
           /\ credit_balance[Owner[r]] \in Int
           /\ lock[LockOf[Owner[r]]] = r
<1>1. r \in Sessions /\ TypeOK /\ SessionInv(r)
  BY DEF Sessions, IInv
<1>2. work[r] \in Work /\ estimated_cost[r] \in Nat /\ credit_balance[Owner[r]] \in Int
  BY <1>1, LockType DEF TypeOK, Work
<1>3. Len(work[r].rows) = 1 /\ Net(work[r].rows) = -estimated_cost[r]
  BY <1>1 DEF SessionInv, Held
<1>4. work[r].rows \in Seq(Transaction)
  BY <1>2 DEF Work
<1>5. work[r].rows # <<>>
  BY <1>3, <1>4, OneIsNotEmpty
<1>6. /\ work[r].bal = credit_balance[Owner[r]] + Net(work[r].rows)
      /\ work[r].bal >= 0
      /\ lock[LockOf[Owner[r]]] = r
  BY <1>1, <1>5 DEF SessionInv, Fresh, Solvent, Guarded
<1> QED
  BY <1>2, <1>3, <1>6

\* A request whose usage is settled and logged is ready to be committed.
LEMMA Settling ==
    ASSUME IInv, NEW r \in Requests, pc[r] = "upstream",
           NEW actual \in Nat, NEW status \in {"success", "error"},
           work' = [work EXCEPT ![r] = Logged(Settled(r, actual), actual, status)],
           NEW reply \in {"served", "error"}, Leave(r, AfterReturn(r), reply),
           UNCHANGED <<tables, lock, estimated_cost>>
    PROVE  IInv'
<1>1. r \in Sessions /\ TypeOK
  BY DEF Sessions, IInv
<1>2. /\ Settled(r, actual) \in Work
      /\ Settled(r, actual).rows # <<>>
      /\ Net(Settled(r, actual).rows) = -Lesser(estimated_cost[r], actual)
      /\ Settled(r, actual).bal =
            work[r].bal + estimated_cost[r] + Net(Settled(r, actual).rows)
      /\ Settled(r, actual).bal >= 0
  BY Upstream, SettledWork
<1> DEFINE w == Logged(Settled(r, actual), actual, status)
<1>3. /\ w \in Work
      /\ w.bal = Settled(r, actual).bal
      /\ w.rows = Settled(r, actual).rows
      /\ w.logs = {[credits_consumed |-> actual, status |-> status]}
  BY <1>2, LoggedWork
<1>4. work' = [work EXCEPT ![r] = w]
  OBVIOUS
<1> HIDE DEF w
<1>5. \A l \in w.logs : l.credits_consumed = actual
  BY <1>3
<1>6. Lesser(estimated_cost[r], actual) \in Nat
  BY Upstream DEF Lesser
<1>7. /\ w.rows # <<>> /\ Net(w.rows) <= 0 /\ w.bal >= 0
      /\ w.bal = credit_balance[Owner[r]] + Net(w.rows)
      /\ \A l \in w.logs : -Net(w.rows) = Lesser(estimated_cost'[r], l.credits_consumed)
  <2>1. work[r].bal = credit_balance[Owner[r]] - estimated_cost[r]
        /\ credit_balance[Owner[r]] \in Int /\ estimated_cost[r] \in Nat
    BY Upstream
  <2> QED
    BY <1>2, <1>3, <1>5, <1>6, <2>1
<1>8. lock'[LockOf[Owner[r]]] = r
  BY Upstream
<1>9. /\ answer' \in [Sessions -> {"none", "served", "refused", "error", "lost"}]
      /\ estimated_cost' \in [Requests -> Nat]
      /\ lock' \in [Locks -> Sessions \cup {NoSession}]
  BY <1>1 DEF TypeOK, Leave
<1>10. pc' = [pc EXCEPT ![r] = AfterReturn(r)] /\ AfterReturn(r) \in {"returning", "abandoned"}
  BY DEF Leave, AfterReturn
<1> QED
  BY <1>1, <1>3, <1>4, <1>7, <1>8, <1>9, <1>10, Writing

LEMMA ServeStep == ASSUME IInv, NEW r \in Requests, Serve(r) PROVE IInv'
<1>1. PICK reported \in Actuals :
         LET actual == IF r \in Embeds /\ reported = 0 THEN estimated_cost[r] ELSE reported
         IN  work' = [work EXCEPT ![r] = Logged(Settled(r, actual), actual, "success")]
  BY DEF Serve
<1> DEFINE actual == IF r \in Embeds /\ reported = 0 THEN estimated_cost[r] ELSE reported
<1>2. pc[r] = "upstream"
  BY DEF Serve
<1>3. actual \in Nat
  BY <1>2, Upstream, BillingAssumption
<1>4. work' = [work EXCEPT ![r] = Logged(Settled(r, actual), actual, "success")]
  BY <1>1
<1> HIDE DEF actual
<1> QED
  BY <1>2, <1>3, <1>4, Settling DEF Serve

LEMMA FailChatStep == ASSUME IInv, NEW r \in Requests, FailChat(r) PROVE IInv'
<1>1. PICK status \in {"success", "error"} :
         work' = [work EXCEPT ![r] = Logged(Settled(r, 0), 0, status)]
  BY DEF FailChat
<1>2. 0 \in Nat /\ "error" \in {"served", "error"}
  OBVIOUS
<1>3. /\ pc[r] = "upstream"
      /\ Leave(r, AfterReturn(r), "error")
      /\ UNCHANGED <<tables, lock, estimated_cost>>
  BY DEF FailChat
<1> QED
  BY <1>1, <1>2, <1>3, Settling

LEMMA FailEmbeddingStep == ASSUME IInv, NEW r \in Requests, FailEmbedding(r) PROVE IInv'
<1>1. r \in Sessions /\ TypeOK /\ pc[r] = "upstream"
  BY DEF Sessions, IInv, FailEmbedding
<1> DEFINE m == Moved(work[r].bal, work[r].rows, "refund", estimated_cost[r])
           w == Logged(m, 0, "error")
<1>2. /\ work[r].bal \in Int /\ work[r].rows \in Seq(Transaction) /\ Len(work[r].rows) = 1
      /\ estimated_cost[r] \in Int /\ "refund" \in TransactionType
  BY <1>1, Upstream DEF Work, TransactionType
<1>3. /\ m \in Work
      /\ m.bal = work[r].bal + estimated_cost[r]
      /\ m.rows # <<>>
      /\ Net(m.rows) = Net(work[r].rows) + estimated_cost[r]
  BY <1>2, SecondMove
<1>4. work' = [work EXCEPT ![r] = w]
  BY <1>1 DEF FailEmbedding, TypeOK
<1> HIDE DEF m
<1>5. w \in Work /\ w.bal = m.bal /\ w.rows = m.rows
      /\ w.logs = {[credits_consumed |-> 0, status |-> "error"]}
  BY <1>3, LoggedWork
<1> HIDE DEF w
<1>6. /\ w.rows # <<>> /\ Net(w.rows) = 0 /\ w.bal >= 0
      /\ w.bal = credit_balance[Owner[r]] + Net(w.rows)
  BY <1>1, <1>3, <1>5, Upstream
<1>7. \A l \in w.logs : -Net(w.rows) = Lesser(estimated_cost'[r], l.credits_consumed)
  BY <1>1, <1>5, <1>6, Upstream DEF Lesser, FailEmbedding
<1>8. /\ lock'[LockOf[Owner[r]]] = r
      /\ \A x \in Sessions : \A l \in Locks : lock[l] = x => lock'[l] = x
      /\ UNCHANGED tables
      /\ \A x \in Requests \ {r} : estimated_cost'[x] = estimated_cost[x]
      /\ pc[r] \notin {"answering", "done"}
      /\ Net(w.rows) <= 0
  BY <1>1, <1>6, Upstream DEF FailEmbedding
<1>9. /\ answer' \in [Sessions -> {"none", "served", "refused", "error", "lost"}]
      /\ estimated_cost' \in [Requests -> Nat]
      /\ lock' \in [Locks -> Sessions \cup {NoSession}]
  BY <1>1 DEF TypeOK, Leave, FailEmbedding
<1>10. pc' = [pc EXCEPT ![r] = AfterReturn(r)] /\ AfterReturn(r) \in {"returning", "abandoned"}
  BY DEF Leave, AfterReturn, FailEmbedding
<1> QED
  BY <1>1, <1>4, <1>5, <1>6, <1>7, <1>8, <1>9, <1>10, Writing

LEMMA ReadBalanceStep == ASSUME IInv, NEW t \in TopUps, ReadBalance(t) PROVE IInv'
<1>1. t \in Sessions /\ TypeOK /\ NoOverdraft /\ t \notin Requests
  BY BillingAssumption DEF Sessions, IInv
<1> DEFINE w == [work[t] EXCEPT !.bal = credit_balance[Owner[t]]]
<1>2. work[t] \in Work /\ Clean(t) /\ credit_balance[Owner[t]] \in Int /\ credit_balance[Owner[t]] >= 0
  BY <1>1, LockType DEF TypeOK, Work, IInv, SessionInv, ReadBalance, NoOverdraft
<1>3. w \in Work /\ w.rows = <<>> /\ w.logs = {} /\ w.bal >= 0
  BY <1>2 DEF Work, Clean
<1>4. work' = [work EXCEPT ![t] = w]
  BY <1>1 DEF ReadBalance
<1> HIDE DEF w
<1>5. /\ answer' \in [Sessions -> {"none", "served", "refused", "error", "lost"}]
      /\ estimated_cost' \in [Requests -> Nat]
      /\ lock' \in [Locks -> Sessions \cup {NoSession}]
  BY <1>1 DEF TypeOK, ReadBalance
<1> QED
  BY <1>1, <1>3, <1>4, <1>5, Writing DEF ReadBalance

LEMMA AddCreditsStep == ASSUME IInv, NEW t \in TopUps, AddCredits(t) PROVE IInv'
<1>1. t \in Sessions /\ TypeOK /\ t \notin Requests
  BY BillingAssumption DEF Sessions, IInv
<1>2. PICK amount \in Amounts :
         work' = [work EXCEPT ![t] = Moved(@.bal, <<>>, "admin_adjust", amount)]
  BY DEF AddCredits
<1> DEFINE w == Moved(work[t].bal, <<>>, "admin_adjust", amount)
<1>3. work[t].bal \in Int /\ work[t].bal >= 0 /\ amount \in Int /\ amount > 0
  BY <1>1, BillingAssumption DEF TypeOK, IInv, SessionInv, Solvent, AddCredits
<1>4. "admin_adjust" \in TransactionType
  BY DEF TransactionType
<1>5. w \in Work /\ w.bal = work[t].bal + amount
  BY <1>3, <1>4, FirstMove
<1>6. work' = [work EXCEPT ![t] = w]
  BY <1>1, <1>2 DEF TypeOK
<1> HIDE DEF w
<1>7. w.bal >= 0
  BY <1>3, <1>5
<1>8. Owner[t] \in Users \cup Keys /\ NextRow(t) = Owner[t]
  BY <1>1, LockType, RowOrder DEF AddCredits
<1>9. /\ lock' \in [Locks -> Sessions \cup {NoSession}]
      /\ lock'[LockOf[Owner[t]]] = t
      /\ \A x \in Sessions : \A l \in Locks : lock[l] = x => lock'[l] = x
  BY <1>1, <1>8, Locking DEF AddCredits
<1>10. /\ answer' \in [Sessions -> {"none", "served", "refused", "error", "lost"}]
       /\ estimated_cost' \in [Requests -> Nat]
  BY <1>1 DEF TypeOK, AddCredits, Leave
<1>11. pc' = [pc EXCEPT ![t] = AfterReturn(t)] /\ AfterReturn(t) \in {"returning", "abandoned"}
  BY DEF Leave, AfterReturn, AddCredits
<1> QED
  BY <1>1, <1>5, <1>6, <1>7, <1>9, <1>10, <1>11, Writing DEF AddCredits

LEMMA TimeOutStep == ASSUME IInv, NEW s \in Sessions, TimeOut(s) PROVE IInv'
<1>1. pc[s] \notin {"answering", "done"}
  BY DEF TimeOut, Waiting, Ready
<1>2. PICK next \in {"returning", "raising", "abandoned"} : pc' = [pc EXCEPT ![s] = next]
  BY DEF TimeOut, Leave, AfterRaise
<1>3. /\ answer' \in [Sessions -> {"none", "served", "refused", "error", "lost"}]
      /\ lock' \in [Locks -> Sessions \cup {NoSession}]
  BY DEF IInv, TypeOK, TimeOut, Leave
<1> QED
  BY <1>1, <1>2, <1>3, Going DEF TimeOut

\* A commit makes the session's version of the balance the committed one.  Whoever
\* else works with the same row owns its lock, which is this session's.
LEMMA CommitStep == ASSUME IInv, NEW s \in Sessions, Commit(s) PROVE IInv'
<1>1. TypeOK /\ NoOverdraft /\ SettledCharge /\ SessionInv(s) /\ pc[s] = "returning"
  BY DEF IInv, Commit
<1>2. answer' \in [Sessions -> {"none", "served", "refused", "error", "lost"}]
  BY <1>1 DEF TypeOK, Commit
<1>3. CASE work[s].rows = <<>>
  BY <1>2, <1>3, Ending DEF Commit
<1>4. CASE work[s].rows # <<>>
  <2>1. /\ credit_balance' = [credit_balance EXCEPT ![Owner[s]] = work[s].bal]
        /\ transactions' = [transactions EXCEPT ![s] = work[s].rows]
        /\ usage_logs' = IF s \in Requests THEN [usage_logs EXCEPT ![s] = work[s].logs]
                                            ELSE usage_logs
        /\ Close(s, "answering")
        /\ UNCHANGED <<estimated_cost, answer>>
    BY <1>4 DEF Commit
  <2>2. work[s].bal \in Int /\ work[s].bal >= 0 /\ work[s].rows \in Seq(Transaction)
        /\ work[s].logs \in SUBSET UsageLog
    BY <1>1, <1>4 DEF TypeOK, SessionInv, Solvent
  <2>3. NoWork \in Work
    BY DEF NoWork, Work
  <2>4. TypeOK'
    BY <1>1, <2>1, <2>2, <2>3, Releasing DEF TypeOK, PCs, Work, Close
  <2>5. NoOverdraft'
    BY <1>1, <2>1, <2>2, LockType DEF NoOverdraft, TypeOK
  <2>6. SettledCharge'
    <3> SUFFICES ASSUME NEW r \in Requests, NEW l \in usage_logs'[r]
                 PROVE  -Net(transactions'[r]) = Lesser(estimated_cost[r], l.credits_consumed)
      BY <2>1 DEF SettledCharge
    <3>1. r \in Sessions
      BY DEF Sessions
    <3>2. CASE r = s
      <4>1. l \in work[s].logs /\ transactions'[s] = work[s].rows
        BY <1>1, <2>1, <3>1, <3>2 DEF TypeOK
      <4> QED
        BY <1>1, <3>2, <4>1 DEF SessionInv, Settles
    <3>3. CASE r # s
      <4>1. l \in usage_logs[r] /\ transactions'[r] = transactions[r]
        BY <1>1, <2>1, <3>1, <3>3 DEF TypeOK
      <4> QED
        BY <1>1, <4>1 DEF SettledCharge
    <3> QED
      BY <3>2, <3>3
  <2>7. SessionInv(s)'
    <3>1. work'[s] = NoWork /\ pc'[s] = "answering"
      BY <1>1, <2>1 DEF TypeOK, Close
    <3> QED
      BY <3>1 DEF SessionInv, Clean, Guarded, Solvent, Fresh, Held, Settles, NoWork
  <2>8. ASSUME NEW x \in Sessions \ {s}
        PROVE  /\ pc'[x] = pc[x] /\ work'[x] = work[x] /\ transactions'[x] = transactions[x]
               /\ x \in Requests => usage_logs'[x] = usage_logs[x]
    BY <1>1, <2>1 DEF TypeOK, Close
  <2>9. ASSUME NEW x \in Sessions \ {s}, work[x].rows # <<>>
        PROVE  /\ lock'[LockOf[Owner[x]]] = x
               /\ credit_balance'[Owner[x]] = credit_balance[Owner[x]]
    <3>1. lock[LockOf[Owner[x]]] = x
      BY <2>9 DEF IInv, SessionInv, Guarded
    <3>2. lock[LockOf[Owner[s]]] = s
      BY <1>1, <1>4 DEF SessionInv, Guarded
    <3>3. Owner[x] # Owner[s]
      BY <3>1, <3>2
    <3>4. lock'[LockOf[Owner[x]]] = x
      BY <1>1, <2>1, <3>1, LockType, Releasing DEF Close
    <3> QED
      BY <1>1, <2>1, <3>3, <3>4, LockType DEF TypeOK
  <2> QED
    BY <2>1, <2>4, <2>5, <2>6, <2>7, <2>8, <2>9, OneSession
<1> QED
  BY <1>3, <1>4

LEMMA RollBackStep == ASSUME IInv, NEW s \in Sessions, RollBack(s) PROVE IInv'
<1>1. answer' \in [Sessions -> {"none", "served", "refused", "error", "lost"}]
  BY DEF IInv, TypeOK, RollBack, AnswerWithoutCommit
<1> QED
  BY <1>1, Ending DEF RollBack

LEMMA SendStep == ASSUME IInv, NEW s \in Sessions, Send(s) PROVE IInv'
<1>1. TypeOK /\ SessionInv(s) /\ pc[s] = "answering"
  BY DEF IInv, Send
<1>2. PICK reply \in {answer[s], "lost"} : Leave(s, "done", reply)
  BY DEF Send
<1>3. TypeOK'
  BY <1>1, <1>2 DEF TypeOK, Send, Leave, tables, PCs
<1>4. NoOverdraft' /\ SettledCharge'
  BY DEF IInv, NoOverdraft, SettledCharge, Send, tables
<1>5. SessionInv(s)'
  <2>1. pc'[s] = "done" /\ UNCHANGED <<tables, lock, work, estimated_cost>>
    BY <1>1, <1>2 DEF Send, Leave, TypeOK
  <2>2. Clean(s)'
    BY <1>1, <2>1 DEF SessionInv, Clean
  <2> QED
    BY <2>1, <2>2 DEF SessionInv, Clean, Guarded, Solvent, Fresh, Held, Settles
<1>6. \A x \in Sessions \ {s} :
         /\ pc'[x] = pc[x]
         /\ work[x].rows # <<>> => lock'[LockOf[Owner[x]]] = x
  BY <1>1, <1>2 DEF IInv, TypeOK, SessionInv, Guarded, Send, Leave
<1> QED
  BY <1>3, <1>4, <1>5, <1>6, OneSession DEF Send, tables

LEMMA ReclaimStep == ASSUME IInv, NEW r \in Requests, Reclaim(r) PROVE IInv'
<1>1. r \in Sessions
  BY DEF Sessions
<1>2. answer' \in [Sessions -> {"none", "served", "refused", "error", "lost"}]
  BY DEF IInv, TypeOK, Reclaim
<1> QED
  BY <1>1, <1>2, Ending DEF Reclaim

\* A crash drops the uncommitted work of every session.
LEMMA CrashStep == ASSUME IInv, Crash PROVE IInv'
<1>1. TypeOK /\ NoOverdraft /\ SettledCharge
  BY DEF IInv
<1>2. NoWork \in Work
  BY DEF NoWork, Work
<1>3. TypeOK'
  BY <1>1, <1>2 DEF Crash, TypeOK, tables, PCs, Work
<1>4. NoOverdraft' /\ SettledCharge'
  BY <1>1 DEF Crash, NoOverdraft, SettledCharge, tables
<1>5. ASSUME NEW s \in Sessions PROVE SessionInv(s)'
  <2>1. work'[s] = NoWork /\ pc'[s] \in {"start", "done"}
    BY DEF Crash
  <2>2. (pc[s] \notin {"answering", "done"} => Unbooked(s))'
    BY DEF Crash, Unbooked, tables, IInv, SessionInv
  <2> QED
    BY <2>1, <2>2 DEF SessionInv, Clean, Guarded, Solvent, Fresh, Held, Settles, NoWork
<1> QED
  BY <1>3, <1>4, <1>5 DEF IInv

LEMMA NextInv == IInv /\ [Next]_vars => IInv'
<1> SUFFICES ASSUME IInv, [Next]_vars PROVE IInv'
  OBVIOUS
<1>1. ASSUME NEW r \in Requests, RequestStep(r) \/ Disconnect(r) \/ Reclaim(r) PROVE IInv'
  <2>1. CASE \/ Authenticate(r) \/ Reject(r) \/ Refuse(r) \/ OpenStream(r) \/ RefuseStream(r)
             \/ Decline(r) \/ Raise(r) \/ Disconnect(r)
    BY <2>1, GoingSteps
  <2>2. CASE Hold(r)
    BY <2>2, HoldStep
  <2>3. CASE Serve(r)
    BY <2>3, ServeStep
  <2>4. CASE FailChat(r)
    BY <2>4, FailChatStep
  <2>5. CASE FailEmbedding(r)
    BY <2>5, FailEmbeddingStep
  <2>6. CASE Reclaim(r)
    BY <2>6, ReclaimStep
  <2> QED
    BY <1>1, <2>1, <2>2, <2>3, <2>4, <2>5, <2>6 DEF RequestStep, Refusal, Handling
<1>2. ASSUME NEW t \in TopUps, TopUpStep(t) PROVE IInv'
  BY <1>2, ReadBalanceStep, AddCreditsStep DEF TopUpStep
<1>3. ASSUME NEW s \in Sessions, SessionStep(s) PROVE IInv'
  BY <1>3, TimeOutStep, CommitStep, RollBackStep, SendStep DEF SessionStep
<1>4. CASE Crash
  BY <1>4, CrashStep
<1>5. CASE UNCHANGED vars
  <2>1. TypeOK'
    BY <1>5 DEF IInv, TypeOK, vars
  <2>2. NoOverdraft' /\ SettledCharge'
    BY <1>5 DEF IInv, NoOverdraft, SettledCharge, vars
  <2>3. ASSUME NEW s \in Sessions PROVE SessionInv(s)'
    BY <1>5 DEF IInv, SessionInv, Clean, Unbooked, Guarded, Solvent, Fresh, Held, Settles, vars
  <2> QED
    BY <2>1, <2>2, <2>3 DEF IInv
<1> QED
  BY <1>1, <1>2, <1>3, <1>4, <1>5 DEF Next, Finished

-----------------------------------------------------------------------------
(***************************************************************************)
(* Theorems.                                                               *)
(***************************************************************************)
THEOREM Inductive == Spec => []IInv
  BY InitInv, NextInv, PTL DEF Spec

\* Every reachable state has its type.
THEOREM TypeCorrect == Spec => []TypeOK
<1>1. IInv => TypeOK
  BY DEF IInv
<1> QED
  BY <1>1, Inductive, PTL

\* The conditional update of a hold, refunds that only follow a hold, and top-ups that
\* only add never let a balance go below zero, however many sessions there are.
THEOREM NeverOverdrawn == Spec => []NoOverdraft
<1>1. IInv => NoOverdraft
  BY DEF IInv
<1> QED
  BY <1>1, Inductive, PTL

\* Hold and refund of a request on record add up to its charge.
THEOREM ChargesSettle == Spec => []SettledCharge
<1>1. IInv => SettledCharge
  BY DEF IInv
<1> QED
  BY <1>1, Inductive, PTL

\* What a step may do to the transactions of a request: only its own commit adds them.
LEMMA BookedByCommit ==
    ASSUME IInv, [Next]_vars, NEW s \in Sessions, transactions'[s] # transactions[s]
    PROVE  Commit(s) /\ work[s].rows # <<>>
<1>1. ASSUME NEW x \in Sessions, Commit(x) PROVE x = s /\ work[s].rows # <<>>
  BY <1>1 DEF Commit, IInv, TypeOK, tables
<1>2. ~UNCHANGED transactions
  OBVIOUS
<1>3. \E x \in Sessions : Commit(x)
  BY <1>2 DEF Next, RequestStep, Refusal, Handling, TopUpStep, SessionStep, Authenticate, Reject, Refuse, OpenStream,
              RefuseStream, Hold, Decline, Serve, FailChat, FailEmbedding, Raise, Disconnect,
              Reclaim, ReadBalance, AddCredits, TimeOut, RollBack, Send, Crash, Finished, vars, tables
<1> QED
  BY <1>1, <1>3

\* A request's commit takes from its user's balance what its rows say, whatever other
\* sessions committed since its hold.
THEOREM CommitsAreCharges == Spec => RequestCommitsAreCharges
<1>1. IInv /\ [Next]_vars =>
        [\A r \in Requests : transactions'[r] # transactions[r] =>
            credit_balance' = [credit_balance EXCEPT ![Owner[r]] = @ + Net(transactions'[r])]]_vars
  <2> SUFFICES ASSUME IInv, [Next]_vars, NEW r \in Requests, transactions'[r] # transactions[r]
               PROVE  credit_balance' =
                        [credit_balance EXCEPT ![Owner[r]] = @ + Net(transactions'[r])]
    OBVIOUS
  <2>1. r \in Sessions /\ TypeOK /\ SessionInv(r)
    BY DEF IInv, Sessions
  <2>2. Commit(r) /\ work[r].rows # <<>>
    BY <2>1, BookedByCommit
  <2>3. /\ credit_balance' = [credit_balance EXCEPT ![Owner[r]] = work[r].bal]
        /\ transactions'[r] = work[r].rows
    BY <2>1, <2>2 DEF Commit, TypeOK
  <2>4. work[r].bal = credit_balance[Owner[r]] + Net(work[r].rows)
    BY <2>1, <2>2 DEF SessionInv, Fresh
  <2> QED
    BY <2>1, <2>3, <2>4, LockType DEF TypeOK
<1> QED
  BY <1>1, Inductive, PTL DEF Spec, RequestCommitsAreCharges

\* Balances and transactions only change by a commit of a session that has rows.
LEMMA VisibleSteps ==
    ASSUME [Next]_vars
    PROVE  \/ UNCHANGED <<credit_balance, transactions>>
           \/ \E s \in Sessions : Commit(s) /\ work[s].rows # <<>>
<1>1. CASE \E s \in Sessions : Commit(s)
  BY <1>1 DEF Commit, tables
<1>2. CASE ~ \E s \in Sessions : Commit(s)
  BY <1>2 DEF Next, RequestStep, Refusal, Handling, TopUpStep, SessionStep, Authenticate, Reject, Refuse, OpenStream,
              RefuseStream, Hold, Decline, Serve, FailChat, FailEmbedding, Raise, Disconnect,
              Reclaim, ReadBalance, AddCredits, TimeOut, RollBack, Send, Crash, Finished, vars, tables
<1> QED
  BY <1>1, <1>2

\* Without top-ups the pipeline implements the abstract account: a request's commit
\* charges it once, at most what its user owns, and every other step is invisible.
THEOREM AccountRefinement == ASSUME TopUps = {} PROVE Spec => ImplementsAccount
<1>1. Init => A!Init
  BY DEF Init, A!Init, booked, Sessions
<1>2. IInv /\ [Next]_vars => [A!Next]_(A!vars)
  <2> SUFFICES ASSUME IInv, [Next]_vars PROVE [A!Next]_(A!vars)
    OBVIOUS
  <2>1. CASE UNCHANGED <<credit_balance, transactions>>
    BY <2>1 DEF A!vars, booked
  <2>2. ASSUME NEW r \in Sessions, Commit(r), work[r].rows # <<>> PROVE A!Charge(r) /\ r \in Requests
    <3>1. r \in Requests /\ TypeOK /\ SessionInv(r) /\ pc[r] = "returning"
      BY <2>2 DEF IInv, Sessions, Commit
    <3> DEFINE c == -Net(work[r].rows)
    <3>2. /\ work[r].bal = credit_balance[Owner[r]] + Net(work[r].rows)
          /\ Net(work[r].rows) <= 0
          /\ work[r].bal >= 0
      BY <2>2, <3>1 DEF SessionInv, Fresh, Solvent
    <3>3. /\ Net(work[r].rows) \in Int
          /\ credit_balance[Owner[r]] \in Int
          /\ work[r].bal \in Int
      BY <3>1, NetType, LockType DEF TypeOK
    <3>4. c \in 0 .. credit_balance[Owner[r]] /\ work[r].bal = credit_balance[Owner[r]] - c
      BY <3>2, <3>3
    <3>5. credit_balance' = [credit_balance EXCEPT ![Owner[r]] = @ - c]
      BY <2>2, <3>1, <3>4 DEF Commit, TypeOK
    <3>6. transactions' = [transactions EXCEPT ![r] = work[r].rows]
      BY <2>2 DEF Commit
    <3>7. booked' = [booked EXCEPT ![r] = c]
      BY <2>2, <3>1, <3>6 DEF booked, TypeOK
    <3>8. booked[r] = -1
      BY <3>1 DEF booked, SessionInv, Unbooked
    <3> QED
      BY <3>1, <3>4, <3>5, <3>7, <3>8 DEF A!Charge
  <2> QED
    BY <2>1, <2>2, VisibleSteps DEF A!Next
<1> QED
  BY <1>1, <1>2, Inductive, PTL DEF Spec, ImplementsAccount, A!Spec

-----------------------------------------------------------------------------
(***************************************************************************)
(* The ledger.                                                             *)
(***************************************************************************)
Mine(u) == {s \in Sessions : Owner[s] = u}

Entries(u) == [s \in Mine(u) |-> Net(transactions[s])]

\* LedgerExplainsBalance with the sum over its domain.
LEMMA LedgerOfEntries ==
    LedgerExplainsBalance <=>
        \A u \in Users : credit_balance[u] = InitialBalance[u] + SumFunctionOnSet(Entries(u), Mine(u))
  BY DEF LedgerExplainsBalance, SumFunction, Entries, Mine

LEMMA EntryTypes ==
    ASSUME TypeOK, NEW u \in Users
    PROVE  \A s \in Mine(u) : Entries(u)[s] = Net(transactions[s]) /\ Entries(u)[s] \in Int
  BY NetType DEF TypeOK, Mine, Entries

\* Without top-ups, what a user ever had is still there or was charged to one of the
\* user's requests: no interleaving, failure or crash loses a credit.
THEOREM LedgerIsComplete ==
    ASSUME TopUps = {}, IsFiniteSet(Sessions) PROVE Spec => []LedgerExplainsBalance
<1>1. ASSUME NEW u \in Users PROVE IsFiniteSet(Mine(u))
  BY FS_Subset DEF Mine
<1>2. Init => LedgerExplainsBalance
  <2> SUFFICES ASSUME Init, NEW u \in Users
               PROVE  credit_balance[u] = InitialBalance[u] + SumFunctionOnSet(Entries(u), Mine(u))
    BY LedgerOfEntries
  <2>1. \A s \in Mine(u) : Entries(u)[s] = 0
    BY DEF Init, Entries, Mine, Net
  <2>2. SumFunctionOnSet(Entries(u), Mine(u)) = 0
    BY <1>1, <2>1, SumOfNothing
  <2> QED
    BY <2>2, BillingAssumption DEF Init
<1>3. IInv /\ LedgerExplainsBalance /\ [Next]_vars => LedgerExplainsBalance'
  <2> SUFFICES ASSUME IInv, LedgerExplainsBalance, [Next]_vars PROVE LedgerExplainsBalance'
    OBVIOUS
  <2>1. CASE UNCHANGED <<credit_balance, transactions>>
    BY <2>1 DEF LedgerExplainsBalance
  <2>2. ASSUME NEW r \in Sessions, Commit(r), work[r].rows # <<>> PROVE LedgerExplainsBalance'
    <3>1. r \in Requests /\ TypeOK /\ SessionInv(r) /\ pc[r] = "returning" /\ Owner[r] \in Users
      BY <2>2, BillingAssumption DEF IInv, Sessions, Commit
    <3>2. /\ credit_balance' = [credit_balance EXCEPT ![Owner[r]] = work[r].bal]
          /\ transactions' = [transactions EXCEPT ![r] = work[r].rows]
      BY <2>2 DEF Commit
    <3>3. work[r].bal = credit_balance[Owner[r]] + Net(work[r].rows)
      BY <2>2, <3>1 DEF SessionInv, Fresh
    <3>4. Net(transactions[r]) = 0
      BY <3>1 DEF SessionInv, Unbooked, Net
    <3>5. Net(work[r].rows) \in Int
      BY <3>1, NetType DEF TypeOK
    <3>6. ASSUME NEW u \in Users
          PROVE  credit_balance'[u] = InitialBalance[u] + SumFunctionOnSet(Entries(u)', Mine(u))
      <4> DEFINE sum == SumFunctionOnSet(Entries(u), Mine(u))
      <4>1. credit_balance[u] = InitialBalance[u] + sum
        BY LedgerOfEntries
      <4>2. \A s \in Mine(u) : Entries(u)[s] \in Int
        BY <3>1, EntryTypes
      <4>3. \A s \in Mine(u) :
               Entries(u)'[s] = IF s = r THEN Net(work[r].rows) ELSE Entries(u)[s]
        BY <3>1, <3>2 DEF Entries, Mine, TypeOK
      <4>4. sum \in Int
        BY <1>1, <4>2, SumSplits
      <4>5. CASE Owner[r] = u
        <5>1. r \in Mine(u) /\ Entries(u)[r] = 0 /\ Entries(u)'[r] = Net(work[r].rows)
          BY <2>2, <3>4, <4>3, <4>5 DEF Mine, Entries
        <5>2. SumFunctionOnSet(Entries(u)', Mine(u)) = sum - Entries(u)[r] + Entries(u)'[r]
          BY <1>1, <3>5, <4>2, <4>3, <5>1, SumChanges
        <5>3. SumFunctionOnSet(Entries(u)', Mine(u)) = sum + Net(work[r].rows)
          BY <3>5, <4>4, <5>1, <5>2
        <5>4. credit_balance'[u] = credit_balance[u] + Net(work[r].rows)
          BY <3>1, <3>2, <3>3, <4>5 DEF TypeOK
        <5> QED
          BY <3>5, <4>1, <4>4, <5>3, <5>4, BillingAssumption
      <4>6. CASE Owner[r] # u
        <5>1. r \notin Mine(u)
          BY <4>6 DEF Mine
        <5>2. SumFunctionOnSet(Entries(u)', Mine(u)) = sum
          BY <1>1, <4>2, <4>3, <5>1, SumOfSame
        <5>3. credit_balance'[u] = credit_balance[u]
          BY <3>1, <3>2, <4>6 DEF TypeOK
        <5> QED
          BY <4>1, <5>2, <5>3
      <4> QED
        BY <4>5, <4>6
    <3>7. LedgerExplainsBalance' <=>
            \A u \in Users : credit_balance'[u] = InitialBalance[u] + SumFunctionOnSet(Entries(u)', Mine(u))
      BY DEF LedgerExplainsBalance, SumFunction, Entries, Mine
    <3> QED
      BY <3>6, <3>7
  <2> QED
    BY <2>1, <2>2, VisibleSteps
<1> QED
  BY <1>2, <1>3, Inductive, PTL DEF Spec

-----------------------------------------------------------------------------
(***************************************************************************)
(* What the client of a session is told and what the database then says of *)
(* it are decided by different steps: the pipeline writes its rows and     *)
(* picks the answer, get_db commits or rolls back, the answer is sent or   *)
(* lost, and the server may die between any two of them.  Told, Refunded and Statement follow one session from  *)
(* its hold to its end and say at each place what must already be true for *)
(* the properties to hold once it is over.                                 *)
(***************************************************************************)
\* A request that is not streamed has no answer while it is in the pipeline, is told
\* that it was served only with rows and a usage log to commit, and keeps that answer
\* only if they were committed.
Told(r) ==
    r \in Chats \cup Embeds =>
        /\ pc[r] \notin {"opened", "abandoned"}
        /\ pc[r] \in {"start", "authenticated", "upstream"} => answer[r] = "none"
        /\ pc[r] = "raising" => answer[r] # "served"
        /\ pc[r] = "returning" /\ answer[r] = "served" => work[r].rows # <<>> /\ work[r].logs # {}
        /\ pc[r] \in {"answering", "done"} /\ answer[r] = "served" => usage_logs[r] # {}

Succeeded(logs) == \E l \in logs : l.status = "success"

\* An embedding that is not served is about to commit nothing it is charged for, and one
\* that is served a log of success; what it was charged is committed with such a log, and
\* its answer is on its way, delivered or lost after the commit.
Refunded(r) ==
    r \in Embeds =>
        /\ pc[r] = "returning" /\ answer[r] # "served" => Net(work[r].rows) = 0
        /\ pc[r] = "returning" /\ answer[r] = "served" => Succeeded(work[r].logs)
        /\ pc[r] \in {"answering", "done"} /\ Net(transactions[r]) # 0 =>
              /\ answer[r] = "served" \/ (pc[r] = "done" /\ answer[r] = "lost")
              /\ Succeeded(usage_logs[r])

\* Rows that lead from one balance to another without a gap.
Chained(rows, before, after) ==
    /\ rows[1].balance_after = before + rows[1].amount
    /\ \A i \in 2 .. Len(rows) :
          rows[i].balance_after = rows[i - 1].balance_after + rows[i].amount
    /\ rows[Len(rows)].balance_after = after

\* The rows a request has not yet committed lead from the committed balance to the one
\* it works with.
Statement(r) ==
    work[r].rows # <<>> => Chained(work[r].rows, credit_balance[Owner[r]], work[r].bal)

\* What the sessions are about to tell and to commit.
RequestInv(r) == Told(r) /\ Refunded(r) /\ Statement(r)
AnswerInv == \A r \in Requests : RequestInv(r)

\* A step of the session s.
StepOf(s) ==
    \/ s \in Requests /\ (RequestStep(s) \/ Disconnect(s) \/ Reclaim(s))
    \/ s \in TopUps /\ TopUpStep(s)
    \/ SessionStep(s)

-----------------------------------------------------------------------------
(***************************************************************************)
(* Rows.                                                                   *)
(***************************************************************************)
LEMMA FirstChained ==
    ASSUME NEW bal, bal \in Int, NEW type \in TransactionType, NEW amount, amount \in Int
    PROVE  Chained(Moved(bal, <<>>, type, amount).rows, bal, Moved(bal, <<>>, type, amount).bal)
<1> DEFINE row == [type |-> type, amount |-> amount, balance_after |-> bal + amount]
<1>1. row \in Transaction
  BY DEF Transaction, TransactionType
<1>2. /\ Len(Append(<<>>, row)) = 1
      /\ Append(<<>>, row)[1] = row
  BY <1>1
<1> QED
  BY <1>1, <1>2 DEF Moved, Chained

LEMMA SecondChained ==
    ASSUME NEW bal, bal \in Int, NEW before, before \in Int,
           NEW rows \in Seq(Transaction), Len(rows) = 1,
           NEW type \in TransactionType, NEW amount, amount \in Int,
           Chained(rows, before, bal)
    PROVE  Chained(Moved(bal, rows, type, amount).rows, before, Moved(bal, rows, type, amount).bal)
<1> DEFINE row == [type |-> type, amount |-> amount, balance_after |-> bal + amount]
<1>1. row \in Transaction
  BY DEF Transaction, TransactionType
<1>2. /\ Len(Append(rows, row)) = 2
      /\ Append(rows, row)[1] = rows[1]
      /\ Append(rows, row)[2] = row
  BY <1>1, AppendToOne
<1>3. rows[1].balance_after = before + rows[1].amount /\ rows[1].balance_after = bal
  BY DEF Chained
<1>4. \A i \in 2 .. 2 : i = 2
  OBVIOUS
<1> QED
  BY <1>2, <1>3, <1>4 DEF Moved, Chained

-----------------------------------------------------------------------------
(***************************************************************************)
(* A step of one session and the requests of the others.                   *)
(***************************************************************************)
\* A request keeps its invariant if its own state stays and so does, while it works with
\* it, its user's balance.
LEMMA Undisturbed ==
    ASSUME NEW r \in Requests, RequestInv(r),
           pc'[r] = pc[r], work'[r] = work[r], answer'[r] = answer[r],
           transactions'[r] = transactions[r], usage_logs'[r] = usage_logs[r],
           work[r].rows # <<>> => credit_balance'[Owner[r]] = credit_balance[Owner[r]]
    PROVE  RequestInv(r)'
<1>1. Told(r)'
  BY DEF RequestInv, Told
<1>2. Refunded(r)'
  BY DEF RequestInv, Refunded
<1>3. Statement(r)'
  BY DEF RequestInv, Statement
<1> QED
  BY <1>1, <1>2, <1>3 DEF RequestInv

\* A step of a session disturbs no other request: it can commit to a balance that somebody
\* works with only if it owns the lock, and that is the other's.
LEMMA OthersUndisturbed ==
    ASSUME IInv, NEW s \in Sessions, StepOf(s), NEW r \in Requests, r # s, RequestInv(r)
    PROVE  RequestInv(r)'
<1>1. TypeOK /\ r \in Sessions /\ SessionInv(r) /\ SessionInv(s)
  BY DEF IInv, Sessions
<1>2. CASE Commit(s)
  <2>1. /\ pc'[r] = pc[r] /\ work'[r] = work[r] /\ answer'[r] = answer[r]
        /\ transactions'[r] = transactions[r] /\ usage_logs'[r] = usage_logs[r]
    BY <1>1, <1>2 DEF Commit, Close, tables, TypeOK
  <2>2. CASE work[s].rows = <<>> \/ work[r].rows = <<>>
    BY <1>2, <2>1, <2>2, Undisturbed DEF Commit, tables
  <2>3. CASE work[s].rows # <<>> /\ work[r].rows # <<>>
    <3>1. lock[LockOf[Owner[r]]] = r /\ lock[LockOf[Owner[s]]] = s
      BY <1>1, <2>3 DEF SessionInv, Guarded
    <3>2. Owner[r] # Owner[s]
      BY <3>1
    <3>3. credit_balance'[Owner[r]] = credit_balance[Owner[r]]
      BY <1>1, <1>2, <2>3, <3>2, LockType DEF Commit, TypeOK
    <3> QED
      BY <2>1, <3>3, Undisturbed
  <2> QED
    BY <2>2, <2>3
<1>3. CASE ~Commit(s)
  <2>1. UNCHANGED tables
    BY <1>3 DEF StepOf, RequestStep, Refusal, Handling, TopUpStep, SessionStep, Authenticate, Reject,
                Refuse, OpenStream, RefuseStream, Hold, Decline, Serve, FailChat, FailEmbedding,
                Raise, Disconnect, Reclaim, ReadBalance, AddCredits, TimeOut, RollBack, Send, tables
  <2>2. pc'[r] = pc[r] /\ answer'[r] = answer[r]
    BY <1>1, <1>3 DEF StepOf, RequestStep, Refusal, Handling, TopUpStep, SessionStep, Authenticate, Reject,
                Refuse, OpenStream, RefuseStream, Hold, Decline, Serve, FailChat, FailEmbedding,
                Raise, Disconnect, Reclaim, ReadBalance, AddCredits, TimeOut, RollBack, Send, TypeOK,
                Leave, Close
  <2>3. work'[r] = work[r]
    BY <1>1, <1>3 DEF StepOf, RequestStep, Refusal, Handling, TopUpStep, SessionStep, Authenticate, Reject,
                Refuse, OpenStream, RefuseStream, Hold, Decline, Serve, FailChat, FailEmbedding,
                Raise, Disconnect, Reclaim, ReadBalance, AddCredits, TimeOut, RollBack, Send, TypeOK,
                Close
  <2> QED
    BY <2>1, <2>2, <2>3, Undisturbed DEF tables
<1> QED
  BY <1>2, <1>3

-----------------------------------------------------------------------------
(***************************************************************************)
(* A step of a request and the request itself.                             *)
(***************************************************************************)
\* What the pipeline leaves behind when it is through.
LEMMA Leaving ==
    ASSUME IInv, NEW r \in Requests, NEW next \in PCs,
           NEW reply \in {"none", "served", "refused", "error", "lost"},
           pc' = [pc EXCEPT ![r] = next], answer' = [answer EXCEPT ![r] = reply]
    PROVE  pc'[r] = next /\ answer'[r] = reply
  BY DEF IInv, TypeOK, Sessions

LEMMA InitAnswer == Init => AnswerInv
<1> SUFFICES ASSUME Init, NEW r \in Requests PROVE RequestInv(r)
  BY DEF AnswerInv
<1>1. r \in Sessions
  BY DEF Sessions
<1>2. pc[r] = "start" /\ answer[r] = "none" /\ work[r].rows = <<>>
  BY <1>1 DEF Init, NoWork
<1> QED
  BY <1>2 DEF RequestInv, Told, Refunded, Statement

\* The steps that write no row.
LEMMA UnwrittenSteps ==
    ASSUME IInv, NEW r \in Requests, RequestInv(r),
           \/ Authenticate(r) \/ Reject(r) \/ Refuse(r) \/ OpenStream(r) \/ RefuseStream(r)
           \/ Decline(r) \/ Raise(r) \/ Disconnect(r) \/ TimeOut(r)
    PROVE  RequestInv(r)'
<1>1. r \in Sessions /\ TypeOK /\ SessionInv(r)
  BY DEF Sessions, IInv
<1>2. UNCHANGED <<credit_balance, transactions, usage_logs>> /\ UNCHANGED work
  BY DEF Authenticate, Reject, Refuse, OpenStream, RefuseStream, Decline, Raise, Disconnect,
         TimeOut, tables
<1>3. Statement(r)'
  BY <1>2 DEF RequestInv, Statement
<1>4. r \in Chats \cup Embeds => r \notin Streams
  BY BillingAssumption
<1>5. pc[r] \in {"start", "authenticated"} => work[r].rows = <<>>
  BY <1>1 DEF SessionInv, Clean
<1>6. r \in Chats \cup Embeds =>
        /\ pc'[r] \in {"authenticated", "returning", "raising"}
        /\ pc'[r] = "authenticated" => answer'[r] = "none"
        /\ pc'[r] # "authenticated" => answer'[r] \in {"refused", "error"}
  BY <1>1, <1>4 DEF Authenticate, Reject, Refuse, OpenStream, RefuseStream, Decline, Raise, Disconnect,
         TimeOut, Leave, AfterReturn, AfterRaise, TypeOK, RequestInv, Told, Waiting, Ready
<1>7. Told(r)'
  BY <1>6 DEF Told
<1>8. r \in Embeds /\ pc'[r] = "returning" => pc[r] \in {"start", "authenticated"}
  BY <1>1, <1>4, BillingAssumption DEF Authenticate, Reject, Refuse, OpenStream, RefuseStream, Decline, Raise,
         Disconnect, TimeOut, Leave, AfterReturn, AfterRaise, TypeOK, RequestInv, Told, Waiting, Ready
<1>9. work'[r].rows = <<>> => Net(work'[r].rows) = 0
  BY DEF Net
<1>10. Refunded(r)'
  BY <1>2, <1>5, <1>6, <1>8, <1>9 DEF Refunded
<1> QED
  BY <1>3, <1>7, <1>10 DEF RequestInv

\* A step that ends the pipeline with rows and logs to commit.
LEMMA WrittenSteps ==
    ASSUME IInv, NEW r \in Requests, RequestInv(r), pc[r] = "upstream",
           NEW w \in Work, work' = [work EXCEPT ![r] = w],
           NEW reply \in {"served", "error"}, Leave(r, AfterReturn(r), reply),
           UNCHANGED tables,
           w.rows # <<>>, w.logs # {},
           Chained(w.rows, credit_balance[Owner[r]], w.bal),
           r \in Embeds /\ reply # "served" => Net(w.rows) = 0,
           r \in Embeds /\ reply = "served" => Succeeded(w.logs)
    PROVE  RequestInv(r)'
<1>1. r \in Sessions /\ TypeOK
  BY DEF Sessions, IInv
<1>2. work'[r] = w /\ pc'[r] = AfterReturn(r) /\ answer'[r] = reply
  BY <1>1 DEF Leave, TypeOK
<1>3. r \in Chats \cup Embeds => pc'[r] = "returning"
  BY <1>2, BillingAssumption DEF AfterReturn
<1>4. Told(r)'
  BY <1>2, <1>3 DEF Told
<1>5. Refunded(r)'
  BY <1>2, <1>3 DEF Refunded
<1>6. Statement(r)'
  BY <1>2 DEF Statement, tables
<1> QED
  BY <1>4, <1>5, <1>6 DEF RequestInv

\* The hold is one row that starts at the committed balance.
LEMMA HoldAnswer == ASSUME IInv, NEW r \in Requests, RequestInv(r), Hold(r) PROVE RequestInv(r)'
<1>1. r \in Sessions /\ TypeOK
  BY DEF Sessions, IInv
<1>2. PICK cost \in Estimates :
         work' = [work EXCEPT ![r] = Moved(credit_balance[Owner[r]], <<>>, "consumption", -cost)]
  BY DEF Hold
<1> DEFINE w == Moved(credit_balance[Owner[r]], <<>>, "consumption", -cost)
<1>3. credit_balance[Owner[r]] \in Int /\ -cost \in Int /\ "consumption" \in TransactionType
  BY <1>1, LockType, BillingAssumption DEF TypeOK, TransactionType
<1>4. Chained(w.rows, credit_balance[Owner[r]], w.bal)
  BY <1>3, FirstChained
<1>5. work'[r] = w
  BY <1>1, <1>2 DEF TypeOK
<1> HIDE DEF w
<1>6. pc'[r] = "upstream" /\ answer'[r] = answer[r] /\ UNCHANGED tables
  BY <1>1 DEF Hold, TypeOK
<1>7. r \in Chats \cup Embeds => answer[r] = "none"
  BY BillingAssumption DEF Hold, Ready, RequestInv, Told
<1>8. Told(r)'
  BY <1>6, <1>7 DEF Told
<1>9. Refunded(r)'
  BY <1>6 DEF Refunded
<1>10. Statement(r)'
  BY <1>4, <1>5, <1>6 DEF Statement, tables
<1> QED
  BY <1>8, <1>9, <1>10 DEF RequestInv

\* Settling keeps the rows chained to the committed balance.
LEMMA SettledChained ==
    ASSUME IInv, NEW r \in Requests, RequestInv(r), pc[r] = "upstream", NEW actual \in Nat
    PROVE  Chained(Settled(r, actual).rows, credit_balance[Owner[r]], Settled(r, actual).bal)
<1>1. /\ work[r].bal \in Int /\ work[r].rows \in Seq(Transaction) /\ Len(work[r].rows) = 1
      /\ credit_balance[Owner[r]] \in Int /\ estimated_cost[r] - actual \in Int
  BY Upstream DEF Work
<1>2. work[r].rows # <<>>
  BY <1>1, OneIsNotEmpty
<1>3. Chained(work[r].rows, credit_balance[Owner[r]], work[r].bal)
  BY <1>2 DEF RequestInv, Statement
<1>4. "refund" \in TransactionType
  BY DEF TransactionType
<1> DEFINE delta == estimated_cost[r] - actual
<1>5. Chained(Moved(work[r].bal, work[r].rows, "refund", delta).rows, credit_balance[Owner[r]],
              Moved(work[r].bal, work[r].rows, "refund", delta).bal)
  BY <1>1, <1>3, <1>4, SecondChained
<1> QED
  BY <1>3, <1>5 DEF Settled

LEMMA SettlingAnswer ==
    ASSUME IInv, NEW r \in Requests, RequestInv(r), pc[r] = "upstream",
           NEW actual \in Nat, NEW status \in {"success", "error"},
           work' = [work EXCEPT ![r] = Logged(Settled(r, actual), actual, status)],
           NEW reply \in {"served", "error"}, Leave(r, AfterReturn(r), reply),
           r \in Embeds => reply = "served" /\ status = "success",
           UNCHANGED tables
    PROVE  RequestInv(r)'
<1> DEFINE w == Logged(Settled(r, actual), actual, status)
<1>1. Settled(r, actual) \in Work /\ Settled(r, actual).rows # <<>>
  BY Upstream, SettledWork
<1>2. /\ w \in Work /\ w.bal = Settled(r, actual).bal /\ w.rows = Settled(r, actual).rows
      /\ w.logs = {[credits_consumed |-> actual, status |-> status]}
  BY <1>1, LoggedWork
<1>3. Chained(w.rows, credit_balance[Owner[r]], w.bal)
  BY <1>2, SettledChained
<1>4. work' = [work EXCEPT ![r] = w]
  OBVIOUS
<1> HIDE DEF w
<1>5. w.logs # {} /\ (r \in Embeds => Succeeded(w.logs))
  BY <1>2 DEF Succeeded
<1> QED
  BY <1>1, <1>2, <1>3, <1>4, <1>5, WrittenSteps

LEMMA ServeAnswer == ASSUME IInv, NEW r \in Requests, RequestInv(r), Serve(r) PROVE RequestInv(r)'
<1>1. PICK reported \in Actuals :
         LET actual == IF r \in Embeds /\ reported = 0 THEN estimated_cost[r] ELSE reported
         IN  work' = [work EXCEPT ![r] = Logged(Settled(r, actual), actual, "success")]
  BY DEF Serve
<1> DEFINE actual == IF r \in Embeds /\ reported = 0 THEN estimated_cost[r] ELSE reported
<1>2. pc[r] = "upstream"
  BY DEF Serve
<1>3. actual \in Nat
  BY <1>2, Upstream, BillingAssumption
<1>4. work' = [work EXCEPT ![r] = Logged(Settled(r, actual), actual, "success")]
  BY <1>1
<1> HIDE DEF actual
<1> QED
  BY <1>2, <1>3, <1>4, SettlingAnswer DEF Serve

LEMMA FailChatAnswer ==
    ASSUME IInv, NEW r \in Requests, RequestInv(r), FailChat(r) PROVE RequestInv(r)'
<1>1. PICK status \in {"success", "error"} :
         work' = [work EXCEPT ![r] = Logged(Settled(r, 0), 0, status)]
  BY DEF FailChat
<1>2. 0 \in Nat /\ "error" \in {"served", "error"}
  OBVIOUS
<1>3. pc[r] = "upstream" /\ Leave(r, AfterReturn(r), "error") /\ UNCHANGED tables /\ r \notin Embeds
  BY BillingAssumption DEF FailChat
<1> QED
  BY <1>1, <1>2, <1>3, SettlingAnswer

LEMMA FailEmbeddingAnswer ==
    ASSUME IInv, NEW r \in Requests, RequestInv(r), FailEmbedding(r) PROVE RequestInv(r)'
<1>1. r \in Sessions /\ TypeOK /\ pc[r] = "upstream"
  BY DEF Sessions, IInv, FailEmbedding
<1> DEFINE m == Moved(work[r].bal, work[r].rows, "refund", estimated_cost[r])
           w == Logged(m, 0, "error")
<1>2. /\ work[r].bal \in Int /\ work[r].rows \in Seq(Transaction) /\ Len(work[r].rows) = 1
      /\ estimated_cost[r] \in Int /\ "refund" \in TransactionType
      /\ credit_balance[Owner[r]] \in Int
      /\ Net(work[r].rows) = -estimated_cost[r]
  BY <1>1, Upstream DEF Work, TransactionType
<1>3. m \in Work /\ m.rows # <<>> /\ Net(m.rows) = Net(work[r].rows) + estimated_cost[r]
  BY <1>2, SecondMove
<1>4. Chained(work[r].rows, credit_balance[Owner[r]], work[r].bal)
  BY <1>2, OneIsNotEmpty DEF RequestInv, Statement
<1>5. Chained(m.rows, credit_balance[Owner[r]], m.bal)
  BY <1>2, <1>4, SecondChained
<1>6. work' = [work EXCEPT ![r] = w]
  BY <1>1 DEF FailEmbedding, TypeOK
<1> HIDE DEF m
<1>7. w \in Work /\ w.bal = m.bal /\ w.rows = m.rows /\ w.logs # {}
  BY <1>3, LoggedWork
<1> HIDE DEF w
<1>8. Net(w.rows) = 0 /\ w.rows # <<>> /\ Chained(w.rows, credit_balance[Owner[r]], w.bal)
  BY <1>2, <1>3, <1>5, <1>7
<1>9. Leave(r, AfterReturn(r), "error") /\ UNCHANGED tables /\ "error" \in {"served", "error"}
  BY DEF FailEmbedding
<1> QED
  BY <1>1, <1>6, <1>7, <1>8, <1>9, WrittenSteps

\* get_db commits what the pipeline wrote: a client that is told it was served has its
\* usage on record.
LEMMA CommitAnswer == ASSUME IInv, NEW r \in Requests, RequestInv(r), Commit(r) PROVE RequestInv(r)'
<1>1. r \in Sessions /\ TypeOK /\ SessionInv(r) /\ pc[r] = "returning"
  BY DEF Sessions, IInv, Commit
<1>2. pc'[r] = "answering" /\ answer'[r] = answer[r] /\ work'[r].rows = <<>>
  BY <1>1 DEF Commit, Close, TypeOK, NoWork
<1>3. Told(r)'
  <2> SUFFICES ASSUME r \in Chats \cup Embeds, answer[r] = "served" PROVE usage_logs'[r] # {}
    BY <1>2 DEF Told
  <2>1. work[r].rows # <<>> /\ work[r].logs # {}
    BY <1>1 DEF RequestInv, Told
  <2> QED
    BY <1>1, <2>1 DEF Commit, TypeOK
<1>4. Refunded(r)'
  <2> SUFFICES ASSUME r \in Embeds, Net(transactions'[r]) # 0
               PROVE  answer[r] = "served" /\ Succeeded(usage_logs'[r])
    BY <1>2 DEF Refunded
  <2>1. transactions[r] = <<>>
    BY <1>1 DEF SessionInv, Unbooked
  <2>2. transactions'[r] = work[r].rows
    BY <1>1, <2>1 DEF Commit, TypeOK, tables
  <2>3. answer[r] = "served"
    BY <1>1, <2>2 DEF RequestInv, Refunded
  <2>4. work[r].rows # <<>> /\ Succeeded(work[r].logs)
    BY <1>1, <2>3 DEF RequestInv, Refunded, Told
  <2>5. usage_logs'[r] = work[r].logs
    BY <1>1, <2>4 DEF Commit, TypeOK
  <2> QED
    BY <2>3, <2>4, <2>5
<1>5. Statement(r)'
  BY <1>2 DEF Statement
<1> QED
  BY <1>3, <1>4, <1>5 DEF RequestInv

\* What a session that ends without a commit leaves on record is nothing.
LEMMA EndedUnbooked ==
    ASSUME IInv, NEW r \in Requests, pc[r] \notin {"answering", "done"}, UNCHANGED tables,
           work'[r] = NoWork, pc'[r] \in {"answering", "done"}, r \in Chats \cup Embeds => answer'[r] # "served"
    PROVE  RequestInv(r)'
<1>1. r \in Sessions /\ SessionInv(r)
  BY DEF Sessions, IInv
<1>2. transactions'[r] = <<>> /\ Net(<<>>) = 0
  BY <1>1 DEF SessionInv, Unbooked, tables, Net
<1> QED
  BY <1>2 DEF RequestInv, Told, Refunded, Statement, NoWork

LEMMA RollBackAnswer ==
    ASSUME IInv, NEW r \in Requests, RequestInv(r), RollBack(r) PROVE RequestInv(r)'
<1>1. r \in Sessions /\ TypeOK
  BY DEF Sessions, IInv
<1>2. pc'[r] = "answering" /\ work'[r] = NoWork /\ answer'[r] = AnswerWithoutCommit(r) /\ UNCHANGED tables
  BY <1>1 DEF RollBack, Close, TypeOK
<1>3. r \in Chats \cup Embeds => AnswerWithoutCommit(r) # "served"
  BY DEF RollBack, AnswerWithoutCommit, RequestInv, Told
<1>4. pc[r] \notin {"answering", "done"}
  BY DEF RollBack
<1> QED
  BY <1>2, <1>3, <1>4, EndedUnbooked

LEMMA ReclaimAnswer ==
    ASSUME IInv, NEW r \in Requests, RequestInv(r), Reclaim(r) PROVE RequestInv(r)'
<1>1. r \in Sessions /\ TypeOK
  BY DEF Sessions, IInv
<1>2. pc'[r] = "done" /\ work'[r] = NoWork /\ UNCHANGED tables /\ pc[r] = "abandoned"
  BY <1>1 DEF Reclaim, Close, TypeOK
<1>3. r \notin Chats \cup Embeds
  BY <1>2 DEF RequestInv, Told
<1> QED
  BY <1>2, <1>3, EndedUnbooked

\* The answer is sent or lost; what is on record stays.
LEMMA SendAnswer ==
    ASSUME IInv, NEW r \in Requests, RequestInv(r), Send(r) PROVE RequestInv(r)'
<1>1. r \in Sessions /\ TypeOK /\ pc[r] = "answering"
  BY DEF Sessions, IInv, Send
<1>2. /\ pc'[r] = "done" /\ answer'[r] \in {answer[r], "lost"}
      /\ UNCHANGED <<tables, work>>
  BY <1>1 DEF Send, Leave, TypeOK
<1>3. Told(r)'
  BY <1>1, <1>2 DEF RequestInv, Told, tables
<1>4. Refunded(r)'
  BY <1>1, <1>2 DEF RequestInv, Refunded, tables
<1>5. Statement(r)'
  BY <1>2 DEF RequestInv, Statement, tables
<1> QED
  BY <1>3, <1>4, <1>5 DEF RequestInv

LEMMA CrashAnswer ==
    ASSUME IInv, NEW r \in Requests, RequestInv(r), Crash PROVE RequestInv(r)'
<1>1. r \in Sessions /\ UNCHANGED tables /\ work'[r] = NoWork
  BY DEF Sessions, Crash
<1>2. CASE pc[r] = "start"
  <2>1. pc'[r] = "start" /\ answer'[r] = answer[r]
    BY <1>1, <1>2 DEF Crash
  <2> QED
    BY <1>1, <1>2, <2>1 DEF RequestInv, Told, Refunded, Statement, NoWork
<1>3. CASE pc[r] = "done"
  <2>1. pc'[r] = "done" /\ answer'[r] = answer[r]
    BY <1>1, <1>3 DEF Crash
  <2> QED
    BY <1>1, <1>3, <2>1 DEF RequestInv, Told, Refunded, Statement, NoWork, tables
<1>4. CASE pc[r] = "answering"
  <2>1. pc'[r] = "done" /\ answer'[r] = "lost"
    BY <1>1, <1>4 DEF Crash
  <2> QED
    BY <1>1, <1>4, <2>1 DEF RequestInv, Told, Refunded, Statement, NoWork, tables
<1>5. CASE pc[r] \notin {"start", "answering", "done"}
  <2>1. pc'[r] = "done" /\ (pc[r] # "abandoned" => answer'[r] = "lost")
    BY <1>1, <1>5 DEF Crash
  <2>2. r \in Chats \cup Embeds => answer'[r] # "served"
    BY <2>1 DEF RequestInv, Told
  <2> QED
    BY <1>1, <1>5, <2>1, <2>2, EndedUnbooked
<1> QED
  BY <1>2, <1>3, <1>4, <1>5

LEMMA NextAnswer == IInv /\ AnswerInv /\ [Next]_vars => AnswerInv'
<1> SUFFICES ASSUME IInv, AnswerInv, [Next]_vars, NEW r \in Requests PROVE RequestInv(r)'
  BY DEF AnswerInv
<1>1. RequestInv(r) /\ r \in Sessions
  BY DEF AnswerInv, Sessions
<1>2. ASSUME NEW s \in Sessions, StepOf(s), s # r PROVE RequestInv(r)'
  BY <1>1, <1>2, OthersUndisturbed
<1>3. CASE StepOf(r)
  <2>1. r \notin TopUps
    BY BillingAssumption
  <2>2. CASE \/ Authenticate(r) \/ Reject(r) \/ Refuse(r) \/ OpenStream(r) \/ RefuseStream(r)
             \/ Decline(r) \/ Raise(r) \/ Disconnect(r) \/ TimeOut(r)
    BY <1>1, <2>2, UnwrittenSteps
  <2>3. CASE Hold(r)
    BY <1>1, <2>3, HoldAnswer
  <2>4. CASE Serve(r)
    BY <1>1, <2>4, ServeAnswer
  <2>5. CASE FailChat(r)
    BY <1>1, <2>5, FailChatAnswer
  <2>6. CASE FailEmbedding(r)
    BY <1>1, <2>6, FailEmbeddingAnswer
  <2>7. CASE Commit(r)
    BY <1>1, <2>7, CommitAnswer
  <2>8. CASE RollBack(r)
    BY <1>1, <2>8, RollBackAnswer
  <2>9. CASE Reclaim(r)
    BY <1>1, <2>9, ReclaimAnswer
  <2>10. CASE Send(r)
    BY <1>1, <2>10, SendAnswer
  <2> QED
    BY <1>3, <2>1, <2>2, <2>3, <2>4, <2>5, <2>6, <2>7, <2>8, <2>9, <2>10
       DEF StepOf, RequestStep, Refusal, Handling, SessionStep
<1>4. CASE Crash
  BY <1>1, <1>4, CrashAnswer
<1>5. CASE UNCHANGED vars
  BY <1>1, <1>5, Undisturbed DEF vars
<1>6. Crash \/ UNCHANGED vars \/ \E s \in Sessions : StepOf(s)
  BY DEF Next, StepOf, Finished, Sessions
<1> QED
  BY <1>2, <1>3, <1>4, <1>5, <1>6

-----------------------------------------------------------------------------
(***************************************************************************)
(* Theorems.                                                               *)
(***************************************************************************)
THEOREM AnswerInductive == Spec => []AnswerInv
  BY InitAnswer, NextAnswer, Inductive, PTL DEF Spec

\* A client is told that its chat or its embedding was served only when the charge and the
\* usage behind the answer are committed, whatever fails or crashes in between.
THEOREM ServedMeansBilled == Spec => []ServedIsBilled
<1>1. AnswerInv => ServedIsBilled
  BY DEF AnswerInv, RequestInv, Told, ServedIsBilled, Requests
<1> QED
  BY <1>1, AnswerInductive, PTL

\* Who pays for an embedding has its vectors, but for an answer that is lost after the commit:
\* every other end of the request, by an error, a refusal, a failed commit or a crash before
\* the commit, leaves nothing charged.
THEOREM UnservedEmbedIsFree == Spec => []EmbedChargedOnlyIfServed
<1>1. IInv /\ AnswerInv => EmbedChargedOnlyIfServed
  <2> SUFFICES ASSUME IInv, AnswerInv, NEW r \in Embeds, Net(transactions[r]) # 0
               PROVE  /\ \/ pc[r] \in {"answering", "done"} /\ answer[r] = "served"
                         \/ pc[r] = "done" /\ answer[r] = "lost"
                      /\ Succeeded(usage_logs[r])
    BY DEF EmbedChargedOnlyIfServed, Succeeded
  <2>1. r \in Requests /\ r \in Sessions /\ SessionInv(r) /\ Refunded(r)
    BY DEF Requests, Sessions, IInv, AnswerInv, RequestInv
  <2>2. transactions[r] # <<>>
    BY DEF Net
  <2>3. pc[r] \in {"answering", "done"}
    BY <2>1, <2>2 DEF SessionInv, Unbooked
  <2> QED
    BY <2>1, <2>3 DEF Refunded
<1> QED
  BY <1>1, Inductive, AnswerInductive, PTL

\* A top-up is about to commit one row, whose balance_after is the balance it works with.
Credited(t) ==
    work[t].rows # <<>> => Len(work[t].rows) = 1 /\ work[t].rows[1].balance_after = work[t].bal

CreditInv == \A t \in TopUps : Credited(t)

LEMMA NextCredit == IInv /\ CreditInv /\ [Next]_vars => CreditInv'
<1> SUFFICES ASSUME IInv, CreditInv, [Next]_vars, NEW t \in TopUps PROVE Credited(t)'
  BY DEF CreditInv
<1>1. t \in Sessions /\ t \notin Requests /\ TypeOK /\ SessionInv(t) /\ Credited(t)
  BY BillingAssumption DEF Sessions, IInv, CreditInv
<1>2. CASE work'[t] = work[t]
  BY <1>1, <1>2 DEF Credited
<1>3. CASE work'[t] = NoWork
  BY <1>3 DEF Credited, NoWork
<1>4. CASE ReadBalance(t)
  BY <1>1, <1>4 DEF ReadBalance, Credited, SessionInv, Clean, TypeOK
<1>5. CASE AddCredits(t)
  <2>1. PICK amount \in Amounts :
           work' = [work EXCEPT ![t] = Moved(@.bal, <<>>, "admin_adjust", amount)]
    BY <1>5 DEF AddCredits
  <2> DEFINE row == [type |-> "admin_adjust", amount |-> amount, balance_after |-> work[t].bal + amount]
  <2>2. work[t].bal \in Int /\ amount \in Int
    BY <1>1, BillingAssumption DEF TypeOK
  <2>3. row \in Transaction
    BY <2>2 DEF Transaction
  <2>4. Len(Append(<<>>, row)) = 1 /\ Append(<<>>, row)[1] = row
    BY <2>3
  <2>5. work'[t].bal = work[t].bal + amount /\ work'[t].rows = Append(<<>>, row)
    BY <1>1, <2>1 DEF Moved, TypeOK
  <2> QED
    BY <2>4, <2>5 DEF Credited
<1>6. \/ work'[t] = work[t] \/ work'[t] = NoWork \/ ReadBalance(t) \/ AddCredits(t)
  <2>1. ASSUME NEW s \in Sessions, StepOf(s), s # t PROVE work'[t] = work[t]
    BY <1>1, <2>1 DEF StepOf, RequestStep, Refusal, Handling, TopUpStep, SessionStep, Authenticate, Reject,
              Refuse, OpenStream, RefuseStream, Hold, Decline, Serve, FailChat, FailEmbedding, Raise,
              Disconnect, Reclaim, ReadBalance, AddCredits, TimeOut, Commit, RollBack, Send, Close, TypeOK
  <2>2. CASE StepOf(t)
    <3>1. CASE Commit(t) \/ RollBack(t)
      BY <1>1, <3>1 DEF Commit, RollBack, Close, TypeOK
    <3>2. CASE TimeOut(t) \/ Send(t)
      BY <3>2 DEF TimeOut, Send
    <3> QED
      BY <1>1, <2>2, <3>1, <3>2 DEF StepOf, TopUpStep, SessionStep
  <2>3. CASE Crash
    BY <1>1, <2>3 DEF Crash
  <2>4. CASE UNCHANGED vars
    BY <2>4 DEF vars
  <2>5. Crash \/ UNCHANGED vars \/ \E s \in Sessions : StepOf(s)
    BY DEF Next, StepOf, Finished, Sessions
  <2> QED
    BY <2>1, <2>2, <2>3, <2>4, <2>5
<1> QED
  BY <1>2, <1>3, <1>4, <1>5, <1>6

\* The rows that a session commits lead without a gap to the balance after its commit, and
\* those of a request start at the balance before it, whatever other sessions committed
\* since its hold.
THEOREM StatementsAreContinuous == Spec => StatementIsContinuous
<1>1. IInv /\ AnswerInv /\ CreditInv /\ [Next]_vars =>
        [\A s \in Sessions : transactions'[s] # transactions[s] =>
            LET rows == transactions'[s]
            IN  /\ s \in Requests =>
                      rows[1].balance_after = credit_balance[Owner[s]] + rows[1].amount
                /\ \A i \in 2 .. Len(rows) :
                      rows[i].balance_after = rows[i - 1].balance_after + rows[i].amount
                /\ rows[Len(rows)].balance_after = credit_balance'[Owner[s]]]_vars
  <2> SUFFICES ASSUME IInv, AnswerInv, CreditInv, [Next]_vars, NEW s \in Sessions,
                      transactions'[s] # transactions[s]
               PROVE  LET rows == transactions'[s]
                      IN  /\ s \in Requests =>
                                rows[1].balance_after = credit_balance[Owner[s]] + rows[1].amount
                          /\ \A i \in 2 .. Len(rows) :
                                rows[i].balance_after = rows[i - 1].balance_after + rows[i].amount
                          /\ rows[Len(rows)].balance_after = credit_balance'[Owner[s]]
    OBVIOUS
  <2>1. TypeOK
    BY DEF IInv
  <2>2. Commit(s) /\ work[s].rows # <<>>
    BY BookedByCommit
  <2>3. transactions'[s] = work[s].rows /\ credit_balance'[Owner[s]] = work[s].bal
    BY <2>1, <2>2, LockType DEF Commit, TypeOK
  <2>4. CASE s \in Requests
    <3>1. Chained(work[s].rows, credit_balance[Owner[s]], work[s].bal)
      BY <2>2, <2>4 DEF AnswerInv, RequestInv, Statement
    <3> QED
      BY <2>3, <3>1 DEF Chained
  <2>5. CASE s \in TopUps /\ s \notin Requests
    <3>1. Len(work[s].rows) = 1 /\ work[s].rows[1].balance_after = work[s].bal
      BY <2>2, <2>5 DEF CreditInv, Credited
    <3> QED
      BY <2>3, <2>5, <3>1
  <2> QED
    BY <2>4, <2>5 DEF Sessions
<1>2. Init => CreditInv
  BY DEF Init, CreditInv, Credited, NoWork, Sessions
<1> QED
  BY <1>1, <1>2, NextCredit, Inductive, AnswerInductive, PTL DEF Spec, StatementIsContinuous

-----------------------------------------------------------------------------
(***************************************************************************)
(* Who waits for whom.  A session that waits for a lock keeps those that   *)
(* it has; what keeps sessions from waiting for each other is that they    *)
(* take locks in one order, first that of an API key, then that of a user. *)
(***************************************************************************)
Owns(s) == {l \in Locks : lock[l] = s}

\* Who needs a lock owns none, but for a request, which keeps that of its API key.
LockInv(s) ==
    /\ pc[s] \in {"start", "opened", "read", "answering", "done"} => Owns(s) = {}
    /\ pc[s] = "authenticated" => s \in Requests /\ Owns(s) \subseteq {LockOf[KeyOf[s]]}

LocksInv == \A s \in Sessions : LockInv(s)

\* A lock of PostgreSQL covers rows of one table, that of SQLite all rows.
RowsOrDatabase ==
    \/ \A k \in Keys, u \in Users : LockOf[k] # LockOf[u]
    \/ \A a, b \in Users \cup Keys : LockOf[a] = LockOf[b]

\* What a step of one session does to locks and to where the others are.
LEMMA LockSteps ==
    ASSUME IInv, NEW s \in Sessions, StepOf(s), NEW x \in Sessions, x # s
    PROVE  Owns(x)' = Owns(x) /\ pc'[x] = pc[x]
<1>1. TypeOK
  BY DEF IInv
<1>2. pc'[x] = pc[x]
  BY <1>1 DEF StepOf, RequestStep, Refusal, Handling, TopUpStep, SessionStep, Authenticate, Reject,
              Refuse, OpenStream, RefuseStream, Hold, Decline, Serve, FailChat, FailEmbedding, Raise,
              Disconnect, Reclaim, ReadBalance, AddCredits, TimeOut, Commit, RollBack, Send, Close, Leave, TypeOK
<1>3. \/ lock' = lock
      \/ lock' = Released(s)
      \/ \E row \in Users \cup Keys : CanLock(s, row) /\ lock' = Locked(s, row)
  BY RowOrder DEF StepOf, RequestStep, Refusal, Handling, TopUpStep, SessionStep, Authenticate, Reject,
              Refuse, OpenStream, RefuseStream, Hold, Decline, Serve, FailChat, FailEmbedding, Raise,
              Disconnect, Reclaim, ReadBalance, AddCredits, TimeOut, Commit, RollBack, Send, Close, Ready
<1>4. CASE lock' = lock
  BY <1>2, <1>4 DEF Owns
<1>5. CASE lock' = Released(s)
  BY <1>1, <1>2, <1>5, BillingAssumption DEF Owns, Released, TypeOK
<1>6. ASSUME NEW row \in Users \cup Keys, CanLock(s, row), lock' = Locked(s, row)
      PROVE  Owns(x)' = Owns(x)
  BY <1>1, <1>6, BillingAssumption DEF Owns, Locked, CanLock, TypeOK
<1> QED
  BY <1>2, <1>3, <1>4, <1>5, <1>6

\* A session's own step: a lock is taken on the way to upstream, and all are released at the end.
LEMMA OwnLocks ==
    ASSUME IInv, NEW s \in Sessions, StepOf(s), LockInv(s) PROVE LockInv(s)'
<1>1. TypeOK
  BY DEF IInv
<1>2. CASE s \in Requests /\ Authenticate(s)
  <2>1. pc'[s] = "authenticated" /\ Owns(s) = {} /\ lock' = [lock EXCEPT ![LockOf[KeyOf[s]]] = s]
    BY <1>1, <1>2, RowOrder DEF Authenticate, LockInv, Locked, TypeOK
  <2> QED
    BY <1>1, <1>2, <2>1 DEF LockInv, Owns, TypeOK
<1>3. CASE (s \in Requests /\ (OpenStream(s) \/ Reclaim(s))) \/ Commit(s) \/ RollBack(s)
  <2>1. pc'[s] \in {"opened", "answering", "done"} /\ lock' = Released(s)
    BY <1>1, <1>3 DEF OpenStream, Commit, RollBack, Reclaim, Close, TypeOK
  <2>2. Owns(s)' = {}
    BY <1>1, <2>1, BillingAssumption DEF Owns, Released, TypeOK
  <2> QED
    BY <2>1, <2>2 DEF LockInv
<1>4. CASE s \in TopUps /\ ReadBalance(s)
  <2>1. pc[s] = "start" /\ pc'[s] = "read" /\ lock' = lock
    BY <1>1, <1>4 DEF ReadBalance, TypeOK
  <2> QED
    BY <2>1 DEF LockInv, Owns
<1>5. CASE \/ s \in Requests /\ (\/ Refusal(s) \/ Hold(s) \/ Decline(s) \/ Serve(s) \/ FailChat(s)
                                 \/ FailEmbedding(s) \/ Raise(s) \/ Disconnect(s))
           \/ s \in TopUps /\ AddCredits(s)
           \/ TimeOut(s)
  <2>1. pc'[s] \in {"upstream", "returning", "raising", "abandoned"}
    BY <1>1, <1>5 DEF Refusal, Reject, Refuse, RefuseStream, Hold, Decline, Serve, FailChat, FailEmbedding,
                      Raise, Disconnect, AddCredits, TimeOut, Leave, AfterReturn, AfterRaise, TypeOK
  <2> QED
    BY <2>1 DEF LockInv
<1>6. CASE Send(s)
  <2>1. pc[s] = "answering" /\ pc'[s] = "done" /\ lock' = lock
    BY <1>1, <1>6 DEF Send, Leave, TypeOK
  <2> QED
    BY <2>1 DEF LockInv, Owns
<1> QED
  BY <1>2, <1>3, <1>4, <1>5, <1>6 DEF StepOf, RequestStep, Handling, TopUpStep, SessionStep

LEMMA NextLocks == IInv /\ LocksInv /\ [Next]_vars => LocksInv'
<1> SUFFICES ASSUME IInv, LocksInv, [Next]_vars, NEW x \in Sessions PROVE LockInv(x)'
  BY DEF LocksInv
<1>1. LockInv(x)
  BY DEF LocksInv
<1>2. ASSUME NEW s \in Sessions, StepOf(s), s # x PROVE LockInv(x)'
  BY <1>1, <1>2, LockSteps DEF LockInv
<1>3. CASE StepOf(x)
  BY <1>1, <1>3, OwnLocks
<1>4. CASE Crash
  <2>1. pc'[x] \in {"start", "done"} /\ lock' = [l \in Locks |-> NoSession]
    BY <1>4 DEF Crash
  <2>2. Owns(x)' = {}
    BY <2>1, BillingAssumption DEF Owns
  <2> QED
    BY <2>1, <2>2 DEF LockInv
<1>5. CASE UNCHANGED vars
  BY <1>1, <1>5 DEF LockInv, Owns, vars
<1>6. Crash \/ UNCHANGED vars \/ \E s \in Sessions : StepOf(s)
  BY DEF Next, StepOf, Finished, Sessions
<1> QED
  BY <1>2, <1>3, <1>4, <1>5, <1>6

THEOREM LocksInductive == Spec => []LocksInv
<1>1. Init => LocksInv
  BY BillingAssumption DEF Init, LocksInv, LockInv, Owns
<1> QED
  BY <1>1, NextLocks, Inductive, PTL DEF Spec

\* Whether a lock covers the whole database or rows of one table, no sessions wait for each
\* other: every wait is for a session that does not wait, or is one step from it.  The update
\* of last_used_at comes before that of credit_balance in every request, and top-ups write
\* no API key.
THEOREM NoDeadlock == ASSUME RowsOrDatabase PROVE Spec => []WaitsEnd
<1>1. ASSUME TypeOK, LocksInv, NEW s \in Sessions, Waiting(s)
      PROVE  LET l == LockOf[NextRow(s)]
             IN /\ Blocker(s) = lock[l] /\ l \in Locks
                /\ Blocker(s) \in Sessions \ {s}
                /\ l \in Owns(Blocker(s))
                /\ pc[Blocker(s)] \notin {"start", "opened", "read", "answering", "done"}
  <2> DEFINE l == LockOf[NextRow(s)]
  <2>1. /\ lock[l] \notin {s, NoSession}
        /\ l \in Locks
    BY <1>1, RowOrder, BillingAssumption DEF Waiting, CanLock, Ready
  <2>2. Blocker(s) = lock[l] /\ lock[l] \in Sessions \ {s}
    BY <1>1, <2>1 DEF Blocker, TypeOK
  <2>3. l \in Owns(Blocker(s))
    BY <2>1, <2>2 DEF Owns
  <2> QED
    BY <1>1, <2>1, <2>2, <2>3 DEF LocksInv, LockInv
<1>2. ASSUME TypeOK, LocksInv, NEW s \in Sessions, Waiting(s), NEW t \in Sessions, t = Blocker(s), Waiting(t)
      PROVE  /\ t \in Requests /\ pc[t] = "authenticated"
             /\ LockOf[NextRow(s)] = LockOf[KeyOf[t]]
  <2>1. pc[t] = "authenticated"
    BY <1>1, <1>2 DEF Waiting, Ready
  <2> QED
    BY <1>1, <1>2, <2>1 DEF LocksInv, LockInv
<1>3. ASSUME TypeOK, LocksInv, NEW s \in Sessions, Waiting(s), Waiting(Blocker(s))
      PROVE  /\ Blocker(Blocker(s)) \in Sessions \ {s, Blocker(s)} /\ pc[Blocker(Blocker(s))] \notin {"answering", "done"}
             /\ ~Waiting(Blocker(Blocker(s)))
  <2> DEFINE t == Blocker(s)
             u == Blocker(t)
  <2>1. t \in Sessions /\ t \in Requests /\ pc[t] = "authenticated"
    BY <1>1, <1>2, <1>3
  <2>2. u \in Sessions \ {t} /\ u = lock[LockOf[Owner[t]]] /\ pc[u] \notin {"answering", "done"}
    BY <1>1, <1>3, <2>1, RowOrder
  <2>3. ASSUME Waiting(u) PROVE FALSE
    <3>1. u \in Requests /\ LockOf[Owner[t]] = LockOf[KeyOf[u]]
      BY <1>2, <1>3, <2>1, <2>2, <2>3, RowOrder
    <3>2. KeyOf[u] \in Keys /\ KeyOf[t] \in Keys /\ Owner[t] \in Users
      BY <2>1, <3>1, BillingAssumption DEF Sessions
    <3>3. LockOf[KeyOf[t]] = LockOf[Owner[t]]
      BY <3>1, <3>2 DEF RowsOrDatabase
    <3>4. lock[LockOf[KeyOf[t]]] = t
      BY <1>1, <1>2, <1>3, <2>1
    <3> QED
      BY <2>2, <3>3, <3>4
  <2> QED
    BY <1>3, <2>2, <2>3
<1>4. TypeOK /\ LocksInv => WaitsEnd
  BY <1>1, <1>3 DEF WaitsEnd
<1> QED
  BY <1>4, TypeCorrect, LocksInductive, PTL

-----------------------------------------------------------------------------
(***************************************************************************)
(* What streams pay.                                                       *)
(***************************************************************************)
\* A stream has no row on record, whether its client was served or not: its body runs after
\* get_db has committed and closed the session, and nothing commits what it writes then.
StreamsAreFree == \A r \in Streams : transactions[r] = <<>> /\ usage_logs[r] = {}

\* Only a stream that was refused before its first byte is committed or rolled back.
StreamInv(r) ==
    /\ pc[r] \in {"returning", "raising"} => Clean(r)
    /\ Unbooked(r)

LEMMA StreamSteps ==
    ASSUME IInv, [Next]_vars, NEW r \in Streams, StreamInv(r) PROVE StreamInv(r)'
<1>1. r \in Requests /\ r \in Sessions /\ TypeOK /\ SessionInv(r) /\ r \notin TopUps
  BY BillingAssumption DEF Requests, Sessions, IInv
<1>2. transactions'[r] = transactions[r]
  BY <1>1, BookedByCommit DEF Commit, StreamInv, Clean
<1>3. usage_logs'[r] = usage_logs[r]
  <2>1. CASE Commit(r)
    BY <1>1, <2>1 DEF Commit, StreamInv, Clean, tables
  <2>2. ASSUME NEW s \in Sessions, s # r, Commit(s) PROVE usage_logs'[r] = usage_logs[r]
    BY <1>1, <2>2 DEF Commit, TypeOK, tables
  <2>3. CASE ~ \E s \in Sessions : Commit(s)
    BY <2>3 DEF Next, RequestStep, Refusal, Handling, TopUpStep, SessionStep, Authenticate, Reject, Refuse,
                OpenStream, RefuseStream, Hold, Decline, Serve, FailChat, FailEmbedding, Raise, Disconnect,
                Reclaim, ReadBalance, AddCredits, TimeOut, RollBack, Send, Crash, Finished, vars, tables
  <2> QED
    BY <2>1, <2>2, <2>3
<1>4. ASSUME NEW s \in Sessions, StepOf(s), s # r PROVE pc'[r] = pc[r] /\ work'[r] = work[r]
  <2>1. pc'[r] = pc[r]
    BY <1>1, <1>4, LockSteps
  <2>2. work'[r] = work[r]
    BY <1>1, <1>4 DEF StepOf, RequestStep, Refusal, Handling, TopUpStep, SessionStep, Authenticate, Reject,
              Refuse, OpenStream, RefuseStream, Hold, Decline, Serve, FailChat, FailEmbedding, Raise,
              Disconnect, Reclaim, ReadBalance, AddCredits, TimeOut, Commit, RollBack, Send, Close, TypeOK
  <2> QED
    BY <2>1, <2>2
<1>5. ASSUME StepOf(r), pc'[r] \in {"returning", "raising"}
      PROVE  work'[r] = work[r] /\ pc[r] \in {"start", "authenticated", "opened"}
  <2>1. Reject(r) \/ Refuse(r) \/ TimeOut(r)
    BY <1>1, <1>5 DEF StepOf, RequestStep, Refusal, Handling, SessionStep, Authenticate, OpenStream,
              RefuseStream, Hold, Decline, Serve, FailChat, FailEmbedding, Raise, Disconnect, Reclaim,
              Commit, RollBack, Send, Close, Leave, AfterReturn, AfterRaise, TypeOK
  <2> QED
    BY <1>1, <2>1 DEF Reject, Refuse, TimeOut, Waiting, Ready
<1>6. pc'[r] \in {"returning", "raising"} => Clean(r)'
  <2> SUFFICES ASSUME pc'[r] \in {"returning", "raising"} PROVE Clean(r)'
    OBVIOUS
  <2>1. CASE StepOf(r)
    BY <1>1, <1>5, <2>1 DEF SessionInv, Clean
  <2>2. CASE \E s \in Sessions : StepOf(s) /\ s # r
    BY <1>4, <2>2 DEF StreamInv, Clean
  <2>3. CASE UNCHANGED vars
    BY <2>3 DEF StreamInv, Clean, vars
  <2>4. ~Crash
    BY <1>1 DEF Crash
  <2>5. Crash \/ UNCHANGED vars \/ \E s \in Sessions : StepOf(s)
    BY DEF Next, StepOf, Finished, Sessions
  <2> QED
    BY <2>1, <2>2, <2>3, <2>4, <2>5
<1> QED
  BY <1>2, <1>3, <1>6 DEF StreamInv, Unbooked

\* No stream is charged or logged, however many there are, whatever locks cover, and whether
\* or not its client got all of it.
THEOREM NoStreamIsBilled == Spec => []StreamsAreFree
<1> DEFINE StreamsInv == \A r \in Streams : StreamInv(r)
<1>1. Init => StreamsInv
  BY DEF Init, StreamInv, Unbooked, Requests, Sessions
<1>2. IInv /\ StreamsInv /\ [Next]_vars => StreamsInv'
  BY StreamSteps
<1>3. StreamsInv => StreamsAreFree
  BY DEF StreamInv, Unbooked, StreamsAreFree, Requests
<1> HIDE DEF StreamsInv
<1> QED
  BY <1>1, <1>2, <1>3, Inductive, PTL DEF Spec
=============================================================================
