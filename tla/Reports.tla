------------------------------ MODULE Reports ------------------------------
(***************************************************************************)
(* Who reads what Catalog logs: the dashboard of the administrators, which *)
(* is several queries, and listings, which are fetched page by page.  The  *)
(* log grows while they read.                                              *)
(*                                                                         *)
(* A listing stands for any of the four that the code has: the usage of a  *)
(* user, the logs and the users of the administrators, and the credit      *)
(* transactions of a user.  They are one query: count, then fetch a page   *)
(* in descending order of created_at.  Filters are left out.               *)
(***************************************************************************)
EXTENDS Catalog, SequencesExt

CONSTANTS
    Dashboards,      \* GET /api/admin/stats/dashboard
    Walks,           \* readers who turn the pages of a listing from the first to the last
    ReadersOf,       \* ReadersOf[w]: the readers that come with workload w
    UserOf,          \* UserOf[r]: the user of request r
    PageSize,        \* rows of a page
    TopModels,       \* most models on the dashboard, 5 in the code
    DayStart,        \* DayStart[t]: the beginning of the day of time t
    MonthStart,      \* MonthStart[t]: the beginning of its month
    StartIncluded,   \* created_at >= start holds of the start itself; as texts it does not
    MaxTime          \* how far the clock goes (bound of the model)

Readers == Dashboards \cup Walks

ASSUME ReportsAssumption ==
    /\ Dashboards \cap Walks = {}
    /\ DOMAIN ReadersOf = Workloads /\ \A w \in Workloads : ReadersOf[w] \subseteq Readers
    /\ PageSize \in Nat \ {0} /\ TopModels \in Nat \ {0} /\ MaxTime \in Nat
    /\ StartIncluded \in BOOLEAN
    /\ DayStart \in [0..MaxTime -> Nat] /\ MonthStart \in [0..MaxTime -> Nat]
    /\ \A t \in 0..MaxTime : MonthStart[t] <= DayStart[t] /\ DayStart[t] <= t

VARIABLES
    at,        \* at[d]: where reader d is
    opened,    \* opened[d]: the time when a dashboard was asked for
    stats,     \* stats[d]: what its queries returned so far
    page,      \* page[w]: the page that a walk is at
    total,     \* total[w]: the number of rows as last counted
    shown,     \* shown[w]: the rows it has been shown, by their places in the log
    before     \* before[w]: rows stored when the walk began (history)

readers == <<at, opened, stats, page, total, shown, before>>
vars == <<catalog, readers>>

Init ==
    /\ CatalogInit
    /\ LET sent == {r \in Requests : pc[r] = "start"}
       IN at = [d \in Readers |-> IF d \in ReadersOf[sent] THEN "start" ELSE "unsent"]
    /\ opened = [d \in Dashboards |-> 0]
    /\ stats = [d \in Dashboards |-> <<>>]
    /\ page = [w \in Walks |-> 1]
    /\ total = [w \in Walks |-> 0]
    /\ shown = [w \in Walks |-> {}]
    /\ before = [w \in Walks |-> 0]

\* Time passes; nobody but readers notices.
Tick ==
    /\ now < MaxTime
    /\ \E d \in Readers : at[d] # "unsent"
    /\ now' = now + 1
    /\ UNCHANGED <<tables, pc, session, bill, logs, began, history, readers>>

Moves(d, from, to) == at[d] = from /\ at' = [at EXCEPT ![d] = to]

-----------------------------------------------------------------------------
(***************************************************************************)
(* The dashboard.                                                          *)
(***************************************************************************)
\* Mutant: the models first.
TopFirst == <<"top", "active", "requests", "today", "month">>

\* get_dashboard_stats asks one query after another.
Queries == <<"active", "requests", "today", "month", "top">>

Since(start) ==
    {i \in DOMAIN logs : logs[i].created_at > start \/ (StartIncluded /\ logs[i].created_at = start)}

\* Mutant: the sum of no rows is NULL.
RevenueOrNull(rows) ==
    IF rows = {} THEN NoRow ELSE SumFunction([i \in rows |-> logs[i].cost])

Revenue(rows) == SumFunction([i \in rows |-> logs[i].cost])

\* Up to TopModels models with the most requests.
Tops(rows) ==
    LET Of(m) == {i \in rows : Model(logs[i].request) = m}
        models == {Model(logs[i].request) : i \in rows}
        best == {b \in SUBSET models :
                    /\ Cardinality(b) = Min({TopModels, Cardinality(models)})
                    /\ \A m \in b, n \in models \ b : Cardinality(Of(m)) >= Cardinality(Of(n))}
    IN {[m \in b |-> [requests |-> Cardinality(Of(m)), revenue |-> Revenue(Of(m))]] : b \in best}

\* The values that a query may return to a dashboard asked for at time t.
Results(query, t) ==
    LET today == Since(DayStart[t])
    IN CASE query = "active" -> {Cardinality({UserOf[logs[i].request] : i \in today})}
         [] query = "requests" -> {Cardinality(today)}
         [] query = "today" -> {Revenue(today)}
         [] query = "month" -> {Revenue(Since(MonthStart[t]))}
         [] query = "top" -> Tops(today)

Open(d) ==
    /\ d \in Dashboards
    /\ Moves(d, "start", "asking")
    /\ opened' = [opened EXCEPT ![d] = now]
    /\ UNCHANGED <<catalog, stats, page, total, shown, before>>

Ask(d) ==
    LET asked == Cardinality(DOMAIN stats[d])
        query == Queries[asked + 1]
    IN /\ d \in Dashboards
       /\ Moves(d, "asking", IF asked + 1 = Len(Queries) THEN "done" ELSE "asking")
       /\ \E result \in Results(query, opened[d]) :
             stats' = [stats EXCEPT ![d] =
                [q \in DOMAIN @ \cup {query} |-> IF q = query THEN result ELSE @[q]]]
       /\ UNCHANGED <<catalog, opened, page, total, shown, before>>

-----------------------------------------------------------------------------
(***************************************************************************)
(* Listings.                                                               *)
(***************************************************************************)
\* Rows of one time come in any order, which may be another one in the next query.
Orders == {s \in SetToSeqs(DOMAIN logs) :
              \A i, j \in DOMAIN s : i < j => logs[s[i]].created_at >= logs[s[j]].created_at}

\* Mutant: the offset of page p is p pages.
OffsetByPage(p) == p * PageSize

Offset(p) == (p - 1) * PageSize

\* The number of pages, at least one.
Pages(rows) == IF rows > 0 THEN (rows + PageSize - 1) \div PageSize ELSE 1

\* A page is counted for and fetched, in this order.
CountRows(w) ==
    /\ w \in Walks
    /\ at[w] \in {"start", "paging"}
    /\ at' = [at EXCEPT ![w] = "counted"]
    /\ total' = [total EXCEPT ![w] = Len(logs)]
    /\ before' = [before EXCEPT ![w] = IF at[w] = "start" THEN Len(logs) ELSE @]
    /\ UNCHANGED <<catalog, opened, stats, page, shown>>

FetchPage(w) ==
    /\ w \in Walks
    /\ Moves(w, "counted", IF page[w] < Pages(total[w]) THEN "paging" ELSE "done")
    /\ \E order \in Orders :
          LET rows == SubSeq(order, Offset(page[w]) + 1, Min({Offset(page[w]) + PageSize, Len(order)}))
          IN shown' = [shown EXCEPT ![w] = @ \cup ToSet(rows)]
    /\ page' = [page EXCEPT ![w] = @ + 1]
    /\ UNCHANGED <<catalog, opened, stats, total, before>>

Finished ==
    /\ \A r \in Requests : pc[r] \in {"unsent", "done"}
    /\ \A d \in Readers : at[d] \in {"unsent", "done"}
    /\ UNCHANGED vars

Next ==
    \/ CatalogNext /\ UNCHANGED readers
    \/ Tick
    \/ \E d \in Dashboards : Open(d) \/ Ask(d)
    \/ \E w \in Walks : CountRows(w) \/ FetchPage(w)
    \/ Finished

Spec == Init /\ [][Next]_vars

-----------------------------------------------------------------------------
\* Types of what readers keep; sums are numbers also of no rows.
TypeOK ==
    /\ CatalogTypeOK
    /\ \A d \in Readers : at[d] \in {"unsent", "start", "asking", "paging", "counted", "done"}
    /\ \A d \in Dashboards :
          /\ opened[d] \in 0..now
          /\ \A q \in DOMAIN stats[d] \ {"top"} : stats[d][q] \in Nat
    /\ \A w \in Walks :
          /\ page[w] \in 1..(Len(logs) + 1) \/ at[w] = "done"
          /\ total[w] \in 0..Len(logs) /\ before[w] \in 0..Len(logs)
          /\ shown[w] \subseteq DOMAIN logs

\* The numbers of a dashboard fit each other although rows are added between its
\* queries: no more active users than requests, today's revenue within the month's, and
\* the models account for every request and cent that was counted before them, unless
\* there are more of them than it shows (analytics_service.py:62-88).
DashboardAddsUp ==
    \A d \in Dashboards :
       at[d] = "done" =>
          LET s == stats[d]
              Total(column) == SumFunction([m \in DOMAIN s.top |-> s.top[m][column]])
          IN /\ s.active <= s.requests
             /\ s.today <= s.month
             /\ Cardinality(DOMAIN s.top) < TopModels =>
                   s.requests <= Total("requests") /\ s.today <= Total("revenue")

\* Who turns the pages to the last one sees every row that was stored when they began,
\* except rows of the same second as another one, and at most as many others as rows
\* were added after the last page was counted (analytics_service.py:28-31).
WalkMissesOnlyPushedOrTied ==
    \A w \in Walks :
       at[w] = "done" =>
          LET tied == {i \in DOMAIN logs : \E j \in DOMAIN logs \ {i} : logs[i].created_at = logs[j].created_at}
              missed == (1..before[w]) \ (shown[w] \cup tied)
          IN Cardinality(missed) <= Len(logs) - total[w]
=============================================================================
