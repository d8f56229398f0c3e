--------------------------- MODULE CatalogProofs ---------------------------
(***************************************************************************)
(* Theorems about Catalog, with the readers of Reports beside it, for any  *)
(* number of requests, rows and values.                                    *)
(*                                                                         *)
(* Who looked before writing remembers what may be outdated.  The          *)
(* invariant says of every request what is still true of it when it goes   *)
(* on: its own row is not there, the row that it changes is.               *)
(***************************************************************************)
EXTENDS Reports, SequenceTheorems, Sums, TLAPS

Shape ==
    /\ configs \in [Creations -> ConfigRow \cup {NoRow}]
    /\ settings \in [MarkupEdits -> Markups \cup {NoRow}]
    /\ DOMAIN pc = Requests
    /\ DOMAIN target = Requests
    /\ DOMAIN change = Requests
    /\ DOMAIN bill = Priced

\* Names are unique, and so is the setting.
Unique ==
    /\ \A c, d \in Stored : SameName(configs[c], configs[d]) => c = d
    /\ \A e, f \in MarkupRows : e = f

\* The row of a request that is yet to insert it is not there.
CreationInv(r) ==
    /\ r \in Creations /\ pc[r] \in {"start", "checked"} => r \notin Stored
    /\ r \in Creations /\ pc[r] = "checked" => change[r] \in NewConfigs

\* The row that an edit read is still there.
EditInv(r) ==
    r \in Edits /\ pc[r] = "checked" => target[r] \in Stored /\ change[r] \in Changes

\* So is the row of the setting, if one was found.
MarkupInv(r) ==
    /\ r \in MarkupEdits /\ pc[r] = "start" => target[r] = NoRow
    /\ r \in MarkupEdits /\ pc[r] = "checked" =>
          target[r] \in MarkupRows \cup {NoRow} /\ change[r] \in Markups

Usages == [prompt : Nat, completion : Nat]
Lines == Usages \cup {NoReport}

\* The usage of a bill is the one its lines report.
BillInv(r) ==
    /\ pc[r] \in {"found", "priced", "held"} => r \in Priced
    /\ r \in Priced /\ bill[r] # NoRow =>
          /\ bill[r].lines \in Seq(Lines)
          /\ bill[r].usage = ParsedUsage(bill[r].lines, bill[r].cut)
    /\ pc[r] = "held" =>
          DOMAIN bill[r] = {"estimated", "lines", "cut", "usage", "actual"}

RequestInv(r) == CreationInv(r) /\ EditInv(r) /\ MarkupInv(r) /\ BillInv(r)

IInv == Shape /\ Unique /\ \A r \in Requests : RequestInv(r)

-----------------------------------------------------------------------------
(***************************************************************************)
(* Rows.                                                                   *)
(***************************************************************************)
LEMMA Kinds ==
    /\ \A r \in Creations : r \in Requests /\ r \notin Edits /\ r \notin MarkupEdits /\ r \notin Priced
    /\ \A r \in Edits : r \in Requests /\ r \notin Creations /\ r \notin MarkupEdits /\ r \notin Priced
    /\ \A r \in MarkupEdits : r \in Requests /\ r \notin Creations /\ r \notin Edits /\ r \notin Priced
    /\ \A r \in Priced : r \in Requests /\ r \notin Creations /\ r \notin Edits /\ r \notin MarkupEdits
  BY KindAssumption DEF Requests

\* An edit writes what it was sent into a row, and leaves its name alone.
LEMMA UpdatedRow ==
    ASSUME NEW row \in ConfigRow, NEW read, NEW columns \in Changes
    PROVE  /\ Updated(row, read, columns) \in ConfigRow
           /\ SameName(Updated(row, read, columns), row)
           /\ \A column \in DOMAIN row : Updated(row, read, columns)[column] # row[column] =>
                 column \in DOMAIN columns /\ Updated(row, read, columns)[column] # NoRow
  <1> DEFINE u == Updated(row, read, columns)
  <1>1. DOMAIN row = {"provider", "model_id", "is_enabled", "input_price", "output_price"}
    BY DEF ConfigRow
  <1>2. /\ DOMAIN u = DOMAIN row
        /\ \A c \in DOMAIN row : u[c] = IF c \in DOMAIN columns /\ columns[c] # read[c] THEN columns[c] ELSE row[c]
    BY DEF Updated
  <1>3. \A column \in DOMAIN columns :
          /\ columns[column] # NoRow
          /\ \/ column = "is_enabled" /\ columns[column] \in BOOLEAN
             \/ column \in {"input_price", "output_price"} /\ columns[column] \in Nat
    BY RowAssumption
  <1>4. /\ row.provider \in STRING /\ row.model_id \in STRING /\ row.is_enabled \in BOOLEAN
        /\ row.input_price \in Nat \cup {NoRow} /\ row.output_price \in Nat \cup {NoRow}
    BY DEF ConfigRow
  <1>5. u = [c \in DOMAIN row |-> u[c]]
    BY DEF Updated
  <1> HIDE DEF u
  <1>6. u.provider = row.provider /\ u.model_id = row.model_id
    BY <1>1, <1>2, <1>3
  <1>7. u.is_enabled \in BOOLEAN
    BY <1>1, <1>2, <1>3, <1>4
  <1>8. u.input_price \in Nat \cup {NoRow} /\ u.output_price \in Nat \cup {NoRow}
    BY <1>1, <1>2, <1>3, <1>4
  <1>9. u = [provider |-> u.provider, model_id |-> u.model_id, is_enabled |-> u.is_enabled,
             input_price |-> u.input_price, output_price |-> u.output_price]
    BY <1>1, <1>2, <1>5
  <1>10. u \in ConfigRow
    BY <1>4, <1>6, <1>7, <1>8, <1>9 DEF ConfigRow
  <1>11. \A column \in DOMAIN row : u[column] # row[column] =>
                 column \in DOMAIN columns /\ u[column] # NoRow
    BY <1>2, <1>3
  <1> QED
    BY <1>6, <1>10, <1>11 DEF SameName, u

-----------------------------------------------------------------------------
(***************************************************************************)
(* Steps.                                                                  *)
(***************************************************************************)
\* Nobody moves but r.
Mover(r) ==
    /\ DOMAIN pc' = Requests /\ DOMAIN target' = Requests /\ DOMAIN change' = Requests /\ DOMAIN bill' = Priced
    /\ \A q \in Requests \ {r} :
          /\ pc'[q] = pc[q] /\ target'[q] = target[q] /\ change'[q] = change[q]
          /\ q \in Priced => bill'[q] = bill[q]

\* Who is not moved and finds every row that it counts on goes on as before.
LEMMA OthersStay ==
    ASSUME IInv, NEW r \in Requests, Mover(r), RequestInv(r)',
           configs' \in [Creations -> ConfigRow \cup {NoRow}],
           settings' \in [MarkupEdits -> Markups \cup {NoRow}],
           Unique',
           Stored \subseteq Stored', Stored' \subseteq Stored \cup {r}, MarkupRows \subseteq MarkupRows'
    PROVE  IInv'
  <1>1. Shape'
    BY DEF Shape, Mover
  <1>2. ASSUME NEW q \in Requests, q # r PROVE RequestInv(q)'
    <2>1. RequestInv(q) /\ pc'[q] = pc[q] /\ target'[q] = target[q] /\ change'[q] = change[q]
          /\ (q \in Priced => bill'[q] = bill[q])
      BY <1>2 DEF IInv, Mover
    <2>2. CreationInv(q)'
      BY <1>2, <2>1 DEF RequestInv, CreationInv
    <2>3. EditInv(q)'
      BY <2>1 DEF RequestInv, EditInv
    <2>4. MarkupInv(q)'
      BY <2>1 DEF RequestInv, MarkupInv
    <2>5. BillInv(q)'
      BY <2>1 DEF RequestInv, BillInv
    <2> QED
      BY <2>2, <2>3, <2>4, <2>5 DEF RequestInv
  <1> QED
    BY <1>1, <1>2 DEF IInv

\* A step that writes no table.
LEMMA TablesStay ==
    ASSUME IInv, NEW r \in Requests, Mover(r), RequestInv(r)', UNCHANGED tables
    PROVE  IInv'
  <1>1. configs' = configs /\ settings' = settings
    BY DEF tables
  <1>2. Stored' = Stored /\ MarkupRows' = MarkupRows /\ (Unique <=> Unique')
    BY <1>1 DEF Stored, MarkupRows, Unique
  <1> QED
    BY <1>1, <1>2, OthersStay DEF IInv, Shape

LEMMA InitInv == Init => IInv
  <1> SUFFICES ASSUME Init PROVE IInv
    OBVIOUS
  <1>1. configs = [c \in Creations |-> IF c \in DOMAIN FirstConfigs THEN FirstConfigs[c] ELSE NoRow]
    BY DEF Init, CatalogInit
  <1>2. DOMAIN FirstConfigs \subseteq Creations
    BY CatalogAssumption
  <1>3. Stored = DOMAIN FirstConfigs /\ \A c \in Stored : configs[c] = FirstConfigs[c]
    BY <1>1, <1>2, RowAssumption DEF Stored
  <1>4. /\ settings = [e \in MarkupEdits |-> NoRow] /\ MarkupRows = {}
        /\ target = [r \in Requests |-> NoRow] /\ change = [r \in Requests |-> NoRow]
        /\ bill = [r \in Priced |-> NoRow]
    BY DEF Init, CatalogInit, MarkupRows
  <1>5. PICK sent \in Workloads : pc = [r \in Requests |-> IF r \in sent THEN "start" ELSE "unsent"]
    BY DEF Init, CatalogInit
  <1>6. sent \cap DOMAIN FirstConfigs = {}
    BY CatalogAssumption
  <1>7. Shape
    BY <1>1, <1>2, <1>4, <1>5, RowAssumption DEF Shape
  <1>8. Unique
    BY <1>3, <1>4, RowAssumption DEF Unique
  <1>9. ASSUME NEW r \in Requests PROVE RequestInv(r)
    BY <1>3, <1>4, <1>5, <1>6 DEF RequestInv, CreationInv, EditInv, MarkupInv, BillInv
  <1> QED
    BY <1>7, <1>8, <1>9 DEF IInv

\* An administrator's request that reads or gives up.
LEMMA LookInv ==
    ASSUME IInv, NEW r \in Requests,
           \/ CheckConfig(r) \/ ConfigExists(r) \/ CollideConfig(r)
           \/ ReadConfig(r) \/ ConfigMissing(r) \/ ReadMarkup(r) \/ KeepMarkup(r)
    PROVE  IInv'
  <1>1. r \in Creations \cup Edits \cup MarkupEdits /\ r \notin Priced /\ pc[r] \in {"start", "checked"}
    BY Kinds DEF CheckConfig, ConfigExists, CollideConfig, ReadConfig, ConfigMissing, ReadMarkup, KeepMarkup, Goes
  <1>2. UNCHANGED tables /\ Mover(r)
    BY DEF CheckConfig, ConfigExists, CollideConfig, ReadConfig, ConfigMissing, ReadMarkup, KeepMarkup,
           Goes, Forgets, Reads, session, IInv, Shape, Mover
  <1>3. RequestInv(r) /\ Stored' = Stored /\ MarkupRows' = MarkupRows
    BY <1>2 DEF IInv, Stored, MarkupRows, tables
  <1> DEFINE Good == CreationInv(r)' /\ EditInv(r)' /\ MarkupInv(r)'
  <1>4. BillInv(r)'
    <2>1. pc'[r] \in {"checked", "done"}
      BY DEF CheckConfig, ConfigExists, CollideConfig, ReadConfig, ConfigMissing, ReadMarkup, KeepMarkup,
             Goes, IInv, Shape
    <2> QED
      BY <1>1, <2>1 DEF BillInv
  <1>5. ASSUME CheckConfig(r) PROVE Good
    <2>1. change'[r] \in NewConfigs /\ r \in Creations /\ pc[r] = "start"
      BY <1>5 DEF CheckConfig, Goes, IInv, Shape
    <2> QED
      BY <1>3, <2>1, Kinds DEF RequestInv, CreationInv, EditInv, MarkupInv
  <1>6. ASSUME ReadConfig(r) PROVE Good
    <2>1. target'[r] \in Stored /\ change'[r] \in Changes /\ r \in Edits
      BY <1>6 DEF ReadConfig, Goes, IInv, Shape
    <2> QED
      BY <1>3, <2>1, Kinds DEF RequestInv, CreationInv, EditInv, MarkupInv
  <1>7. ASSUME ReadMarkup(r) PROVE Good
    <2>1. r \in MarkupEdits /\ pc[r] = "start" /\ pc'[r] = "checked" /\ change'[r] \in Markups
      BY <1>7 DEF ReadMarkup, Goes, IInv, Shape
    <2>2. target'[r] \in MarkupRows \cup {NoRow}
      BY <1>3, <1>7, <2>1 DEF ReadMarkup, IInv, Shape, RequestInv, MarkupInv
    <2> QED
      BY <1>3, <2>1, <2>2, Kinds DEF RequestInv, CreationInv, EditInv, MarkupInv
  <1>8. ASSUME ConfigExists(r) \/ CollideConfig(r) \/ ConfigMissing(r) \/ KeepMarkup(r) PROVE Good
    <2>1. pc'[r] = "done"
      BY <1>8 DEF ConfigExists, CollideConfig, ConfigMissing, KeepMarkup, Goes, IInv, Shape
    <2> QED
      BY <2>1 DEF CreationInv, EditInv, MarkupInv
  <1> QED
    BY <1>2, <1>4, <1>5, <1>6, <1>7, <1>8, TablesStay DEF RequestInv

LEMMA InsertInv == ASSUME IInv, NEW r \in Requests, InsertConfig(r) PROVE IInv'
  <1>1. r \in Creations /\ r \notin Priced /\ pc[r] = "checked" /\ pc'[r] = "done" /\ Admits(change[r])
    BY Kinds DEF InsertConfig, Goes, IInv, Shape
  <1>2. Mover(r) /\ settings' = settings
    BY <1>1 DEF InsertConfig, Goes, Forgets, IInv, Shape, Mover
  <1>3. change[r] \in ConfigRow /\ r \notin Stored /\ change[r] # NoRow
    BY <1>1, RowAssumption DEF IInv, RequestInv, CreationInv
  <1>4. /\ configs' \in [Creations -> ConfigRow \cup {NoRow}] /\ configs'[r] = change[r]
        /\ \A c \in Creations : c # r => configs'[c] = configs[c]
    BY <1>1, <1>3 DEF InsertConfig, IInv, Shape
  <1>5. Stored' = Stored \cup {r}
    BY <1>1, <1>3, <1>4 DEF Stored
  <1>6. MarkupRows' = MarkupRows
    BY <1>2 DEF MarkupRows
  <1>7. ASSUME NEW c \in Stored', NEW d \in Stored', SameName(configs'[c], configs'[d]) PROVE c = d
    <2>1. CASE c # r /\ d # r
      BY <1>4, <1>5, <1>7, <2>1 DEF IInv, Unique, Stored
    <2>2. CASE c = r /\ d # r
      <3>1. d \in Stored /\ SameName(configs[d], change[r])
        BY <1>4, <1>5, <1>7, <2>2 DEF SameName, Stored
      <3> QED
        BY <1>1, <3>1 DEF Admits
    <2>3. CASE c # r /\ d = r
      <3>1. c \in Stored /\ SameName(configs[c], change[r])
        BY <1>4, <1>5, <1>7, <2>3 DEF SameName, Stored
      <3> QED
        BY <1>1, <3>1 DEF Admits
    <2> QED
      BY <2>1, <2>2, <2>3
  <1>8. Unique'
    BY <1>2, <1>6, <1>7 DEF Unique, SameName, IInv
  <1>9. RequestInv(r)'
    BY <1>1, Kinds DEF RequestInv, CreationInv, EditInv, MarkupInv, BillInv
  <1> QED
    BY <1>2, <1>4, <1>5, <1>6, <1>8, <1>9, OthersStay DEF IInv, Shape

\* The row that an edit writes, by those who read and by those who wrote before it.
LEMMA EditedRow ==
    ASSUME IInv, NEW r \in Requests, EditConfig(r)
    PROVE  /\ r \in Edits /\ pc[r] = "checked" /\ pc'[r] = "done"
           /\ target[r] \in Stored /\ change[r] \in Changes /\ configs[target[r]] \in ConfigRow
           /\ configs' = [configs EXCEPT ![target[r]] = Updated(@, seen[r], change[r])]
           /\ configs' \in [Creations -> ConfigRow \cup {NoRow}]
           /\ configs'[target[r]] = Updated(configs[target[r]], seen[r], change[r])
           /\ \A c \in Creations : c # target[r] => configs'[c] = configs[c]
  <1>1. r \in Edits /\ pc[r] = "checked" /\ pc'[r] = "done"
    BY DEF EditConfig, Goes, IInv, Shape
  <1>2. target[r] \in Stored /\ change[r] \in Changes
    BY <1>1 DEF IInv, RequestInv, EditInv
  <1>3. target[r] \in Creations /\ configs[target[r]] \in ConfigRow
    BY <1>2 DEF IInv, Shape, Stored
  <1>4. configs' = [configs EXCEPT ![target[r]] = Updated(configs[target[r]], seen[r], change[r])]
    BY DEF EditConfig
  <1>5. Updated(configs[target[r]], seen[r], change[r]) \in ConfigRow
    BY <1>2, <1>3, UpdatedRow
  <1> QED
    BY <1>1, <1>2, <1>3, <1>4, <1>5 DEF IInv, Shape

LEMMA EditConfigInv == ASSUME IInv, NEW r \in Requests, EditConfig(r) PROVE IInv'
  <1> DEFINE t == target[r]
  <1>1. /\ r \in Edits /\ r \notin Priced /\ r \notin Creations /\ pc'[r] = "done"
        /\ t \in Stored /\ configs[t] \in ConfigRow /\ change[r] \in Changes
        /\ configs' \in [Creations -> ConfigRow \cup {NoRow}]
        /\ configs'[t] = Updated(configs[t], seen[r], change[r])
        /\ \A c \in Creations : c # t => configs'[c] = configs[c]
    BY EditedRow, Kinds
  <1>2. Mover(r) /\ settings' = settings
    BY <1>1 DEF EditConfig, Goes, Forgets, IInv, Shape, Mover
  <1> HIDE DEF t
  <1>3. configs'[t] \in ConfigRow /\ SameName(configs'[t], configs[t]) /\ configs'[t] # NoRow
    BY <1>1, UpdatedRow, RowAssumption
  <1>4. Stored' = Stored /\ MarkupRows' = MarkupRows
    BY <1>1, <1>2, <1>3 DEF Stored, MarkupRows
  <1>5. \A c \in Stored : configs'[c].provider = configs[c].provider /\ configs'[c].model_id = configs[c].model_id
    BY <1>1, <1>3 DEF SameName, Stored
  <1>6. Unique'
    BY <1>2, <1>4, <1>5 DEF Unique, SameName, IInv
  <1>7. RequestInv(r)'
    BY <1>1, Kinds DEF RequestInv, CreationInv, EditInv, MarkupInv, BillInv
  <1> QED
    BY <1>1, <1>2, <1>4, <1>6, <1>7, OthersStay DEF IInv, Shape

LEMMA WriteMarkupInv == ASSUME IInv, NEW r \in Requests, WriteMarkup(r) PROVE IInv'
  <1>1. r \in MarkupEdits /\ r \notin Priced /\ pc[r] = "checked" /\ pc'[r] = "done"
    BY Kinds DEF WriteMarkup, Goes, IInv, Shape
  <1>2. Mover(r) /\ configs' = configs
    BY <1>1 DEF WriteMarkup, Goes, Forgets, IInv, Shape, Mover
  <1>3. change[r] \in Markups /\ change[r] # NoRow
    BY <1>1, RowAssumption DEF IInv, RequestInv, MarkupInv
  <1>4. Stored' = Stored
    BY <1>2 DEF Stored
  <1>5. settings' = [settings EXCEPT ![r] = change[r]] /\ MarkupRows = {}
    BY DEF WriteMarkup, KeyIsFree
  <1>6. settings' \in [MarkupEdits -> Markups \cup {NoRow}] /\ MarkupRows' = {r}
    BY <1>1, <1>3, <1>5 DEF IInv, Shape, MarkupRows
  <1>7. Unique'
    BY <1>2, <1>4, <1>6 DEF Unique, SameName, IInv
  <1>8. RequestInv(r)'
    BY <1>1, Kinds DEF RequestInv, CreationInv, EditInv, MarkupInv, BillInv
  <1> QED
    BY <1>2, <1>4, <1>5, <1>6, <1>7, <1>8, OthersStay DEF IInv, Shape

\* Prices are read: no table is written and no bill.
LEMMA ResolutionInv ==
    ASSUME IInv, NEW r \in Requests, Resolution(r)
    PROVE  IInv'
  <1>1. r \in Priced
    BY DEF Resolution, FindPrice, FindConfig, NoConfig, FindMarkup, BadMarkup, Goes, IInv, RequestInv, BillInv
  <1>2. UNCHANGED tables /\ target' = target /\ change' = change /\ bill' = bill
    BY DEF Resolution, FindPrice, FindConfig, NoConfig, FindMarkup, BadMarkup, Found, session
  <1>3. pc'[r] \in {"found", "priced", "done"} /\ Mover(r)
    BY <1>2 DEF Resolution, FindPrice, FindConfig, NoConfig, FindMarkup, BadMarkup, Goes, IInv, Shape, Mover
  <1>4. BillInv(r)'
    BY <1>1, <1>2, <1>3 DEF BillInv, IInv, RequestInv
  <1>5. CreationInv(r)' /\ EditInv(r)' /\ MarkupInv(r)'
    BY <1>3 DEF CreationInv, EditInv, MarkupInv
  <1> QED
    BY <1>2, <1>3, <1>4, <1>5, TablesStay DEF RequestInv

LEMMA ChargingInv ==
    ASSUME IInv, NEW r \in Requests, Charging(r)
    PROVE  IInv'
  <1>1. r \in Priced /\ pc[r] \in {"priced", "held"} /\ RequestInv(r)
    BY DEF Charging, Refuse, Hold, Settle, FailEmbedding, Goes, IInv, RequestInv, BillInv
  <1>2. UNCHANGED tables /\ target' = target /\ change' = change
    BY DEF Charging, Refuse, Hold, Settle, FailEmbedding, Logs, session
  <1>3. /\ DOMAIN pc' = Requests /\ \A q \in Requests : q # r => pc'[q] = pc[q]
        /\ pc'[r] = IF Hold(r) THEN "held" ELSE "done"
    BY <1>1 DEF Charging, Refuse, Hold, Settle, FailEmbedding, Logs, Goes, IInv, Shape
  <1>4. CreationInv(r)' /\ EditInv(r)' /\ MarkupInv(r)'
    BY <1>3 DEF CreationInv, EditInv, MarkupInv
  <1>5. CASE Refuse(r) \/ FailEmbedding(r)
    <2>1. bill' = bill /\ pc'[r] = "done"
      BY <1>1, <1>5 DEF Refuse, FailEmbedding, Goes, Logs, IInv, Shape
    <2>2. Mover(r)
      BY <1>2, <1>3, <2>1 DEF Mover, IInv, Shape
    <2>3. BillInv(r)'
      BY <1>1, <2>1 DEF BillInv, RequestInv
    <2> QED
      BY <1>2, <1>4, <2>2, <2>3, TablesStay DEF RequestInv
  <1>6. CASE Hold(r)
    <2> DEFINE new == [estimated |-> CostAt(r, Estimated(r), price[r]), lines |-> <<>>, cut |-> {},
                       usage |-> NoUsage, actual |-> 0]
    <2>1. bill' = [bill EXCEPT ![r] = new] /\ pc'[r] = "held"
      BY <1>3, <1>6 DEF Hold
    <2>2. bill'[r] = new /\ DOMAIN bill' = Priced /\ \A q \in Priced : q # r => bill'[q] = bill[q]
      BY <1>1, <2>1 DEF IInv, Shape
    <2>3. Mover(r)
      BY <1>2, <1>3, <2>2 DEF Mover, IInv, Shape
    <2>4. ParsedUsage(<<>>, {}) = NoUsage
      BY DEF ParsedUsage, WithUsage
    <2>5. BillInv(r)'
      BY <1>1, <2>1, <2>2, <2>4 DEF BillInv
    <2> QED
      BY <1>2, <1>4, <2>3, <2>5, TablesStay DEF RequestInv
  <1>7. CASE Settle(r)
    <2> DEFINE actualOf(usage) == IF r \in Embeds /\ usage.prompt = 0 THEN bill[r].estimated
                                  ELSE CostAt(r, usage, SettledAt(r))
               settled(lines, cut, actual) ==
                  [bill EXCEPT ![r] = [@ EXCEPT !.lines = lines, !.cut = cut,
                                                !.usage = ParsedUsage(lines, cut), !.actual = actual]]
    <2>0. PICK lines \in Priceable[r].answers :
             \E cut \in IF r \in Streams THEN SUBSET DOMAIN lines ELSE {{}} :
                /\ bill' = settled(lines, cut, actualOf(ParsedUsage(lines, cut)))
                /\ Logs(r, actualOf(ParsedUsage(lines, cut)))
      BY <1>7 DEF Settle
    <2>1. PICK cut :
             /\ bill' = settled(lines, cut, actualOf(ParsedUsage(lines, cut)))
             /\ Logs(r, actualOf(ParsedUsage(lines, cut)))
      BY <2>0
    <2> DEFINE actual == actualOf(ParsedUsage(lines, cut))
    <2>2. /\ bill' = settled(lines, cut, actual)
          /\ pc[r] = "held" /\ pc' = [pc EXCEPT ![r] = "done"]
      BY <1>7, <2>1 DEF Settle, Logs
    <2> HIDE DEF actual
    <2>3. /\ bill'[r] = [bill[r] EXCEPT !.lines = lines, !.cut = cut, !.usage = ParsedUsage(lines, cut), !.actual = actual]
          /\ DOMAIN bill' = Priced /\ \A q \in Priced : q # r => bill'[q] = bill[q]
      BY <1>1, <2>2 DEF IInv, Shape
    <2>4. DOMAIN bill[r] = {"estimated", "lines", "cut", "usage", "actual"}
      BY <1>1, <2>2 DEF RequestInv, BillInv
    <2>5. bill'[r].lines = lines /\ bill'[r].cut = cut /\ bill'[r].usage = ParsedUsage(lines, cut)
      BY <2>3, <2>4
    <2>6. lines \in Seq(Lines) /\ pc'[r] = "done"
      BY <1>1, <2>2, RequestAssumption DEF Lines, Usages, IInv, Shape
    <2>7. Mover(r)
      BY <1>2, <1>3, <2>3 DEF Mover, IInv, Shape
    <2>8. BillInv(r)'
      BY <1>1, <2>5, <2>6 DEF BillInv
    <2> QED
      BY <1>2, <1>4, <2>7, <2>8, TablesStay DEF RequestInv
  <1> QED
    BY <1>5, <1>6, <1>7 DEF Charging

THEOREM Inductive == Spec => []IInv
  <1>1. Init => IInv
    BY InitInv
  <1>2. ASSUME IInv, [Next]_vars PROVE IInv'
    <2>1. CASE CatalogNext
      <3>1. PICK r \in Requests : Creation(r) \/ Edit(r) \/ MarkupEdit(r) \/ Resolution(r) \/ Charging(r)
        BY <2>1 DEF CatalogNext
      <3>2. CASE Creation(r)
        BY <1>2, <3>2, LookInv, InsertInv DEF Creation
      <3>3. CASE Edit(r)
        BY <1>2, <3>3, LookInv, EditConfigInv DEF Edit
      <3>4. CASE MarkupEdit(r)
        BY <1>2, <3>4, LookInv, WriteMarkupInv DEF MarkupEdit
      <3> QED
        BY <1>2, <3>1, <3>2, <3>3, <3>4, ResolutionInv, ChargingInv
    <2>2. CASE ~CatalogNext
      <3>1. configs' = configs /\ settings' = settings /\ pc' = pc /\ target' = target /\ change' = change /\ bill' = bill
        BY <1>2, <2>2 DEF Next, Tick, Open, Ask, CountRows, FetchPage, Finished, vars, catalog, tables, session
      <3> QED
        BY <1>2, <3>1 DEF IInv, Shape, Unique, RequestInv, CreationInv, EditInv, MarkupInv, BillInv,
                          Stored, MarkupRows, SameName
    <2> QED
      BY <2>1, <2>2
  <1> QED
    BY <1>1, <1>2, PTL DEF Spec

-----------------------------------------------------------------------------
(***************************************************************************)
(* Theorems.                                                               *)
(***************************************************************************)
\* Races of creations leave one row of a name, and races of markups one setting.
THEOREM NamesAreUnique == Spec => []CatalogIsUnambiguous
  <1>1. IInv => CatalogIsUnambiguous
    <2> SUFFICES ASSUME IInv PROVE CatalogIsUnambiguous
      OBVIOUS
    <2>1. Cardinality(MarkupRows) <= 1
      <3>1. CASE MarkupRows = {}
        BY <3>1, FS_EmptySet
      <3>2. CASE MarkupRows # {}
        <4>1. PICK e \in MarkupRows : TRUE
          BY <3>2
        <4>2. MarkupRows = {e}
          BY <4>1 DEF IInv, Unique
        <4> QED
          BY <4>2, FS_Singleton
      <3> QED
        BY <3>1, <3>2
    <2> QED
      BY <2>1 DEF CatalogIsUnambiguous, IInv, Unique
  <1> QED
    BY <1>1, Inductive, PTL

\* What changes a row that is stored is an edit of that row, and changes the columns that
\* it was sent.
THEOREM ColumnsAreKept == Spec => EditsAreKept
  <1> DEFINE Kept == \A c \in Stored : \A column \in DOMAIN configs[c] :
                        configs'[c][column] # configs[c][column]
                           => /\ configs'[c][column] # NoRow
                              /\ \E r \in Edits : pc[r] # "done" /\ pc'[r] = "done" /\ target[r] = c
                                                 /\ column \in DOMAIN change[r]
  <1>1. ASSUME IInv, [Next]_vars PROVE Kept
    <2>1. CASE \E r \in Requests : EditConfig(r)
      <3>1. PICK r \in Requests : EditConfig(r)
        BY <2>1
      <3>2. /\ r \in Edits /\ pc[r] = "checked" /\ pc'[r] = "done"
            /\ target[r] \in Stored /\ change[r] \in Changes /\ configs[target[r]] \in ConfigRow
            /\ configs'[target[r]] = Updated(configs[target[r]], seen[r], change[r])
            /\ \A c \in Creations : c # target[r] => configs'[c] = configs[c]
        BY <1>1, <3>1, EditedRow
      <3>3. \A column \in DOMAIN configs[target[r]] :
               configs'[target[r]][column] # configs[target[r]][column] =>
                  column \in DOMAIN change[r] /\ configs'[target[r]][column] # NoRow
        BY <3>2, UpdatedRow
      <3> QED
        BY <3>2, <3>3 DEF Stored
    <2>2. CASE \E r \in Requests : InsertConfig(r)
      <3>1. PICK r \in Requests : InsertConfig(r)
        BY <2>2
      <3>2. r \notin Stored
        BY <1>1, <3>1 DEF InsertConfig, Goes, IInv, RequestInv, CreationInv
      <3>3. \A c \in Stored : configs'[c] = configs[c]
        BY <1>1, <3>1, <3>2 DEF InsertConfig, IInv, Shape, Stored
      <3> QED
        BY <3>3
    <2>3. CASE ~(\E r \in Requests : EditConfig(r)) /\ ~(\E r \in Requests : InsertConfig(r))
      <3>1. configs' = configs
        <4>1. CASE CatalogNext
          <5>1. PICK r \in Requests : Creation(r) \/ Edit(r) \/ MarkupEdit(r) \/ Resolution(r) \/ Charging(r)
            BY <4>1 DEF CatalogNext
          <5>2. CASE Creation(r)
            BY <2>3, <5>2 DEF Creation, CheckConfig, ConfigExists, CollideConfig, Reads, tables
          <5>3. CASE Edit(r)
            BY <2>3, <5>3 DEF Edit, ReadConfig, ConfigMissing, Reads, tables
          <5>4. CASE MarkupEdit(r)
            BY <5>4 DEF MarkupEdit, ReadMarkup, WriteMarkup, KeepMarkup, Reads, tables
          <5>5. CASE Resolution(r)
            BY <5>5 DEF Resolution, FindPrice, FindConfig, NoConfig, FindMarkup, BadMarkup, Found, tables
          <5>6. CASE Charging(r)
            BY <5>6 DEF Charging, Refuse, Hold, Settle, FailEmbedding, Logs, tables
          <5> QED
            BY <5>1, <5>2, <5>3, <5>4, <5>5, <5>6
        <4>2. CASE ~CatalogNext
          BY <1>1, <4>2 DEF Next, Tick, Open, Ask, CountRows, FetchPage, Finished, vars, catalog, tables
        <4> QED
          BY <4>1, <4>2
      <3> QED
        BY <3>1
    <2> QED
      BY <2>1, <2>2, <2>3
  <1>2. IInv /\ [Next]_vars => [Kept]_catalog
    BY <1>1
  <1> QED
    BY <1>2, Inductive, PTL DEF Spec, EditsAreKept


\* Of some places in a sequence one is the last.
LEMMA LastOf ==
    ASSUME NEW n \in Nat, NEW places, places \subseteq 1 .. n, places # {}
    PROVE  \E i \in places : \A j \in places : j <= i
  <1> DEFINE above == {n - i : i \in places}
  <1>1. \A i \in places : i \in Nat /\ n - i \in Nat
    OBVIOUS
  <1>2. above \subseteq Nat /\ above # {}
    BY <1>1
  <1>3. \A i \in places : n - i \in above
    OBVIOUS
  <1>4. \A k \in above : \E i \in places : k = n - i
    OBVIOUS
  <1> HIDE DEF above
  <1>5. PICK k \in above : \A l \in above : k <= l
    BY <1>2, SmallestOf
  <1>6. PICK i \in places : k = n - i
    BY <1>4, <1>5
  <1>7. \A j \in places : n - i <= n - j
    BY <1>3, <1>5, <1>6
  <1>8. \A j \in places : j <= i
    BY <1>1, <1>7
  <1> QED
    BY <1>8

\* A stream whose last report arrived whole is billed by it.
THEOREM LastReportIsBilled == Spec => []UncutUsageIsBilled
  <1>1. IInv => UncutUsageIsBilled
    <2> SUFFICES ASSUME IInv, NEW r \in Priced, bill[r] # NoRow
                 PROVE  LET reports == {i \in DOMAIN bill[r].lines : bill[r].lines[i] # NoReport}
                            last == CHOOSE i \in reports : \A j \in reports : j <= i
                        IN  reports # {} => last \in bill[r].cut \/ bill[r].usage = bill[r].lines[last]
      BY DEF UncutUsageIsBilled
    <2> DEFINE lines == bill[r].lines
               cut == bill[r].cut
               reports == {i \in DOMAIN lines : lines[i] # NoReport}
               last == CHOOSE i \in reports : \A j \in reports : j <= i
    <2>1. lines \in Seq(Lines) /\ bill[r].usage = ParsedUsage(lines, cut)
      BY Kinds DEF IInv, RequestInv, BillInv
    <2> SUFFICES ASSUME reports # {}, last \notin cut PROVE bill[r].usage = lines[last]
      OBVIOUS
    <2>2. reports \subseteq 1 .. Len(lines) /\ Len(lines) \in Nat
      BY <2>1
    <2> DEFINE uncut == WithUsage(lines, cut)
    <2>3. uncut = {i \in reports : i \notin cut}
      BY DEF WithUsage
    <2> HIDE DEF reports
    <2>4. last \in reports /\ \A j \in reports : j <= last
      <3>1. \E i \in reports : \A j \in reports : j <= i
        BY <2>2, LastOf
      <3> QED
        BY <3>1
    <2> HIDE DEF last, uncut
    <2>5. last \in uncut /\ \A j \in uncut : last >= j
      BY <2>2, <2>3, <2>4
    <2>6. Max(uncut) = last
      <3>1. Max(uncut) = CHOOSE i \in uncut : \A j \in uncut : i >= j
        BY DEF Max
      <3>2. \A i \in uncut : (\A j \in uncut : i >= j) => i = last
        BY <2>2, <2>3, <2>5
      <3> QED
        BY <2>5, <3>1, <3>2
    <2>7. ParsedUsage(lines, cut) = lines[Max(uncut)]
      BY <2>5 DEF ParsedUsage, uncut
    <2> QED
      BY <2>1, <2>6, <2>7
  <1> QED
    BY <1>1, Inductive, PTL
=============================================================================
