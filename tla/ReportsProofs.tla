--------------------------- MODULE ReportsProofs ---------------------------
(***************************************************************************)
(* Theorems about what requests pay and what readers see, for any number   *)
(* of requests and readers, any precision of floats, pages of any size,    *)
(* and a log of any length that grows between any two steps of a reader.   *)
(*                                                                         *)
(* What readers know is outdated as soon as they know it.  The invariant   *)
(* compares it with the log as it is: a number that a query returned is    *)
(* no larger than what the query would return now, and a row that a walk   *)
(* has yet to show is further on than the page that it is at.  What is     *)
(* billed is compared with what was held, by the order that costs keep;    *)
(* with the exact cost, by the bounds of PricingProofs; and with the cost  *)
(* price, by where each price is from.                                     *)
(***************************************************************************)
EXTENDS CatalogProofs, PricingProofs

-----------------------------------------------------------------------------
(***************************************************************************)
(* Usage and what it costs.                                                *)
(***************************************************************************)
LEMMA CostAtType ==
    ASSUME NEW r, NEW usage \in Usages, NEW p \in Prices PROVE CostAt(r, usage, p) \in Nat
  <1>1. usage.prompt \in Nat /\ usage.completion \in Nat /\ p.input \in Nat /\ p.output \in Nat
    BY DEF Usages, Prices
  <1>2. /\ Times(Nearest(usage.prompt, Thousand), Whole(p.input)) \in Floats
        /\ Times(Nearest(usage.completion, Thousand), Whole(p.output)) \in Floats
    BY <1>1, NearestType, WholeType, TimesType, FloatsAreFractions, PricingAssumption
  <1>3. Cost(usage.prompt, usage.completion, p) \in Nat
    BY <1>2, PlusType, CeilType, FloatsAreFractions DEF Cost
  <1>4. EmbeddingCost(usage.prompt, p) \in Nat
    BY <1>2, CeilType, FloatsAreFractions DEF EmbeddingCost
  <1> QED
    BY <1>3, <1>4 DEF CostAt

LEMMA EstimatedType ==
    ASSUME NEW r \in Priced, r \in Embeds \/ Priceable[r].max_tokens # NoRow
    PROVE  Estimated(r) \in Usages
  <1>1. Priceable[r].chars \in Nat /\ Priceable[r].max_tokens \in Nat \cup {NoRow}
    BY RequestAssumption
  <1>2. -((-Priceable[r].chars) \div 4) \in Nat
    BY <1>1, QuotientType
  <1>3. EstimatedTokens(Priceable[r].chars) \in Nat
    BY <1>2, LargerOf DEF EstimatedTokens
  <1> QED
    BY <1>1, <1>3 DEF Estimated, Usages

LEMMA ParsedUsageType ==
    ASSUME NEW lines \in Seq(Lines), NEW cut
    PROVE  /\ ParsedUsage(lines, cut) \in Usages
           /\ \/ ParsedUsage(lines, cut) = NoUsage
              \/ \E i \in DOMAIN lines : lines[i] # NoReport /\ ParsedUsage(lines, cut) = lines[i]
  <1> DEFINE found == WithUsage(lines, cut)
  <1>1. found \subseteq 1 .. Len(lines) /\ Len(lines) \in Nat /\ \A i \in found : lines[i] # NoReport
    BY DEF WithUsage
  <1> HIDE DEF found
  <1>2. CASE found = {}
    BY <1>2 DEF ParsedUsage, found, NoUsage, Usages
  <1>3. CASE found # {}
    <2>1. \E i \in found : \A j \in found : j <= i
      BY <1>1, <1>3, LastOf
    <2>2. Max(found) \in found
      <3>1. \E i \in found : \A j \in found : i >= j
        BY <1>1, <2>1
      <3> QED
        BY <3>1 DEF Max
    <2>3. ParsedUsage(lines, cut) = lines[Max(found)]
      BY <1>3 DEF ParsedUsage, found
    <2>4. Max(found) \in 1 .. Len(lines) /\ lines[Max(found)] # NoReport
      BY <1>1, <2>2
    <2>5. lines[Max(found)] \in Usages /\ Max(found) \in DOMAIN lines
      BY <2>4 DEF Lines
    <2> QED
      BY <2>3, <2>4, <2>5
  <1> QED
    BY <1>2, <1>3

-----------------------------------------------------------------------------
(***************************************************************************)
(* What Catalog keeps and logs.                                            *)
(***************************************************************************)
LogRow == [request : Chats \cup Embeds, cost : Nat, created_at : Nat]

\* What a priced request has at each place of its handler.
PricedInv(r) ==
    /\ pc[r] \in {"found", "priced", "held"} => seen[r] \in ConfigRow
    /\ pc[r] \in {"priced", "held"} => price[r] \in Prices
    /\ bill[r] # NoRow => pc[r] \in {"held", "done"} /\ price[r] # NoRow
    /\ pc[r] = "held" => bill[r].estimated \in Nat
    /\ began[r] \in 0 .. now

LogInv ==
    /\ logs \in Seq(LogRow)
    /\ \A i \in DOMAIN logs : logs[i].created_at <= now

Places ==
    /\ now \in 0 .. MaxTime
    /\ DOMAIN seen = Requests /\ DOMAIN price = Priced /\ DOMAIN began = Priced
    /\ \A r \in Requests : pc[r] \in {"unsent", "start", "checked", "found", "priced", "held", "done"}

CatalogInv == Places /\ LogInv /\ \A r \in Priced : PricedInv(r)

LEMMA CatalogTypes == IInv /\ CatalogInv => CatalogTypeOK
  <1> SUFFICES ASSUME IInv, CatalogInv PROVE CatalogTypeOK
    OBVIOUS
  <1>1. \A c \in Creations : configs[c] \in ConfigRow \cup {NoRow}
    BY DEF IInv, Shape
  <1>2. \A e \in MarkupEdits : settings[e] \in Markups \cup {NoRow}
    BY DEF IInv, Shape
  <1>3. \A i \in DOMAIN logs : logs[i].request \in Chats \cup Embeds /\ logs[i].created_at \in 0 .. now
    <2> SUFFICES ASSUME NEW i \in DOMAIN logs
                 PROVE  logs[i].request \in Chats \cup Embeds /\ logs[i].created_at \in 0 .. now
      OBVIOUS
    <2>1. logs[i] \in LogRow /\ logs[i].created_at <= now /\ now \in Nat
      BY ReportsAssumption DEF CatalogInv, LogInv, Places
    <2> QED
      BY <2>1 DEF LogRow
  <1> QED
    BY <1>1, <1>2, <1>3 DEF CatalogTypeOK, CatalogInv, Places, PricedInv, Prices

LEMMA InitCatalog == Init => CatalogInv
  <1> SUFFICES ASSUME Init PROVE CatalogInv
    OBVIOUS
  <1>1. /\ seen = [r \in Requests |-> NoRow] /\ price = [r \in Priced |-> NoRow]
        /\ bill = [r \in Priced |-> NoRow] /\ began = [r \in Priced |-> 0]
        /\ logs = <<>> /\ now = 0
    BY DEF Init, CatalogInit
  <1>2. \A r \in Requests : pc[r] \in {"unsent", "start"}
    BY DEF Init, CatalogInit
  <1>3. LogInv
    BY <1>1 DEF LogInv
  <1>4. \A r \in Priced : PricedInv(r)
    BY <1>1, <1>2, Kinds DEF PricedInv
  <1>5. Places
    BY <1>1, <1>2, ReportsAssumption DEF Places
  <1> QED
    BY <1>3, <1>4, <1>5 DEF CatalogInv

\* Administrators leave alone whatever is priced.
LEMMA AdminCatalog ==
    ASSUME IInv, CatalogInv, NEW r \in Requests, Creation(r) \/ Edit(r) \/ MarkupEdit(r)
    PROVE  CatalogInv'
  <1>1. r \notin Priced
    BY Kinds DEF Creation, Edit, MarkupEdit, CheckConfig, ConfigExists, InsertConfig, CollideConfig, ReadConfig,
                 ConfigMissing, EditConfig, ReadMarkup, WriteMarkup, KeepMarkup
  <1>2. \E from, to \in {"start", "checked", "done"} : Goes(r, from, to)
    BY DEF Creation, Edit, MarkupEdit, CheckConfig, ConfigExists, InsertConfig, CollideConfig, ReadConfig,
           ConfigMissing, EditConfig, ReadMarkup, WriteMarkup, KeepMarkup
  <1>3. UNCHANGED <<price, bill, began>>
    BY DEF Creation, Edit, MarkupEdit, CheckConfig, ConfigExists, InsertConfig, CollideConfig, ReadConfig,
           ConfigMissing, EditConfig, ReadMarkup, WriteMarkup, KeepMarkup, Forgets, Reads, session
  <1>4. seen' = seen \/ \E s : seen' = [seen EXCEPT ![r] = s]
    <2> DEFINE Sees == seen' = seen \/ \E s : seen' = [seen EXCEPT ![r] = s]
    <2>1. ASSUME Creation(r) PROVE Sees
      BY <2>1 DEF Creation, CheckConfig, ConfigExists, InsertConfig, CollideConfig, Forgets, session
    <2>2. ASSUME Edit(r) PROVE Sees
      <3>1. ASSUME ReadConfig(r) PROVE Sees
        BY <3>1 DEF ReadConfig
      <3> QED
        BY <2>2, <3>1 DEF Edit, ConfigMissing, EditConfig, Forgets, session
    <2>3. ASSUME MarkupEdit(r) PROVE Sees
      <3>1. ASSUME ReadMarkup(r) PROVE Sees
        BY <3>1 DEF ReadMarkup
      <3> QED
        BY <2>3, <3>1 DEF MarkupEdit, WriteMarkup, KeepMarkup, Forgets, session
    <2> QED
      BY <2>1, <2>2, <2>3
  <1>5. /\ UNCHANGED <<logs, now>> /\ DOMAIN seen' = Requests
        /\ pc'[r] \in {"start", "checked", "done"}
        /\ \A q \in Requests : q # r => pc'[q] = pc[q] /\ seen'[q] = seen[q]
    BY <1>2, <1>4 DEF Goes, CatalogInv, Places, IInv, Shape
  <1>6. Places' /\ LogInv'
    BY <1>3, <1>5 DEF CatalogInv, Places, LogInv
  <1>7. \A q \in Priced : PricedInv(q)'
    BY <1>1, <1>3, <1>5, Kinds DEF CatalogInv, PricedInv
  <1> QED
    BY <1>6, <1>7 DEF CatalogInv

\* A price is a pair of numbers wherever it comes from.
LEMMA PricesAreNumbers ==
    /\ \A r \in Priced, row \in ConfigRow : Overrides(r, row) => PriceOf(r, row.input_price, row.output_price) \in Prices
    /\ \A r \in Priced, input, output \in Nat : PriceOf(r, input, output) \in Prices
    /\ NoRow \notin Prices
  <1>1. \A r \in Priced, row \in ConfigRow :
           Overrides(r, row) => row.input_price \in Nat /\ (r \notin Embeds => row.output_price \in Nat)
    BY DEF Overrides, ConfigRow
  <1> QED
    BY <1>1, RowAssumption DEF PriceOf, Prices

\* A markup is a float, and takes no more away than there is.
LEMMA MarkupsAreFloats ==
    ASSUME NEW m \in PossibleMarkups
    PROVE  m \in Signed /\ (PricesNotNegative => m[1] >= -(Hundred * m[2]))
  <1>1. Representable \subseteq Signed
    <2>1. 2^Precision - 1 \in Int
      BY PowerType, PricingAssumption
    <2>2. 0 .. (2^Precision - 1) \subseteq -(2^Precision - 1) .. (2^Precision - 1)
      BY <2>1
    <2> QED
      BY <2>2 DEF Representable, Signed
  <1> QED
    BY <1>1, CatalogAssumption DEF PossibleMarkups, PricesNotNegative

\* The markups that there are: the one that is set, or else the default.
SetMarkups == ({DefaultMarkup} \cup {settings[e] : e \in MarkupRows}) \ {NoNumber}

LEMMA MarkupStored ==
    ASSUME IInv
    PROVE  /\ Markup \in IF MarkupRows = {} THEN {DefaultMarkup} ELSE {settings[e] : e \in MarkupRows}
           /\ Markup # NoNumber => Markup \in SetMarkups
           /\ SetMarkups \subseteq PossibleMarkups
  <1>1. \A e \in MarkupRows : settings[e] \in Markups
    BY DEF MarkupRows, IInv, Shape
  <1>2. CASE MarkupRows = {}
    BY <1>1, <1>2 DEF Markup, SetMarkups, PossibleMarkups
  <1>3. CASE MarkupRows # {}
    <2>1. PICK e \in MarkupRows : e = CHOOSE x \in MarkupRows : TRUE
      BY <1>3
    <2>2. Markup = settings[e]
      BY <1>3, <2>1 DEF Markup
    <2> QED
      BY <1>1, <1>3, <2>2 DEF SetMarkups, PossibleMarkups
  <1> QED
    BY <1>2, <1>3

\* Those who are priced.
LEMMA ResolutionCatalog ==
    ASSUME PricesNotNegative, IInv, CatalogInv, NEW r \in Requests, Resolution(r)
    PROVE  CatalogInv'
  <1>1. r \in Priced /\ pc[r] \in {"start", "found"} /\ PricedInv(r)
    BY DEF Resolution, FindPrice, FindConfig, NoConfig, FindMarkup, BadMarkup, Goes, IInv, RequestInv, BillInv, CatalogInv
  <1>2. \E to \in {"found", "priced", "done"} : Goes(r, pc[r], to)
    BY DEF Resolution, FindPrice, FindConfig, NoConfig, FindMarkup, BadMarkup, Goes
  <1>3. UNCHANGED <<logs, now, bill>> /\ bill[r] = NoRow
    BY <1>1 DEF Resolution, FindPrice, FindConfig, NoConfig, FindMarkup, BadMarkup, Goes, Found, PricedInv
  <1> DEFINE Moved == /\ PricedInv(r)' /\ DOMAIN seen' = Requests /\ DOMAIN price' = Priced /\ DOMAIN began' = Priced
                      /\ \A q \in Priced : q # r => seen'[q] = seen[q] /\ price'[q] = price[q] /\ began'[q] = began[q]
  <1>4. ASSUME NEW c \in Creations, Found(r, c)
        PROVE  /\ c \in Stored /\ configs[c] \in ConfigRow /\ seen'[r] = configs[c] /\ began'[r] = now
               /\ DOMAIN seen' = Requests /\ DOMAIN began' = Priced
               /\ \A q \in Priced : q # r => seen'[q] = seen[q] /\ began'[q] = began[q]
    BY <1>1, <1>4 DEF Found, Enabled, Stored, IInv, Shape, CatalogInv, Places
  <1>5. now \in 0 .. now
    BY ReportsAssumption DEF CatalogInv, Places
  <1>6. ASSUME FindPrice(r) PROVE Moved
    <2>1. PICK c \in Creations : /\ Found(r, c) /\ Overrides(r, configs[c])
                                 /\ price' = [price EXCEPT ![r] = PriceOf(r, configs[c].input_price, configs[c].output_price)]
      BY <1>6 DEF FindPrice
    <2>2. price'[r] \in Prices /\ DOMAIN price' = Priced /\ \A q \in Priced : q # r => price'[q] = price[q]
      BY <1>1, <1>4, <2>1, PricesAreNumbers DEF CatalogInv, Places
    <2>3. pc'[r] = "priced"
      BY <1>6 DEF FindPrice, Goes, IInv, Shape
    <2> QED
      BY <1>3, <1>4, <1>5, <2>1, <2>2, <2>3 DEF PricedInv
  <1>7. ASSUME FindConfig(r) PROVE Moved
    <2>1. PICK c \in Creations : Found(r, c)
      BY <1>7 DEF FindConfig
    <2>2. pc'[r] = "found" /\ price' = price
      BY <1>7 DEF FindConfig, Goes, IInv, Shape
    <2> QED
      BY <1>3, <1>4, <1>5, <2>1, <2>2 DEF PricedInv, CatalogInv, Places
  <1>8. ASSUME FindMarkup(r) PROVE Moved
    <2> DEFINE cost == CostPrices[Model(r)]
    <2>1. cost.input \in Fractions /\ cost.output \in Fractions
      BY <1>1, RequestAssumption, RepresentableType, FloatsAreFractions DEF Model
    <2>2. Markup \in Signed /\ Markup[1] >= -(Hundred * Markup[2])
      BY <1>8, MarkupStored, MarkupsAreFloats DEF FindMarkup
    <2>3. price' = [price EXCEPT ![r] = PriceOf(r, MarkedUp(cost.input, Markup), MarkedUp(cost.output, Markup))]
      BY <1>8 DEF FindMarkup
    <2>4. MarkedUp(cost.input, Markup) \in Nat /\ MarkedUp(cost.output, Markup) \in Nat
      BY <2>1, <2>2, MarkedUpType
    <2>5. price'[r] \in Prices /\ DOMAIN price' = Priced /\ \A q \in Priced : q # r => price'[q] = price[q]
      BY <1>1, <2>3, <2>4, PricesAreNumbers DEF CatalogInv, Places
    <2>6. pc[r] = "found" /\ pc'[r] = "priced" /\ seen' = seen /\ began' = began
      BY <1>8 DEF FindMarkup, Goes, IInv, Shape
    <2> QED
      BY <1>1, <1>3, <2>5, <2>6 DEF PricedInv, CatalogInv, Places
  <1>9. ASSUME NoConfig(r) \/ BadMarkup(r) PROVE Moved
    <2>1. pc'[r] = "done" /\ UNCHANGED <<seen, price, began>>
      BY <1>9 DEF NoConfig, BadMarkup, Goes, session, IInv, Shape
    <2> QED
      BY <1>1, <1>3, <2>1 DEF PricedInv, CatalogInv, Places
  <1>10. Moved
    BY <1>6, <1>7, <1>8, <1>9 DEF Resolution
  <1>11. pc'[r] \in {"found", "priced", "done"} /\ \A q \in Requests : q # r => pc'[q] = pc[q]
    BY <1>2 DEF Goes, IInv, Shape
  <1>12. Places' /\ LogInv'
    BY <1>3, <1>10, <1>11 DEF CatalogInv, Places, LogInv
  <1>13. \A q \in Priced : PricedInv(q)'
    BY <1>3, <1>10, <1>11, Kinds DEF CatalogInv, PricedInv
  <1> QED
    BY <1>12, <1>13 DEF CatalogInv

\* A log row is a new last one.
LEMMA LogsCatalog ==
    ASSUME CatalogInv, NEW r \in Priced, PricedInv(r), pc[r] = "held", NEW cost \in Nat, Logs(r, cost)
    PROVE  /\ LogInv' /\ now' = now
           /\ \/ logs' = logs
              \/ \E row \in LogRow : row.created_at <= now /\ logs' = Append(logs, row)
  <1>1. PICK rows \in IF r \in Streams THEN {<<>>}
                      ELSE {<<[request |-> r, cost |-> cost, created_at |-> t]>> : t \in began[r] .. now} :
           logs' = logs \o rows
    BY DEF Logs
  <1>2. now' = now /\ now \in Nat /\ logs \in Seq(LogRow) /\ \A i \in 1 .. Len(logs) : logs[i].created_at <= now
    BY ReportsAssumption DEF Logs, CatalogInv, Places, LogInv
  <1>3. CASE r \in Streams
    <2>1. logs' = logs
      BY <1>1, <1>2, <1>3
    <2> QED
      BY <1>2, <2>1 DEF LogInv
  <1>4. CASE r \notin Streams
    <2>1. PICK t \in began[r] .. now : rows = <<[request |-> r, cost |-> cost, created_at |-> t]>>
      BY <1>1, <1>4
    <2> DEFINE row == [request |-> r, cost |-> cost, created_at |-> t]
    <2>2. row \in LogRow /\ row.created_at <= now
      BY <1>2, <1>4, <2>1 DEF LogRow, Priced, PricedInv
    <2>3. logs' = Append(logs, row)
      BY <1>1, <1>2, <2>1
    <2> HIDE DEF row
    <2>4. logs' \in Seq(LogRow) /\ \A i \in 1 .. Len(logs') : logs'[i].created_at <= now
      BY <1>2, <2>2, <2>3
    <2>5. LogInv'
      BY <1>2, <2>4 DEF LogInv
    <2> QED
      BY <1>2, <2>2, <2>3, <2>5
  <1> QED
    BY <1>3, <1>4

\* The log grows by a row or stays as it is; nobody changes what is in it.
Grows ==
    \/ logs' = logs
    \/ \E row \in LogRow : row.created_at <= now /\ logs' = Append(logs, row)

LEMMA ChargingCatalog ==
    ASSUME IInv, CatalogInv, NEW r \in Requests, Charging(r)
    PROVE  CatalogInv' /\ now' = now /\ Grows
  <1>1. r \in Priced /\ pc[r] \in {"priced", "held"} /\ PricedInv(r) /\ RequestInv(r)
    BY DEF Charging, Refuse, Hold, Settle, FailEmbedding, Goes, IInv, RequestInv, BillInv, CatalogInv
  <1>2. UNCHANGED <<seen, price, began, now>>
    BY DEF Charging, Refuse, Hold, Settle, FailEmbedding, Logs, session, Goes
  <1>3. pc'[r] \in {"held", "done"} /\ \A q \in Requests : q # r => pc'[q] = pc[q]
    BY <1>1 DEF Charging, Refuse, Hold, Settle, FailEmbedding, Logs, Goes, IInv, Shape
  <1>4. price[r] \in Prices /\ price[r] # NoRow
    BY <1>1, PricesAreNumbers DEF PricedInv
  <1> DEFINE Charged == PricedInv(r)' /\ (\A q \in Priced : q # r => bill'[q] = bill[q]) /\ LogInv' /\ Grows
  <1>5. ASSUME Refuse(r) PROVE Charged
    <2>1. bill' = bill /\ logs' = logs /\ pc'[r] = "done"
      BY <1>5 DEF Refuse, Goes, IInv, Shape
    <2> QED
      BY <1>1, <1>2, <1>4, <2>1 DEF PricedInv, CatalogInv, LogInv, Grows
  <1>6. ASSUME FailEmbedding(r) PROVE Charged
    <2>1. bill' = bill /\ pc'[r] = "done" /\ pc[r] = "held" /\ Logs(r, 0)
      BY <1>6 DEF FailEmbedding, Logs, IInv, Shape
    <2>2. LogInv' /\ Grows
      BY <1>1, <2>1, LogsCatalog DEF Grows
    <2> QED
      BY <1>1, <1>2, <1>4, <2>1, <2>2 DEF PricedInv
  <1>7. ASSUME Hold(r) PROVE Charged
    <2> DEFINE new == [estimated |-> CostAt(r, Estimated(r), price[r]), lines |-> <<>>, cut |-> {},
                       usage |-> NoUsage, actual |-> 0]
    <2>1. bill' = [bill EXCEPT ![r] = new] /\ pc'[r] = "held" /\ logs' = logs
      BY <1>7 DEF Hold, Goes, IInv, Shape
    <2>2. bill'[r] = new /\ \A q \in Priced : q # r => bill'[q] = bill[q]
      BY <1>1, <2>1 DEF IInv, Shape
    <2>3. Estimated(r) \in Usages
      BY <1>1, <1>7, EstimatedType DEF Hold
    <2>4. bill'[r].estimated \in Nat
      BY <1>4, <2>2, <2>3, CostAtType
    <2> QED
      BY <1>1, <1>2, <1>4, <2>1, <2>2, <2>4 DEF PricedInv, CatalogInv, LogInv, Grows
  <1>8. ASSUME Settle(r) PROVE Charged
    <2> DEFINE actualOf(usage) == IF r \in Embeds /\ usage.prompt = 0 THEN bill[r].estimated
                                  ELSE CostAt(r, usage, SettledAt(r))
               settled(lines, cut, actual) ==
                  [bill EXCEPT ![r] = [@ EXCEPT !.lines = lines, !.cut = cut,
                                                !.usage = ParsedUsage(lines, cut), !.actual = actual]]
    <2>0. PICK lines \in Priceable[r].answers :
             \E cut \in IF r \in Streams THEN SUBSET DOMAIN lines ELSE {{}} :
                /\ bill' = settled(lines, cut, actualOf(ParsedUsage(lines, cut)))
                /\ Logs(r, actualOf(ParsedUsage(lines, cut)))
      BY <1>8 DEF Settle
    <2>1. PICK cut :
             /\ bill' = settled(lines, cut, actualOf(ParsedUsage(lines, cut)))
             /\ Logs(r, actualOf(ParsedUsage(lines, cut)))
      BY <2>0
    <2>2. pc[r] = "held" /\ pc'[r] = "done"
      BY <1>1, <1>8, <2>1 DEF Settle, Logs, IInv, Shape
    <2>3. lines \in Seq(Lines)
      BY <1>1, RequestAssumption DEF Lines, Usages
    <2>4. actualOf(ParsedUsage(lines, cut)) \in Nat
      <3>1. ParsedUsage(lines, cut) \in Usages
        BY <2>3, ParsedUsageType
      <3>2. CostAt(r, ParsedUsage(lines, cut), price[r]) \in Nat
        BY <1>4, <3>1, CostAtType
      <3>3. bill[r].estimated \in Nat
        BY <1>1, <2>2 DEF PricedInv
      <3> QED
        BY <3>2, <3>3 DEF SettledAt
    <2>5. LogInv' /\ Grows
      BY <1>1, <2>1, <2>2, <2>4, LogsCatalog DEF Grows
    <2>6. \A q \in Priced : q # r => bill'[q] = bill[q]
      BY <1>1, <2>1 DEF IInv, Shape
    <2>7. PricedInv(r)'
      BY <1>1, <1>2, <1>4, <2>2 DEF PricedInv
    <2> QED
      BY <2>5, <2>6, <2>7
  <1>9. Charged
    BY <1>5, <1>6, <1>7, <1>8 DEF Charging
  <1>10. \A q \in Priced : PricedInv(q)'
    BY <1>2, <1>3, <1>9, Kinds DEF CatalogInv, PricedInv
  <1>11. Places'
    BY <1>2, <1>3 DEF CatalogInv, Places
  <1> QED
    BY <1>2, <1>9, <1>10, <1>11 DEF CatalogInv

\* What readers can see of a step.
LEMMA CatalogSteps ==
    ASSUME PricesNotNegative, IInv, CatalogInv, [Next]_vars
    PROVE  CatalogInv' /\ Grows /\ now' >= now
  <1>1. CASE CatalogNext
    <2>1. PICK r \in Requests : Creation(r) \/ Edit(r) \/ MarkupEdit(r) \/ Resolution(r) \/ Charging(r)
      BY <1>1 DEF CatalogNext
    <2>2. CASE Charging(r)
      BY <2>2, ChargingCatalog DEF CatalogInv, Places
    <2>3. CASE Creation(r) \/ Edit(r) \/ MarkupEdit(r) \/ Resolution(r)
      <3>1. CatalogInv'
        BY <2>3, AdminCatalog, ResolutionCatalog
      <3>2. logs' = logs /\ now' = now
        BY <2>3 DEF Creation, Edit, MarkupEdit, Resolution, CheckConfig, ConfigExists, InsertConfig, CollideConfig,
                    ReadConfig, ConfigMissing, EditConfig, ReadMarkup, WriteMarkup, KeepMarkup,
                    FindPrice, FindConfig, NoConfig, FindMarkup, BadMarkup, Goes
      <3> QED
        BY <3>1, <3>2 DEF Grows, CatalogInv, Places
    <2> QED
      BY <2>1, <2>2, <2>3
  <1>2. CASE Tick
    <2>1. now' = now + 1 /\ now < MaxTime /\ UNCHANGED <<pc, seen, price, bill, logs, began>>
      BY <1>2 DEF Tick, session
    <2>2. now \in Nat /\ now' \in 0 .. MaxTime
      BY <2>1, ReportsAssumption DEF CatalogInv, Places
    <2>3. \A r \in Priced : PricedInv(r)'
      BY <2>1, <2>2 DEF CatalogInv, PricedInv
    <2>4. LogInv'
      <3>1. \A i \in DOMAIN logs : logs[i].created_at \in Nat /\ logs[i].created_at <= now
        <4>1. \A i \in DOMAIN logs : logs[i] \in LogRow
          BY DEF CatalogInv, LogInv
        <4> QED
          BY <4>1 DEF LogRow, CatalogInv, LogInv
      <3> QED
        BY <2>1, <2>2, <3>1 DEF CatalogInv, LogInv
    <2> QED
      BY <2>1, <2>2, <2>3, <2>4 DEF Grows, CatalogInv, Places
  <1>3. CASE ~CatalogNext /\ ~Tick
    <2>1. UNCHANGED <<pc, seen, price, bill, logs, began, now>>
      BY <1>3 DEF Next, Open, Ask, CountRows, FetchPage, Finished, vars, catalog, session
    <2> QED
      BY <2>1 DEF CatalogInv, Places, LogInv, PricedInv, Grows
  <1> QED
    BY <1>1, <1>2, <1>3

-----------------------------------------------------------------------------
(***************************************************************************)
(* What queries return, and what becomes of it when rows are added.        *)
(***************************************************************************)
\* The operators of Reports for any log.
CostsIn(log) == [i \in DOMAIN log |-> log[i].cost]
RevenueIn(log, rows) == SumFunction([i \in rows |-> log[i].cost])
SinceIn(log, start) ==
    {i \in DOMAIN log : log[i].created_at > start \/ (StartIncluded /\ log[i].created_at = start)}

LEMMA LogRows ==
    ASSUME NEW log \in Seq(LogRow)
    PROVE  /\ IsFiniteSet(DOMAIN log)
           /\ \A i \in DOMAIN log : CostsIn(log)[i] = log[i].cost /\ CostsIn(log)[i] \in Nat
           /\ \A start : SinceIn(log, start) \subseteq DOMAIN log
  <1>1. DOMAIN log = 1 .. Len(log) /\ Len(log) \in Nat
    OBVIOUS
  <1>2. \A i \in DOMAIN log : log[i] \in LogRow
    OBVIOUS
  <1> QED
    BY <1>1, <1>2, FS_Interval DEF CostsIn, LogRow, SinceIn

LEMMA RevenueIsSum ==
    ASSUME NEW log \in Seq(LogRow), NEW rows, rows \subseteq DOMAIN log
    PROVE  /\ IsFiniteSet(rows)
           /\ RevenueIn(log, rows) = SumFunctionOnSet(CostsIn(log), rows)
           /\ RevenueIn(log, rows) \in Nat
  <1> DEFINE f == [i \in rows |-> log[i].cost]
  <1>1. IsFiniteSet(rows)
    BY LogRows, FS_Subset
  <1>2. \A i \in rows : f[i] = CostsIn(log)[i] /\ f[i] \in Nat
    BY LogRows
  <1>3. RevenueIn(log, rows) = SumFunctionOnSet(f, rows)
    BY DEF RevenueIn, SumFunction
  <1> HIDE DEF f
  <1>4. SumFunctionOnSet(f, rows) = SumFunctionOnSet(CostsIn(log), rows)
    BY <1>1, <1>2, SumOfSame
  <1>5. SumFunctionOnSet(f, rows) \in Nat
    BY <1>1, <1>2, SumOfNaturals
  <1> QED
    BY <1>1, <1>3, <1>4, <1>5

\* Nothing that a query counted is lost when rows are added.
LEMMA QueriesGrow ==
    ASSUME NEW log \in Seq(LogRow), NEW longer \in Seq(LogRow), DOMAIN log \subseteq DOMAIN longer,
           \A i \in DOMAIN log : longer[i] = log[i],
           NEW start
    PROVE  /\ Cardinality(SinceIn(log, start)) <= Cardinality(SinceIn(longer, start))
           /\ RevenueIn(log, SinceIn(log, start)) <= RevenueIn(longer, SinceIn(longer, start))
  <1>1. SinceIn(log, start) \subseteq SinceIn(longer, start)
    BY DEF SinceIn
  <1>2. IsFiniteSet(SinceIn(log, start)) /\ IsFiniteSet(SinceIn(longer, start))
    BY LogRows, FS_Subset
  <1>3. /\ RevenueIn(log, SinceIn(log, start)) = SumFunctionOnSet(CostsIn(log), SinceIn(log, start))
        /\ RevenueIn(longer, SinceIn(longer, start)) = SumFunctionOnSet(CostsIn(longer), SinceIn(longer, start))
    BY LogRows, RevenueIsSum
  <1>4. \A i \in SinceIn(log, start) : CostsIn(log)[i] = CostsIn(longer)[i] /\ CostsIn(log)[i] \in Int
    BY LogRows DEF CostsIn
  <1>5. \A i \in SinceIn(longer, start) : CostsIn(longer)[i] \in Nat
    BY LogRows
  <1>6. SumFunctionOnSet(CostsIn(log), SinceIn(log, start)) = SumFunctionOnSet(CostsIn(longer), SinceIn(log, start))
    BY <1>2, <1>4, SumOfSame
  <1>7. SumFunctionOnSet(CostsIn(longer), SinceIn(log, start)) <= SumFunctionOnSet(CostsIn(longer), SinceIn(longer, start))
    BY <1>1, <1>2, <1>5, SumOfMore
  <1>8. Cardinality(SinceIn(log, start)) <= Cardinality(SinceIn(longer, start))
    BY <1>1, <1>2, FS_Subset
  <1> QED
    BY <1>3, <1>6, <1>7, <1>8

\* Of one log, a longer time counts as much.
LEMMA LongerTime ==
    ASSUME NEW log \in Seq(LogRow), NEW early \in Nat, NEW late \in Nat, early <= late
    PROVE  RevenueIn(log, SinceIn(log, late)) <= RevenueIn(log, SinceIn(log, early))
  <1>1. \A i \in DOMAIN log : log[i].created_at \in Nat
    <2>1. \A i \in DOMAIN log : log[i] \in LogRow
      OBVIOUS
    <2> QED
      BY <2>1 DEF LogRow
  <1>2. SinceIn(log, late) \subseteq SinceIn(log, early)
    BY <1>1 DEF SinceIn
  <1>3. IsFiniteSet(SinceIn(log, early)) /\ \A i \in SinceIn(log, early) : CostsIn(log)[i] \in Nat
    BY LogRows, FS_Subset
  <1>4. SumFunctionOnSet(CostsIn(log), SinceIn(log, late)) <= SumFunctionOnSet(CostsIn(log), SinceIn(log, early))
    BY <1>2, <1>3, SumOfMore
  <1> QED
    BY <1>4, LogRows, RevenueIsSum

LEMMA SameQueries ==
    /\ \A start : Since(start) = SinceIn(logs, start)
    /\ \A start : Since(start)' = SinceIn(logs', start)
    /\ \A rows : Revenue(rows) = RevenueIn(logs, rows)
  BY DEF Since, SinceIn, Revenue, RevenueIn

\* No more users than rows.
LEMMA ActiveUsers ==
    ASSUME LogInv, NEW rows, rows \subseteq DOMAIN logs
    PROVE  /\ Cardinality(rows) \in Nat
           /\ Cardinality({UserOf[logs[i].request] : i \in rows}) \in Nat
           /\ Cardinality({UserOf[logs[i].request] : i \in rows}) <= Cardinality(rows)
  <1> DEFINE f == [i \in rows |-> UserOf[logs[i].request]]
             T == {UserOf[logs[i].request] : i \in rows}
  <1>1. IsFiniteSet(rows)
    BY RevenueIsSum DEF LogInv
  <1>2. f \in Surjection(rows, T)
    BY DEF Surjection
  <1>3. IsFiniteSet(T) /\ Cardinality(T) <= Cardinality(rows)
    BY <1>1, <1>2, FS_Surjection
  <1> QED
    BY <1>1, <1>3, FS_CardinalityType

\* The models account for every row, unless there are more than the dashboard shows.
LEMMA TopsAddUp ==
    ASSUME LogInv, NEW rows, rows \subseteq DOMAIN logs, NEW top \in Tops(rows),
           Cardinality(DOMAIN top) < TopModels
    PROVE  /\ SumFunction([m \in DOMAIN top |-> top[m]["requests"]]) = Cardinality(rows)
           /\ SumFunction([m \in DOMAIN top |-> top[m]["revenue"]]) = Revenue(rows)
  <1> DEFINE Of(m) == {i \in rows : Model(logs[i].request) = m}
             models == {Model(logs[i].request) : i \in rows}
             key == [i \in rows |-> Model(logs[i].request)]
  <1>1. PICK b \in SUBSET models :
           /\ Cardinality(b) = Min({TopModels, Cardinality(models)})
           /\ top = [m \in b |-> [requests |-> Cardinality(Of(m)), revenue |-> Revenue(Of(m))]]
    BY Zenon DEF Tops
  <1>2. IsFiniteSet(rows)
    BY RevenueIsSum DEF LogInv
  <1>3. IsFiniteSet(models) /\ Cardinality(models) \in Nat
    <2>1. key \in Surjection(rows, models)
      BY DEF Surjection
    <2> QED
      BY <1>2, <2>1, FS_Surjection, FS_CardinalityType
  <1>4. DOMAIN top = b
    BY <1>1
  <1>5. b = models
    <2>1. Cardinality(b) = IF TopModels <= Cardinality(models) THEN TopModels ELSE Cardinality(models)
      BY <1>1, <1>3, SmallerOf, ReportsAssumption
    <2>2. Cardinality(b) = Cardinality(models)
      BY <1>3, <1>4, <2>1, ReportsAssumption
    <2> QED
      BY <1>1, <1>3, <2>2, FS_Subset
  <1> DEFINE ones == [i \in rows |-> 1]
             part == [m \in models |-> Of(m)]
             g == [m \in DOMAIN top |-> top[m]["requests"]]
             h == [m \in DOMAIN top |-> top[m]["revenue"]]
  <1>6. /\ \A m \in models : part[m] \subseteq rows /\ \A i \in rows : i \in part[m] <=> key[i] = m
        /\ \A i \in rows : key[i] \in models /\ ones[i] = 1
    OBVIOUS
  <1>7. \A m \in models : g[m] = Cardinality(part[m]) /\ h[m] = Revenue(part[m])
    BY <1>1, <1>4, <1>5
  <1>8. SumFunction(g) = SumFunctionOnSet(g, models) /\ SumFunction(h) = SumFunctionOnSet(h, models)
    BY <1>4, <1>5 DEF SumFunction
  <1> HIDE DEF Of, part, key, ones, g, h, models
  <1>9. \A i \in rows : ones[i] \in Int /\ CostsIn(logs)[i] \in Int
    BY <1>6, LogRows DEF LogInv
  <1>10. \A m \in models : g[m] = SumFunctionOnSet(ones, part[m])
    <2> SUFFICES ASSUME NEW m \in models PROVE g[m] = SumFunctionOnSet(ones, part[m])
      OBVIOUS
    <2>1. IsFiniteSet(part[m]) /\ \A i \in part[m] : ones[i] = 1
      BY <1>2, <1>6, FS_Subset
    <2> QED
      BY <1>7, <2>1, CountIsSum
  <1>11. \A m \in models : h[m] = SumFunctionOnSet(CostsIn(logs), part[m])
    <2> SUFFICES ASSUME NEW m \in models PROVE h[m] = SumFunctionOnSet(CostsIn(logs), part[m])
      OBVIOUS
    <2>1. part[m] \subseteq DOMAIN logs
      BY <1>6
    <2> QED
      BY <1>7, <2>1, RevenueIsSum, SameQueries DEF LogInv
  <1>12. SumFunctionOnSet(g, models) = SumFunctionOnSet(ones, rows)
    BY <1>2, <1>3, <1>6, <1>9, <1>10, SumOfParts
  <1>13. SumFunctionOnSet(h, models) = SumFunctionOnSet(CostsIn(logs), rows)
    BY <1>2, <1>3, <1>6, <1>9, <1>11, SumOfParts
  <1>14. SumFunctionOnSet(ones, rows) = Cardinality(rows)
    BY <1>2, <1>6, CountIsSum
  <1>15. SumFunctionOnSet(CostsIn(logs), rows) = Revenue(rows)
    BY RevenueIsSum, SameQueries DEF LogInv
  <1> QED
    BY <1>8, <1>12, <1>13, <1>14, <1>15 DEF g, h

-----------------------------------------------------------------------------
(***************************************************************************)
(* The dashboard.  What a query returned bounds those after it from below, *)
(* by what the log holds at their time.                                    *)
(***************************************************************************)
Asked(n) == {Queries[i] : i \in 1 .. n}

LEMMA AskedCount == ASSUME NEW n \in 0 .. 5 PROVE Cardinality(Asked(n)) = n
  <1> DEFINE f == [i \in 1 .. n |-> Queries[i]]
  <1>1. \A i, j \in 1 .. 5 : Queries[i] = Queries[j] => i = j
    BY DEF Queries
  <1>2. f \in Bijection(1 .. n, Asked(n))
    <2>1. f \in [1 .. n -> Asked(n)] /\ \A q \in Asked(n) : \E i \in 1 .. n : f[i] = q
      BY DEF Asked
    <2>2. \A i, j \in 1 .. n : f[i] = f[j] => i = j
      BY <1>1
    <2> HIDE DEF f
    <2> QED
      BY <2>1, <2>2 DEF Bijection, Injection, Surjection, IsInjective
  <1>3. IsFiniteSet(1 .. n) /\ Cardinality(1 .. n) = n
    <2>1. 1 \in Int /\ n \in Int /\ (IF 1 > n THEN 0 ELSE n - 1 + 1) = n
      OBVIOUS
    <2> HIDE DEF f
    <2> QED
      BY <2>1, FS_Interval
  <1> QED
    <2> HIDE DEF f
    <2>1. ExistsBijection(1 .. n, Asked(n))
      BY <1>2 DEF ExistsBijection
    <2> QED
      BY <1>3, <2>1, FS_Bijection

LEMMA AskedNext ==
    /\ Asked(0) = {}
    /\ \A n \in 0 .. 4 : Asked(n + 1) = Asked(n) \cup {Queries[n + 1]}
    /\ \A n \in 0 .. 5 : /\ "active" \in Asked(n) <=> n >= 1
                         /\ "requests" \in Asked(n) <=> n >= 2
                         /\ "today" \in Asked(n) <=> n >= 3
                         /\ "month" \in Asked(n) <=> n >= 4
                         /\ "top" \in Asked(n) <=> n >= 5
  <1>1. Asked(0) = {}
    BY DEF Asked
  <1>2. \A n \in 0 .. 4 : Asked(n + 1) = Asked(n) \cup {Queries[n + 1]}
    <2> SUFFICES ASSUME NEW n \in 0 .. 4 PROVE Asked(n + 1) = Asked(n) \cup {Queries[n + 1]}
      OBVIOUS
    <2>1. 1 .. (n + 1) = (1 .. n) \cup {n + 1}
      OBVIOUS
    <2> QED
      BY <2>1 DEF Asked
  <1>3. /\ Asked(1) = Asked(0) \cup {"active"} /\ Asked(2) = Asked(1) \cup {"requests"}
        /\ Asked(3) = Asked(2) \cup {"today"} /\ Asked(4) = Asked(3) \cup {"month"}
        /\ Asked(5) = Asked(4) \cup {"top"}
    BY <1>2 DEF Queries
  <1>4. \A n \in 0 .. 5 : n \in {0, 1, 2, 3, 4, 5}
    OBVIOUS
  <1> QED
    BY <1>1, <1>2, <1>3, <1>4

Today(d) == Since(DayStart[opened[d]])

TotalOf(top, column) == SumFunction([m \in DOMAIN top |-> top[m][column]])

DashInv(d) ==
    /\ opened[d] \in 0 .. now
    /\ \E n \in 0 .. 5 :
          /\ DOMAIN stats[d] = Asked(n)
          /\ \/ at[d] \in {"unsent", "start"} /\ n = 0
             \/ at[d] = "asking" /\ n < 5
             \/ at[d] = "done" /\ n = 5
    /\ "active" \in DOMAIN stats[d] =>
          stats[d]["active"] \in Nat /\ stats[d]["active"] <= Cardinality(Today(d))
    /\ "requests" \in DOMAIN stats[d] =>
          /\ stats[d]["requests"] \in Nat /\ stats[d]["requests"] <= Cardinality(Today(d))
          /\ stats[d]["active"] <= stats[d]["requests"]
    /\ "today" \in DOMAIN stats[d] =>
          stats[d]["today"] \in Nat /\ stats[d]["today"] <= Revenue(Today(d))
    /\ "month" \in DOMAIN stats[d] =>
          stats[d]["month"] \in Nat /\ stats[d]["today"] <= stats[d]["month"]
    /\ "top" \in DOMAIN stats[d] /\ Cardinality(DOMAIN stats[d]["top"]) < TopModels =>
          /\ stats[d]["requests"] <= TotalOf(stats[d]["top"], "requests")
          /\ stats[d]["today"] <= TotalOf(stats[d]["top"], "revenue")

LEMMA InitDash == ASSUME Init, NEW d \in Dashboards PROVE DashInv(d)
  <1>1. opened[d] = 0 /\ stats[d] = <<>> /\ now = 0 /\ at[d] \in {"unsent", "start"}
    BY DEF Init, CatalogInit, Readers
  <1>2. DOMAIN stats[d] = Asked(0)
    BY <1>1, AskedNext
  <1>3. Asked(0) = {}
    BY AskedNext
  <1> QED
    BY <1>1, <1>2, <1>3 DEF DashInv

\* What a step leaves to those who only read.
LEMMA LogsGrow ==
    ASSUME CatalogInv, CatalogInv', Grows
    PROVE  /\ logs \in Seq(LogRow) /\ logs' \in Seq(LogRow)
           /\ DOMAIN logs \subseteq DOMAIN logs' /\ Len(logs) <= Len(logs')
           /\ \A i \in DOMAIN logs : logs'[i] = logs[i]
  <1>1. logs \in Seq(LogRow) /\ logs' \in Seq(LogRow)
    BY DEF CatalogInv, LogInv
  <1> QED
    BY <1>1 DEF Grows

LEMMA NumbersGrow ==
    ASSUME CatalogInv, CatalogInv', Grows, NEW start
    PROVE  /\ Cardinality(Since(start)) \in Nat /\ Cardinality(Since(start))' \in Nat
           /\ Cardinality(Since(start)) <= Cardinality(Since(start))'
           /\ Revenue(Since(start)) \in Nat /\ Revenue(Since(start))' \in Nat
           /\ Revenue(Since(start)) <= Revenue(Since(start))'
  <1>1. /\ logs \in Seq(LogRow) /\ logs' \in Seq(LogRow)
        /\ DOMAIN logs \subseteq DOMAIN logs' /\ \A i \in DOMAIN logs : logs'[i] = logs[i]
    BY LogsGrow
  <1>2. /\ Since(start) = SinceIn(logs, start) /\ Since(start)' = SinceIn(logs', start)
        /\ Revenue(Since(start)) = RevenueIn(logs, SinceIn(logs, start))
    BY SameQueries
  <1>3. Revenue(Since(start))' = RevenueIn(logs', SinceIn(logs', start))
    BY <1>2 DEF Revenue, RevenueIn
  <1>4. /\ Cardinality(SinceIn(logs, start)) <= Cardinality(SinceIn(logs', start))
        /\ RevenueIn(logs, SinceIn(logs, start)) <= RevenueIn(logs', SinceIn(logs', start))
    BY <1>1, QueriesGrow
  <1>5. /\ IsFiniteSet(SinceIn(logs, start)) /\ IsFiniteSet(SinceIn(logs', start))
        /\ RevenueIn(logs, SinceIn(logs, start)) \in Nat /\ RevenueIn(logs', SinceIn(logs', start)) \in Nat
    BY <1>1, LogRows, RevenueIsSum
  <1> QED
    BY <1>2, <1>3, <1>4, <1>5, FS_CardinalityType

\* Rows may be added while a dashboard waits.
LEMMA DashWaits ==
    ASSUME CatalogInv, CatalogInv', Grows, now' >= now, NEW d \in Dashboards, DashInv(d),
           opened'[d] = opened[d], stats'[d] = stats[d], at'[d] = at[d]
    PROVE  DashInv(d)'
  <1>1. opened'[d] \in 0 .. now'
    BY DEF DashInv, CatalogInv, Places
  <1> DEFINE start == DayStart[opened[d]]
  <1>2. Today(d) = Since(start) /\ Today(d)' = Since(start)'
    BY DEF Today
  <1>3. /\ Cardinality(Today(d)) \in Nat /\ Cardinality(Today(d))' \in Nat
        /\ Cardinality(Today(d)) <= Cardinality(Today(d))'
        /\ Revenue(Today(d)) \in Nat /\ Revenue(Today(d))' \in Nat
        /\ Revenue(Today(d)) <= Revenue(Today(d))'
    BY <1>2, NumbersGrow
  <1> QED
    BY <1>1, <1>3 DEF DashInv, TotalOf

LEMMA OpenDash ==
    ASSUME IInv, CatalogInv, NEW d \in Dashboards, DashInv(d), Open(d),
           DOMAIN at = Readers, DOMAIN opened = Dashboards
    PROVE  DashInv(d)'
  <1>1. at[d] = "start" /\ at'[d] = "asking" /\ opened'[d] = now /\ stats' = stats /\ now' = now
    BY DEF Open, Moves, Readers, catalog
  <1>2. DOMAIN stats[d] = {}
    BY <1>1, AskedNext DEF DashInv
  <1>3. now \in 0 .. now
    BY ReportsAssumption DEF CatalogInv, Places
  <1>4. DOMAIN stats'[d] = Asked(0)
    BY <1>1, <1>2, AskedNext
  <1> QED
    BY <1>1, <1>2, <1>3, <1>4 DEF DashInv

\* A query returns a number as large as the ones it is compared with.
LEMMA AskDash ==
    ASSUME IInv, CatalogInv, NEW d \in Dashboards, DashInv(d), Ask(d),
           DOMAIN at = Readers, DOMAIN stats = Dashboards
    PROVE  DashInv(d)'
  <1> DEFINE t == opened[d]
             today == Today(d)
  <1>1. /\ at[d] = "asking" /\ UNCHANGED <<logs, now, opened>>
        /\ logs \in Seq(LogRow) /\ t \in 0 .. MaxTime /\ LogInv
    BY ReportsAssumption DEF Ask, Moves, catalog, CatalogInv, LogInv, Places, DashInv
  <1>2. PICK n \in 0 .. 4 : DOMAIN stats[d] = Asked(n)
    BY <1>1 DEF DashInv
  <1>3. Cardinality(DOMAIN stats[d]) = n
    BY <1>2, AskedCount
  <1> DEFINE query == Queries[n + 1]
  <1>4. /\ at'[d] = IF n + 1 = 5 THEN "done" ELSE "asking"
        /\ \E result \in Results(query, t) :
              stats' = [stats EXCEPT ![d] = [q \in DOMAIN @ \cup {query} |-> IF q = query THEN result ELSE @[q]]]
    BY <1>3 DEF Ask, Moves, Readers, Queries
  <1>5. PICK result \in Results(query, t) :
           stats'[d] = [q \in DOMAIN stats[d] \cup {query} |-> IF q = query THEN result ELSE stats[d][q]]
    BY <1>4
  <1>6. DOMAIN stats'[d] = Asked(n + 1) /\ stats'[d][query] = result
    BY <1>2, <1>5, AskedNext
  <1>7. \A q \in Asked(n) : q # query => stats'[d][q] = stats[d][q]
    BY <1>2, <1>5
  <1>8. Today(d)' = today /\ Cardinality(Today(d))' = Cardinality(today) /\ Revenue(Today(d))' = Revenue(today)
    BY <1>1 DEF Today, Since, Revenue
  <1>9. today \subseteq DOMAIN logs
    BY DEF Today, Since
  <1>10. /\ opened'[d] \in 0 .. now'
         /\ \E k \in 0 .. 5 :
               /\ DOMAIN stats'[d] = Asked(k)
               /\ \/ at'[d] = "asking" /\ k < 5
                  \/ at'[d] = "done" /\ k = 5
    <2>1. n + 1 \in 0 .. 5
      OBVIOUS
    <2> QED
      BY <1>1, <1>4, <1>6, <2>1 DEF DashInv
  <1> SUFFICES
        /\ "active" \in Asked(n + 1) =>
              stats'[d]["active"] \in Nat /\ stats'[d]["active"] <= Cardinality(today)
        /\ "requests" \in Asked(n + 1) =>
              /\ stats'[d]["requests"] \in Nat /\ stats'[d]["requests"] <= Cardinality(today)
              /\ stats'[d]["active"] <= stats'[d]["requests"]
        /\ "today" \in Asked(n + 1) =>
              stats'[d]["today"] \in Nat /\ stats'[d]["today"] <= Revenue(today)
        /\ "month" \in Asked(n + 1) =>
              stats'[d]["month"] \in Nat /\ stats'[d]["today"] <= stats'[d]["month"]
        /\ "top" \in Asked(n + 1) /\ Cardinality(DOMAIN stats'[d]["top"]) < TopModels =>
              /\ stats'[d]["requests"] <= TotalOf(stats'[d]["top"], "requests")
              /\ stats'[d]["today"] <= TotalOf(stats'[d]["top"], "revenue")
    BY <1>6, <1>8, <1>10 DEF DashInv, TotalOf
  <1>11. CASE n = 0
    <2>1. query = "active" /\ Asked(n + 1) = {"active"}
      BY <1>11, AskedNext DEF Queries
    <2>2. result = Cardinality({UserOf[logs[i].request] : i \in today})
      BY <2>1 DEF Results, Today
    <2>3. result \in Nat /\ result <= Cardinality(today)
      BY <1>1, <1>9, <2>2, ActiveUsers
    <2> QED
      BY <1>6, <2>1, <2>3
  <1>12. CASE n = 1
    <2>1. query = "requests" /\ Asked(n) = {"active"} /\ Asked(n + 1) = {"active", "requests"}
      BY <1>12, AskedNext DEF Queries
    <2>2. result = Cardinality(today)
      BY <2>1 DEF Results, Today
    <2>3. result \in Nat
      BY <1>1, <1>9, <2>2, ActiveUsers
    <2>4. stats[d]["active"] \in Nat /\ stats[d]["active"] <= Cardinality(today) /\ stats'[d]["active"] = stats[d]["active"]
      BY <1>2, <1>7, <2>1 DEF DashInv
    <2> QED
      BY <1>6, <2>1, <2>2, <2>3, <2>4
  <1>13. CASE n = 2
    <2>1. query = "today" /\ Asked(n) = {"active", "requests"} /\ Asked(n + 1) = {"active", "requests", "today"}
      BY <1>13, AskedNext DEF Queries
    <2>2. result = Revenue(today)
      BY <2>1 DEF Results, Today
    <2>3. result \in Nat
      BY <1>1, <1>9, <2>2, RevenueIsSum, SameQueries
    <2>4. \A q \in Asked(n) : stats'[d][q] = stats[d][q]
      BY <1>7, <2>1
    <2> QED
      BY <1>2, <1>6, <2>1, <2>2, <2>3, <2>4 DEF DashInv
  <1>14. CASE n = 3
    <2>1. query = "month" /\ Asked(n) = {"active", "requests", "today"}
          /\ Asked(n + 1) = {"active", "requests", "today", "month"}
      BY <1>14, AskedNext DEF Queries
    <2>2. result = Revenue(Since(MonthStart[t]))
      BY <2>1 DEF Results, Today
    <2>3. result \in Nat /\ Revenue(today) \in Nat
      BY <1>1, <1>9, <2>2, RevenueIsSum, LogRows, SameQueries
    <2>4. \A q \in Asked(n) : stats'[d][q] = stats[d][q]
      BY <1>7, <2>1
    <2>5. Revenue(today) <= result
      <3>1. MonthStart[t] \in Nat /\ DayStart[t] \in Nat /\ MonthStart[t] <= DayStart[t]
        BY <1>1, ReportsAssumption
      <3> QED
        BY <1>1, <2>2, <3>1, LongerTime, SameQueries DEF Today
    <2>6. stats[d]["today"] \in Nat /\ stats[d]["today"] <= Revenue(today)
      BY <1>2, <2>1 DEF DashInv
    <2>7. stats'[d]["today"] <= result
      BY <2>1, <2>3, <2>4, <2>5, <2>6
    <2> QED
      BY <1>2, <1>6, <2>1, <2>3, <2>4, <2>7 DEF DashInv
  <1>15. CASE n = 4
    <2>1. query = "top" /\ Asked(n) = {"active", "requests", "today", "month"}
          /\ Asked(n + 1) = {"active", "requests", "today", "month", "top"}
      BY <1>15, AskedNext DEF Queries
    <2>2. result \in Tops(today)
      BY <2>1 DEF Results, Today
    <2>3. \A q \in Asked(n) : stats'[d][q] = stats[d][q]
      BY <1>7, <2>1
    <2>4. Cardinality(DOMAIN result) < TopModels =>
             TotalOf(result, "requests") = Cardinality(today) /\ TotalOf(result, "revenue") = Revenue(today)
      BY <1>1, <1>9, <2>2, TopsAddUp DEF TotalOf
    <2> QED
      BY <1>2, <1>6, <2>1, <2>3, <2>4 DEF DashInv
  <1> QED
    BY <1>11, <1>12, <1>13, <1>14, <1>15

-----------------------------------------------------------------------------
(***************************************************************************)
(* Listings.  A row that is tied with no other has the same place in all   *)
(* the orders of a log, and the place only grows: what has not been shown  *)
(* is always further on.                                                   *)
(***************************************************************************)
Newer(log, i) == {j \in DOMAIN log : log[j].created_at > log[i].created_at}
Place(log, i) == Cardinality(Newer(log, i)) + 1
Tied(log, i) == \E j \in DOMAIN log \ {i} : log[i].created_at = log[j].created_at

LEMMA TimesOfRows == ASSUME NEW log \in Seq(LogRow), NEW i \in DOMAIN log PROVE log[i].created_at \in Nat
  <1>1. log[i] \in LogRow
    OBVIOUS
  <1> QED
    BY <1>1 DEF LogRow

LEMMA RowsCounted ==
    ASSUME NEW log \in Seq(LogRow)
    PROVE  /\ DOMAIN log = 1 .. Len(log) /\ Len(log) \in Nat
           /\ IsFiniteSet(DOMAIN log) /\ Cardinality(DOMAIN log) = Len(log)
  <1>1. DOMAIN log = 1 .. Len(log) /\ Len(log) \in Nat
    OBVIOUS
  <1>2. (IF 1 > Len(log) THEN 0 ELSE Len(log) - 1 + 1) = Len(log) /\ 1 \in Int /\ Len(log) \in Int
    BY <1>1
  <1> QED
    BY <1>1, <1>2, FS_Interval

LEMMA PlaceType ==
    ASSUME NEW log \in Seq(LogRow), NEW i \in DOMAIN log
    PROVE  IsFiniteSet(Newer(log, i)) /\ Cardinality(Newer(log, i)) \in Nat /\ Place(log, i) \in 1 .. Len(log)
  <1>1. /\ IsFiniteSet(DOMAIN log) /\ Cardinality(DOMAIN log) = Len(log) /\ Len(log) \in Nat
    BY RowsCounted
  <1>2. Newer(log, i) \subseteq DOMAIN log \ {i}
    BY TimesOfRows DEF Newer
  <1>3. IsFiniteSet(DOMAIN log \ {i}) /\ Cardinality(DOMAIN log \ {i}) = Len(log) - 1
    BY <1>1, FS_RemoveElement
  <1>4. IsFiniteSet(Newer(log, i)) /\ Cardinality(Newer(log, i)) <= Len(log) - 1
    BY <1>2, <1>3, FS_Subset
  <1>5. Cardinality(Newer(log, i)) \in Nat
    BY <1>4, FS_CardinalityType
  <1> QED
    BY <1>1, <1>4, <1>5 DEF Place

LEMMA NewerIsBefore ==
    ASSUME NEW log \in Seq(LogRow), NEW i \in DOMAIN log, NEW j \in DOMAIN log,
           log[i].created_at > log[j].created_at
    PROVE  Place(log, i) < Place(log, j)
  <1>1. Newer(log, i) \cup {i} \subseteq Newer(log, j) /\ i \notin Newer(log, i)
    BY TimesOfRows DEF Newer
  <1>2. IsFiniteSet(Newer(log, i)) /\ IsFiniteSet(Newer(log, j))
    BY PlaceType
  <1>3. Cardinality(Newer(log, i) \cup {i}) = Cardinality(Newer(log, i)) + 1
    BY <1>1, <1>2, FS_AddElement
  <1>4. Cardinality(Newer(log, i) \cup {i}) <= Cardinality(Newer(log, j))
    BY <1>1, <1>2, FS_Subset
  <1>5. Cardinality(Newer(log, i)) \in Nat /\ Cardinality(Newer(log, j)) \in Nat
    BY PlaceType
  <1> QED
    BY <1>3, <1>4, <1>5 DEF Place

LEMMA PlacesDiffer ==
    ASSUME NEW log \in Seq(LogRow), NEW i \in DOMAIN log, NEW j \in DOMAIN log, i # j, ~Tied(log, i)
    PROVE  Place(log, i) # Place(log, j)
  <1>1. log[i].created_at \in Nat /\ log[j].created_at \in Nat /\ log[i].created_at # log[j].created_at
    BY TimesOfRows DEF Tied
  <1>2. Place(log, i) < Place(log, j) \/ Place(log, j) < Place(log, i)
    BY <1>1, NewerIsBefore
  <1>3. Place(log, i) \in Nat /\ Place(log, j) \in Nat
    BY PlaceType DEF Place
  <1> QED
    BY <1>2, <1>3

LEMMA PlacesGrow ==
    ASSUME NEW log \in Seq(LogRow), NEW longer \in Seq(LogRow), DOMAIN log \subseteq DOMAIN longer,
           \A i \in DOMAIN log : longer[i] = log[i],
           NEW i \in DOMAIN log
    PROVE  /\ Place(log, i) <= Place(longer, i)
           /\ Tied(log, i) => Tied(longer, i)
  <1>1. Newer(log, i) \subseteq Newer(longer, i)
    BY DEF Newer
  <1>2. IsFiniteSet(Newer(longer, i)) /\ Cardinality(Newer(longer, i)) \in Nat /\ Cardinality(Newer(log, i)) \in Nat
    BY PlaceType
  <1>3. Cardinality(Newer(log, i)) <= Cardinality(Newer(longer, i))
    BY <1>1, <1>2, FS_Subset
  <1>4. Tied(log, i) => Tied(longer, i)
    BY DEF Tied
  <1> QED
    BY <1>2, <1>3, <1>4 DEF Place

\* Rows beyond the first n places are at most the others.
LEMMA RowsBeyond ==
    ASSUME NEW log \in Seq(LogRow), NEW n \in 0 .. Len(log), NEW rows, rows \subseteq DOMAIN log,
           \A i \in rows : ~Tied(log, i) /\ Place(log, i) > n
    PROVE  Cardinality(rows) <= Len(log) - n
  <1> DEFINE T == (n + 1) .. Len(log)
             f == [i \in rows |-> Place(log, i)]
  <1>1. Len(log) \in Nat
    BY RowsCounted
  <1>2. IsFiniteSet(T) /\ Cardinality(T) = Len(log) - n
    <2>1. n + 1 \in Int /\ Len(log) \in Int
          /\ (IF n + 1 > Len(log) THEN 0 ELSE Len(log) - (n + 1) + 1) = Len(log) - n
      BY <1>1
    <2> QED
      BY <2>1, FS_Interval
  <1>3. \A i \in rows : f[i] \in T
    BY <1>1, PlaceType
  <1>4. \A i, j \in rows : f[i] = f[j] => i = j
    BY PlacesDiffer
  <1>5. f \in Injection(rows, T)
    <2>1. f \in [rows -> T]
      BY <1>3
    <2> HIDE DEF f, T
    <2> QED
      BY <1>4, <2>1 DEF Injection, IsInjective
  <1> HIDE DEF f, T
  <1> QED
    BY <1>2, <1>5, FS_Injection

\* Where a query finds a row that is tied with no other.
LEMMA PlaceInOrder ==
    ASSUME logs \in Seq(LogRow), NEW order \in Orders, NEW i \in DOMAIN logs, ~Tied(logs, i)
    PROVE  order \in [1 .. Len(logs) -> DOMAIN logs] /\ order[Place(logs, i)] = i
  <1> DEFINE D == DOMAIN logs
  <1>1. IsFiniteSet(D) /\ Cardinality(D) = Len(logs) /\ D = 1 .. Len(logs) /\ Len(logs) \in Nat
    BY RowsCounted
  <1>2. /\ order \in [D -> D]
        /\ \A k, m \in D : k # m => order[k] # order[m]
        /\ \A k, m \in D : k < m => logs[order[k]].created_at >= logs[order[m]].created_at
    BY <1>1 DEF Orders, SetToSeqs
  <1>3. order \in Injection(D, D)
    BY <1>2 DEF Injection, IsInjective
  <1>4. order \in Surjection(D, D)
    <2> HIDE DEF D
    <2> QED
      BY <1>1, <1>3, FS_Injection
  <1>5. PICK k \in D : order[k] = i
    BY <1>4 DEF Surjection
  <1>6. \A m \in D : order[m] \in D /\ logs[order[m]].created_at \in Nat
    BY <1>2, TimesOfRows
  <1>7. ASSUME NEW m \in 1 .. (k - 1) PROVE order[m] \in Newer(logs, i)
    <2>1. m \in D /\ m < k /\ m # k
      BY <1>1, <1>5
    <2>2. order[m] # i /\ logs[order[m]].created_at >= logs[i].created_at
      BY <1>2, <1>5, <2>1
    <2>3. logs[order[m]].created_at # logs[i].created_at
      BY <1>6, <2>1, <2>2 DEF Tied
    <2>4. logs[i].created_at \in Nat /\ order[m] \in DOMAIN logs /\ logs[order[m]].created_at \in Nat
      BY <1>6, <2>1, TimesOfRows
    <2>5. logs[order[m]].created_at > logs[i].created_at
      BY <2>2, <2>3, <2>4
    <2> QED
      BY <2>4, <2>5 DEF Newer
  <1>8. ASSUME NEW j \in Newer(logs, i) PROVE \E m \in 1 .. (k - 1) : order[m] = j
    <2>1. j \in D /\ logs[j].created_at > logs[i].created_at
      BY DEF Newer
    <2>2. PICK m \in D : order[m] = j
      BY <1>4, <2>1 DEF Surjection
    <2>3. m # k
      BY <1>5, <2>1, <2>2, TimesOfRows
    <2>4. ~(k < m)
      BY <1>2, <1>5, <2>1, <2>2, TimesOfRows
    <2>5. m \in 1 .. (k - 1)
      BY <1>1, <2>3, <2>4
    <2> QED
      BY <2>2, <2>5
  <1> DEFINE g == [m \in 1 .. (k - 1) |-> order[m]]
  <1>9. g \in Bijection(1 .. (k - 1), Newer(logs, i))
    <2>1. g \in [1 .. (k - 1) -> Newer(logs, i)] /\ \A j \in Newer(logs, i) : \E m \in 1 .. (k - 1) : g[m] = j
      BY <1>7, <1>8
    <2>2. \A m, n \in 1 .. (k - 1) : g[m] = g[n] => m = n
      <3>1. \A m \in 1 .. (k - 1) : m \in D /\ g[m] = order[m]
        BY <1>1, <1>5
      <3> HIDE DEF g, D
      <3> QED
        BY <1>2, <3>1
    <2> HIDE DEF g
    <2> QED
      BY <2>1, <2>2 DEF Bijection, Injection, Surjection, IsInjective
  <1>10. IsFiniteSet(1 .. (k - 1)) /\ Cardinality(1 .. (k - 1)) = k - 1
    <2>1. 1 \in Int /\ k - 1 \in Int /\ (IF 1 > k - 1 THEN 0 ELSE (k - 1) - 1 + 1) = k - 1
      BY <1>1
    <2> QED
      BY <2>1, FS_Interval
  <1>11. Cardinality(Newer(logs, i)) = k - 1
    <2>1. ExistsBijection(1 .. (k - 1), Newer(logs, i))
      BY <1>9 DEF ExistsBijection
    <2> HIDE DEF g
    <2> QED
      BY <1>10, <2>1, FS_Bijection
  <1> QED
    BY <1>1, <1>2, <1>5, <1>11 DEF Place

LEMMA OrderType ==
    ASSUME logs \in Seq(LogRow), NEW order \in Orders
    PROVE  order \in [1 .. Len(logs) -> DOMAIN logs] /\ Len(order) = Len(logs)
  <1>1. Cardinality(DOMAIN logs) = Len(logs) /\ Len(logs) \in Nat
    BY RowsCounted
  <1>2. order \in [1 .. Len(logs) -> DOMAIN logs]
    BY <1>1 DEF Orders, SetToSeqs
  <1>3. order \in Seq(DOMAIN logs)
    BY <1>1, <1>2, SeqDef
  <1>4. DOMAIN order = 1 .. Len(order) /\ Len(order) \in Nat
    BY <1>3, LenProperties
  <1>5. 1 .. Len(order) = 1 .. Len(logs)
    BY <1>2, <1>4
  <1>6. Len(order) <= Len(logs) /\ Len(logs) <= Len(order)
    BY <1>1, <1>4, <1>5
  <1> QED
    BY <1>1, <1>2, <1>4, <1>6

\* A page shows the rows that have its places.
LEMMA PageShows ==
    ASSUME logs \in Seq(LogRow), NEW order \in Orders, NEW a \in Nat, NEW b \in Nat
    PROVE  LET rows == SubSeq(order, a + 1, Min({a + b, Len(order)}))
           IN /\ ToSet(rows) \subseteq DOMAIN logs
              /\ \A k \in 1 .. Len(logs) : a < k /\ k <= a + b => order[k] \in ToSet(rows)
  <1> DEFINE n == Min({a + b, Len(order)})
             rows == SubSeq(order, a + 1, n)
  <1>1. order \in [1 .. Len(logs) -> DOMAIN logs] /\ Len(order) = Len(logs) /\ Len(logs) \in Nat
    BY OrderType, RowsCounted
  <1>2. n = IF a + b <= Len(logs) THEN a + b ELSE Len(logs)
    BY <1>1, SmallerOf
  <1>3. n \in Nat /\ n <= Len(logs)
    BY <1>1, <1>2
  <1> HIDE DEF n
  <1>4. \A i \in (a + 1) .. n : order[i] \in DOMAIN logs
    BY <1>1, <1>3
  <1>5. /\ rows \in Seq(DOMAIN logs)
        /\ Len(rows) = IF a + 1 <= n THEN n - (a + 1) + 1 ELSE 0
        /\ \A i \in 1 .. n - (a + 1) + 1 : rows[i] = order[(a + 1) + i - 1]
    BY <1>3, <1>4, SubSeqProperties
  <1> HIDE DEF rows
  <1>6. DOMAIN rows = 1 .. Len(rows) /\ \A i \in DOMAIN rows : rows[i] \in DOMAIN logs
    BY <1>5
  <1>7. ToSet(rows) \subseteq DOMAIN logs
    BY <1>6 DEF ToSet
  <1>8. ASSUME NEW k \in 1 .. Len(logs), a < k, k <= a + b PROVE order[k] \in ToSet(rows)
    <2> DEFINE i == k - a
    <2>1. k \in Nat /\ k <= n
      <3>1. k \in Nat /\ k <= Len(logs)
        BY <1>1
      <3>2. n = a + b \/ n = Len(logs)
        BY <1>2
      <3> QED
        BY <1>8, <3>1, <3>2
    <2>2. i \in 1 .. n - (a + 1) + 1 /\ a + 1 <= n /\ (a + 1) + i - 1 = k
      BY <1>3, <1>8, <2>1
    <2>3. i \in 1 .. Len(rows)
      BY <1>3, <1>5, <2>2
    <2> HIDE DEF i
    <2>4. i \in DOMAIN rows /\ rows[i] = order[k]
      BY <1>5, <1>6, <2>2, <2>3
    <2> QED
      BY <2>4 DEF ToSet
  <1> QED
    BY <1>7, <1>8 DEF rows, n

LEMMA OffsetNext ==
    /\ Offset(1) = 0
    /\ \A p \in Nat \ {0} : Offset(p) \in Nat /\ Offset(p + 1) = Offset(p) + PageSize
  <1>1. PageSize \in Nat
    BY ReportsAssumption
  <1>2. Offset(1) = 0
    BY <1>1 DEF Offset
  <1> SUFFICES ASSUME NEW p \in Nat \ {0} PROVE Offset(p) \in Nat /\ Offset(p + 1) = Offset(p) + PageSize
    BY <1>2
  <1>3. p - 1 \in Nat /\ (p + 1) - 1 = (p - 1) + 1
    OBVIOUS
  <1>4. ((p - 1) + 1) * PageSize = (p - 1) * PageSize + PageSize
    BY <1>1
  <1>5. (p - 1) * PageSize \in Nat
    BY <1>1, <1>3, ProductType
  <1> QED
    BY <1>3, <1>4, <1>5 DEF Offset

\* The pages are enough for the rows, and no more than rows.
LEMMA PagesSuffice ==
    ASSUME NEW rows \in Nat
    PROVE  /\ Pages(rows) \in Nat /\ Pages(rows) <= rows + 1
           /\ \A p \in Nat \ {0} : ~(p < Pages(rows)) => rows <= Offset(p + 1)
  <1> DEFINE m == rows + PageSize - 1
             q == m \div PageSize
  <1>1. PageSize \in Nat \ {0} /\ m \in Nat
    BY ReportsAssumption
  <1>2. q \in Nat
    BY <1>1, QuotientType
  <1>3. m < q * PageSize + PageSize /\ q * PageSize <= m
    BY <1>1, DivisionBounds
  <1>4. Pages(rows) = IF rows > 0 THEN q ELSE 1
    BY DEF Pages
  <1>5. q <= rows + 1
    <2> SUFFICES ASSUME rows + 2 <= q PROVE FALSE
      BY <1>2
    <2>1. (rows + 2) * PageSize <= q * PageSize
      BY <1>1, <1>2, Products
    <2>2. (rows + 2) * PageSize = rows * PageSize + 2 * PageSize
      BY <1>1
    <2>3. rows * 1 <= rows * PageSize /\ rows * PageSize \in Nat /\ q * PageSize \in Nat
      BY <1>1, <1>2
    <2> QED
      BY <1>1, <1>3, <2>1, <2>2, <2>3
  <1>6. ASSUME NEW p \in Nat \ {0}, ~(p < Pages(rows)) PROVE rows <= Offset(p + 1)
    <2>1. Offset(p + 1) = p * PageSize
      BY DEF Offset
    <2>2. p * PageSize \in Nat /\ q * PageSize \in Nat
      BY <1>1, <1>2, ProductType
    <2>3. CASE rows = 0
      BY <2>1, <2>2, <2>3
    <2>4. CASE rows > 0
      <3>1. q <= p
        BY <1>2, <1>4, <1>6, <2>4
      <3>2. q * PageSize <= p * PageSize
        BY <1>1, <1>2, <3>1, Products
      <3> QED
        BY <1>1, <1>3, <2>1, <2>2, <3>2
    <2> QED
      BY <2>3, <2>4
  <1> QED
    BY <1>2, <1>4, <1>5, <1>6

\* Whoever turns the pages: what they have not been shown is further on.
WalkInv(w) ==
    /\ at[w] \in {"unsent", "start", "paging", "counted", "done"}
    /\ page[w] \in Nat \ {0} /\ (at[w] = "done" \/ page[w] <= Len(logs) + 1)
    /\ at[w] \in {"unsent", "start"} => page[w] = 1
    /\ total[w] \in 0 .. Len(logs) /\ before[w] \in 0 .. Len(logs)
    /\ shown[w] \subseteq DOMAIN logs
    /\ \A i \in 1 .. before[w] : i \in shown[w] \/ Tied(logs, i) \/ Place(logs, i) > Offset(page[w])
    /\ at[w] = "done" => total[w] <= Offset(page[w])

LEMMA InitWalk == ASSUME Init, NEW w \in Walks PROVE WalkInv(w)
  <1>1. /\ page[w] = 1 /\ total[w] = 0 /\ shown[w] = {} /\ before[w] = 0 /\ logs = <<>>
        /\ at[w] \in {"unsent", "start"}
    BY DEF Init, CatalogInit, Readers
  <1> QED
    BY <1>1 DEF WalkInv

LEMMA WalkWaits ==
    ASSUME CatalogInv, CatalogInv', Grows, NEW w \in Walks, WalkInv(w),
           at'[w] = at[w], page'[w] = page[w], total'[w] = total[w], shown'[w] = shown[w], before'[w] = before[w]
    PROVE  WalkInv(w)'
  <1>1. /\ logs \in Seq(LogRow) /\ logs' \in Seq(LogRow)
        /\ DOMAIN logs \subseteq DOMAIN logs' /\ Len(logs) <= Len(logs')
        /\ \A i \in DOMAIN logs : logs'[i] = logs[i]
    BY LogsGrow
  <1>2. Len(logs) \in Nat /\ Len(logs') \in Nat /\ DOMAIN logs = 1 .. Len(logs)
    BY <1>1, RowsCounted
  <1>3. Offset(page[w]) \in Nat
    BY OffsetNext DEF WalkInv
  <1>4. ASSUME NEW i \in 1 .. before[w]
        PROVE  i \in shown[w] \/ Tied(logs', i) \/ Place(logs', i) > Offset(page[w])
    <2>1. i \in DOMAIN logs
      BY <1>2 DEF WalkInv
    <2>2. Place(logs, i) <= Place(logs', i) /\ (Tied(logs, i) => Tied(logs', i))
      BY <1>1, <2>1, PlacesGrow
    <2>3. Place(logs, i) \in Nat /\ Place(logs', i) \in Nat
      BY <1>1, <2>1, PlaceType DEF Place
    <2>4. i \in shown[w] \/ Tied(logs, i) \/ Place(logs, i) > Offset(page[w])
      BY DEF WalkInv
    <2> QED
      BY <1>3, <2>2, <2>3, <2>4
  <1>5. /\ total[w] \in 0 .. Len(logs') /\ before[w] \in 0 .. Len(logs') /\ shown[w] \subseteq DOMAIN logs'
        /\ at[w] = "done" \/ page[w] <= Len(logs') + 1
    BY <1>1, <1>2 DEF WalkInv
  <1> QED
    BY <1>4, <1>5 DEF WalkInv, Offset

LEMMA CountWalk ==
    ASSUME CatalogInv, NEW w \in Walks, WalkInv(w), CountRows(w),
           DOMAIN at = Readers, DOMAIN total = Walks, DOMAIN before = Walks
    PROVE  WalkInv(w)'
  <1>1. /\ at[w] \in {"start", "paging"} /\ at'[w] = "counted" /\ total'[w] = Len(logs)
        /\ before'[w] = (IF at[w] = "start" THEN Len(logs) ELSE before[w])
        /\ UNCHANGED <<logs, page, shown>>
    BY DEF CountRows, Readers, catalog
  <1>2. logs \in Seq(LogRow) /\ Len(logs) \in Nat /\ DOMAIN logs = 1 .. Len(logs)
    BY RowsCounted DEF CatalogInv, LogInv
  <1>3. \A i \in 1 .. before'[w] : i \in shown[w] \/ Tied(logs, i) \/ Place(logs, i) > Offset(page[w])
    <2>1. CASE at[w] = "paging"
      BY <1>1, <2>1 DEF WalkInv
    <2>2. CASE at[w] = "start"
      <3>1. Offset(page[w]) = 0
        BY <2>2, OffsetNext DEF WalkInv
      <3>2. \A i \in DOMAIN logs : Place(logs, i) \in 1 .. Len(logs)
        BY <1>2, PlaceType
      <3> QED
        BY <1>1, <1>2, <2>2, <3>1, <3>2
    <2> QED
      BY <1>1, <2>1, <2>2
  <1>4. before'[w] \in 0 .. Len(logs) /\ total'[w] \in 0 .. Len(logs)
    BY <1>1, <1>2 DEF WalkInv
  <1> QED
    BY <1>1, <1>3, <1>4 DEF WalkInv, Offset, Tied, Place, Newer

LEMMA FetchWalk ==
    ASSUME CatalogInv, NEW w \in Walks, WalkInv(w), FetchPage(w),
           DOMAIN at = Readers, DOMAIN page = Walks, DOMAIN shown = Walks
    PROVE  WalkInv(w)'
  <1> DEFINE offset == Offset(page[w])
             rows(order) == SubSeq(order, offset + 1, Min({offset + PageSize, Len(order)}))
  <1>1. /\ at[w] = "counted" /\ at'[w] = (IF page[w] < Pages(total[w]) THEN "paging" ELSE "done")
        /\ page'[w] = page[w] + 1
        /\ \E order \in Orders : shown' = [shown EXCEPT ![w] = @ \cup ToSet(rows(order))]
        /\ UNCHANGED <<logs, total, before>>
    BY DEF FetchPage, Moves, Readers, catalog
  <1>2. PICK order \in Orders : shown'[w] = shown[w] \cup ToSet(rows(order))
    BY <1>1
  <1>3. /\ logs \in Seq(LogRow) /\ Len(logs) \in Nat /\ DOMAIN logs = 1 .. Len(logs)
        /\ total[w] \in Nat /\ total[w] <= Len(logs) /\ page[w] \in Nat \ {0}
    BY RowsCounted DEF CatalogInv, LogInv, WalkInv
  <1>4. offset \in Nat /\ PageSize \in Nat /\ Offset(page[w] + 1) = offset + PageSize
    BY <1>3, OffsetNext, ReportsAssumption
  <1>5. /\ ToSet(rows(order)) \subseteq DOMAIN logs
        /\ \A k \in 1 .. Len(logs) : offset < k /\ k <= offset + PageSize => order[k] \in ToSet(rows(order))
    <2> HIDE DEF offset
    <2> QED
      BY <1>3, <1>4, PageShows
  <1> HIDE DEF rows, offset
  <1>6. ASSUME NEW i \in 1 .. before[w]
        PROVE  i \in shown'[w] \/ Tied(logs, i) \/ Place(logs, i) > offset + PageSize
    <2> SUFFICES ASSUME i \notin shown'[w], ~Tied(logs, i) PROVE Place(logs, i) > offset + PageSize
      OBVIOUS
    <2>1. i \in DOMAIN logs
      BY <1>3 DEF WalkInv
    <2>2. Place(logs, i) > offset
      BY <1>2 DEF WalkInv, offset
    <2>3. order[Place(logs, i)] = i /\ Place(logs, i) \in 1 .. Len(logs)
      BY <1>3, <2>1, PlaceInOrder, PlaceType
    <2>4. ~(Place(logs, i) <= offset + PageSize)
      BY <1>2, <1>4, <1>5, <2>2, <2>3
    <2> QED
      BY <1>3, <1>4, <2>3, <2>4
  <1>7. Pages(total[w]) \in Nat /\ Pages(total[w]) <= total[w] + 1
        /\ (~(page[w] < Pages(total[w])) => total[w] <= Offset(page[w] + 1))
    BY <1>3, PagesSuffice
  <1>8. at'[w] = "done" \/ page'[w] <= Len(logs) + 1
    BY <1>1, <1>3, <1>7
  <1>9. at'[w] = "done" => total[w] <= Offset(page[w] + 1)
    BY <1>1, <1>7
  <1>10. shown'[w] \subseteq DOMAIN logs
    BY <1>2, <1>5 DEF WalkInv
  <1>11. \A i \in 1 .. before[w] : i \in shown'[w] \/ Tied(logs, i) \/ Place(logs, i) > Offset(page[w] + 1)
    BY <1>4, <1>6
  <1>12. page'[w] \in Nat \ {0}
    BY <1>1, <1>3
  <1> QED
    BY <1>1, <1>8, <1>9, <1>10, <1>11, <1>12 DEF WalkInv, Offset, Tied, Place, Newer

-----------------------------------------------------------------------------
(***************************************************************************)
(* All of it is an invariant.                                              *)
(***************************************************************************)
Kept ==
    /\ DOMAIN at = Readers
    /\ DOMAIN opened = Dashboards /\ DOMAIN stats = Dashboards
    /\ DOMAIN page = Walks /\ DOMAIN total = Walks /\ DOMAIN shown = Walks /\ DOMAIN before = Walks

ReadersInv ==
    /\ CatalogInv /\ Kept
    /\ \A d \in Dashboards : DashInv(d)
    /\ \A w \in Walks : WalkInv(w)

LEMMA InitReaders == Init => ReadersInv
  <1>1. Init => Kept
    BY DEF Init, Kept
  <1> QED
    BY <1>1, InitCatalog, InitDash, InitWalk DEF ReadersInv

LEMMA NextReaders == ASSUME PricesNotNegative PROVE IInv /\ ReadersInv /\ [Next]_vars => ReadersInv'
  <1> SUFFICES ASSUME IInv, ReadersInv, [Next]_vars PROVE ReadersInv'
    OBVIOUS
  <1>1. CatalogInv /\ CatalogInv' /\ Grows /\ now' >= now
    BY CatalogSteps DEF ReadersInv
  <1>2. Dashboards \cap Walks = {} /\ Readers = Dashboards \cup Walks
    BY ReportsAssumption DEF Readers
  <1>3. CASE UNCHANGED readers
    <2>1. Kept'
      BY <1>3 DEF ReadersInv, Kept, readers
    <2>2. \A d \in Dashboards : DashInv(d)'
      BY <1>1, <1>3, DashWaits DEF ReadersInv, readers
    <2>3. \A w \in Walks : WalkInv(w)'
      BY <1>1, <1>3, WalkWaits DEF ReadersInv, readers
    <2> QED
      BY <1>1, <2>1, <2>2, <2>3 DEF ReadersInv
  <1>4. ASSUME NEW d \in Dashboards, Open(d) \/ Ask(d) PROVE ReadersInv'
    <2>1. Kept'
      BY <1>4 DEF Open, Ask, Moves, ReadersInv, Kept
    <2>2. /\ \A e \in Readers : e # d => at'[e] = at[e]
          /\ \A e \in Dashboards : e # d => opened'[e] = opened[e] /\ stats'[e] = stats[e]
          /\ UNCHANGED <<page, total, shown, before>>
      <3>1. CASE Open(d)
        BY <3>1 DEF Open, Moves, ReadersInv, Kept
      <3>2. CASE Ask(d)
        BY <3>2 DEF Ask, Moves, ReadersInv, Kept
      <3> QED
        BY <1>4, <3>1, <3>2
    <2>3. DashInv(d)'
      BY <1>1, <1>4, OpenDash, AskDash DEF ReadersInv, Kept
    <2>4. \A e \in Dashboards : DashInv(e)'
      <3> SUFFICES ASSUME NEW e \in Dashboards, e # d PROVE DashInv(e)'
        BY <2>3
      <3> QED
        BY <1>1, <1>2, <2>2, DashWaits DEF ReadersInv
    <2>5. \A w \in Walks : WalkInv(w)'
      <3> SUFFICES ASSUME NEW w \in Walks PROVE WalkInv(w)'
        OBVIOUS
      <3> QED
        BY <1>1, <1>2, <2>2, WalkWaits DEF ReadersInv
    <2> QED
      BY <1>1, <2>1, <2>4, <2>5 DEF ReadersInv
  <1>5. ASSUME NEW w \in Walks, CountRows(w) \/ FetchPage(w) PROVE ReadersInv'
    <2>1. Kept'
      BY <1>5 DEF CountRows, FetchPage, Moves, ReadersInv, Kept
    <2>2. /\ \A v \in Readers : v # w => at'[v] = at[v]
          /\ \A v \in Walks : v # w => /\ page'[v] = page[v] /\ total'[v] = total[v]
                                       /\ shown'[v] = shown[v] /\ before'[v] = before[v]
          /\ UNCHANGED <<opened, stats>>
      <3>1. CASE CountRows(w)
        BY <3>1 DEF CountRows, ReadersInv, Kept
      <3>2. CASE FetchPage(w)
        BY <3>2 DEF FetchPage, Moves, ReadersInv, Kept
      <3> QED
        BY <1>5, <3>1, <3>2
    <2>3. WalkInv(w)'
      BY <1>1, <1>5, CountWalk, FetchWalk DEF ReadersInv, Kept
    <2>4. \A v \in Walks : WalkInv(v)'
      <3> SUFFICES ASSUME NEW v \in Walks, v # w PROVE WalkInv(v)'
        BY <2>3
      <3> QED
        BY <1>1, <1>2, <2>2, WalkWaits DEF ReadersInv
    <2>5. \A d \in Dashboards : DashInv(d)'
      <3> SUFFICES ASSUME NEW d \in Dashboards PROVE DashInv(d)'
        OBVIOUS
      <3> QED
        BY <1>1, <1>2, <2>2, DashWaits DEF ReadersInv
    <2> QED
      BY <1>1, <2>1, <2>4, <2>5 DEF ReadersInv
  <1> QED
    BY <1>3, <1>4, <1>5 DEF Next, Tick, Finished, vars

THEOREM ReadersInductive == ASSUME PricesNotNegative PROVE Spec => [](IInv /\ ReadersInv)
  <1>1. Init => ReadersInv
    BY InitReaders
  <1>2. IInv /\ ReadersInv /\ [Next]_vars => ReadersInv'
    BY NextReaders
  <1> QED
    BY <1>1, <1>2, Inductive, PTL DEF Spec

\* Sums over no rows are numbers, too, and no walk is shown what is not stored.
THEOREM TypeCorrect == ASSUME PricesNotNegative PROVE Spec => []TypeOK
  <1>1. IInv /\ ReadersInv => TypeOK
    <2> SUFFICES ASSUME IInv, ReadersInv PROVE TypeOK
      OBVIOUS
    <2>1. CatalogTypeOK
      BY CatalogTypes DEF ReadersInv
    <2>2. \A d \in Dashboards : /\ at[d] \in {"unsent", "start", "asking", "paging", "counted", "done"}
                                /\ opened[d] \in 0 .. now
                                /\ \A q \in DOMAIN stats[d] \ {"top"} : stats[d][q] \in Nat
      <3> SUFFICES ASSUME NEW d \in Dashboards
                   PROVE  /\ at[d] \in {"unsent", "start", "asking", "paging", "counted", "done"}
                          /\ opened[d] \in 0 .. now
                          /\ \A q \in DOMAIN stats[d] \ {"top"} : stats[d][q] \in Nat
        OBVIOUS
      <3>1. DashInv(d)
        BY DEF ReadersInv
      <3>2. \A n \in 0 .. 5 : Asked(n) \subseteq {"active", "requests", "today", "month", "top"}
        BY DEF Asked, Queries
      <3> QED
        BY <3>1, <3>2 DEF DashInv
    <2>3. \A w \in Walks : /\ at[w] \in {"unsent", "start", "asking", "paging", "counted", "done"}
                           /\ page[w] \in 1 .. (Len(logs) + 1) \/ at[w] = "done"
                           /\ total[w] \in 0 .. Len(logs) /\ before[w] \in 0 .. Len(logs)
                           /\ shown[w] \subseteq DOMAIN logs
      <3>1. Len(logs) \in Nat
        BY RowsCounted DEF ReadersInv, CatalogInv, LogInv
      <3> QED
        BY <3>1 DEF ReadersInv, WalkInv
    <2> QED
      BY <2>1, <2>2, <2>3 DEF TypeOK, Readers
  <1> QED
    BY <1>1, ReadersInductive, PTL

\* The numbers of a dashboard fit each other, whatever is logged between its queries.
THEOREM NumbersFit == ASSUME PricesNotNegative PROVE Spec => []DashboardAddsUp
  <1>1. ReadersInv => DashboardAddsUp
    <2> SUFFICES ASSUME ReadersInv, NEW d \in Dashboards, at[d] = "done"
                 PROVE  /\ stats[d].active <= stats[d].requests
                        /\ stats[d].today <= stats[d].month
                        /\ Cardinality(DOMAIN stats[d].top) < TopModels =>
                              /\ stats[d].requests <= TotalOf(stats[d].top, "requests")
                              /\ stats[d].today <= TotalOf(stats[d].top, "revenue")
      BY DEF DashboardAddsUp, TotalOf
    <2>1. DashInv(d) /\ DOMAIN stats[d] = Asked(5)
      BY DEF ReadersInv, DashInv
    <2> QED
      BY <2>1, AskedNext DEF DashInv
  <1> QED
    BY <1>1, ReadersInductive, PTL

\* A walk from the first page to the last misses no more untied rows than were added since
\* the last page was counted.
THEOREM WalksSeeTheRest == ASSUME PricesNotNegative PROVE Spec => []WalkMissesOnlyPushedOrTied
  <1>1. ReadersInv => WalkMissesOnlyPushedOrTied
    <2> SUFFICES ASSUME ReadersInv, NEW w \in Walks, at[w] = "done"
                 PROVE  LET tied == {i \in DOMAIN logs : \E j \in DOMAIN logs \ {i} : logs[i].created_at = logs[j].created_at}
                            missed == (1 .. before[w]) \ (shown[w] \cup tied)
                        IN Cardinality(missed) <= Len(logs) - total[w]
      BY DEF WalkMissesOnlyPushedOrTied
    <2> DEFINE tied == {i \in DOMAIN logs : \E j \in DOMAIN logs \ {i} : logs[i].created_at = logs[j].created_at}
               missed == (1 .. before[w]) \ (shown[w] \cup tied)
    <2>1. WalkInv(w) /\ logs \in Seq(LogRow) /\ DOMAIN logs = 1 .. Len(logs) /\ Len(logs) \in Nat
      BY RowsCounted DEF ReadersInv, CatalogInv, LogInv
    <2>2. missed \subseteq DOMAIN logs
      BY <2>1 DEF WalkInv
    <2>3. \A i \in missed : ~Tied(logs, i)
      BY <2>2 DEF Tied
    <2>4. \A i \in missed : Place(logs, i) > Offset(page[w])
      BY <2>1, <2>3 DEF WalkInv
    <2>5. total[w] \in 0 .. Len(logs) /\ total[w] <= Offset(page[w]) /\ Offset(page[w]) \in Nat
      BY <2>1, OffsetNext DEF WalkInv
    <2>6. \A i \in missed : Place(logs, i) > total[w]
      <3>1. \A i \in missed : Place(logs, i) \in Nat
        BY <2>1, <2>2, PlaceType DEF Place
      <3> QED
        BY <2>4, <2>5, <3>1
    <2> HIDE DEF missed
    <2>7. Cardinality(missed) <= Len(logs) - total[w]
      BY <2>1, <2>2, <2>3, <2>5, <2>6, RowsBeyond
    <2> QED
      BY <2>7 DEF missed
  <1> QED
    BY <1>1, ReadersInductive, PTL

-----------------------------------------------------------------------------
(***************************************************************************)
(* What was held covers what is charged: both are computed from one price, *)
(* and costs keep the order of usages.                                     *)
(***************************************************************************)
\* The usages that answers to r report, and none.
Reported(r) ==
    {NoUsage} \cup UNION {{lines[i] : i \in DOMAIN lines} \ {NoReport} : lines \in Priceable[r].answers}

BilledInv(r) ==
    pc[r] = "held" \/ bill[r] # NoRow =>
       /\ pc[r] \in {"held", "done"}
       /\ price[r] \in Prices /\ Estimated(r) \in Usages /\ bill[r].usage \in Usages \cap Reported(r)
       /\ bill[r].estimated = CostAt(r, Estimated(r), price[r])
       /\ \/ bill[r].usage = NoUsage /\ bill[r].actual \in {0, bill[r].estimated}
          \/ bill[r].actual = CostAt(r, bill[r].usage, price[r])

LEMMA BilledWaits ==
    ASSUME NEW r \in Priced, BilledInv(r), bill'[r] = bill[r], pc'[r] = "held" => pc[r] = "held",
           pc[r] = "held" \/ bill[r] # NoRow => price'[r] = price[r] /\ pc'[r] \in {"held", "done"}
    PROVE  BilledInv(r)'
  BY DEF BilledInv, CostAt, Estimated, EmbeddingCost, Cost, Reported, NoUsage

LEMMA ResolutionBills ==
    ASSUME IInv, CatalogInv, NEW r \in Requests, Resolution(r)
    PROVE  /\ r \in Priced /\ bill' = bill /\ BilledInv(r)'
           /\ \A q \in Priced : q # r => price'[q] = price[q] /\ pc'[q] = pc[q]
  <1>1. r \in Priced /\ pc[r] \in {"start", "found"} /\ PricedInv(r)
    BY DEF Resolution, FindPrice, FindConfig, NoConfig, FindMarkup, BadMarkup, Goes, IInv, RequestInv, BillInv, CatalogInv
  <1>2. bill' = bill /\ bill[r] = NoRow
    BY <1>1 DEF Resolution, FindPrice, FindConfig, NoConfig, FindMarkup, BadMarkup, Goes, Found, PricedInv
  <1>3. \E to \in {"found", "priced", "done"} : Goes(r, pc[r], to)
    BY DEF Resolution, FindPrice, FindConfig, NoConfig, FindMarkup, BadMarkup, Goes
  <1>4. price' = price \/ \E p : price' = [price EXCEPT ![r] = p]
    <2>1. ASSUME FindPrice(r) PROVE \E p : price' = [price EXCEPT ![r] = p]
      BY <2>1 DEF FindPrice
    <2>2. ASSUME FindMarkup(r) PROVE \E p : price' = [price EXCEPT ![r] = p]
      BY <2>2 DEF FindMarkup
    <2> QED
      BY <2>1, <2>2 DEF Resolution, FindConfig, NoConfig, BadMarkup, session
  <1>5. pc'[r] # "held" /\ \A q \in Requests : q # r => pc'[q] = pc[q]
    BY <1>3 DEF Goes, IInv, Shape
  <1>6. BilledInv(r)'
    BY <1>2, <1>5 DEF BilledInv
  <1>7. \A q \in Priced : q # r => price'[q] = price[q]
    BY <1>4 DEF CatalogInv, Places
  <1> QED
    BY <1>1, <1>2, <1>5, <1>6, <1>7 DEF Requests

LEMMA ChargingBills ==
    ASSUME IInv, CatalogInv, NEW r \in Requests, Charging(r), r \in Priced => BilledInv(r)
    PROVE  /\ r \in Priced /\ BilledInv(r)' /\ price' = price
           /\ \A q \in Priced : q # r => bill'[q] = bill[q] /\ pc'[q] = pc[q]
  <1>1. r \in Priced /\ pc[r] \in {"priced", "held"} /\ PricedInv(r) /\ RequestInv(r) /\ BilledInv(r)
    BY DEF Charging, Refuse, Hold, Settle, FailEmbedding, Goes, IInv, RequestInv, BillInv, CatalogInv
  <1>2. UNCHANGED price
    BY DEF Charging, Refuse, Hold, Settle, FailEmbedding, Logs, session, Goes
  <1>3. pc'[r] \in {"held", "done"} /\ \A q \in Requests : q # r => pc'[q] = pc[q]
    BY <1>1 DEF Charging, Refuse, Hold, Settle, FailEmbedding, Logs, Goes, IInv, Shape
  <1>4. price[r] \in Prices
    BY <1>1 DEF PricedInv
  <1> DEFINE Charged == BilledInv(r)' /\ \A q \in Priced : q # r => bill'[q] = bill[q]
  <1>5. ASSUME Refuse(r) \/ FailEmbedding(r) PROVE Charged
    <2>1. bill' = bill /\ pc'[r] = "done"
      BY <1>1, <1>5 DEF Refuse, FailEmbedding, Goes, Logs, IInv, Shape
    <2>2. BilledInv(r)'
      BY <1>1, <1>2, <2>1, BilledWaits
    <2> QED
      BY <2>1, <2>2
  <1>6. ASSUME Hold(r) PROVE Charged
    <2> DEFINE new == [estimated |-> CostAt(r, Estimated(r), price[r]), lines |-> <<>>, cut |-> {},
                       usage |-> NoUsage, actual |-> 0]
    <2>1. bill' = [bill EXCEPT ![r] = new]
      BY <1>6 DEF Hold
    <2>2. bill'[r] = new /\ \A q \in Priced : q # r => bill'[q] = bill[q]
      BY <1>1, <2>1 DEF IInv, Shape
    <2>3. Estimated(r) \in Usages
      BY <1>1, <1>6, EstimatedType DEF Hold
    <2>4. NoUsage \in Usages \cap Reported(r)
      BY DEF NoUsage, Usages, Reported
    <2>5. bill'[r].estimated = CostAt(r, Estimated(r), price[r]) /\ bill'[r].usage = NoUsage /\ bill'[r].actual = 0
      BY <2>2
    <2> HIDE DEF new
    <2> QED
      BY <1>2, <1>3, <1>4, <2>2, <2>3, <2>4, <2>5 DEF BilledInv, CostAt, Estimated, EmbeddingCost, Cost, Reported, NoUsage
  <1>7. ASSUME Settle(r) PROVE Charged
    <2> DEFINE actualOf(usage) == IF r \in Embeds /\ usage.prompt = 0 THEN bill[r].estimated
                                  ELSE CostAt(r, usage, SettledAt(r))
               settled(lines, cut) ==
                  [bill[r] EXCEPT !.lines = lines, !.cut = cut, !.usage = ParsedUsage(lines, cut),
                                  !.actual = actualOf(ParsedUsage(lines, cut))]
    <2>0. PICK lines \in Priceable[r].answers :
             \E cut \in IF r \in Streams THEN SUBSET DOMAIN lines ELSE {{}} :
                bill' = [bill EXCEPT ![r] = settled(lines, cut)]
      BY <1>7 DEF Settle
    <2>1. PICK cut : bill' = [bill EXCEPT ![r] = settled(lines, cut)]
      BY <2>0
    <2>2. pc[r] = "held" /\ pc'[r] = "done"
      BY <1>1, <1>7 DEF Settle, Logs, IInv, Shape
    <2>3. DOMAIN bill[r] = {"estimated", "lines", "cut", "usage", "actual"}
      BY <1>1, <2>2 DEF RequestInv, BillInv
    <2>4. /\ bill'[r].estimated = bill[r].estimated
          /\ bill'[r].usage = ParsedUsage(lines, cut)
          /\ bill'[r].actual = actualOf(ParsedUsage(lines, cut))
          /\ \A q \in Priced : q # r => bill'[q] = bill[q]
      BY <1>1, <2>1, <2>3 DEF IInv, Shape
    <2>5. lines \in Seq(Lines)
      BY <1>1, RequestAssumption DEF Lines, Usages
    <2>6. ParsedUsage(lines, cut) \in Usages \cap Reported(r)
      BY <2>5, ParsedUsageType DEF Reported
    <2>7. ASSUME r \in Embeds, ParsedUsage(lines, cut).prompt = 0 PROVE ParsedUsage(lines, cut) = NoUsage
      <3>1. ParsedUsage(lines, cut).completion = 0
        BY <2>5, <2>7, ParsedUsageType, RequestAssumption DEF NoUsage
      <3> QED
        BY <2>6, <2>7, <3>1 DEF Usages, NoUsage
    <2> HIDE DEF settled
    <2>8. \/ bill'[r].usage = NoUsage /\ bill'[r].actual = bill'[r].estimated
          \/ bill'[r].actual = CostAt(r, bill'[r].usage, price[r])
      BY <2>4, <2>7 DEF SettledAt
    <2> HIDE DEF actualOf
    <2> QED
      BY <1>1, <1>2, <1>4, <2>2, <2>3, <2>4, <2>6, <2>8
         DEF BilledInv, CostAt, Estimated, EmbeddingCost, Cost, Reported, NoUsage
  <1>8. Charged
    BY <1>5, <1>6, <1>7 DEF Charging
  <1> QED
    BY <1>1, <1>2, <1>3, <1>8, Kinds

LEMMA BilledSteps ==
    ASSUME IInv, CatalogInv, \A r \in Priced : BilledInv(r), [Next]_vars
    PROVE  \A r \in Priced : BilledInv(r)'
  <1> SUFFICES ASSUME NEW q \in Priced PROVE BilledInv(q)'
    OBVIOUS
  <1>1. BilledInv(q) /\ (pc[q] = "held" \/ bill[q] # NoRow => pc[q] \in {"held", "done"})
    BY DEF BilledInv
  <1>2. ASSUME bill'[q] = bill[q], price'[q] = price[q], pc'[q] = pc[q] PROVE BilledInv(q)'
    BY <1>1, <1>2, BilledWaits
  <1>3. ASSUME NEW r \in Requests, Resolution(r) PROVE BilledInv(q)'
    BY <1>2, <1>3, ResolutionBills
  <1>4. ASSUME NEW r \in Requests, Charging(r) PROVE BilledInv(q)'
    BY <1>2, <1>4, ChargingBills
  <1>5. ASSUME NEW r \in Requests, Creation(r) \/ Edit(r) \/ MarkupEdit(r) PROVE BilledInv(q)'
    <2>1. r \notin Priced
      BY <1>5, Kinds DEF Creation, Edit, MarkupEdit, CheckConfig, ConfigExists, InsertConfig, CollideConfig, ReadConfig,
                         ConfigMissing, EditConfig, ReadMarkup, WriteMarkup, KeepMarkup
    <2>2. \E from, to \in {"start", "checked", "done"} : Goes(r, from, to)
      BY <1>5 DEF Creation, Edit, MarkupEdit, CheckConfig, ConfigExists, InsertConfig, CollideConfig, ReadConfig,
                  ConfigMissing, EditConfig, ReadMarkup, WriteMarkup, KeepMarkup
    <2>3. UNCHANGED <<price, bill>>
      BY <1>5 DEF Creation, Edit, MarkupEdit, CheckConfig, ConfigExists, InsertConfig, CollideConfig, ReadConfig,
                  ConfigMissing, EditConfig, ReadMarkup, WriteMarkup, KeepMarkup, Forgets, Reads, session
    <2>4. pc'[q] = pc[q]
      BY <2>1, <2>2, Kinds DEF Goes, IInv, Shape
    <2> QED
      BY <1>2, <2>3, <2>4
  <1>6. CASE CatalogNext
    BY <1>3, <1>4, <1>5, <1>6 DEF CatalogNext
  <1>7. CASE ~CatalogNext
    <2>1. UNCHANGED <<pc, price, bill>>
      BY <1>7 DEF Next, Tick, Open, Ask, CountRows, FetchPage, Finished, vars, catalog, session
    <2> QED
      BY <1>2, <2>1
  <1> QED
    BY <1>6, <1>7

\* Who stays within the estimate pays no more than was held: at every precision, for every
\* price, and whatever the catalogue has become.
THEOREM HoldsCoverUsage == ASSUME PricesNotNegative PROVE Spec => []CoveredUsage
  <1> DEFINE BilledAll == \A r \in Priced : BilledInv(r)
  <1>1. Init => BilledAll
    <2> SUFFICES ASSUME Init, NEW r \in Priced PROVE BilledInv(r)
      OBVIOUS
    <2>1. bill[r] = NoRow /\ pc[r] # "held"
      BY Kinds DEF Init, CatalogInit
    <2> QED
      BY <2>1 DEF BilledInv
  <1>2. IInv /\ ReadersInv /\ BilledAll /\ [Next]_vars => BilledAll'
    BY BilledSteps DEF ReadersInv
  <1>3. BilledAll => CoveredUsage
    <2> SUFFICES ASSUME BilledAll, NEW r \in Priced, bill[r] # NoRow,
                        bill[r].usage.prompt <= Estimated(r).prompt,
                        bill[r].usage.completion <= Estimated(r).completion
                 PROVE  bill[r].actual <= bill[r].estimated
      BY DEF CoveredUsage
    <2>1. BilledInv(r)
      OBVIOUS
    <2>2. price[r] \in Prices /\ Estimated(r) \in Usages /\ bill[r].usage \in Usages
      BY <2>1 DEF BilledInv
    <2>3. bill[r].estimated = CostAt(r, Estimated(r), price[r])
      BY <2>1 DEF BilledInv
    <2>4. CostAt(r, Estimated(r), price[r]) \in Nat
      BY <2>2, CostAtType
    <2>5. CostAt(r, bill[r].usage, price[r]) <= CostAt(r, Estimated(r), price[r])
      <3>1. /\ bill[r].usage.prompt \in Nat /\ bill[r].usage.completion \in Nat
            /\ Estimated(r).prompt \in Nat /\ Estimated(r).completion \in Nat
        BY <2>2 DEF Usages
      <3> QED
        BY <2>2, <3>1, CostGrows DEF CostAt
    <2> QED
      BY <2>1, <2>3, <2>4, <2>5 DEF BilledInv
  <1> QED
    BY <1>1, <1>2, <1>3, ReadersInductive, PTL DEF Spec

-----------------------------------------------------------------------------
(***************************************************************************)
(* The price of two reads.  Who is between them will be offered what the   *)
(* markup of the moment makes of the cost price.  One commit changes a     *)
(* configuration or the markup: after the first, the offer is as it was    *)
(* then; after the second, the configuration is.                           *)
(***************************************************************************)
\* The one configuration of the model has no prices of its own.
Plain(r) ==
    /\ Cardinality(Enabled(Model(r))) = 1
    /\ \E c \in Enabled(Model(r)) : ~Overrides(r, configs[c])

\* What r is priced at if it reads the markup now, if it is a number.
Offer(r) ==
    PriceOf(r, MarkedUp(CostPrices[Model(r)].input, Markup), MarkedUp(CostPrices[Model(r)].output, Markup))

Offered(r) == Markup # NoNumber => Offer(r) \in offered[r]

OfferInv(r) ==
    /\ commits[r] \in 0 .. 2
    /\ pc[r] \in {"unsent", "start"} => commits[r] = 0
    /\ pc[r] = "found" /\ commits[r] = 0 => Offered(r) /\ Plain(r)
    /\ pc[r] = "found" /\ commits[r] = 1 => Offered(r) \/ Plain(r)

OffersInv ==
    /\ DOMAIN offered = Priced /\ DOMAIN commits = Priced
    /\ \A r \in Priced : OfferInv(r)

\* What a configuration without prices leads to is in force, if floats make no difference.
LEMMA OfferInForce ==
    ASSUME ExactMarkups, IInv, NEW r \in Priced, Plain(r), Markup # NoNumber
    PROVE  Offer(r) \in InForce(r)
  <1> DEFINE markups == IF MarkupRows = {} THEN {DefaultMarkup} ELSE {settings[e] : e \in MarkupRows}
             cost == CostPrices[Model(r)]
             exact(m) == PriceOf(r, ExactlyMarkedUp(cost.input, m), ExactlyMarkedUp(cost.output, m))
             offers(c) == IF Overrides(r, configs[c])
                          THEN {PriceOf(r, configs[c].input_price, configs[c].output_price)}
                          ELSE {exact(m) : m \in markups \ {NoNumber}}
  <1>1. PICK c \in Enabled(Model(r)) : ~Overrides(r, configs[c])
    BY DEF Plain
  <1>2. Model(r) \in DOMAIN CostPrices
    BY RequestAssumption DEF Model
  <1>3. Offer(r) = exact(Markup)
    BY <1>2, MarkupStored DEF Offer, ExactMarkups
  <1>4. Markup \in markups \ {NoNumber}
    BY MarkupStored
  <1> HIDE DEF exact, markups
  <1>5. Offer(r) \in offers(c)
    BY <1>1, <1>3, <1>4
  <1>6. InForce(r) = UNION {offers(d) : d \in Enabled(Model(r))}
    BY DEF InForce, Plain, exact, markups
  <1> HIDE DEF offers
  <1> QED
    BY <1>1, <1>5, <1>6

\* A configuration with prices is itself what is in force.
LEMMA PricesInForce ==
    ASSUME NEW r \in Priced, NEW c \in Enabled(Model(r)), Cardinality(Enabled(Model(r))) = 1, Overrides(r, configs[c])
    PROVE  PriceOf(r, configs[c].input_price, configs[c].output_price) \in InForce(r)
  BY DEF InForce

\* Neither the offer nor what r finds under its name changes with other tables.
LEMMA OffersOfTables ==
    ASSUME NEW r \in Priced
    PROVE  /\ settings' = settings => Offer(r)' = Offer(r) /\ Markup' = Markup
           /\ configs' = configs => Plain(r)' = Plain(r)
  <1>1. ASSUME settings' = settings PROVE Markup' = Markup
    BY <1>1 DEF Markup, MarkupRows
  <1>2. ASSUME settings' = settings PROVE Offer(r)' = Offer(r)
    BY <1>1, <1>2 DEF Offer, PriceOf, Model
  <1>3. ASSUME configs' = configs PROVE Plain(r)' = Plain(r)
    BY <1>3 DEF Plain, Enabled, Stored, Overrides, Model
  <1> QED
    BY <1>1, <1>2, <1>3

LEMMA OfferWaits ==
    ASSUME NEW q \in Priced, OfferInv(q), UNCHANGED tables, offered'[q] = offered[q], commits'[q] = commits[q],
           pc'[q] = pc[q] \/ pc'[q] \in {"priced", "held", "done"}
    PROVE  OfferInv(q)'
  <1>1. Offer(q)' = Offer(q) /\ Markup' = Markup /\ Plain(q)' = Plain(q)
    BY OffersOfTables DEF tables
  <1>2. Offered(q)' = Offered(q)
    BY <1>1 DEF Offered
  <1> QED
    BY <1>1, <1>2 DEF OfferInv

\* A commit changes one of the two tables, and who is between the reads is told.
LEMMA OfferNotices ==
    ASSUME OffersInv, NEW q \in Priced, Noticed, pc'[q] = pc[q], configs' = configs \/ settings' = settings
    PROVE  OfferInv(q)'
  <1>1. /\ offered' = offered /\ OfferInv(q)
        /\ commits'[q] = IF pc[q] = "found" /\ tables' # tables THEN Min({2, commits[q] + 1}) ELSE commits[q]
    BY DEF Noticed, OffersInv
  <1>2. CASE UNCHANGED tables
    BY <1>1, <1>2, OfferWaits
  <1>3. CASE tables' # tables /\ pc[q] # "found"
    BY <1>1, <1>3 DEF OfferInv
  <1>4. CASE tables' # tables /\ pc[q] = "found"
    <2>1. commits[q] \in 0 .. 2 /\ commits'[q] = IF 2 <= commits[q] + 1 THEN 2 ELSE commits[q] + 1
      BY <1>1, <1>4, SmallerOf DEF OfferInv
    <2>2. commits'[q] \in {1, 2} /\ (commits'[q] = 1 => commits[q] = 0)
      BY <2>1
    <2>3. commits'[q] = 1 => Offered(q) /\ Plain(q)
      BY <1>1, <1>4, <2>2 DEF OfferInv
    <2>4. CASE settings' = settings
      <3>1. Offered(q)' = Offered(q)
        BY <1>1, <2>4, OffersOfTables DEF Offered
      <3> QED
        BY <1>4, <2>2, <2>3, <3>1 DEF OfferInv
    <2>5. CASE configs' = configs
      <3>1. Plain(q)' = Plain(q)
        BY <2>5, OffersOfTables
      <3> QED
        BY <1>4, <2>2, <2>3, <3>1 DEF OfferInv
    <2> QED
      BY <2>4, <2>5
  <1> QED
    BY <1>2, <1>3, <1>4

\* The first read: the offer is one of the prices in force.
LEMMA FoundOffers ==
    ASSUME ExactMarkups, IInv, CatalogInv, OffersInv, NEW r \in Requests, FindPrice(r) \/ FindConfig(r)
    PROVE  OffersInv'
  <1>1. /\ r \in Priced /\ pc[r] = "start" /\ UNCHANGED <<tables, commits>>
        /\ offered' = [offered EXCEPT ![r] = InForce(r)]
    BY DEF FindPrice, FindConfig, Goes, Found
  <1>2. /\ offered'[r] = InForce(r) /\ DOMAIN offered' = Priced
        /\ \A q \in Priced : q # r => offered'[q] = offered[q]
    BY <1>1 DEF OffersInv
  <1>3. pc'[r] \in {"found", "priced"} /\ \A q \in Priced : q # r => pc'[q] = pc[q]
    BY <1>1, Kinds DEF FindPrice, FindConfig, Goes, IInv, Shape
  <1>4. pc'[r] = "found" => Plain(r)
    <2>1. ASSUME FindPrice(r) PROVE pc'[r] = "priced"
      BY <2>1 DEF FindPrice, Goes, IInv, Shape
    <2>2. ASSUME FindConfig(r) PROVE Plain(r)
      BY <2>2 DEF FindConfig, Found, Plain
    <2> QED
      BY <2>1, <2>2
  <1>5. Offer(r)' = Offer(r) /\ Markup' = Markup /\ Plain(r)' = Plain(r)
    BY <1>1, OffersOfTables DEF tables
  <1>6. pc'[r] = "found" => Offered(r)'
    BY <1>1, <1>2, <1>4, <1>5, OfferInForce DEF Offered
  <1>7. OfferInv(r)'
    BY <1>1, <1>3, <1>4, <1>5, <1>6 DEF OffersInv, OfferInv
  <1>8. ASSUME NEW q \in Priced, q # r PROVE OfferInv(q)'
    BY <1>1, <1>2, <1>3, <1>8, OfferWaits DEF OffersInv
  <1> QED
    BY <1>1, <1>2, <1>7, <1>8 DEF OffersInv

\* Of the other steps some commit; the rest changes neither a table nor what is remembered.
LEMMA AdminOffers ==
    ASSUME IInv, OffersInv, NEW r \in Requests, Creation(r) \/ Edit(r) \/ MarkupEdit(r)
    PROVE  OffersInv'
  <1>1. r \notin Priced
    BY Kinds DEF Creation, Edit, MarkupEdit, CheckConfig, ConfigExists, InsertConfig, CollideConfig, ReadConfig,
                 ConfigMissing, EditConfig, ReadMarkup, WriteMarkup, KeepMarkup
  <1>2. \E from, to \in {"start", "checked", "done"} : Goes(r, from, to)
    BY DEF Creation, Edit, MarkupEdit, CheckConfig, ConfigExists, InsertConfig, CollideConfig, ReadConfig,
           ConfigMissing, EditConfig, ReadMarkup, WriteMarkup, KeepMarkup
  <1>3. \A q \in Priced : pc'[q] = pc[q]
    BY <1>1, <1>2, Kinds DEF Goes, IInv, Shape
  <1>4. ASSUME Noticed, configs' = configs \/ settings' = settings PROVE OffersInv'
    <2>1. DOMAIN offered' = Priced /\ DOMAIN commits' = Priced
      BY <1>4 DEF Noticed, OffersInv
    <2>2. \A q \in Priced : OfferInv(q)'
      BY <1>3, <1>4, OfferNotices
    <2> QED
      BY <2>1, <2>2 DEF OffersInv
  <1>5. ASSUME InsertConfig(r) \/ EditConfig(r) \/ WriteMarkup(r)
        PROVE  Noticed /\ (configs' = configs \/ settings' = settings)
    BY <1>5 DEF InsertConfig, EditConfig, WriteMarkup
  <1>6. ASSUME ~InsertConfig(r), ~EditConfig(r), ~WriteMarkup(r) PROVE UNCHANGED <<tables, history>>
    BY <1>6 DEF Creation, Edit, MarkupEdit, CheckConfig, ConfigExists, CollideConfig, ReadConfig,
                ConfigMissing, ReadMarkup, KeepMarkup, Reads
  <1>7. ASSUME UNCHANGED <<tables, history>> PROVE OffersInv'
    <2>1. UNCHANGED <<offered, commits>>
      BY <1>7 DEF history
    <2> QED
      BY <1>3, <1>7, <2>1, OfferWaits DEF OffersInv
  <1> QED
    BY <1>4, <1>5, <1>6, <1>7

LEMMA OffersSteps ==
    ASSUME ExactMarkups, IInv, CatalogInv, OffersInv, [Next]_vars
    PROVE  OffersInv'
  <1>1. ASSUME UNCHANGED <<tables, history>>,
               \A q \in Priced : pc'[q] = pc[q] \/ pc'[q] \in {"priced", "held", "done"}
        PROVE  OffersInv'
    <2>1. UNCHANGED <<offered, commits>>
      BY <1>1 DEF history
    <2> QED
      BY <1>1, <2>1, OfferWaits DEF OffersInv
  <1>2. ASSUME NEW r \in Requests, Resolution(r) \/ Charging(r), ~FindPrice(r), ~FindConfig(r) PROVE OffersInv'
    <2>1. UNCHANGED <<tables, history>>
      BY <1>2 DEF Resolution, Charging, NoConfig, FindMarkup, BadMarkup, Refuse, Hold, Settle, FailEmbedding, Logs
    <2>2. \E to \in {"priced", "held", "done"} : pc' = [pc EXCEPT ![r] = to]
      BY <1>2 DEF Resolution, Charging, NoConfig, FindMarkup, BadMarkup, Refuse, Hold, Settle, FailEmbedding, Logs, Goes
    <2>3. \A q \in Priced : pc'[q] = pc[q] \/ pc'[q] \in {"priced", "held", "done"}
      BY <2>2, Kinds DEF IInv, Shape
    <2> QED
      BY <1>1, <2>1, <2>3
  <1>3. CASE CatalogNext
    BY <1>2, <1>3, FoundOffers, AdminOffers DEF CatalogNext
  <1>4. CASE ~CatalogNext
    <2>1. UNCHANGED <<tables, history, pc>>
      BY <1>4 DEF Next, Tick, Open, Ask, CountRows, FetchPage, Finished, vars, catalog
    <2> QED
      BY <1>1, <2>1
  <1> QED
    BY <1>3, <1>4

\* Where floats make no difference to prices, nobody is priced at what never was, unless two
\* commits come between the two reads.
THEOREM PricesWereInForce == ASSUME PricesNotNegative, ExactMarkups PROVE Spec => PriceWasInForce
  <1>1. Init => OffersInv
    <2> SUFFICES ASSUME Init PROVE OffersInv
      OBVIOUS
    <2>1. offered = [r \in Priced |-> {}] /\ commits = [r \in Priced |-> 0]
      BY DEF Init, CatalogInit
    <2>2. \A r \in Priced : pc[r] # "found"
      BY Kinds DEF Init, CatalogInit
    <2> QED
      BY <2>1, <2>2 DEF OffersInv, OfferInv
  <1>2. IInv /\ ReadersInv /\ OffersInv /\ [Next]_vars => OffersInv'
    BY OffersSteps DEF ReadersInv
  <1>3. IInv /\ ReadersInv /\ OffersInv /\ [Next]_vars
           => [\A r \in Priced :
                  pc[r] \in {"start", "found"} /\ pc'[r] = "priced" /\ commits[r] < 2
                     => price'[r] \in offered[r] \cup InForce(r)]_catalog
    <2> SUFFICES ASSUME IInv, CatalogInv, OffersInv, [Next]_vars, NEW q \in Priced,
                        pc[q] \in {"start", "found"}, pc'[q] = "priced", commits[q] < 2
                 PROVE  price'[q] \in offered[q] \cup InForce(q)
      BY DEF ReadersInv
    <2>1. CatalogNext
      BY DEF Next, Tick, Open, Ask, CountRows, FetchPage, Finished, vars, catalog
    <2>2. PICK r \in Requests : Creation(r) \/ Edit(r) \/ MarkupEdit(r) \/ Resolution(r) \/ Charging(r)
      BY <2>1 DEF CatalogNext
    <2>3. \E to : pc' = [pc EXCEPT ![r] = to]
      BY <2>2 DEF Creation, Edit, MarkupEdit, CheckConfig, ConfigExists, InsertConfig, CollideConfig, ReadConfig,
                  ConfigMissing, EditConfig, ReadMarkup, WriteMarkup, KeepMarkup, Resolution, FindPrice,
                  FindConfig, NoConfig, FindMarkup, BadMarkup, Charging, Refuse, Hold, Settle, FailEmbedding, Logs, Goes
    <2>4. q = r
      BY <2>3, Kinds DEF IInv, Shape
    <2>5. FindPrice(q) \/ FindMarkup(q)
      BY <2>2, <2>4, Kinds DEF Creation, Edit, MarkupEdit, CheckConfig, ConfigExists, InsertConfig, CollideConfig,
                  ReadConfig, ConfigMissing, EditConfig, ReadMarkup, WriteMarkup, KeepMarkup, Resolution, FindPrice,
                  FindConfig, NoConfig, FindMarkup, BadMarkup, Charging, Refuse, Hold, Settle, FailEmbedding, Logs, Goes,
                  IInv, Shape
    <2>6. DOMAIN price = Priced
      BY DEF CatalogInv, Places
    <2>7. CASE FindPrice(q)
      <3>1. PICK c \in Creations : /\ Found(q, c) /\ Overrides(q, configs[c])
                                   /\ price' = [price EXCEPT ![q] = PriceOf(q, configs[c].input_price, configs[c].output_price)]
        BY <2>7 DEF FindPrice
      <3> QED
        BY <2>6, <3>1, PricesInForce DEF Found
    <2>8. CASE FindMarkup(q)
      <3>1. pc[q] = "found" /\ Markup # NoNumber
        BY <2>8 DEF FindMarkup, Goes
      <3>2. price'[q] = Offer(q)
        BY <2>6, <2>8 DEF FindMarkup, Offer
      <3>3. Offered(q) \/ Plain(q)
        BY <3>1 DEF OffersInv, OfferInv
      <3> QED
        BY <3>1, <3>2, <3>3, OfferInForce DEF Offered
    <2> QED
      BY <2>5, <2>7, <2>8
  <1> QED
    BY <1>1, <1>2, <1>3, ReadersInductive, PTL DEF Spec, PriceWasInForce

-----------------------------------------------------------------------------
(***************************************************************************)
(* Costs and what they are made of.  A price is a configuration's, or what *)
(* a markup makes of a cost price: the first is no higher than what        *)
(* administrators set, the second no lower than the cost price.            *)
(***************************************************************************)
\* Where the price of r is from.
Sourced(r) ==
    IF Overrides(r, seen[r]) THEN price[r] = PriceOf(r, seen[r].input_price, seen[r].output_price)
    ELSE \E m \in SetMarkups :
            price[r] = PriceOf(r, MarkedUp(CostPrices[Model(r)].input, m), MarkedUp(CostPrices[Model(r)].output, m))

SourceInv(top, r) ==
    pc[r] \in {"found", "priced", "held"} \/ bill[r] # NoRow =>
       /\ PricesUpTo(top, seen[r])
       /\ IF pc[r] = "found" THEN ~Overrides(r, seen[r]) ELSE Sourced(r)

SourcesInv(top) ==
    /\ \A c \in Stored : PricesUpTo(top, configs[c])
    /\ \A r \in Priced : SourceInv(top, r)

LEMMA SourceWaits ==
    ASSUME NEW top, NEW r \in Priced, SourceInv(top, r),
           bill'[r] # NoRow \/ pc'[r] \in {"found", "priced", "held"}
              => /\ pc[r] \in {"found", "priced", "held"} \/ bill[r] # NoRow
                 /\ pc'[r] = "found" <=> pc[r] = "found",
           seen'[r] = seen[r], price'[r] = price[r], SetMarkups \subseteq SetMarkups'
    PROVE  SourceInv(top, r)'
  BY DEF SourceInv, Sourced, PricesUpTo, Overrides, PriceOf, Model

\* A markup that is set stays.
LEMMA MarkupsStay == ASSUME IInv, [Next]_vars PROVE SetMarkups \subseteq SetMarkups'
  <1>1. \/ settings' = settings
        \/ \E r \in MarkupEdits : MarkupRows = {} /\ settings' = [settings EXCEPT ![r] = change[r]]
    <2>1. CASE CatalogNext
      <3>1. PICK r \in Requests : Creation(r) \/ Edit(r) \/ MarkupEdit(r) \/ Resolution(r) \/ Charging(r)
        BY <2>1 DEF CatalogNext
      <3>2. CASE WriteMarkup(r)
        BY <3>2 DEF WriteMarkup, KeyIsFree
      <3>3. CASE ~WriteMarkup(r)
        BY <3>1, <3>3 DEF Creation, Edit, MarkupEdit, CheckConfig, ConfigExists, InsertConfig, CollideConfig,
           ReadConfig, ConfigMissing, EditConfig, ReadMarkup, KeepMarkup, Reads, tables, Resolution, FindPrice,
           FindConfig, NoConfig, FindMarkup, BadMarkup, Found, Charging, Refuse, Hold, Settle, FailEmbedding, Logs
      <3> QED
        BY <3>2, <3>3
    <2>2. CASE ~CatalogNext
      BY <2>2 DEF Next, Tick, Open, Ask, CountRows, FetchPage, Finished, vars, catalog, tables
    <2> QED
      BY <2>1, <2>2
  <1> QED
    BY <1>1 DEF SetMarkups, MarkupRows

\* An edit sets prices that are no higher either.
LEMMA UpdatedPrices ==
    ASSUME NEW top \in Nat, NEW tokens \in Nat, Moderate(top, tokens),
           NEW row \in ConfigRow, NEW read, NEW columns \in Changes, PricesUpTo(top, row)
    PROVE  PricesUpTo(top, Updated(row, read, columns))
  <1> DEFINE u == Updated(row, read, columns)
  <1>1. /\ u.input_price \in {row.input_price, row.output_price} \cup {columns[c] : c \in DOMAIN columns \ {"is_enabled"}}
        /\ u.output_price \in {row.input_price, row.output_price} \cup {columns[c] : c \in DOMAIN columns \ {"is_enabled"}}
    BY DEF Updated, ConfigRow
  <1>2. \A c \in DOMAIN columns \ {"is_enabled"} : columns[c] \in 0 .. top
    BY RowAssumption DEF Moderate
  <1> HIDE DEF u
  <1>3. {u.input_price, u.output_price} \ {NoRow} \subseteq 0 .. top
    BY <1>1, <1>2 DEF PricesUpTo
  <1> QED
    BY <1>3 DEF PricesUpTo, u

LEMMA AdminSources ==
    ASSUME NEW top \in Nat, NEW tokens \in Nat, Moderate(top, tokens), IInv, CatalogInv,
           SourcesInv(top), SetMarkups \subseteq SetMarkups',
           NEW r \in Requests, Creation(r) \/ Edit(r) \/ MarkupEdit(r)
    PROVE  SourcesInv(top)'
  <1>1. r \notin Priced
    BY Kinds DEF Creation, Edit, MarkupEdit, CheckConfig, ConfigExists, InsertConfig, CollideConfig, ReadConfig,
                 ConfigMissing, EditConfig, ReadMarkup, WriteMarkup, KeepMarkup
  <1>2. \E from, to \in {"start", "checked", "done"} : Goes(r, from, to)
    BY DEF Creation, Edit, MarkupEdit, CheckConfig, ConfigExists, InsertConfig, CollideConfig, ReadConfig,
           ConfigMissing, EditConfig, ReadMarkup, WriteMarkup, KeepMarkup
  <1>3. UNCHANGED <<price, bill>>
    BY DEF Creation, Edit, MarkupEdit, CheckConfig, ConfigExists, InsertConfig, CollideConfig, ReadConfig,
           ConfigMissing, EditConfig, ReadMarkup, WriteMarkup, KeepMarkup, Forgets, Reads, session
  <1>4. seen' = seen \/ \E s : seen' = [seen EXCEPT ![r] = s]
    <2> DEFINE Sees == seen' = seen \/ \E s : seen' = [seen EXCEPT ![r] = s]
    <2>1. ASSUME Creation(r) PROVE Sees
      BY <2>1 DEF Creation, CheckConfig, ConfigExists, InsertConfig, CollideConfig, Forgets, session
    <2>2. ASSUME ReadConfig(r) PROVE Sees
      BY <2>2 DEF ReadConfig
    <2>3. ASSUME ReadMarkup(r) PROVE Sees
      BY <2>3 DEF ReadMarkup
    <2> QED
      BY <2>1, <2>2, <2>3 DEF Edit, MarkupEdit, ConfigMissing, EditConfig, WriteMarkup, KeepMarkup, Forgets, session
  <1>5. ASSUME NEW q \in Priced PROVE SourceInv(top, q)'
    <2>1. pc'[q] = pc[q] /\ seen'[q] = seen[q]
      <3>1. q # r /\ q \in Requests
        BY <1>1, Kinds
      <3>2. pc'[q] = pc[q]
        BY <1>2, <3>1 DEF Goes, IInv, Shape
      <3>3. seen'[q] = seen[q]
        BY <1>4, <3>1 DEF CatalogInv, Places
      <3> QED
        BY <3>2, <3>3
    <2> QED
      BY <1>3, <2>1, SourceWaits DEF SourcesInv
  <1>6. \A c \in Stored' : PricesUpTo(top, configs'[c])
    <2>1. CASE configs' = configs
      BY <2>1 DEF SourcesInv, Stored
    <2>2. CASE InsertConfig(r)
      <3>1. change[r] \in NewConfigs /\ configs' = [configs EXCEPT ![r] = change[r]]
        BY <2>2, Kinds DEF InsertConfig, Goes, IInv, RequestInv, CreationInv
      <3>2. PricesUpTo(top, change[r])
        BY <3>1 DEF Moderate
      <3> QED
        BY <3>1, <3>2 DEF SourcesInv, Stored, IInv, Shape
    <2>3. CASE EditConfig(r)
      <3>1. target[r] \in Stored /\ change[r] \in Changes
        BY <2>3 DEF EditConfig, Goes, IInv, RequestInv, EditInv
      <3>2. configs' = [configs EXCEPT ![target[r]] = Updated(configs[target[r]], seen[r], change[r])]
        BY <2>3 DEF EditConfig
      <3>3. configs[target[r]] \in ConfigRow
        BY <3>1 DEF Stored, IInv, Shape
      <3>4. PricesUpTo(top, Updated(configs[target[r]], seen[r], change[r]))
        BY <3>1, <3>3, UpdatedPrices DEF SourcesInv
      <3> QED
        BY <3>1, <3>2, <3>4 DEF SourcesInv, Stored, IInv, Shape
    <2> QED
      BY <2>1, <2>2, <2>3 DEF Creation, Edit, MarkupEdit, CheckConfig, ConfigExists, CollideConfig, ReadConfig,
         ConfigMissing, ReadMarkup, WriteMarkup, KeepMarkup, Reads, tables
  <1>7. \A q \in Priced : SourceInv(top, q)'
    BY <1>5
  <1>8. \A c \in Stored' : PricesUpTo(top, configs[c])'
    BY <1>6 DEF PricesUpTo
  <1> QED
    BY <1>7, <1>8 DEF SourcesInv

LEMMA ResolutionSources ==
    ASSUME NEW top \in Nat, IInv, CatalogInv, SourcesInv(top), SetMarkups \subseteq SetMarkups',
           NEW r \in Requests, Resolution(r)
    PROVE  SourcesInv(top)'
  <1>1. r \in Priced /\ pc[r] \in {"start", "found"} /\ PricedInv(r) /\ SourceInv(top, r)
    BY DEF Resolution, FindPrice, FindConfig, NoConfig, FindMarkup, BadMarkup, Goes, IInv, RequestInv, BillInv,
           CatalogInv, SourcesInv
  <1>2. bill' = bill /\ bill[r] = NoRow /\ UNCHANGED tables
    BY <1>1 DEF Resolution, FindPrice, FindConfig, NoConfig, FindMarkup, BadMarkup, Goes, Found, PricedInv
  <1>3. \E to \in {"found", "priced", "done"} : Goes(r, pc[r], to)
    BY DEF Resolution, FindPrice, FindConfig, NoConfig, FindMarkup, BadMarkup, Goes
  <1>4. pc'[r] \in {"found", "priced", "done"} /\ \A q \in Requests : q # r => pc'[q] = pc[q]
    BY <1>3 DEF Goes, IInv, Shape
  <1>5. DOMAIN seen = Requests /\ DOMAIN price = Priced
    BY DEF CatalogInv, Places
  <1> DEFINE Moved == /\ SourceInv(top, r)'
                      /\ \A q \in Priced : q # r => seen'[q] = seen[q] /\ price'[q] = price[q]
  <1>6. ASSUME NEW c \in Creations, Found(r, c)
        PROVE  /\ seen'[r] = configs[c] /\ PricesUpTo(top, configs[c])
               /\ \A q \in Priced : q # r => seen'[q] = seen[q]
    BY <1>1, <1>5, <1>6, Kinds DEF Found, Enabled, SourcesInv
  <1>7. ASSUME FindPrice(r) PROVE Moved
    <2>1. PICK c \in Creations : /\ Found(r, c) /\ Overrides(r, configs[c])
                                 /\ price' = [price EXCEPT ![r] = PriceOf(r, configs[c].input_price, configs[c].output_price)]
      BY <1>7 DEF FindPrice
    <2>2. /\ price'[r] = PriceOf(r, configs[c].input_price, configs[c].output_price)
          /\ \A q \in Priced : q # r => price'[q] = price[q]
      BY <1>1, <1>5, <2>1
    <2>3. pc'[r] = "priced"
      BY <1>7 DEF FindPrice, Goes, IInv, Shape
    <2>4. seen'[r] = configs[c] /\ PricesUpTo(top, configs[c])
      BY <1>6, <2>1
    <2>5. Sourced(r)'
      BY <2>1, <2>2, <2>4 DEF Sourced, Overrides, PriceOf
    <2>6. PricesUpTo(top, seen[r])'
      BY <2>4 DEF PricesUpTo
    <2>7. SourceInv(top, r)'
      BY <2>3, <2>5, <2>6 DEF SourceInv
    <2> QED
      BY <1>6, <2>1, <2>2, <2>7
  <1>8. ASSUME FindConfig(r) PROVE Moved
    <2>1. PICK c \in Creations : Found(r, c) /\ ~Overrides(r, configs[c])
      BY <1>8 DEF FindConfig
    <2>2. pc'[r] = "found" /\ price' = price
      BY <1>8 DEF FindConfig, Goes, IInv, Shape
    <2>3. seen'[r] = configs[c] /\ PricesUpTo(top, configs[c])
      BY <1>6, <2>1
    <2>4. SourceInv(top, r)'
      BY <2>1, <2>2, <2>3 DEF SourceInv, PricesUpTo, Overrides
    <2> QED
      BY <1>6, <2>1, <2>2, <2>4
  <1>9. ASSUME FindMarkup(r) PROVE Moved
    <2>1. pc[r] = "found" /\ pc'[r] = "priced" /\ seen' = seen /\ Markup # NoNumber
      BY <1>9 DEF FindMarkup, Goes, IInv, Shape
    <2>2. /\ price'[r] = PriceOf(r, MarkedUp(CostPrices[Model(r)].input, Markup), MarkedUp(CostPrices[Model(r)].output, Markup))
          /\ \A q \in Priced : q # r => price'[q] = price[q]
      BY <1>1, <1>5, <1>9 DEF FindMarkup
    <2>3. Markup \in SetMarkups'
      BY <2>1, MarkupStored
    <2>4. PricesUpTo(top, seen[r]) /\ ~Overrides(r, seen[r])
      BY <1>1, <2>1 DEF SourceInv
    <2>5. \E m \in SetMarkups' :
             price'[r] = PriceOf(r, MarkedUp(CostPrices[Model(r)].input, m), MarkedUp(CostPrices[Model(r)].output, m))
      BY <2>2, <2>3
    <2>6. SourceInv(top, r)'
      BY <2>1, <2>4, <2>5 DEF SourceInv, Sourced, PricesUpTo, Overrides, PriceOf, Model
    <2> QED
      BY <2>1, <2>2, <2>6
  <1>10. ASSUME NoConfig(r) \/ BadMarkup(r) PROVE Moved
    <2>1. pc'[r] = "done" /\ UNCHANGED <<seen, price>>
      BY <1>10 DEF NoConfig, BadMarkup, Goes, session, IInv, Shape
    <2> QED
      BY <1>2, <2>1 DEF SourceInv
  <1>11. Moved
    BY <1>7, <1>8, <1>9, <1>10 DEF Resolution
  <1>12. ASSUME NEW q \in Priced, q # r PROVE SourceInv(top, q)'
    <2>1. pc'[q] = pc[q] /\ bill'[q] = bill[q] /\ seen'[q] = seen[q] /\ price'[q] = price[q]
      BY <1>2, <1>4, <1>11, <1>12, Kinds
    <2> QED
      BY <2>1, SourceWaits DEF SourcesInv
  <1>13. \A c \in Stored' : PricesUpTo(top, configs[c])'
    BY <1>2 DEF SourcesInv, Stored, PricesUpTo, tables
  <1> QED
    BY <1>11, <1>12, <1>13 DEF SourcesInv

LEMMA SourcesSteps ==
    ASSUME NEW top \in Nat, NEW tokens \in Nat, Moderate(top, tokens), IInv, CatalogInv, SourcesInv(top),
           \A r \in Priced : BilledInv(r), [Next]_vars
    PROVE  SourcesInv(top)'
  <1>0. SetMarkups \subseteq SetMarkups'
    BY MarkupsStay
  <1>1. ASSUME UNCHANGED <<tables, pc, seen, price, bill>> PROVE SourcesInv(top)'
    <2>1. ASSUME NEW q \in Priced PROVE SourceInv(top, q)'
      BY <1>0, <1>1, SourceWaits DEF SourcesInv
    <2>2. \A c \in Stored' : PricesUpTo(top, configs[c])'
      BY <1>1 DEF SourcesInv, Stored, PricesUpTo, tables
    <2> QED
      BY <2>1, <2>2 DEF SourcesInv
  <1>2. ASSUME NEW r \in Requests, Charging(r) PROVE SourcesInv(top)'
    <2>1. /\ r \in Priced /\ price' = price
          /\ \A q \in Priced : q # r => bill'[q] = bill[q] /\ pc'[q] = pc[q]
      BY <1>2, ChargingBills
    <2>2. UNCHANGED <<tables, seen>>
      BY <1>2 DEF Charging, Refuse, Hold, Settle, FailEmbedding, Logs, session, Goes
    <2>3. pc[r] \in {"priced", "held"} /\ pc'[r] \in {"held", "done"}
      BY <1>2 DEF Charging, Refuse, Hold, Settle, FailEmbedding, Logs, Goes, IInv, Shape
    <2>4. ASSUME NEW q \in Priced PROVE SourceInv(top, q)'
      BY <1>0, <2>1, <2>2, <2>3, SourceWaits DEF SourcesInv
    <2>5. \A c \in Stored' : PricesUpTo(top, configs[c])'
      BY <2>2 DEF SourcesInv, Stored, PricesUpTo, tables
    <2> QED
      BY <2>4, <2>5 DEF SourcesInv
  <1>3. CASE CatalogNext
    BY <1>0, <1>2, <1>3, ResolutionSources, AdminSources DEF CatalogNext
  <1>4. CASE ~CatalogNext
    <2>1. UNCHANGED <<tables, pc, seen, price, bill>>
      BY <1>4 DEF Next, Tick, Open, Ask, CountRows, FetchPage, Finished, vars, catalog, session
    <2> QED
      BY <1>1, <2>1
  <1> QED
    BY <1>3, <1>4

\* All that is known of requests that are priced.
CostsInv(top) == SourcesInv(top) /\ \A r \in Priced : BilledInv(r)

LEMMA CostsInductive ==
    ASSUME PricesNotNegative, NEW top \in Nat, NEW tokens \in Nat, Moderate(top, tokens)
    PROVE  Spec => [](IInv /\ CostsInv(top))
  <1>1. Init => CostsInv(top)
    <2> SUFFICES ASSUME Init PROVE CostsInv(top)
      OBVIOUS
    <2>1. \A r \in Priced : bill[r] = NoRow /\ pc[r] \in {"unsent", "start"}
      BY Kinds DEF Init, CatalogInit
    <2>2. \A c \in Stored : c \in DOMAIN FirstConfigs /\ configs[c] = FirstConfigs[c]
      BY CatalogAssumption DEF Init, CatalogInit, Stored
    <2>3. \A c \in Stored : PricesUpTo(top, configs[c])
      BY <2>2 DEF Moderate
    <2> QED
      BY <2>1, <2>3 DEF CostsInv, SourcesInv, SourceInv, BilledInv
  <1>2. IInv /\ ReadersInv /\ CostsInv(top) /\ [Next]_vars => CostsInv(top)'
    <2> SUFFICES ASSUME IInv, CatalogInv, CostsInv(top), [Next]_vars PROVE CostsInv(top)'
      BY DEF ReadersInv
    <2>1. SourcesInv(top)'
      BY SourcesSteps DEF CostsInv
    <2>2. \A r \in Priced : BilledInv(r)'
      BY BilledSteps DEF CostsInv
    <2> QED
      BY <2>1, <2>2 DEF CostsInv
  <1> QED
    BY <1>1, <1>2, ReadersInductive, PTL DEF Spec

\* Nobody pays a higher price.
LEMMA PriceUpTo ==
    ASSUME NEW top \in Nat, NEW tokens \in Nat, Moderate(top, tokens), IInv, CostsInv(top),
           NEW r \in Priced, bill[r] # NoRow
    PROVE  price[r].input <= top /\ price[r].output <= top
  <1>1. BilledInv(r) /\ SourceInv(top, r)
    BY DEF CostsInv, SourcesInv
  <1>2. pc[r] # "found" /\ PricesUpTo(top, seen[r]) /\ Sourced(r)
    BY <1>1 DEF BilledInv, SourceInv
  <1>3. CASE Overrides(r, seen[r])
    <2>1. price[r] = PriceOf(r, seen[r].input_price, seen[r].output_price)
      BY <1>2, <1>3 DEF Sourced
    <2>2. seen[r].input_price \in 0 .. top /\ (r \notin Embeds => seen[r].output_price \in 0 .. top)
      BY <1>2, <1>3 DEF Overrides, PricesUpTo
    <2> QED
      BY <2>1, <2>2 DEF PriceOf
  <1>4. CASE ~Overrides(r, seen[r])
    <2> DEFINE cost == CostPrices[Model(r)]
    <2>1. PICK m \in PossibleMarkups :
             price[r] = PriceOf(r, MarkedUp(cost.input, m), MarkedUp(cost.output, m))
      BY <1>2, <1>4, MarkupStored DEF Sourced
    <2>2. Model(r) \in DOMAIN CostPrices
      BY RequestAssumption DEF Model
    <2>3. MarkedUp(cost.input, m) <= top /\ MarkedUp(cost.output, m) <= top
      BY <2>1, <2>2 DEF Moderate
    <2> HIDE DEF cost
    <2> QED
      BY <2>1, <2>3 DEF PriceOf
  <1> QED
    BY <1>3, <1>4

\* What is billed is nothing or an estimate, where no usage was reported, or else what the
\* usage costs, up to a cent.
LEMMA BilledNear ==
    ASSUME NEW top \in Nat, NEW tokens \in Nat, Moderate(top, tokens), IInv, CostsInv(top),
           NEW r \in Priced, bill[r] # NoRow
    PROVE  LET b == bill[r]
               exact == ExactThousandths(b.usage.prompt, b.usage.completion, price[r])
           IN /\ price[r] \in Prices /\ b.usage \in Usages /\ b.actual \in Nat
              /\ r \in Embeds => b.usage.completion = 0
              /\ \/ b.usage = NoUsage
                 \/ b.actual * Thousand >= exact /\ (b.actual - 1) * Thousand <= exact
  <1> DEFINE b == bill[r]
             p == b.usage.prompt
             c == b.usage.completion
             exact == ExactThousandths(p, c, price[r])
  <1>1. BilledInv(r)
    BY DEF CostsInv
  <1>2. price[r] \in Prices /\ b.usage \in Usages /\ b.usage \in Reported(r) /\ Estimated(r) \in Usages
    BY <1>1 DEF BilledInv
  <1>3. p \in Nat /\ c \in Nat /\ price[r].input \in Nat /\ price[r].output \in Nat
    BY <1>2 DEF Usages, Prices
  <1>4. b.actual \in Nat
    <2>1. CostAt(r, Estimated(r), price[r]) \in Nat /\ CostAt(r, b.usage, price[r]) \in Nat
      BY <1>2, CostAtType
    <2> QED
      BY <1>1, <2>1 DEF BilledInv
  <1>5. r \in Embeds => c = 0
    BY <1>2, RequestAssumption DEF Reported, NoUsage
  <1>6. p + c <= tokens
    BY <1>2 DEF Reported, NoUsage, Moderate
  <1>7. 4 * exact <= 2^Precision /\ Thousand <= 2^Precision
    <2>1. price[r].input <= top /\ price[r].output <= top
      BY PriceUpTo
    <2> DEFINE i == price[r].input
               o == price[r].output
    <2>2. exact = p * i + c * o
      BY DEF ExactThousandths
    <2> HIDE DEF p, c, i, o, exact
    <2>3. p \in Nat /\ c \in Nat /\ i \in Nat /\ o \in Nat /\ i <= top /\ o <= top
      BY <1>3, <2>1 DEF i, o
    <2>4. i * p <= top * p /\ o * c <= top * c /\ (p + c) * top <= tokens * top
      BY <1>6, <2>3, Products
    <2>5. /\ p * i = i * p /\ c * o = o * c /\ (p + c) * top = top * p + top * c /\ tokens * top = top * tokens
          /\ i * p \in Nat /\ o * c \in Nat /\ top * p \in Nat /\ top * c \in Nat /\ top * tokens \in Nat
      BY <2>3, ProductType
    <2>6. exact <= top * tokens /\ exact \in Nat
      BY <2>2, <2>4, <2>5
    <2>7. 4 * (top * tokens) <= 2^Precision /\ Thousand <= 2^Precision
      BY DEF Moderate
    <2>8. 2^Precision \in Nat
      BY PowerType, PricingAssumption
    <2> QED
      BY <2>5, <2>6, <2>7, <2>8
  <1>8. ASSUME b.usage # NoUsage PROVE b.actual * Thousand >= exact /\ (b.actual - 1) * Thousand <= exact
    <2>1. b.actual = IF r \in Embeds THEN EmbeddingCost(p, price[r]) ELSE Cost(p, c, price[r])
      BY <1>1, <1>8 DEF BilledInv, CostAt
    <2> HIDE DEF b, p, c
    <2>2. /\ Cost(p, c, price[r]) * Thousand >= exact
          /\ (Cost(p, c, price[r]) - 1) * Thousand <= exact
          /\ c = 0 =>
                /\ EmbeddingCost(p, price[r]) * Thousand >= exact
                /\ (EmbeddingCost(p, price[r]) - 1) * Thousand <= exact
      BY <1>2, <1>3, <1>7, CostsAreNearlyExact
    <2> QED
      BY <1>5, <2>1, <2>2
  <1> QED
    BY <1>2, <1>4, <1>5, <1>8

\* A bill is the exact cost of the usage that was reported, rounded up, or a cent more, at every
\* precision that such costs fit into.
THEOREM BillsAreExactToACent ==
    ASSUME PricesNotNegative, NEW top \in Nat, NEW tokens \in Nat, Moderate(top, tokens)
    PROVE  Spec => []CostWithinACent
  <1>1. IInv /\ CostsInv(top) => CostWithinACent
    BY BilledNear DEF CostWithinACent
  <1> QED
    BY <1>1, CostsInductive, PTL

\* What a request without configured prices pays covers what its usage costs at the cost prices,
\* whatever was rounded on the way and whatever becomes of the catalogue, unless the markup that
\* is set is negative.
THEOREM NothingIsSoldBelowCost ==
    ASSUME PricesNotNegative, NEW top \in Nat, NEW tokens \in Nat, Moderate(top, tokens)
    PROVE  Spec => []NotSoldBelowCost
  <1>1. IInv /\ CostsInv(top) => NotSoldBelowCost
    <2> SUFFICES ASSUME IInv, CostsInv(top), NEW r \in Priced, bill[r] # NoRow, ~Overrides(r, seen[r]), ~DiscountSet
                 PROVE  LET input == CostPrices[Model(r)].input
                            output == CostPrices[Model(r)].output
                            b == bill[r]
                        IN b.actual * Thousand * input[2] * output[2] >=
                              b.usage.prompt * input[1] * output[2] + b.usage.completion * output[1] * input[2]
      BY DEF NotSoldBelowCost
    <2> DEFINE input == CostPrices[Model(r)].input
               output == CostPrices[Model(r)].output
               a == bill[r].actual
               p == bill[r].usage.prompt
               c == bill[r].usage.completion
               i == price[r].input
               o == price[r].output
               T == Thousand
    <2>1. input \in Representable /\ output \in Representable
      BY RequestAssumption DEF Model
    <2>2. /\ a \in Nat /\ p \in Nat /\ c \in Nat /\ i \in Nat /\ o \in Nat /\ T \in Nat
          /\ r \in Embeds => c = 0
          /\ (p = 0 /\ c = 0) \/ a * T >= p * i + c * o
      BY BilledNear, PricingAssumption DEF Usages, Prices, NoUsage, ExactThousandths
    <2>3. input[1] <= i * input[2] /\ (r \notin Embeds => output[1] <= o * output[2])
      <3>1. pc[r] # "found" /\ Sourced(r)
        BY DEF CostsInv, SourcesInv, SourceInv, BilledInv
      <3>2. PICK m \in SetMarkups :
               price[r] = PriceOf(r, MarkedUp(input, m), MarkedUp(output, m))
        BY <3>1 DEF Sourced
      <3>3. m \in Signed /\ m[1] >= 0
        <4>1. m \in Signed /\ m[1] \in Int
          BY MarkupStored, MarkupsAreFloats, SignedParts
        <4>2. DefaultMarkup[1] >= 0
          BY CatalogAssumption DEF Representable
        <4> QED
          BY <3>2, <4>1, <4>2 DEF SetMarkups, DiscountSet
      <3>4. input[1] <= MarkedUp(input, m) * input[2] /\ output[1] <= MarkedUp(output, m) * output[2]
        BY <2>1, <3>3, MarkupsCoverCosts
      <3> QED
        BY <3>2, <3>4 DEF PriceOf
    <2> DEFINE i1 == input[1]
               i2 == input[2]
               o1 == output[1]
               o2 == output[2]
    <2>4. i1 \in Nat /\ i2 \in Nat \ {0} /\ o1 \in Nat /\ o2 \in Nat \ {0}
      BY <2>1, RepresentableType, FloatsAreFractions DEF Fractions
    <2> SUFFICES ((a * T) * i2) * o2 >= (p * i1) * o2 + (c * o1) * i2
      OBVIOUS
    <2> HIDE DEF a, p, c, i, o, T, i1, i2, o1, o2
    <2>5. p * i1 <= (p * i) * i2
      <3>1. i1 * p <= (i * i2) * p
        BY <2>2, <2>3, <2>4, ProductType, Products DEF i1, i2
      <3>2. i1 * p = p * i1 /\ (i * i2) * p = (p * i) * i2
        BY <2>2, <2>4
      <3> QED
        BY <3>1, <3>2
    <2>6. c * o1 <= (c * o) * o2
      <3>1. CASE r \in Embeds
        <4>1. c = 0
          BY <2>2, <3>1
        <4>2. 0 * o1 = 0 /\ 0 * o = 0 /\ 0 * o2 = 0
          BY <2>2, <2>4
        <4> QED
          BY <4>1, <4>2
      <3>2. CASE r \notin Embeds
        <4>1. o1 * c <= (o * o2) * c
          BY <2>2, <2>3, <2>4, <3>2, ProductType, Products DEF o1, o2
        <4>2. o1 * c = c * o1 /\ (o * o2) * c = (c * o) * o2
          BY <2>2, <2>4
        <4> QED
          BY <4>1, <4>2
      <3> QED
        BY <3>1, <3>2
    <2>7. /\ p * i1 \in Nat /\ p * i \in Nat /\ c * o1 \in Nat /\ c * o \in Nat /\ a * T \in Nat
          /\ (p * i) * i2 \in Nat /\ (c * o) * o2 \in Nat
      BY <2>2, <2>4, ProductType
    <2>8. /\ (p * i1) * o2 <= ((p * i) * i2) * o2
          /\ (c * o1) * i2 <= ((c * o) * o2) * i2
      BY <2>4, <2>5, <2>6, <2>7, Products
    <2>9. /\ (p * i1) * o2 \in Nat /\ ((p * i) * i2) * o2 \in Nat
          /\ (c * o1) * i2 \in Nat /\ ((c * o) * o2) * i2 \in Nat
          /\ (a * T) * i2 \in Nat /\ ((a * T) * i2) * o2 \in Nat
      BY <2>4, <2>7, ProductType
    <2>10. CASE p = 0 /\ c = 0
      <3>1. 0 * i1 = 0 /\ 0 * o1 = 0 /\ 0 * o2 = 0 /\ 0 * i2 = 0
        BY <2>4
      <3> QED
        BY <2>9, <2>10, <3>1
    <2>11. CASE a * T >= p * i + c * o
      <3>1. (p * i + c * o) * (i2 * o2) <= (a * T) * (i2 * o2)
        <4>1. i2 * o2 \in Nat /\ p * i + c * o \in Nat /\ p * i + c * o <= a * T
          BY <2>4, <2>7, <2>11, ProductType
        <4> QED
          BY <2>7, <4>1, Products
      <3>2. /\ (p * i + c * o) * (i2 * o2) = ((p * i) * i2) * o2 + ((c * o) * o2) * i2
            /\ (a * T) * (i2 * o2) = ((a * T) * i2) * o2
        BY <2>2, <2>4
      <3> QED
        BY <2>8, <2>9, <3>1, <3>2
    <2> QED
      BY <2>2, <2>10, <2>11
  <1> QED
    BY <1>1, CostsInductive, PTL
=============================================================================
