------------------------------ MODULE Catalog ------------------------------
(***************************************************************************)
(* The catalogue of Token Relay and what requests make of it: the model    *)
(* configurations, the markup setting, the administrators' requests that   *)
(* create and change them, and the requests of users that are priced by    *)
(* them, settled and logged.                                               *)
(*                                                                         *)
(* A request is one session.  An administrator's write is flushed last and *)
(* committed right after, so the two are one step, and so are the log row  *)
(* of a priced request and its commit.  A price is resolved by up to two   *)
(* reads, and others may commit between them: rows are what is locked, and *)
(* nobody locks a row that is read.                                        *)
(*                                                                         *)
(* Abstracted: balances, keys and upstream, which Billing and Relay model. *)
(* A request may be refused for credits or for want of a provider key, and *)
(* its answer is whatever upstream says.  A row is named by the request    *)
(* that inserts it.                                                        *)
(***************************************************************************)
EXTENDS Pricing, Sequences, FiniteSets, TLC

CONSTANTS
    Creations,       \* POST /api/admin/models
    Edits,           \* PATCH /api/admin/models/{model_id}
    MarkupEdits,     \* PATCH /api/admin/settings/markup_percent
    Chats,           \* POST /v1/chat/completions
    Streams,         \* the same with stream set
    Embeds,          \* POST /v1/embeddings
    FirstConfigs,    \* rows of model_configs at the start, by the request that inserted them
    NewConfigs,      \* rows that creations may insert
    Changes,         \* columns and values that edits may be sent
    Markups,         \* values that markup_percent may be set to, as floats
    DefaultMarkup,   \* 15 in the code
    Priceable,       \* Priceable[r]: what request r of a user asks for, see RequestAssumption
    CostPrices,      \* CostPrices[m]: DEFAULT_COST_PRICES, DEFAULT_EMBEDDING_COST_PRICES, as floats
    Workloads,       \* sets of requests; those of one of them are sent (bound of the model)
    NoRow,           \* what stands for a row or a value that does not exist
    NoNumber         \* a markup that float() refuses, or that is no finite number

Priced == Chats \cup Streams \cup Embeds
Requests == Creations \cup Edits \cup MarkupEdits \cup Priced

\* A request asks for a model, whose cost prices are floats; its input has chars
\* characters; max_tokens may be absent; upstream answers with one of some sequences of
\* lines.  An embedding's answer reports one number of tokens.
ASSUME RequestAssumption ==
    /\ \A r \in Priced :
          /\ DOMAIN Priceable[r] = {"model", "chars", "max_tokens", "answers"}
          /\ Priceable[r].model \in DOMAIN CostPrices
          /\ Priceable[r].chars \in Nat
          /\ Priceable[r].max_tokens \in Nat \cup {NoRow}
          /\ Priceable[r].answers \subseteq Seq([prompt : Nat, completion : Nat] \cup {NoReport})
    /\ \A r \in Embeds : \A lines \in Priceable[r].answers : \A i \in DOMAIN lines :
          lines[i] # NoReport => lines[i].completion = 0
    /\ \A m \in DOMAIN CostPrices :
          CostPrices[m].input \in Representable /\ CostPrices[m].output \in Representable

\* A request is of one kind.
ASSUME KindAssumption ==
    /\ Creations \cap Edits = {} /\ Creations \cap MarkupEdits = {} /\ Edits \cap MarkupEdits = {}
    /\ Priced \cap (Creations \cup Edits \cup MarkupEdits) = {}

ConfigRow == [provider : STRING, model_id : STRING, is_enabled : BOOLEAN,
              input_price : Nat \cup {NoRow}, output_price : Nat \cup {NoRow}]

SameName(row, other) == row.provider = other.provider /\ row.model_id = other.model_id

\* Rows have all columns, and the first ones satisfy the unique constraint.  An edit
\* is sent neither names nor None.
ASSUME RowAssumption ==
    /\ \A c \in DOMAIN FirstConfigs : FirstConfigs[c] \in ConfigRow
    /\ \A c, d \in DOMAIN FirstConfigs : SameName(FirstConfigs[c], FirstConfigs[d]) => c = d
    /\ NewConfigs \subseteq ConfigRow
    /\ \A columns \in Changes : \A column \in DOMAIN columns :
          /\ columns[column] # NoRow
          /\ \/ column = "is_enabled" /\ columns[column] \in BOOLEAN
             \/ column \in {"input_price", "output_price"} /\ columns[column] \in Nat
    /\ NoRow \notin ConfigRow \cup [input : Nat, output : Nat] \cup Markups \cup MarkupEdits

\* The setting is any text, and float() is all that looks at it: the markup may be
\* negative, and a fraction of a percent.
ASSUME CatalogAssumption ==
    /\ DOMAIN FirstConfigs \subseteq Creations
    /\ DefaultMarkup \in Representable
    /\ Markups \subseteq Signed \cup {NoNumber}
    /\ Workloads \subseteq SUBSET (Requests \ DOMAIN FirstConfigs)

VARIABLES
    configs,     \* configs[c]: row c of table model_configs
    settings,    \* settings[e]: value of row e of system_settings, all of key markup_percent
    pc,          \* pc[r]: where the handler of r is
    target,      \* target[r]: the row it changes
    seen,        \* seen[r]: that row as r read it, or the configuration it is priced by
    change,      \* change[r]: what an administrator's request writes
    price,       \* price[r]: the price that a request resolved
    bill,        \* bill[r]: what was estimated, answered and charged
    logs,        \* usage_logs in the order of their commits
    now,         \* the clock of the database
    began,       \* began[r]: when the transaction of r began
    offered,     \* offered[r]: the prices in force when r read its configuration (history)
    commits      \* commits[r]: changes of the catalogue since then, two at most (history)

tables == <<configs, settings>>
session == <<target, seen, change, price>>
history == <<offered, commits>>
catalog == <<tables, pc, session, bill, logs, now, began, history>>

CatalogInit ==
    /\ configs = [c \in Creations |-> IF c \in DOMAIN FirstConfigs THEN FirstConfigs[c] ELSE NoRow]
    /\ settings = [e \in MarkupEdits |-> NoRow]
    /\ \E sent \in Workloads : pc = [r \in Requests |-> IF r \in sent THEN "start" ELSE "unsent"]
    /\ target = [r \in Requests |-> NoRow]
    /\ seen = [r \in Requests |-> NoRow]
    /\ change = [r \in Requests |-> NoRow]
    /\ price = [r \in Priced |-> NoRow]
    /\ bill = [r \in Priced |-> NoRow]
    /\ logs = <<>>
    /\ now = 0
    /\ began = [r \in Priced |-> 0]
    /\ offered = [r \in Priced |-> {}]
    /\ commits = [r \in Priced |-> 0]

Stored == {c \in Creations : configs[c] # NoRow}
MarkupRows == {e \in MarkupEdits : settings[e] # NoRow}
Model(r) == Priceable[r].model

\* What a request finds under the name of its model.
Enabled(m) == {c \in Stored : configs[c].model_id = m /\ configs[c].is_enabled}

\* The prices of a configuration replace the marked-up ones: for a chat both together.
Overrides(r, row) ==
    /\ row.input_price # NoRow
    /\ r \in Embeds \/ row.output_price # NoRow

PriceOf(r, input, output) == [input |-> input, output |-> IF r \in Embeds THEN 0 ELSE output]

\* The prices in force for r by the tables as they are, computed exactly; none if r would fail.
InForce(r) ==
    LET markups == IF MarkupRows = {} THEN {DefaultMarkup} ELSE {settings[e] : e \in MarkupRows}
        cost == CostPrices[Model(r)]
    IN IF Cardinality(Enabled(Model(r))) # 1 THEN {}
       ELSE UNION {IF Overrides(r, configs[c])
                   THEN {PriceOf(r, configs[c].input_price, configs[c].output_price)}
                   ELSE {PriceOf(r, ExactlyMarkedUp(cost.input, m), ExactlyMarkedUp(cost.output, m))
                            : m \in markups \ {NoNumber}}
                   : c \in Enabled(Model(r))}

-----------------------------------------------------------------------------
(***************************************************************************)
(* Administrators.                                                         *)
(***************************************************************************)
Goes(r, from, to) ==
    /\ pc[r] = from
    /\ pc' = [pc EXCEPT ![r] = to]
    /\ UNCHANGED <<logs, now>>

Forgets(r) ==
    /\ target' = [target EXCEPT ![r] = NoRow]
    /\ seen' = [seen EXCEPT ![r] = NoRow]
    /\ change' = [change EXCEPT ![r] = NoRow]
    /\ UNCHANGED <<price, bill, began>>

\* A commit is noticed by those who are between their two reads.
Noticed ==
    /\ commits' = [r \in Priced |->
          IF pc[r] = "found" /\ tables' # tables THEN Min({2, commits[r] + 1}) ELSE commits[r]]
    /\ UNCHANGED offered

Reads == UNCHANGED <<tables, price, bill, began, history>>

\* Mutant: no unique constraint.
AdmitsAny(row) == TRUE

\* The unique constraint of (provider, model_id) admits a new row.
Admits(row) == ~\E c \in Stored : SameName(configs[c], row)

\* create_model_config looks for a row of the same provider and model, inserts one if
\* there is none, and the constraint decides once more.
CheckConfig(r) ==
    /\ r \in Creations
    /\ Goes(r, "start", "checked")
    /\ \E row \in NewConfigs : Admits(row) /\ change' = [change EXCEPT ![r] = row]
    /\ UNCHANGED <<target, seen>>
    /\ Reads

\* 409.
ConfigExists(r) ==
    /\ r \in Creations
    /\ Goes(r, "start", "done")
    /\ \E row \in NewConfigs : ~Admits(row)
    /\ UNCHANGED <<session, bill, began, tables, history>>

InsertConfig(r) ==
    /\ r \in Creations
    /\ Goes(r, "checked", "done")
    /\ Admits(change[r])
    /\ configs' = [configs EXCEPT ![r] = change[r]]
    /\ UNCHANGED settings
    /\ Forgets(r)
    /\ Noticed

\* IntegrityError: somebody inserted the row since.
CollideConfig(r) ==
    /\ r \in Creations
    /\ Goes(r, "checked", "done")
    /\ ~Admits(change[r])
    /\ Forgets(r)
    /\ UNCHANGED <<tables, history>>

\* update_model_config reads a row and sets the columns it was sent; None is not sent.
ReadConfig(r) ==
    /\ r \in Edits
    /\ Goes(r, "start", "checked")
    /\ \E c \in Stored :
          /\ target' = [target EXCEPT ![r] = c]
          /\ seen' = [seen EXCEPT ![r] = configs[c]]
    /\ \E columns \in Changes : change' = [change EXCEPT ![r] = columns]
    /\ Reads

\* 404.
ConfigMissing(r) ==
    /\ r \in Edits
    /\ Goes(r, "start", "done")
    /\ UNCHANGED <<session, bill, began, tables, history>>

\* Mutant: every column of the object is written.
UpdatedWhole(row, read, columns) ==
    [c \in DOMAIN row |-> IF c \in DOMAIN columns THEN columns[c] ELSE read[c]]

\* Only columns that differ from what was read go into the UPDATE.
Updated(row, read, columns) ==
    [c \in DOMAIN row |-> IF c \in DOMAIN columns /\ columns[c] # read[c] THEN columns[c] ELSE row[c]]

EditConfig(r) ==
    /\ r \in Edits
    /\ Goes(r, "checked", "done")
    /\ configs' = [configs EXCEPT ![target[r]] = Updated(@, seen[r], change[r])]
    /\ UNCHANGED settings
    /\ Forgets(r)
    /\ Noticed

\* set_setting looks for the row of the key, and inserts one if there is none.
ReadMarkup(r) ==
    /\ r \in MarkupEdits
    /\ Goes(r, "start", "checked")
    /\ \/ \E e \in MarkupRows : target' = [target EXCEPT ![r] = e]
       \/ MarkupRows = {} /\ UNCHANGED target
    /\ \E m \in Markups : change' = [change EXCEPT ![r] = m]
    /\ UNCHANGED seen
    /\ Reads

\* The unique key of system_settings admits a first row of markup_percent.
KeyIsFree == MarkupRows = {}

WriteMarkup(r) ==
    /\ r \in MarkupEdits
    /\ Goes(r, "checked", "done")
    /\ target[r] = NoRow /\ KeyIsFree
    /\ settings' = [settings EXCEPT ![r] = change[r]]
    /\ UNCHANGED configs
    /\ Forgets(r)
    /\ Noticed

\* A row that is there keeps its value.  Who found none collides with who inserted it.  Who
\* found it and writes another value is rolled back: the UPDATE leaves updated_at to be
\* read again, and the answer reads it where the session cannot.
KeepMarkup(r) ==
    /\ r \in MarkupEdits
    /\ Goes(r, "checked", "done")
    /\ target[r] # NoRow \/ ~KeyIsFree
    /\ Forgets(r)
    /\ UNCHANGED <<tables, history>>

-----------------------------------------------------------------------------
(***************************************************************************)
(* Prices.                                                                 *)
(***************************************************************************)
Found(r, c) ==
    /\ c \in Enabled(Model(r))
    /\ Cardinality(Enabled(Model(r))) = 1
    /\ seen' = [seen EXCEPT ![r] = configs[c]]
    /\ began' = [began EXCEPT ![r] = now]
    /\ offered' = [offered EXCEPT ![r] = InForce(r)]
    /\ UNCHANGED <<tables, target, change, bill, commits>>

\* The configuration has the prices.
FindPrice(r) ==
    /\ r \in Priced
    /\ Goes(r, "start", "priced")
    /\ \E c \in Creations :
          /\ Found(r, c)
          /\ Overrides(r, configs[c])
          /\ price' = [price EXCEPT ![r] = PriceOf(r, configs[c].input_price, configs[c].output_price)]

\* It has not: the markup is read next.
FindConfig(r) ==
    /\ r \in Priced
    /\ Goes(r, "start", "found")
    /\ \E c \in Creations :
          /\ Found(r, c)
          /\ ~Overrides(r, configs[c])
    /\ UNCHANGED price

\* 404, or more than one row, which raises.
NoConfig(r) ==
    /\ r \in Priced
    /\ Goes(r, "start", "done")
    /\ Cardinality(Enabled(Model(r))) # 1
    /\ UNCHANGED <<tables, session, bill, began, history>>

\* Mutant: the setting is not looked at.
AlwaysDefaultMarkup == DefaultMarkup

Markup == IF MarkupRows = {} THEN DefaultMarkup ELSE settings[CHOOSE e \in MarkupRows : TRUE]

FindMarkup(r) ==
    /\ Goes(r, "found", "priced")
    /\ Cardinality(MarkupRows) <= 1 /\ Markup # NoNumber
    /\ LET cost == CostPrices[Model(r)]
       IN price' = [price EXCEPT ![r] =
             PriceOf(r, MarkedUp(cost.input, Markup), MarkedUp(cost.output, Markup))]
    /\ UNCHANGED <<tables, target, seen, change, bill, began, history>>

\* float() or math.ceil() raises, as scalar_one_or_none does should there be two rows.
BadMarkup(r) ==
    /\ Goes(r, "found", "done")
    /\ Cardinality(MarkupRows) > 1 \/ Markup = NoNumber
    /\ UNCHANGED <<tables, session, bill, began, history>>

-----------------------------------------------------------------------------
(***************************************************************************)
(* Costs.                                                                  *)
(***************************************************************************)
CostAt(r, usage, p) ==
    IF r \in Embeds THEN EmbeddingCost(usage.prompt, p) ELSE Cost(usage.prompt, usage.completion, p)

\* What is held for: the input by its length, and for a chat the most it may answer.
Estimated(r) == [prompt |-> EstimatedTokens(Priceable[r].chars),
                 completion |-> IF r \in Embeds THEN 0 ELSE Priceable[r].max_tokens]

\* No key, no credits, or no max_tokens: the validated body then holds None, which is no number.
Refuse(r) ==
    /\ Goes(r, "priced", "done")
    /\ UNCHANGED <<tables, session, bill, began, history>>

Hold(r) ==
    /\ Goes(r, "priced", "held")
    /\ r \in Embeds \/ Priceable[r].max_tokens # NoRow
    /\ bill' = [bill EXCEPT ![r] =
          [estimated |-> CostAt(r, Estimated(r), price[r]), lines |-> <<>>, cut |-> {},
           usage |-> NoUsage, actual |-> 0]]
    /\ UNCHANGED <<tables, session, began, history>>

\* Mutant: the price is resolved anew.
SettledAnew(r) == IF InForce(r) = {} THEN price[r] ELSE CHOOSE p \in InForce(r) : TRUE

\* The price a request is settled at.
SettledAt(r) == price[r]

\* The log is stored with the time of the statement or of the transaction's begin, as the
\* database has it; what a stream writes is never committed.
Logs(r, cost) ==
    /\ pc' = [pc EXCEPT ![r] = "done"]
    /\ \E rows \in IF r \in Streams THEN {<<>>}
                   ELSE {<<[request |-> r, cost |-> cost, created_at |-> t]>> : t \in began[r]..now} :
          logs' = logs \o rows
    /\ UNCHANGED <<tables, session, now, began, history>>

\* An embedding without usage costs its estimate.  Only streams are parsed chunk by chunk.
Settle(r) ==
    /\ pc[r] = "held"
    /\ \E lines \in Priceable[r].answers :
       \E cut \in IF r \in Streams THEN SUBSET DOMAIN lines ELSE {{}} :
          LET usage == ParsedUsage(lines, cut)
              actual == IF r \in Embeds /\ usage.prompt = 0 THEN bill[r].estimated
                        ELSE CostAt(r, usage, SettledAt(r))
          IN /\ bill' = [bill EXCEPT ![r] =
                   [@ EXCEPT !.lines = lines, !.cut = cut, !.usage = usage, !.actual = actual]]
             /\ Logs(r, actual)

\* A failed embedding costs nothing.  (A failed chat has an answer without usage.)
FailEmbedding(r) ==
    /\ r \in Embeds
    /\ pc[r] = "held"
    /\ Logs(r, 0)
    /\ UNCHANGED bill

Creation(r) == CheckConfig(r) \/ ConfigExists(r) \/ InsertConfig(r) \/ CollideConfig(r)
Edit(r) == ReadConfig(r) \/ ConfigMissing(r) \/ EditConfig(r)
MarkupEdit(r) == ReadMarkup(r) \/ WriteMarkup(r) \/ KeepMarkup(r)
Resolution(r) == FindPrice(r) \/ FindConfig(r) \/ NoConfig(r) \/ FindMarkup(r) \/ BadMarkup(r)
Charging(r) == Refuse(r) \/ Hold(r) \/ Settle(r) \/ FailEmbedding(r)

CatalogNext == \E r \in Requests : Creation(r) \/ Edit(r) \/ MarkupEdit(r) \/ Resolution(r) \/ Charging(r)

-----------------------------------------------------------------------------
\* Types; who has a price or a bill is past the step that makes it.
CatalogTypeOK ==
    /\ \A c \in Creations : configs[c] \in ConfigRow \cup {NoRow}
    /\ \A e \in MarkupEdits : settings[e] \in Markups \cup {NoRow}
    /\ \A r \in Requests : pc[r] \in {"unsent", "start", "checked", "found", "priced", "held", "done"}
    /\ \A r \in Priced :
          /\ pc[r] \in {"priced", "held"} => price[r] \in [input : Nat, output : Nat]
          /\ pc[r] \in {"found", "priced", "held"} => seen[r] \in ConfigRow
          /\ bill[r] # NoRow => pc[r] \in {"held", "done"} /\ price[r] # NoRow
          /\ began[r] \in 0..now
    /\ \A i \in DOMAIN logs : logs[i].request \in Chats \cup Embeds /\ logs[i].created_at \in 0..now

\* What a name means is never ambiguous through a race: requests that create the same
\* configuration, or set the markup for the first time, both look before either writes
\* (admin_service.py:114, 69), and the loser fails instead of storing a second row.
CatalogIsUnambiguous ==
    /\ \A c, d \in Stored : SameName(configs[c], configs[d]) => c = d
    /\ Cardinality(MarkupRows) <= 1

\* An edit of a configuration is not undone by another one that read the row before it
\* was committed (admin_service.py:128-137): a column changes only by a request that sets
\* it.  None cannot be sent, so a model that has a price of its own keeps one for ever.
EditsAreKept ==
    [][\A c \in Stored : \A column \in DOMAIN configs[c] :
          configs'[c][column] # configs[c][column]
             => /\ configs'[c][column] # NoRow
                /\ \E r \in Edits : pc[r] # "done" /\ pc'[r] = "done" /\ target[r] = c
                                   /\ column \in DOMAIN change[r]]_catalog

PossibleMarkups == (Markups \cup {DefaultMarkup}) \ {NoNumber}

\* No markup is below -100 %.  One that is makes prices negative, and requests are paid for.
PricesNotNegative == \A m \in PossibleMarkups : m[1] >= -(Hundred * m[2])

\* Floating point makes no difference to the prices that the markups may lead to.
ExactMarkups ==
    \A m \in DOMAIN CostPrices, markup \in PossibleMarkups :
       LET cost == CostPrices[m]
       IN /\ MarkedUp(cost.input, markup) = ExactlyMarkedUp(cost.input, markup)
          /\ MarkedUp(cost.output, markup) = ExactlyMarkedUp(cost.output, markup)

PricesUpTo(top, row) == {row.input_price, row.output_price} \ {NoRow} \subseteq 0..top

\* No price exceeds top cents, no answer reports more than tokens, and what such an answer
\* costs is, in thousandths, two binary digits short of what a float holds.
Moderate(top, tokens) ==
    /\ Thousand <= 2^Precision /\ 4 * (top * tokens) <= 2^Precision
    /\ \A c \in DOMAIN FirstConfigs : PricesUpTo(top, FirstConfigs[c])
    /\ \A row \in NewConfigs : PricesUpTo(top, row)
    /\ \A columns \in Changes : \A column \in DOMAIN columns \ {"is_enabled"} : columns[column] <= top
    /\ \A m \in DOMAIN CostPrices, markup \in PossibleMarkups :
          /\ MarkedUp(CostPrices[m].input, markup) <= top
          /\ MarkedUp(CostPrices[m].output, markup) <= top
    /\ \A r \in Priced : \A lines \in Priceable[r].answers : \A i \in DOMAIN lines :
          lines[i] # NoReport => lines[i].prompt + lines[i].completion <= tokens

\* A request is priced by two reads (proxy_service.py:75, 85), between which an
\* administrator may commit.  Unless two changes are committed in between, what it is
\* priced at was in force at the first read or is at the second, to the cent; after two,
\* it may be a mixture that never was.
PriceWasInForce ==
    [][\A r \in Priced :
          pc[r] \in {"start", "found"} /\ pc'[r] = "priced" /\ commits[r] < 2
             => price'[r] \in offered[r] \cup InForce(r)]_catalog

\* Whoever stays within the estimate is never billed more than was held, whatever the
\* rounding and whatever becomes of prices between hold and settlement
\* (proxy_service.py:130, 206).
CoveredUsage ==
    \A r \in Priced :
       LET b == bill[r]
       IN pc[r] = "done" /\ b # NoRow
             /\ b.usage.prompt <= Estimated(r).prompt /\ b.usage.completion <= Estimated(r).completion
             => b.actual <= b.estimated

\* What usage costs is the exact cost rounded up, or one cent more where that is a whole
\* number of cents and floating point exceeds it, in a product or in the sum of two
\* (proxy_service.py:36): 1100 tokens at 110 cents a thousand cost 122.  It is never less,
\* nor two cents more.
CostWithinACent ==
    \A r \in Priced :
       bill[r] # NoRow /\ bill[r].usage # NoUsage =>
          LET exact == ExactThousandths(bill[r].usage.prompt, bill[r].usage.completion, price[r])
          IN /\ bill[r].actual * Thousand >= exact
             /\ (bill[r].actual - 1) * Thousand <= exact

\* The markup that is set is negative.
DiscountSet == \E e \in MarkupRows : settings[e] # NoNumber /\ settings[e][1] < 0

\* Without prices of its own a model is not sold below its cost price, although prices
\* are rounded before costs are and both in floating point (proxy_service.py:89-91, 36).
\* Nothing but the sign of the markup decides that: where a negative one is set, which
\* nobody refuses (schemas/admin.py:9), a model may be.
NotSoldBelowCost ==
    \A r \in Priced :
       LET input == CostPrices[Model(r)].input
           output == CostPrices[Model(r)].output
           b == bill[r]
       IN pc[r] = "done" /\ b # NoRow /\ ~Overrides(r, seen[r]) /\ ~DiscountSet
             => b.actual * Thousand * input[2] * output[2] >=
                   b.usage.prompt * input[1] * output[2] + b.usage.completion * output[1] * input[2]

\* A stream is billed by the last usage it reported, be it of zeros, unless that line was cut by the end
\* of a chunk (proxy_service.py:50); then an earlier report counts, or nothing.
UncutUsageIsBilled ==
    \A r \in Priced :
       bill[r] # NoRow =>
          LET reports == {i \in DOMAIN bill[r].lines : bill[r].lines[i] # NoReport}
              last == CHOOSE i \in reports : \A j \in reports : j <= i
          IN reports # {} => last \in bill[r].cut \/ bill[r].usage = bill[r].lines[last]
=============================================================================
