----------------------------- MODULE MCReports -----------------------------
(***************************************************************************)
(* An instance of Reports, and with it of Catalog, for TLC: prices are for *)
(* ten tokens and markups are tenths, so that quotients are rounded at     *)
(* numbers this small as they are at thousands.                            *)
(***************************************************************************)
EXTENDS Reports

Row(provider, model, enabled, input, output) ==
    [provider |-> provider, model_id |-> model, is_enabled |-> enabled,
     input_price |-> input, output_price |-> output]

\* A chat and an embedding model without prices of their own, and a chat model with.
FirstRows == "chat row" :> Row("p", "chat", TRUE, NoRow, NoRow) @@
             "embed row" :> Row("p", "embed", TRUE, NoRow, NoRow) @@
             "flat row" :> Row("p", "flat", TRUE, 3, 2)

\* A new model, of two providers; the first may be inserted twice.
NewRows == {Row("p", "new", TRUE, 3, NoRow), Row("q", "new", TRUE, 7, 3)}

\* Edits set one price or both, or disable.
SomeChanges ==
    {[input_price |-> 7, output_price |-> 3], [input_price |-> 5], [output_price |-> 2],
     [is_enabled |-> FALSE]}

\* None, 40 %, a discount of 55 %, and a text that is no number.
SomeMarkups == {Whole(0), Whole(4), <<-11, 2>>, NoNumber}
Usual == Whole(2)

\* Half a cent and two cents for ten tokens.
Costs == [m \in {"chat", "embed", "flat", "new"} |-> [input |-> <<1, 2>>, output |-> <<2, 1>>]]

Used(prompt, completion) == [prompt |-> prompt, completion |-> completion]

Asked(model, chars, max_tokens, answers) ==
    [model |-> model, chars |-> chars, max_tokens |-> max_tokens, answers |-> answers]

\* The theorem on PriceWasInForce is about such costs and markups, those on costs are
\* about prices and answers such as these.
ASSUME CostsAreExact == ExactMarkups
ASSUME CostsAreModerate == Moderate(7, 21)
ASSUME DiscountsAreModerate == PricesNotNegative

\* What costs 2 cents is sold for 1 at the discount, which NotSoldBelowCost leaves out.
\* Three tokens at 7 cents for ten and three at 3, which "chat1" may have to pay, are 3
\* cents; floats make 4 of them (CostWithinACent).
ASSUME SoldBelowCost == MarkedUp(<<2, 1>>, <<-11, 2>>) = 1
ASSUME SurchargeWitness ==
    /\ 3 * 7 + 3 * 3 = 3 * Thousand
    /\ Ceil(Plus(Times(Nearest(3, Thousand), Whole(7)), Times(Nearest(3, Thousand), Whole(3)))) = 4

\* Usage within the estimate or beyond it, of zeros, or none.  "chat3" has no max_tokens.
Inputs ==
    "chat1" :> Asked("chat", 12, 3, {<<Used(3, 3)>>, <<Used(6, 15)>>, <<NoReport>>}) @@
    "chat2" :> Asked("chat", 4, 2, {<<Used(1, 1)>>}) @@
    "chat3" :> Asked("new", 12, NoRow, {<<Used(3, 3)>>}) @@
    "chat4" :> Asked("new", 12, 3, {<<Used(3, 3)>>}) @@
    "flat1" :> Asked("flat", 4, 2, {<<Used(1, 1)>>}) @@
    "flat2" :> Asked("flat", 4, 2, {<<Used(1, 2)>>}) @@
    "stream" :> Asked("chat", 0, 3,
        {<<NoReport, Used(1, 0), Used(3, 3), NoReport>>, <<Used(2, 2), Used(0, 0)>>, <<NoReport>>}) @@
    "embed" :> Asked("embed", 9, NoRow, {<<Used(2, 0)>>, <<NoReport>>})

\* Who goes together: creations of one model, first settings of the markup, edits while
\* requests are priced, and readers while requests are logged.
Watched == {"flat1", "embed"}
Listed == {"flat1", "flat2", "chat2"}

Together ==
    {{"create1", "create2", "chat3", "chat4"},
     {"markup1", "markup2", "chat1"},
     {"edit1", "edit2", "markup1", "chat1"},
     {"edit1", "markup1", "embed"},
     {"edit1", "markup1", "stream"},
     Watched, Listed}

ReadersWith ==
    [w \in Together |-> CASE w = Watched -> {"dashboard"} [] w = Listed -> {"walk"} [] OTHER -> {}]

Owners == [r \in {"chat1", "chat2", "chat3", "chat4", "flat1", "flat2", "stream"} |-> "u"] @@ "embed" :> "v"

\* Times 1 and 2 are one day, and with time 0 one month.
Days == 0 :> 0 @@ 1 :> 1 @@ 2 :> 1
Months == 0 :> 0 @@ 1 :> 0 @@ 2 :> 0
=============================================================================
