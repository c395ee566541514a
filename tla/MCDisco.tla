------------------------------ MODULE MCDisco ------------------------------
(***************************************************************************)
(* Instances of Disco for TLC: six workloads over three publishers and     *)
(* four personas.                                                          *)
(***************************************************************************)
EXTENDS Disco

MCAdjacency == {<<"apparel", "beauty">>, <<"pets", "food">>}
MCPriceTierIncome == [value |-> 0, premium |-> 2, luxury |-> 4]
MCIncomeIndex == [mid |-> 1, high |-> 4]
MCIncomePremium == [high |-> 4]
MCCategoryPremium == [beauty |-> 2]
MCValueKeywords == [sustainability |-> {"organic"}, craft |-> {"artisan", "handmade"}]
MCRequests == {[method |-> "GET", body |-> "brief"]}
              \cup [method : {"POST"}, body : {"brief", "blank", "unreadable"}]

Publisher(id, category, subs, aov, ages, words, income, impressions) ==
    [id |-> id, category |-> category, subs |-> subs, aov |-> aov, ages |-> ages,
     words |-> words, income |-> income, impressions |-> impressions,
     split |-> IF id = 2 THEN [female |-> 70, male |-> 30] ELSE [unstated |-> 100]]

Shops == <<Publisher(1, "apparel", {"denim", "shoes"}, 60, <<18, 30>>, {"organic"}, "mid", 10),
           Publisher(2, "pets", {"dog food"}, 30, <<31, 45>>, {"artisan"}, "high", 10),
           Publisher(3, "food", {"dog food", "denim"}, 90, <<40, 30>>, {}, "unstated", 0)>>

Lever(word, spelling) == [word |-> word, spelling |-> spelling]
Shopper(id) == [id |-> id, levers |-> {Lever("quality", "quality"), Lever(ToString(id), "own")}]
Shoppers == [id \in 1 .. 4 |-> Shopper(id)]

Catalog(pubs) == [pubs |-> pubs, personas |-> Shoppers]
Shared == Catalog(Shops)

\* Profiles: category, ages and missing signals.
Profile(category, ages, missing) ==
    [consumer |-> TRUE, confidence |-> "high", category |-> category, subs |-> {"denim"},
     aov |-> 60, ages |-> ages, skew |-> "female", values |-> <<"sustainability">>,
     tier |-> "premium", business |-> "one_off", missing |-> missing]

Said(cites, conceded) == [WrittenBy("model") EXCEPT !.cites = cites, !.conceded = conceded]
Judged(pub, verdict, rank, reason) ==
    [pub |-> pub, verdict |-> verdict, rank |-> rank, reason |-> reason]

Recommends == <<Judged(1, "recommended", 1, Said({"Category", "AgeOverlap"}, {})),
                Judged(2, "considered", 0, Said({"ValuesMatch"}, {})),
                Judged(3, "recommended", 2, Said({"Category"}, {"Category"}))>>
Rejects == <<Judged(1, "excluded", 0, Said({"Category", "AgeOverlap"}, {"AgeOverlap"})),
             Judged(1, "recommended", 1, NoReason),
             Judged(2, "recommended", 1, Said({"Category", "AgeOverlap"}, {}))>>
Mumbles == <<Judged(2, "excluded", 0, NoReason), Judged(3, "recommended", 1, NoReason),
             Judged(1, "excluded", 0, [Said({"Category", "GenderFit"}, {"Category"})
                                    EXCEPT !.shared = {"Category", "GenderFit"}])>>

Creative(id, copy, blank, levers) ==
    [persona |-> id, copy |-> copy, blank |-> blank, levers |-> levers]
Plain(ids) == [i \in DOMAIN ids |->
                  Creative(ids[i], {"soft", ToString(ids[i])}, FALSE, <<Lever("quality", "Quality ")>>)]
Odd == <<Creative(1, {}, TRUE, << >>),
         Creative(3, {"soft", "3"}, FALSE, <<Lever("quality", "QUALITY"), Lever("1", "foreign")>>),
         Creative(4, {"soft", "3", "bold"}, FALSE, <<Lever("invented", "invented")>>)>>

Input(profile, answer, cast) == [profile |-> profile, answer |-> answer, cast |-> cast]
Brief(n, expects, pub, inputs) ==
    [kind |-> "brief", n |-> n, expects |-> expects, pub |-> pub, inputs |-> inputs]

Command(command, lines) ==
    [command |-> command, lines |-> lines, only |-> 0, save |-> FALSE, items |-> 0,
     addr |-> 1, inputs |-> "few"]

OldBaseline == [reason_consistency |->
    [values |-> [consistency_rate |-> 40, vagueness_rate |-> 21, brevity |-> 10]]]

WorkOf(catalog, runs) ==
    [catalog |-> catalog, runs |-> runs, committed |-> << >>, contended |-> {}]

---------------------------------------------------------------------------

\* Every kind of profile, answer and cast, one brief.
Profiles ==
    {[Profile(category, ages, missing) EXCEPT !.consumer = consumer, !.confidence = confidence,
                                               !.values = IF aov = 0 THEN << >> ELSE @, !.aov = aov] :
        category \in {NoCategory, "apparel", "beauty", "toys"},
        ages \in {<<0, 0>>, <<30, 31>>, <<46, 50>>, <<30, 0>>},
        missing \in {<< >>, <<"price">>},
        consumer \in BOOLEAN, confidence \in {"low", "high"}, aov \in {0, 60}}
Everything ==
    {Input(profile, answer, cast) :
        profile \in Profiles, answer \in {<< >>, Recommends, Rejects, Mumbles},
        cast \in {Plain(<<1, 2, 3>>), Odd}}

Evaluations ==
    {WorkOf(Shared, [first |-> Command("eval", <<Brief(1, "none", 1, "everything")>>)])}

Unsold == {Input([Profile("apparel", <<0, 0>>, << >>) EXCEPT !.consumer = FALSE], << >>, Odd)}
Few == {Input(Profile("apparel", <<30, 31>>, <<"price">>), Recommends, Plain(<<2, 3>>)),
        Input([Profile("toys", <<46, 50>>, << >>) EXCEPT !.confidence = "low"], Rejects, Plain(<<1, 2, 3>>))}
       \cup Unsold

\* Brief files and catalogs good and bad, and what is asked of the numbered briefs.
Comment == [kind |-> "ignored", n |-> 0]
Malformed == [kind |-> "malformed", n |-> 0]
Catalogs == {Shared, Catalog(<< >>), Catalog(<<Shops[1], Shops[1]>>)}
BriefFiles ==
    {<< >>, <<Comment, Malformed>>,
      <<Comment, Brief(1, "none", 1, "few")>>,
      <<Brief(1, "refusal", 1, "few"), Brief(2, "low signal", 1, "few")>>,
      <<Brief(1, "demographics", 2, "few"), Brief(2, "top two", 3, "few"), Brief(3, "no money", 1, "few")>>}
Small ==
    {WorkOf(catalog, [first |-> command]) : catalog \in Catalogs, command \in
        {[Command("eval", lines) EXCEPT !.only = only] : lines \in BriefFiles, only \in {0, 2}}
        \cup {Command("run", lines) : lines \in {<< >>, <<Brief(1, "none", 1, "few")>>}}}

\* The metrics without a judge, over two briefs; and with two publishers that tie.
Rankings ==
    {Input([Profile(category, ages, << >>) EXCEPT !.skew = skew, !.subs = {"denim", "dog food"},
                !.values = IF skew = "female" THEN @ ELSE <<"craft">>],
           answer, cast) :
        category \in {"apparel", "food"}, ages \in {<<0, 0>>, <<30, 31>>},
        skew \in {"female", "unstated"}, answer \in {Recommends, Mumbles}, cast \in {Odd}}
Twins == Catalog(<<Shops[1], [Shops[1] EXCEPT !.id = 4]>>)
Metered ==
    {[WorkOf(catalog, [first |-> Command("measure",
        <<Brief(1, "none", 1, "rankings"), Brief(2, "none", 1, "few")>>)]) EXCEPT !.committed = OldBaseline] :
        catalog \in {Shared, Twins}}

\* And with two that tie in the score, but by rounding not without AOVAlignment.
Rivals == Catalog(<<Publisher(1, "apparel", {}, 60, <<18, 31>>, {"organic"}, "mid", 10),
                    Publisher(4, "apparel", {}, 60, <<18, 30>>, {"organic", "artisan"}, "mid", 10)>>)
Rivalry == {Input([Profile("apparel", <<30, 31>>, << >>)
                      EXCEPT !.values = <<"sustainability", "craft">>], << >>, Odd)}
Rivalries ==
    {WorkOf(Rivals, [first |-> Command("measure", <<Brief(1, "none", 1, "rivalry")>>)])}

\* The judge's answers on one campaign; and three briefs whose casts share personas.
Casting(casts) == {Input(Profile("apparel", <<30, 31>>, << >>), << >>, cast) : cast \in casts}
Attributions ==
    {WorkOf(Shared, [first |-> [Command("measure",
         <<Brief(1, "none", 1, "a pair"), Brief(2, "none", 1, "unsold")>>)
         EXCEPT !.items = 2]]),
      WorkOf(Shared, [first |-> Command("measure",
         <<Brief(1, "none", 1, "two or three"),
           Brief(2, "none", 1, "the same or few"),
           Brief(3, "none", 1, "others")>>)])}

\* Two campaigns with one cast of two, and a catalog of four personas.
OneCast ==
    {WorkOf(Shared, [first |-> Command("measure",
         <<Brief(1, "none", 1, "a pair"), Brief(2, "none", 1, "a pair")>>)])}

\* Two measurements into one file or into two, and somebody watching.
Measuring(save, committed) ==
    [WorkOf(Shared, [first |-> [Command("measure", << >>) EXCEPT !.save = save],
                     second |-> Command("measure", << >>),
                     page |-> Command("metrics", << >>)]) EXCEPT !.committed = committed]
Writings == {Measuring(FALSE, OldBaseline), Measuring(TRUE, << >>)}

\* Two servers that want one port, or an address that cannot be bound.
Serving(addr) ==
    [WorkOf(Shared, [first |-> [Command("serve", << >>) EXCEPT !.addr = addr],
                     page |-> Command("metrics", << >>)]) EXCEPT !.contended = Port]
Servings == {Serving(0), Serving(1)}

MCWorkloads ==
    UNION {Evaluations, Small, Metered, Rivalries, Attributions, Writings, Servings}
MCReasonWorkloads == Evaluations
MCControlWorkloads == OneCast

MCInputs ==
    [everything |-> Everything, few |-> Few, rankings |-> Rankings, rivalry |-> Rivalry, unsold |-> Unsold]
    @@ ("a pair" :> Casting({Plain(<<1, 2>>)}))
    @@ ("two or three" :> Casting({Plain(<<1, 2, 3>>), Plain(<<1, 2>>)}))
    @@ ("the same or few" :> Casting({Plain(<<2, 1>>), Plain(<<1, 2, 3>>)}) \cup Few)
    @@ ("others" :> Casting({Plain(<<2, 1, 4>>), Plain(<<3, 4>>)}))
=============================================================================
