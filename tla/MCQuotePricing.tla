--------------------------- MODULE MCQuotePricing ---------------------------
EXTENDS QuotePricing, TLC

Symmetry == Permutations(Workers) \cup Permutations(Tabs)

\* Rates in cents.
MCPrices == [t \in {"paper", "printing", "finishing"} |->
               IF t = "paper" THEN {1500, 2400} ELSE IF t = "printing" THEN {4500} ELSE {700}]

\* The default waste policy.
Default == [fixed |-> 2, rate |-> 1000, minimum |-> 3, spoilage |-> 5000]

SRA3 == [chosen |-> TRUE, w |-> 450, h |-> 320, gsm |-> 300, art |-> FALSE]

Cards == [mode |-> "SHEET", machine |-> TRUE, rated |-> TRUE, duplex |-> TRUE,
          quantity |-> 100, piece |-> [w |-> 90, h |-> 55], bleed |-> 3,
          paper |-> SRA3, waste |-> Default]

MCJobs == [cards |-> Cards, banner |-> [mode |-> "ROLL"]]

\* As the shop charges it, and at a price of the buyer's own, below zero, on one side.
MCEntries == [lam |-> [override |-> NoPrice, sides |-> "BOTH"],
              rebate |-> [override |-> -20000, sides |-> "SINGLE"]]

MCRequests == {[job |-> "cards", fin |-> "lam"], [job |-> "cards", fin |-> "rebate"],
                [job |-> "cards", fin |-> "none"], [job |-> "banner", fin |-> "keep"]}

\* By the sheet and side, with a setup fee.
MCFinishing == [unit |-> "PER_SIDE_PER_SHEET", price |-> 0, double |-> NoPrice, setup |-> 500,
                sided |-> FALSE]

MCPrintRate == [single |-> 0, double |-> NoPrice, surcharge |-> 500, enabled |-> TRUE, threshold |-> 200]

\* Banners that lie as they are, that are turned, that are cut into strips, and at
\* the minimum; a material without a width.
MCRolls ==
    {[duplex |-> FALSE, quantity |-> q, piece |-> [w |-> w, h |-> h], bleed |-> b,
      roll |-> [width |-> width, lead |-> 100, minArea |-> 10000, price |-> 4001, print |-> 999]] :
       q \in {0, 1, 3}, w \in {507, 2000}, h \in {900, 1519}, b \in {0, 3}, width \in {0, 1520}}

\* Around the limits of the tiers, of rounding and of the cap, in cents.
MCCosts   == {-1, 0, 49, 50, 149, 99949, 99950, 100000, 999999, 1000049, 1000050, 3000000}
MCMarkups == {-1, 0, 1, 49, 50, 150, 151, 1000, 100050, 199900, 200000, 1000000, 3000000}
=============================================================================
