---------------------------- MODULE PricingProofs ----------------------------
(***************************************************************************)
(* Proofs about the prices of a quote, for every value of the constants:   *)
(* the arithmetic of PriceRules, the versions of RateCard, and the calls   *)
(* of QuotePricing with the card saved under them.  What the calls keep    *)
(* together is PricingInv.                                                 *)
(***************************************************************************)
EXTENDS QuotePricing, SequenceTheorems, FiniteSetTheorems, WellFoundedInduction, TLAPS

-----------------------------------------------------------------------------
(* Rounding *)

\* HalfUp is off by half a unit at most.
LEMMA HalfUpCents ==
    ASSUME NEW n \in Int
    PROVE  /\ HalfUp(n, 100) \in Int
           /\ 200 * HalfUp(n, 100) <= 2 * n + 100
           /\ 2 * n + 100 < 200 * HalfUp(n, 100) + 200
BY DEF HalfUp

\* CeilDiv is the least number of parts of size d that hold n.
LEMMA CeilDivLeast ==
    ASSUME NEW n \in Nat, NEW d \in Nat \ {0}
    PROVE  /\ CeilDiv(n, d) \in Nat
           /\ CeilDiv(n, d) * d >= n
           /\ (CeilDiv(n, d) - 1) * d < n
BY DEF CeilDiv

-----------------------------------------------------------------------------
(* Sheets *)

\* production_cost_calculator.py: however the waste policy is set, the sheets
\* that are billed hold every copy that was ordered, and never exceed the good
\* sheets by more than the spoilage the policy allows.
THEOREM BilledSheetsSuffice ==
    ASSUME NEW quantity \in Nat, NEW yield \in Nat \ {0},
           NEW waste, WastePolicy(waste)
    PROVE  LET raw    == CeilDiv(quantity, yield)
               billed == BillableSheets(quantity, yield, waste)
           IN  /\ billed * yield >= quantity
               /\ billed \in raw .. raw + CeilDiv(raw * waste.spoilage, 10000)
<1> DEFINE raw    == CeilDiv(quantity, yield)
           billed == BillableSheets(quantity, yield, waste)
<1>1. raw \in Nat /\ raw * yield >= quantity
  BY CeilDivLeast
<1>2. /\ CeilDiv(raw * waste.rate, 10000) \in Nat
      /\ CeilDiv(raw * waste.spoilage, 10000) \in Nat
  <2>1. raw * waste.rate \in Nat /\ raw * waste.spoilage \in Nat
    BY <1>1 DEF WastePolicy
  <2>2. \A n \in Nat : CeilDiv(n, 10000) \in Nat
    BY CeilDivLeast
  <2> QED BY <2>1, <2>2
<1>3. billed \in raw .. raw + CeilDiv(raw * waste.spoilage, 10000)
  BY <1>1, <1>2 DEF BillableSheets, Smaller, Larger, WastePolicy
<1>4. billed * yield >= quantity
  <2>1. \A b \in Int : b >= raw => b * yield >= raw * yield
    BY <1>1
  <2>2. billed \in Int /\ billed >= raw
    BY <1>1, <1>2, <1>3
  <2> QED BY <1>1, <2>1, <2>2
<1> QED BY <1>3, <1>4

-----------------------------------------------------------------------------
(* The line of a sheet job *)

\* How many copies fit on a sheet is a number,
LEMMA CopiesType ==
    ASSUME NEW job, SheetJob(job)
    PROVE  Copies(job) \in Nat
<1>1. \A a, b \in Int : Fits(a, b) \in Nat
  BY DEF Fits
<1>2. \A a, b \in Nat : a * b \in Nat /\ Larger(a, b) \in Nat
  BY DEF Larger
<1> DEFINE edge == 2 * (IF job.bleed = 0 THEN 3 ELSE job.bleed)
           w    == job.piece.w + edge
           h    == job.piece.h + edge
<1>3. w \in Int /\ h \in Int /\ job.paper.w \in Int /\ job.paper.h \in Int
  BY DEF SheetJob
<1>4. Copies(job) = IF job.piece.w <= 0 \/ job.piece.h <= 0 THEN 0
                    ELSE Larger(Fits(job.paper.w, w) * Fits(job.paper.h, h),
                                Fits(job.paper.w, h) * Fits(job.paper.h, w))
  BY DEF Copies, CopiesPerSheet
<1> HIDE DEF w, h
<1>5. /\ Fits(job.paper.w, w) * Fits(job.paper.h, h) \in Nat
      /\ Fits(job.paper.w, h) * Fits(job.paper.h, w) \in Nat
  BY <1>1, <1>2, <1>3
<1> QED BY <1>2, <1>4, <1>5

\* as is what a sheet is printed at,
LEMMA PrintPriceType ==
    ASSUME NEW rate \in PrintingRate, NEW paper, NEW duplex \in BOOLEAN
    PROVE  PrintPrice(rate, paper, duplex) \in Int
BY NullAssumption DEF PrintPrice, SurchargeApplies, PrintingRate, NullablePrice

\* a whole sheet,
LEMMA SheetPriceType ==
    ASSUME NEW job, SheetJob(job), NEW paperPrice \in Int, NEW rate \in PrintingRate
    PROVE  SheetPrice(job, paperPrice, rate) \in Int
BY PrintPriceType DEF SheetPrice, SheetJob

\* and what a finishing costs, whatever the item says of it.
LEMMA FinishingCostType ==
    ASSUME NEW fin \in FinishingRate, NEW entry \in Entry, NEW printed \in {1, 2},
           NEW quantity \in Nat, NEW sheets \in Nat
    PROVE  FinishingCost(fin, entry, printed, quantity, sheets) \in Int
<1> DEFINE own    == entry.override # NoPrice
           single == IF own THEN entry.override ELSE fin.price
           double == IF own THEN 2 * entry.override
                     ELSE IF fin.double # NoPrice THEN fin.double ELSE 2 * fin.price
           sides  == CASE entry.sides = "SINGLE" -> 1 [] entry.sides = "DOUBLE" -> 2
                       [] OTHER -> printed
           flat   == IF sides = 2 THEN double ELSE single
           count  == IF sheets > 0 THEN sheets ELSE Larger(1, quantity)
           sided(p) == IF sides = 2 /\ fin.double # NoPrice THEN fin.double ELSE p * sides
           one    == IF fin.sided THEN sided(fin.price) ELSE fin.price
<1>1. \A a, b \in Int : a * b \in Int /\ a + b \in Int
  OBVIOUS
<1>2. fin.price \in Int /\ fin.setup \in Int /\ count \in Int /\ quantity \in Int
  BY DEF FinishingRate, Larger
<1>3. sides \in {1, 2}
  BY DEF Entry
<1>4. single \in Int /\ double \in Int
  BY NullAssumption DEF FinishingRate, NullablePrice, Entry
<1>5. \A p \in Int : sided(p) \in Int
  <2>1. fin.double # NoPrice => fin.double \in Int
    BY NullAssumption DEF FinishingRate, NullablePrice
  <2> HIDE DEF sides
  <2> QED BY <1>1, <1>3, <2>1
<1>6. FinishingCost(fin, entry, printed, quantity, sheets) =
        CASE fin.unit = "PER_PIECE" -> flat * quantity
          [] fin.unit = "PER_SIDE"  -> single * quantity * sides
          [] fin.unit = "PER_SHEET" -> one * count + fin.setup
          [] fin.unit = "PER_SIDE_PER_SHEET" -> sided(single) * count + fin.setup
          [] fin.unit = "FLAT"      -> flat + fin.setup
          [] OTHER                  -> 0
  BY DEF FinishingCost
<1> HIDE DEF single, double, sides, count, sided
<1>7. /\ flat * quantity \in Int /\ single * quantity * sides \in Int
      /\ one * count + fin.setup \in Int /\ sided(single) * count + fin.setup \in Int
      /\ flat + fin.setup \in Int
  <2>1. flat \in Int /\ one \in Int /\ sided(single) \in Int /\ sides \in Int
    BY <1>2, <1>3, <1>4, <1>5
  <2> HIDE DEF flat, one
  <2> QED BY <1>1, <1>2, <1>4, <2>1
<1> HIDE DEF flat, one
<1> QED BY <1>6, <1>7

\* pricing_service.py:404: the sheets that are billed are never fewer than the good
\* sheets of the order, with or without a machine.
LEMMA BilledCoversGood ==
    ASSUME NEW job, SheetJob(job), ~NoTotals(job)
    PROVE  /\ GoodSheets(job.quantity, Copies(job)) \in Nat
           /\ BilledSheets(job) \in Nat
           /\ BilledSheets(job) >= GoodSheets(job.quantity, Copies(job))
<1> DEFINE yield == IF Copies(job) = 0 THEN 1 ELSE Copies(job)
<1>1. Copies(job) \in Nat /\ job.quantity \in Nat /\ yield \in Nat \ {0}
  BY CopiesType DEF SheetJob
<1>2. BilledSheets(job) = BillableSheets(job.quantity, yield, job.waste)
  BY DEF BilledSheets, NoTotals
<1>3. /\ CeilDiv(job.quantity, yield) \in Nat
      /\ BilledSheets(job) \in Int /\ BilledSheets(job) >= CeilDiv(job.quantity, yield)
  <2>1. WastePolicy(job.waste)
    BY DEF SheetJob
  <2>2. CeilDiv(job.quantity, yield) \in Nat
    BY <1>1, CeilDivLeast
  <2> HIDE DEF yield
  <2>3. \E most \in Int : BillableSheets(job.quantity, yield, job.waste) \in
                             CeilDiv(job.quantity, yield) .. most
    <3>1. CeilDiv(job.quantity, yield) * job.waste.spoilage \in Nat
      BY <2>1, <2>2 DEF WastePolicy
    <3>2. \A n \in Nat : CeilDiv(n, 10000) \in Nat
      BY CeilDivLeast
    <3> QED BY <1>1, <2>1, <2>2, <3>1, <3>2, BilledSheetsSuffice
  <2> QED BY <1>2, <2>2, <2>3
<1>4. GoodSheets(job.quantity, Copies(job)) \in {0, CeilDiv(job.quantity, yield)}
  BY <1>1 DEF GoodSheets
<1> QED BY <1>3, <1>4


\* Rounding a sum keeps its order.
LEMMA RoundedSums ==
    ASSUME NEW a \in Int, NEW b \in Int, NEW n \in Int
    PROVE  /\ HalfAway(a, n, 1000000) \in Int /\ HalfEven(a, n, 1000000) \in Int
           /\ a <= b => HalfAway(a, n, 1000000) <= HalfAway(b, n, 1000000)
           /\ a <= b => HalfEven(a, n, 1000000) <= HalfEven(b, n, 1000000)
<1> DEFINE q == n \div 1000000
           r == 2 * (n % 1000000)
<1>1. q \in Int /\ r \in Int
  OBVIOUS
<1>2. \A x \in Int : HalfAway(x, n, 1000000) =
         IF r > 1000000 \/ (r = 1000000 /\ x + q >= 0) THEN x + q + 1 ELSE x + q
  BY DEF HalfAway
<1>3. \A x \in Int : HalfEven(x, n, 1000000) =
         IF r > 1000000 \/ (r = 1000000 /\ (x + q) % 2 = 1) THEN x + q + 1 ELSE x + q
  BY DEF HalfEven
<1> HIDE DEF q, r
<1> QED BY <1>1, <1>2, <1>3

\* With the same finishing on top, a line is a number, and more on dearer sheets.
LEMMA FinishedGrows ==
    ASSUME NEW job, SheetJob(job), NEW fin \in FinishingRate, NEW entry \in Entry,
           NEW a \in Int, NEW b \in Int, a <= b
    PROVE  /\ Finished(job, fin, entry, a) \in Int /\ Finished(job, fin, entry, b) \in Int
           /\ Finished(job, fin, entry, a) <= Finished(job, fin, entry, b)
<1> DEFINE good == GoodSheets(job.quantity, Copies(job))
           cost == FinishingCost(fin, entry, IF job.duplex THEN 2 ELSE 1, job.quantity, good)
           area == AreaCost(fin, job.paper.w * job.paper.h * good)
<1>1. good \in Nat
  <2>1. Copies(job) \in Nat /\ job.quantity \in Nat
    BY CopiesType DEF SheetJob
  <2> QED BY <2>1, CeilDivLeast DEF GoodSheets
<1>2. cost \in Int
  BY <1>1, FinishingCostType DEF SheetJob
<1>3. area \in Int
  <2>1. \A x, y \in Int : x * y \in Int
    OBVIOUS
  <2>2. job.paper.w * job.paper.h * good \in Int /\ fin.price \in Int
    BY <1>1, <2>1 DEF SheetJob, FinishingRate
  <2> QED BY <2>1, <2>2 DEF AreaCost
<1>4. /\ Finished(job, fin, entry, a) = HalfAway(a + cost, area, 1000000)
      /\ Finished(job, fin, entry, b) = HalfAway(b + cost, area, 1000000)
  BY DEF Finished
<1> HIDE DEF cost, area
<1>5. a + cost \in Int /\ b + cost \in Int /\ a + cost <= b + cost
  BY <1>2
<1> QED BY <1>3, <1>4, <1>5, RoundedSums

\* pricing_service.py:349-618: with sheets that cost something, the line of a job the
\* shop can print is no less than that of the sheets its copies fill, with the same
\* finishing on top, for every shop, rate, waste policy and whatever the item says of
\* its finishing, a price below zero included.
THEOREM LinesCoverGoodSheets ==
    ASSUME NEW job, SheetJob(job), job.paper.chosen, ~NoTotals(job),
           NEW fin \in FinishingRate, NEW entry \in Entry,
           NEW paperPrice \in Int, NEW rate \in PrintingRate,
           SheetPrice(job, paperPrice, rate) >= 0
    PROVE  SheetLine(job, fin, entry, paperPrice, rate) >=
             Finished(job, fin, entry,
                      GoodSheets(job.quantity, Copies(job)) * SheetPrice(job, paperPrice, rate))
<1> DEFINE good   == GoodSheets(job.quantity, Copies(job))
           billed == BilledSheets(job)
           sheet  == SheetPrice(job, paperPrice, rate)
<1>1. good \in Nat /\ billed \in Nat /\ billed >= good
  BY BilledCoversGood
<1>2. sheet \in Nat
  BY SheetPriceType
<1>3. SheetLine(job, fin, entry, paperPrice, rate) = Finished(job, fin, entry, billed * sheet)
  BY DEF SheetLine
<1> HIDE DEF good, billed, sheet
<1>4. good * sheet \in Int /\ billed * sheet \in Int /\ good * sheet <= billed * sheet
  BY <1>1, <1>2
<1> QED BY <1>3, <1>4, FinishedGrows DEF good, sheet

-----------------------------------------------------------------------------
(* The line of a roll job *)

\* Products of numbers keep their order, and nothing but zero is lost in them.
LEMMA Products ==
    ASSUME NEW a \in Nat, NEW b \in Nat, NEW c \in Nat
    PROVE  /\ a * c \in Nat /\ b * c \in Nat
           /\ a <= b => a * c <= b * c
           /\ c > 0 /\ a * c <= b * c => a <= b
<1>1. a * c \in Nat /\ b * c \in Nat
  OBVIOUS
<1>2. a <= b => a * c <= b * c
  OBVIOUS
<1>3. c > 0 /\ a > b => a * c > b * c
  <2> SUFFICES ASSUME c > 0, a > b PROVE a * c > b * c
    OBVIOUS
  <2>1. PICK d \in Nat : a = b + d /\ d > 0
    <3>1. a - b \in Nat /\ a = b + (a - b) /\ a - b > 0
      OBVIOUS
    <3> QED BY <3>1
  <2>2. a * c = b * c + d * c
    BY <2>1
  <2>3. d * c > 0 /\ d * c \in Nat
    BY <2>1
  <2> QED BY <1>1, <2>2, <2>3
<1> QED BY <1>1, <1>2, <1>3

\* At least one part fits.
LEMMA WholeParts ==
    ASSUME NEW a \in Nat, NEW b \in Nat \ {0}, a >= b
    PROVE  a \div b \in Nat \ {0} /\ (a \div b) * b <= a
OBVIOUS

\* Rows of pieces laid side by side, or of strips of one piece, are long enough.
LEMMA RowsHoldThePieces ==
    ASSUME NEW w \in Nat \ {0}, NEW width \in Nat \ {0}, NEW quantity \in Nat
    PROVE  LET strips == CeilDiv(w, width)
               across == (width * strips) \div w
               rows   == CeilDiv(strips * quantity, across)
           IN  rows \in Nat /\ rows * width >= w * quantity
<1> DEFINE strips == CeilDiv(w, width)
           across == (width * strips) \div w
           rows   == CeilDiv(strips * quantity, across)
<1>1. strips \in Nat /\ width * strips \in Nat /\ width * strips >= w
  <2>1. strips \in Nat /\ strips * width >= w
    BY CeilDivLeast
  <2> HIDE DEF strips
  <2> QED BY <2>1
<1>2. across \in Nat \ {0} /\ across * w <= width * strips
  BY <1>1, WholeParts
<1> HIDE DEF across
<1>3. strips * quantity \in Nat
  BY <1>1
<1>4. rows \in Nat /\ rows * across >= strips * quantity
  BY <1>2, <1>3, CeilDivLeast
<1> HIDE DEF strips, rows
<1>5. (rows * across) * width >= (strips * quantity) * width
  BY <1>3, <1>4, <1>2, Products
<1>6. (width * strips) * quantity >= (across * w) * quantity
  <2>1. across * w \in Nat
    BY <1>2
  <2> QED BY <1>1, <1>2, <2>1, Products
<1>7. /\ (rows * across) * width = (rows * width) * across
      /\ (strips * quantity) * width = (width * strips) * quantity
      /\ (across * w) * quantity = (w * quantity) * across
  BY <1>1, <1>2, <1>4
<1>8. rows * width \in Nat /\ w * quantity \in Nat
  BY <1>4
<1>9. (rows * width) * across >= (w * quantity) * across
  <2>1. /\ (rows * across) * width \in Nat /\ (strips * quantity) * width \in Nat
        /\ (across * w) * quantity \in Nat
    BY <1>1, <1>2, <1>3, <1>4
  <2> QED BY <1>5, <1>6, <1>7, <2>1
<1>10. rows * width >= w * quantity
  BY <1>2, <1>8, <1>9, Products
<1> QED BY <1>4, <1>10 DEF strips, across, rows

\* roll_layout.py: however the pieces are turned or cut, the roll that is used holds
\* the artwork.
LEMMA RollHoldsTheArtwork ==
    ASSUME NEW job, RollJob(job), job.roll.width # 0
    PROVE  /\ RollLength(job) * job.roll.width \in Nat
           /\ RollLength(job) * job.roll.width >= job.piece.w * job.piece.h * job.quantity
<1> DEFINE edge   == 2 * job.bleed
           turned == Turned(job.piece.w + edge, job.piece.h + edge, job.roll.width)
           w      == (IF turned THEN job.piece.h ELSE job.piece.w) + edge
           h      == (IF turned THEN job.piece.w ELSE job.piece.h) + edge
           strips == CeilDiv(w, job.roll.width)
           across == (job.roll.width * strips) \div w
           rows   == CeilDiv(strips * job.quantity, across)
<1>1. PICK p \in Nat \ {0}, q \in Nat \ {0}, width \in Nat \ {0}, lead \in Nat, n \in Nat :
        p = job.piece.w /\ q = job.piece.h /\ width = job.roll.width /\ lead = job.roll.lead
        /\ n = job.quantity
  BY DEF RollJob
<1>2. edge \in Nat /\ turned \in BOOLEAN
  <2>1. edge \in Nat
    BY DEF RollJob
  <2>2. turned \in BOOLEAN
    BY DEF Turned
  <2> QED BY <2>1, <2>2
<1>3. w \in Nat \ {0} /\ h \in Nat \ {0}
  <2> HIDE DEF edge, turned
  <2> QED BY <1>1, <1>2
<1>4. p * q \in Nat /\ w * h \in Nat /\ p * q <= w * h
  <2> HIDE DEF edge, turned
  <2>1. \A a, b, e \in Nat : a * b <= (a + e) * (b + e)
    <3>1. \A a, b, e \in Nat : (a + e) * (b + e) = a * b + (a * e + e * b + e * e)
      OBVIOUS
    <3>2. \A a, b, e \in Nat : a * b \in Nat /\ a * e + e * b + e * e \in Nat
      OBVIOUS
    <3> QED BY <3>1, <3>2
  <2>2. CASE turned
    <3>1. w = q + edge /\ h = p + edge
      BY <1>1, <2>2
    <3>2. q * p <= (q + edge) * (p + edge)
      BY <1>2, <2>1
    <3>3. q * p = p * q
      OBVIOUS
    <3> QED BY <1>1, <1>2, <3>1, <3>2, <3>3
  <2>3. CASE ~turned
    <3>1. w = p + edge /\ h = q + edge
      BY <1>1, <2>3
    <3>2. p * q <= (p + edge) * (q + edge)
      BY <1>2, <2>1
    <3> QED BY <1>1, <1>2, <3>1, <3>2
  <2> QED BY <1>2, <2>2, <2>3
<1> HIDE DEF w, h, edge, turned
<1>5. rows \in Nat /\ rows * width >= w * n
  BY <1>1, <1>3, RowsHoldThePieces
<1>6. RollLength(job) = rows * h + lead
  BY <1>1 DEF RollLength, w, h, edge, turned
<1> HIDE DEF rows
<1>7. (rows * h + lead) * width = (rows * width) * h + lead * width
  BY <1>1, <1>3, <1>5
<1>8. (rows * width) * h >= (w * n) * h
  <2>1. rows * width \in Nat /\ w * n \in Nat
    BY <1>1, <1>3, <1>5
  <2> QED BY <1>3, <1>5, <2>1, Products
<1>9. (w * n) * h = (w * h) * n
  BY <1>1, <1>3
<1>10. (w * h) * n >= (p * q) * n
  BY <1>1, <1>4, Products
<1>11. (rows * width) * h \in Nat /\ lead * width \in Nat /\ (p * q) * n \in Nat
  BY <1>1, <1>3, <1>4, <1>5
<1>12. /\ (rows * h + lead) * width \in Nat
       /\ (rows * h + lead) * width >= (p * q) * n
  BY <1>4, <1>7, <1>8, <1>9, <1>10, <1>11
<1> QED BY <1>1, <1>6, <1>12

\* Rounding an area, or a price, keeps its order.
LEMMA RoundedAreas ==
    ASSUME NEW m \in Int, NEW n \in Int
    PROVE  /\ HalfEven(0, m, 100) \in Int /\ HalfEven(0, m, 10000) \in Int
           /\ m <= n => HalfEven(0, m, 100) <= HalfEven(0, n, 100)
           /\ m <= n => HalfEven(0, m, 10000) <= HalfEven(0, n, 10000)
<1>1. HalfEven(0, m, 100) \in Int /\ HalfEven(0, m, 10000) \in Int
  BY DEF HalfEven
<1>2. m <= n => HalfEven(0, m, 100) <= HalfEven(0, n, 100)
  BY DEF HalfEven
<1>3. m <= n => HalfEven(0, m, 10000) <= HalfEven(0, n, 10000)
  BY DEF HalfEven
<1> QED BY <1>1, <1>2, <1>3

\* large_format_calculator.py:71-198: a roll is charged for the artwork at least, at
\* any price of material and print that is not below zero, whatever the roll's width,
\* lead and minimum, and with the same finishing on top.
THEOREM RollsCoverTheirArtwork ==
    ASSUME NEW job, RollJob(job), job.roll.price >= 0, job.roll.print >= 0,
           NEW fin \in FinishingRate, NEW entry \in Entry
    PROVE  RollLine(job, fin, entry) >=
             RollFinished(job, fin, entry, RollCharge(job, ArtworkArea(job)))
<1> DEFINE used   == IF job.roll.width = 0 THEN job.piece.w * job.piece.h * job.quantity
                     ELSE RollLength(job) * job.roll.width
           own    == job.piece.w * job.piece.h * job.quantity
           area   == RollArea(job)
           art    == ArtworkArea(job)
           cost   == FinishingCost(fin, entry, IF job.duplex THEN 2 ELSE 1, job.quantity, 0)
           finish == AreaCost(fin, own)
<1>1. own \in Int /\ used \in Int /\ own <= used
  <2>1. own \in Int
    BY DEF RollJob
  <2> HIDE DEF own
  <2>2. CASE job.roll.width = 0
    BY <2>1, <2>2 DEF own
  <2>3. CASE job.roll.width # 0
    <3>1. /\ RollLength(job) * job.roll.width \in Nat
          /\ RollLength(job) * job.roll.width >= own
      BY <2>3, RollHoldsTheArtwork DEF own
    <3> QED BY <2>1, <2>3, <3>1
  <2> QED BY <2>2, <2>3
<1>2. area = Larger(HalfEven(0, used, 100), job.roll.minArea) /\ art = HalfEven(0, own, 100)
  BY DEF RollArea, ArtworkArea
<1>3. cost \in Int /\ finish \in Int
  <2>1. cost \in Int
    BY FinishingCostType DEF RollJob
  <2>2. finish \in Int
    <3>1. fin.price \in Int
      BY DEF FinishingRate
    <3> HIDE DEF own
    <3> QED BY <1>1, <3>1 DEF AreaCost
  <2> QED BY <2>1, <2>2
<1>4. \A charge : RollFinished(job, fin, entry, charge) = HalfEven(charge + cost, finish, 1000000)
  BY DEF RollFinished
<1> HIDE DEF used, own, cost, finish
<1>5. area \in Int /\ art \in Int /\ art <= area
  <2>1. job.roll.minArea \in Int
    BY DEF RollJob
  <2>2. HalfEven(0, used, 100) \in Int /\ art \in Int /\ art <= HalfEven(0, used, 100)
    BY <1>1, <1>2, RoundedAreas
  <2> HIDE DEF area, art
  <2> QED BY <1>2, <2>1, <2>2 DEF Larger
<1> HIDE DEF area, art
<1>6. RollCharge(job, art) \in Int /\ RollCharge(job, area) \in Int
      /\ RollCharge(job, art) <= RollCharge(job, area)
  <2>1. PICK m \in Nat, p \in Nat : m = job.roll.price /\ p = job.roll.print
    BY DEF RollJob
  <2>2. \A x \in Nat : \A a, b \in Int : a <= b => x * a \in Int /\ x * b \in Int /\ x * a <= x * b
    OBVIOUS
  <2>3. m * art \in Int /\ m * area \in Int /\ m * art <= m * area
    BY <1>5, <2>2
  <2>4. p * art \in Int /\ p * area \in Int /\ p * art <= p * area
    BY <1>5, <2>2
  <2>5. /\ HalfEven(0, m * art, 10000) \in Int /\ HalfEven(0, m * area, 10000) \in Int
        /\ HalfEven(0, m * art, 10000) <= HalfEven(0, m * area, 10000)
    BY <2>3, RoundedAreas
  <2>6. /\ HalfEven(0, p * art, 10000) \in Int /\ HalfEven(0, p * area, 10000) \in Int
        /\ HalfEven(0, p * art, 10000) <= HalfEven(0, p * area, 10000)
    BY <2>4, RoundedAreas
  <2> QED BY <2>1, <2>5, <2>6 DEF RollCharge
<1>7. RollLine(job, fin, entry) = RollFinished(job, fin, entry, RollCharge(job, area))
  BY DEF RollLine, area
<1>8. RollCharge(job, art) + cost \in Int /\ RollCharge(job, area) + cost \in Int
      /\ RollCharge(job, art) + cost <= RollCharge(job, area) + cost
  BY <1>3, <1>6
<1> QED BY <1>3, <1>4, <1>7, <1>8, RoundedSums DEF art

-----------------------------------------------------------------------------
(* The split *)

\* platform_fee_policy.py: every sale the policy allows, at any cost and any
\* markup, is split soundly.
THEOREM AllowedSalesSplitSoundly ==
    ASSUME NEW rawCost \in Int, NEW rawMarkup \in Int, SplitAllowed(rawCost, rawMarkup)
    PROVE  SoundSplit(rawCost, rawMarkup)
<1> DEFINE cost    == HalfUp(rawCost, 100)
           markup  == HalfUp(rawMarkup, 100)
           tier    == Tier(cost)
           shop    == HalfUp(cost * tier.floor, 100)
           manager == Smaller(markup, HalfUp(markup * tier.cap, 100))
<1>1. /\ cost \in Int /\ markup \in Int
      /\ 100 * cost - rawCost \in -50 .. 50
      /\ 100 * markup - rawMarkup \in -50 .. 50
  <2>1. /\ cost \in Int /\ 200 * cost <= 2 * rawCost + 100
        /\ 2 * rawCost + 100 < 200 * cost + 200
    BY HalfUpCents
  <2>2. /\ markup \in Int /\ 200 * markup <= 2 * rawMarkup + 100
        /\ 2 * rawMarkup + 100 < 200 * markup + 200
    BY HalfUpCents
  <2> HIDE DEF cost, markup
  <2> QED BY <2>1, <2>2
<1>2. cost > 0 /\ markup >= 0
  BY <1>1 DEF SplitAllowed
<1>3. /\ tier.floor \in 100 .. 108 /\ tier.cap \in 35 .. 60
      /\ cost < 1000 => tier.floor = 100
  BY <1>1 DEF Tier
<1>4. shop \in Int /\ shop >= cost /\ (cost < 1000 => shop = cost)
  <2>1. cost * tier.floor \in Int /\ cost * tier.floor >= cost * 100
    BY <1>1, <1>2, <1>3
  <2>2. /\ shop \in Int
        /\ 200 * shop <= 2 * (cost * tier.floor) + 100
        /\ 2 * (cost * tier.floor) + 100 < 200 * shop + 200
    BY <2>1, HalfUpCents
  <2>3. cost < 1000 => cost * tier.floor = cost * 100
    BY <1>3
  <2> HIDE DEF cost, tier, shop
  <2> QED BY <1>1, <2>1, <2>2, <2>3
<1>5. manager \in Int /\ manager >= 0 /\ manager <= markup
  <2>1. markup * tier.cap \in Int /\ markup * tier.cap >= 0
    BY <1>1, <1>2, <1>3
  <2>2. HalfUp(markup * tier.cap, 100) \in Int /\ HalfUp(markup * tier.cap, 100) >= 0
    <3>1. \A n \in Int : n >= 0 => HalfUp(n, 100) \in Int /\ HalfUp(n, 100) >= 0
      BY HalfUpCents
    <3> QED BY <2>1, <3>1
  <2> QED BY <1>1, <1>2, <2>2 DEF Smaller
<1>6. Split(rawCost, rawMarkup) =
        [client |-> cost + markup, shop |-> shop, manager |-> manager,
         printy |-> cost + markup - shop - manager]
  BY DEF Split
<1> HIDE DEF cost, markup, tier, shop, manager
<1>7. SoundSplit(rawCost, rawMarkup) <=>
        /\ shop + manager + (cost + markup - shop - manager) = cost + markup
        /\ 100 * (cost + markup) - (rawCost + rawMarkup) \in -100 .. 100
        /\ shop - cost >= 0
        /\ manager \in 0 .. markup
        /\ cost + markup - shop - manager >= -(shop - cost)
        /\ cost < 1000 => cost + markup - shop - manager >= 0
  BY <1>6 DEF SoundSplit, cost, markup
<1> QED BY <1>1, <1>2, <1>4, <1>5, <1>7

-----------------------------------------------------------------------------
(***************************************************************************)
(* The versions of a rate card.  Until two first saves met, a version is   *)
(* the number of the copy (Numbered), a page keeps the number of the copy  *)
(* it was given (PagesNumbered), and a save holds what it checked and      *)
(* computed, for nobody else writes the card while it has the lock         *)
(* (SaveHolds).  The lock is exclusive, races or not (OneLock).            *)
(***************************************************************************)

\* The copies are numbered from 1; the first may have been saved before versions.
Numbered(version, serial) ==
    IF version = Stamp THEN serial = 1 ELSE version = serial

OneLock ==
    /\ \A t, u \in Tabs : tabs[t].step = "locked" /\ tabs[u].step = "locked" => t = u
    /\ \A t \in Tabs : tabs[t].step = "locked" => Saved

PagesNumbered ==
    \A t \in Tabs : tabs[t].step # "idle" => Numbered(tabs[t].version, tabs[t].serial)

SaveHolds ==
    \A t \in Tabs :
       /\ tabs[t].step = "locked" =>
             /\ tabs[t].next = NextVersion(t)
             /\ tabs[t].checked => tabs[t].serial = card.serial
       /\ tabs[t].step = "unlocked" =>
             /\ tabs[t].next = 1
             /\ tabs[t].checked => tabs[t].serial = 0

CardInv ==
    /\ CardTypeOK
    /\ OneLock
    /\ ~raced => Numbered(card.version, card.serial) /\ PagesNumbered /\ SaveHolds

\* Two copies of one number are one copy.
LEMMA NumberedOnce ==
    ASSUME NEW v \in Int, NEW s \in Int, NEW r \in Int, Numbered(v, s), Numbered(v, r)
    PROVE  s = r
BY DEF Numbered

\* The numbering of the copies gives the property.
LEMMA InvNamesCopy == CardInv => VersionNamesCopy
<1> SUFFICES ASSUME CardInv, ~raced, NEW t \in Tabs,
                    tabs[t].step # "idle", tabs[t].version = card.version
             PROVE  tabs[t].serial = card.serial
  BY DEF VersionNamesCopy
<1>1. tabs[t] \in Tab /\ card.version \in Int /\ card.serial \in Int
  BY DEF CardInv, CardTypeOK, Card, Labels, Stamp
<1>2. Numbered(card.version, card.serial) /\ Numbered(card.version, tabs[t].serial)
  BY DEF CardInv, PagesNumbered
<1> QED BY <1>1, <1>2, NumberedOnce DEF Tab, Labels, Stamp

\* A page that is closed.
LEMMA ClosedTab ==
    ASSUME Blank \in Rows
    PROVE  Closed \in Tab
BY DEF Closed, Tab, Never, Labels

\* CardInv is inductive.
LEMMA CardStarts == CardInit => CardInv
<1> SUFFICES ASSUME CardInit PROVE CardInv
  OBVIOUS
<1>1. PICK rows \in Rows, legacy \in BOOLEAN :
        /\ card = IF legacy THEN [version |-> Stamp, rows |-> rows, serial |-> 1]
                  ELSE NoCard
        /\ rates = rows
        /\ calls = 0
        /\ tabs = [t \in Tabs |-> Closed]
        /\ raced = FALSE
  BY DEF CardInit
<1>2. Blank \in Rows
  BY <1>1 DEF Blank
<1>3. \A t \in Tabs : tabs[t] = Closed
  BY <1>1
<1>4. CardTypeOK
  <2>1. card \in Card
    <3>1. CASE legacy
      BY <1>1, <3>1 DEF Stamp, Card, Labels
    <3>2. CASE ~legacy
      BY <1>1, <1>2, <3>2 DEF NoCard, Never, Card, Labels
    <3> QED BY <3>1, <3>2
  <2>2. tabs \in [Tabs -> Tab]
    BY <1>1, <1>2, ClosedTab
  <2>3. calls \in 0 .. MaxCalls
    BY <1>1, CardAssumption
  <2> QED BY <1>1, <2>1, <2>2, <2>3 DEF CardTypeOK
<1>5. OneLock /\ PagesNumbered /\ SaveHolds
  BY <1>3 DEF OneLock, PagesNumbered, SaveHolds, Closed
<1>6. Numbered(card.version, card.serial)
  BY <1>1 DEF Numbered, NoCard, Stamp, Never
<1> QED BY <1>4, <1>5, <1>6 DEF CardInv

\* A step of one page, which leaves the card alone.
LEMMA PageStep ==
    ASSUME CardInv, NEW t \in Tabs, NEW new \in Tab,
           tabs' = [tabs EXCEPT ![t] = new],
           UNCHANGED <<card, rates, raced>>, calls' \in 0 .. MaxCalls,
           new.step = "locked" => Saved /\ ~CardLocked,
           ~raced /\ new.step # "idle" => Numbered(new.version, new.serial),
           ~raced /\ new.step = "locked" =>
              new.next = NextVersion(t) /\ (new.checked => new.serial = card.serial),
           ~raced /\ new.step = "unlocked" =>
              new.next = 1 /\ (new.checked => new.serial = 0)
    PROVE  CardInv'
<1>1. \A u \in Tabs : tabs'[u] = IF u = t THEN new ELSE tabs[u]
  BY DEF CardInv, CardTypeOK
<1>2. CardTypeOK'
  BY DEF CardInv, CardTypeOK
<1>3. OneLock'
  BY <1>1 DEF CardInv, OneLock, CardLocked, Saved
<1>4. ~raced' => Numbered(card.version, card.serial)' /\ PagesNumbered' /\ SaveHolds'
  <2> SUFFICES ASSUME ~raced
               PROVE  Numbered(card.version, card.serial)' /\ PagesNumbered' /\ SaveHolds'
    OBVIOUS
  <2>1. Numbered(card.version, card.serial)'
    BY DEF CardInv, Numbered
  <2>2. PagesNumbered'
    BY <1>1 DEF CardInv, PagesNumbered, Numbered
  <2>3. SaveHolds'
    BY <1>1 DEF CardInv, SaveHolds, NextVersion
  <2> QED BY <2>1, <2>2, <2>3
<1> QED BY <1>2, <1>3, <1>4 DEF CardInv

\* The rows of no card are rows.
LEMMA CardBlank == CardInv => Blank \in Rows
BY DEF CardInv, CardTypeOK, Blank

\* A page loads the card,
LEMMA LoadKeeps ==
    ASSUME CardInv, NEW t \in Tabs, Load(t)
    PROVE  CardInv'
<1> DEFINE new == [Closed EXCEPT !.step = "open", !.version = card.version,
                                 !.serial = card.serial,
                                 !.rows = IF Saved THEN card.rows ELSE rates]
<1>1. new \in Tab /\ new.step = "open"
      /\ new.version = card.version /\ new.serial = card.serial
  <2>1. /\ card.version \in Labels /\ card.serial \in Nat
        /\ (IF Saved THEN card.rows ELSE rates) \in Rows
    BY DEF CardInv, CardTypeOK, Card
  <2> QED BY <2>1, CardBlank, ClosedTab DEF Tab, Closed
<1>2. /\ tabs' = [tabs EXCEPT ![t] = new] /\ UNCHANGED <<card, rates, raced>>
      /\ calls' \in 0 .. MaxCalls
  BY CardAssumption DEF Load, OneMoreCall, CardInv, CardTypeOK
<1>3. ~raced => Numbered(new.version, new.serial)
  BY <1>1 DEF CardInv
<1> HIDE DEF new
<1> QED BY <1>1, <1>2, <1>3, PageStep

\* its save begins,
LEMMA BeginKeeps ==
    ASSUME CardInv, NEW t \in Tabs, Begin(t)
    PROVE  CardInv'
<1>1. PICK checked \in BOOLEAN, rows \in Edited(tabs[t].rows) :
        tabs' = [tabs EXCEPT ![t] =
           IF checked /\ tabs[t].version # card.version THEN Closed
           ELSE [@ EXCEPT !.step = IF Saved THEN "locked" ELSE "unlocked", !.rows = rows,
                          !.checked = checked, !.next = NextVersion(t)]]
  BY DEF Begin
<1> DEFINE new == IF checked /\ tabs[t].version # card.version THEN Closed
                  ELSE [tabs[t] EXCEPT !.step = IF Saved THEN "locked" ELSE "unlocked",
                          !.rows = rows, !.checked = checked, !.next = NextVersion(t)]
<1>2. /\ tabs[t] \in Tab /\ tabs[t].step = "open" /\ rows \in Rows
      /\ card.version \in Labels /\ card.serial \in Nat
  BY DEF CardInv, CardTypeOK, Begin, Edited, Card
<1>3. NextVersion(t) \in Labels
  BY <1>2 DEF NextVersion, Labels, Stamp
<1>4. new \in Tab
  BY <1>2, <1>3, CardBlank, ClosedTab DEF Tab
<1>5. /\ tabs' = [tabs EXCEPT ![t] = new] /\ UNCHANGED <<card, rates, raced>>
      /\ calls' \in 0 .. MaxCalls
  BY <1>1 DEF Begin, CardInv, CardTypeOK
<1>6. CASE checked /\ tabs[t].version # card.version
  <2>1. new.step = "idle"
    BY <1>6 DEF Closed
  <2> HIDE DEF new
  <2> QED BY <1>4, <1>5, <2>1, PageStep
<1>7. CASE ~checked \/ tabs[t].version = card.version
  <2>1. /\ new.step = IF Saved THEN "locked" ELSE "unlocked"
        /\ new.version = tabs[t].version /\ new.serial = tabs[t].serial
        /\ new.next = NextVersion(t) /\ new.checked = checked
    BY <1>2, <1>7 DEF Tab
  <2>2. ~raced => Numbered(new.version, new.serial)
    BY <1>2, <2>1 DEF CardInv, PagesNumbered
  <2>3. ~raced /\ checked => new.serial = card.serial
    <3>1. ~raced /\ checked => tabs[t].version = card.version
      BY <1>7
    <3> QED BY <1>2, <2>1, <3>1, InvNamesCopy DEF VersionNamesCopy
  <2>4. ~Saved => card.serial = 0
    BY <1>2 DEF Saved
  <2>5. ~raced /\ ~Saved => NextVersion(t) = 1
    BY <1>2, <2>4 DEF CardInv, Numbered, NextVersion, Stamp
  <2>6. new.step = "locked" => Saved /\ ~CardLocked
    BY <2>1 DEF Begin
  <2> HIDE DEF new
  <2> QED BY <1>4, <1>5, <2>1, <2>2, <2>3, <2>4, <2>5, <2>6, PageStep
<1> QED BY <1>6, <1>7

\* or comes to nothing,
LEMMA ClosingKeeps ==
    ASSUME CardInv, NEW t \in Tabs, tabs' = [tabs EXCEPT ![t] = Closed],
           UNCHANGED <<card, rates, calls, raced>>
    PROVE  CardInv'
<1>1. Closed \in Tab /\ Closed.step = "idle"
  BY CardBlank, ClosedTab DEF Closed
<1>2. calls' \in 0 .. MaxCalls
  BY DEF CardInv, CardTypeOK
<1> QED BY <1>1, <1>2, PageStep

\* What a save that comes through found is what it replaces, races apart.
LEMMA CommitMeetsItsCard ==
    ASSUME CardInv, NEW t \in Tabs, Commit(t), ~raced'
    PROVE  /\ ~raced
           /\ tabs[t].next = NextVersion(t)
           /\ tabs[t].checked => tabs[t].serial = card.serial
<1>1. ~raced /\ ~(tabs[t].step = "unlocked" /\ Saved)
  BY DEF Commit, CardInv, CardTypeOK
<1>2. CASE tabs[t].step = "locked"
  BY <1>1, <1>2 DEF CardInv, SaveHolds
<1>3. CASE tabs[t].step = "unlocked"
  <2>1. card.serial = 0 /\ card.version = 0
    BY <1>1, <1>3 DEF Saved, CardInv, CardTypeOK, Numbered, Stamp, Card, Labels
  <2>2. NextVersion(t) = 1
    BY <2>1 DEF NextVersion, Stamp
  <2> QED BY <1>1, <1>3, <2>1, <2>2 DEF CardInv, SaveHolds
<1> QED BY <1>2, <1>3 DEF Commit

\* At a commit nobody else holds the lock.
LEMMA CommitAlone ==
    ASSUME CardInv, NEW t \in Tabs, Commit(t)
    PROVE  /\ \A u \in Tabs \ {t} : tabs[u].step # "locked"
           /\ \A u \in Tabs : tabs'[u] = IF u = t THEN Closed ELSE tabs[u]
<1>1. \A u \in Tabs \ {t} : tabs[u].step # "locked"
  BY DEF Commit, CardLocked, CardInv, OneLock
<1>2. \A u \in Tabs : tabs'[u] = IF u = t THEN Closed ELSE tabs[u]
  BY DEF Commit, CardInv, CardTypeOK
<1> QED BY <1>1, <1>2

\* or is committed.
LEMMA CommitKeeps ==
    ASSUME CardInv, NEW t \in Tabs, Commit(t)
    PROVE  CardInv'
<1>1. CardTypeOK'
  <2>1. tabs[t] \in Tab /\ card.serial \in Nat
    BY DEF CardInv, CardTypeOK, Card
  <2>2. card' \in Card /\ rates' \in Rows
    BY <2>1 DEF Commit, Tab, Card
  <2>3. tabs' \in [Tabs -> Tab]
    BY CardBlank, ClosedTab DEF Commit, CardInv, CardTypeOK
  <2>4. raced' \in BOOLEAN /\ calls' \in 0 .. MaxCalls
    BY DEF Commit, CardInv, CardTypeOK
  <2> QED BY <2>2, <2>3, <2>4 DEF CardTypeOK
<1>2. OneLock'
  BY CommitAlone DEF OneLock, Closed
<1>3. ASSUME ~raced'
      PROVE  Numbered(card.version, card.serial)' /\ PagesNumbered' /\ SaveHolds'
  <2>1. ~raced /\ tabs[t].next = NextVersion(t)
    BY <1>3, CommitMeetsItsCard
  <2>2. Numbered(card.version, card.serial) /\ card.version \in Labels /\ card.serial \in Nat
    BY <2>1 DEF CardInv, CardTypeOK, Card
  <2>3. card'.version = NextVersion(t) /\ card'.serial = card.serial + 1
    BY <2>1 DEF Commit
  <2>4. Numbered(card.version, card.serial)'
    BY <2>2, <2>3 DEF Numbered, NextVersion, Stamp, Labels
  <2>5. PagesNumbered'
    BY <2>1, CommitAlone DEF CardInv, PagesNumbered, Numbered, Closed
  <2>6. SaveHolds'
    BY <2>1, CommitAlone DEF CardInv, SaveHolds, Closed
  <2> QED BY <2>4, <2>5, <2>6
<1> QED BY <1>1, <1>2, <1>3 DEF CardInv

\* A rate is edited apart from the card.
LEMMA DirectEditKeeps == CardInv /\ DirectEdit => CardInv'
<1> SUFFICES ASSUME CardInv, DirectEdit PROVE CardInv'
  OBVIOUS
<1>1. CardTypeOK'
  BY CardAssumption DEF DirectEdit, OneMoreCall, Edited, CardInv, CardTypeOK
<1>2. OneLock' /\ (~raced' => Numbered(card.version, card.serial)' /\ PagesNumbered' /\ SaveHolds')
  BY DEF DirectEdit, CardInv, OneLock, Saved, Numbered, PagesNumbered, SaveHolds, NextVersion
<1> QED BY <1>1, <1>2 DEF CardInv

\* Nothing happens to the card.
LEMMA CardStutters ==
    ASSUME CardInv, UNCHANGED cardVars
    PROVE  CardInv'
<1>1. CardTypeOK' /\ OneLock'
  BY DEF cardVars, CardInv, CardTypeOK, OneLock, Saved
<1>2. ~raced' => Numbered(card.version, card.serial)' /\ PagesNumbered' /\ SaveHolds'
  BY DEF cardVars, CardInv, Numbered, PagesNumbered, SaveHolds, NextVersion
<1> QED BY <1>1, <1>2 DEF CardInv

\* Every step of the pages and of the direct edits keeps it.
LEMMA CardNextKeeps == CardInv /\ [CardNext]_cardVars => CardInv'
<1> SUFFICES ASSUME CardInv, [CardNext]_cardVars PROVE CardInv'
  OBVIOUS
<1>1. ASSUME NEW t \in Tabs, Load(t) PROVE CardInv'
  BY <1>1, LoadKeeps
<1>2. ASSUME NEW t \in Tabs, Begin(t) PROVE CardInv'
  BY <1>2, BeginKeeps
<1>3. ASSUME NEW t \in Tabs, Commit(t) PROVE CardInv'
  BY <1>3, CommitKeeps
<1>4. ASSUME NEW t \in Tabs, Abort(t) \/ Leave(t) PROVE CardInv'
  BY <1>4, ClosingKeeps DEF Abort, Leave
<1>5. CASE DirectEdit
  BY <1>5, DirectEditKeeps
<1>6. CASE UNCHANGED cardVars
  BY <1>6, CardStutters
<1> QED BY <1>1, <1>2, <1>3, <1>4, <1>5, <1>6 DEF CardNext

\* services/pricing/mvp_rate_card.py: the counting of the saved copies, and what a
\* page knows of the card, hold in every state of the pages.
THEOREM CardInvariant == CardSpec => []CardInv
BY CardStarts, CardNextKeeps, PTL DEF CardSpec

\* services/pricing/mvp_rate_card.py: while no two first saves met, a version
\* names one copy of the card.
THEOREM VersionsNameCopies == CardSpec => []VersionNamesCopy
BY CardInvariant, InvNamesCopy, PTL

\* A save that sends its version commits over the copy the page loaded.
LEMMA SaveMeetsItsCopy ==
    ASSUME CardInv, [CardNext]_cardVars, NEW t \in Tabs,
           card' # card, tabs[t].checked, tabs[t].step \in {"locked", "unlocked"},
           tabs'[t].step = "idle", ~raced'
    PROVE  tabs[t].serial = card.serial
<1>1. PICK u \in Tabs : Commit(u)
  BY DEF CardNext, cardVars, Load, Begin, Abort, Leave, DirectEdit
<1>2. u = t
  BY <1>1, CommitAlone
<1> QED BY <1>1, <1>2, CommitMeetsItsCard

\* services/pricing/mvp_rate_card.py:1790: a save that sends the version it loaded
\* replaces the copy it loaded, although the comparison and the load are apart.
THEOREM NoSaveIsLostUnseen == CardSpec => NoSilentOverwrite
<1>1. CardInv /\ [CardNext]_cardVars =>
        [\A t \in Tabs :
           (card' # card /\ tabs[t].checked /\ tabs[t].step \in {"locked", "unlocked"}
              /\ tabs'[t].step = "idle" /\ ~raced')
           => tabs[t].serial = card.serial]_cardVars
  BY SaveMeetsItsCopy
<1> QED BY <1>1, CardInvariant, PTL DEF CardSpec, NoSilentOverwrite

-----------------------------------------------------------------------------
(***************************************************************************)
(* What holds of the calls at work on a quote.  Each call is in a shape of *)
(* its own (CallShape).  Two calls at work on one item have met (Apart),   *)
(* and an item that a call did not share is as that call knows it (Knows), *)
(* so that what it stores last is the price of what is there (RowsFresh).  *)
(* Until a write comes too late, a total is the sum of the lines as they   *)
(* still are (SumHolds).                                                   *)
(***************************************************************************)

\* The steps of an edit whose row is saved and not yet priced.
Saving == {"clear", "attach", "price", "store"}

Holding(c, i) == c.call = "edit" /\ c.item = i /\ c.step \in Saving

\* The price is that of the item, or the item says that it needs review.
Fresh(row) == row.of = [job |-> row.job, fin |-> row.fin] \/ row.review

\* The finishing of a row that is there.
FinOf(row) == IF row \in Row THEN row.fin ELSE "none"

ItemShape(c) ==
    /\ c.call = "none" => c = Idle
    /\ c.call \in {"submit", "remove"} => c.step = "write"
    /\ c.call \in {"edit", "tweak", "add", "remove"} => c.item \in Items
    /\ c.call \in {"edit", "tweak"} => c.job \in Names

EditShape(c) ==
    c.call = "edit" =>
       /\ c.step \in {"read", "write"} \cup Saving
       /\ Wrote(c) = {}
       /\ c.step # "read" => c.seen[c.item] \in Row
       /\ c.step \in {"clear", "attach"} => c.fin # "keep"

\* The row of a tweak has the finishing the request asks for, or the one it saw.
TweakShape(c) ==
    c.call = "tweak" =>
       /\ c.step \in {"write", "price", "store", "commit"}
       /\ c.seen[c.item] \in Row
       /\ c.step # "write" =>
             /\ c.own[c.item] \in Row
             /\ c.own[c.item].fin = IF c.fin = "keep" THEN c.seen[c.item].fin ELSE c.fin

AddShape(c) ==
    c.call = "add" =>
       /\ c.step \in {"price", "store", "commit"}
       /\ c.own[c.item] \in Row
       /\ c.step = "store" => c.finRow = c.own[c.item].fin
       /\ c.step = "commit" => Fresh(c.own[c.item])

SendShape(c) ==
    c.call = "send" =>
       /\ c.step \in {"fetch", "price", "store", "sum", "commit"}
       /\ c.step = "fetch" => c.seen = NoRows /\ c.own = NoRows
       /\ c.step \in {"price", "store"} <=> c.left # {}
       /\ \A i \in c.left : c.seen[i] \in Row /\ c.own[i] \notin Row

\* What was read of the rates was in the tables, what is being priced is on sheets,
\* and every row covers its sheets.
PriceShape(c) ==
    /\ c.step = "store" => /\ c.paper \in Prices["paper"] /\ c.finPrice \in Prices["finishing"]
                           /\ Jobs[SpecOf(c)].mode = "SHEET"
    /\ \A i \in Items : /\ c.seen[i] \in Row => Covers(c.seen[i])
                        /\ c.own[i] \in Row => Covers(c.own[i])

CallShape(c) ==
    /\ ItemShape(c) /\ EditShape(c) /\ TweakShape(c) /\ AddShape(c) /\ SendShape(c)
    /\ PriceShape(c)

\* An item only this call is at work on is as the call read it.
KnowsEdited(c, i, row) ==
    Holding(c, i) => /\ row \in Row
                     /\ row.job = c.seen[i].job
                     /\ c.step = "store" => c.finRow = row.fin

KnowsTweaked(c, i, row) ==
    c.call = "tweak" /\ c.item = i /\ c.step # "write" =>
       /\ c.seen[i].fin = FinOf(row)
       /\ c.step = "store" => c.finRow = c.own[i].fin
       /\ c.step = "commit" => Fresh(c.own[i])

KnowsSent(c, i, row) ==
    c.call = "send" =>
       /\ c.seen[i] \in Row => row \in Row /\ row.job = c.seen[i].job
       /\ c.own[i] \in Row => row \in Row /\ c.own[i].of = [job |-> row.job, fin |-> row.fin]
       /\ c.step = "store" /\ i = Min(c.left) => c.finRow = FinOf(row)
       /\ c.step # "fetch" /\ row \in Row => i \in c.left \/ c.own[i] \in Row

Knows(c, i, row) == KnowsEdited(c, i, row) /\ KnowsTweaked(c, i, row) /\ KnowsSent(c, i, row)

\* Calls at work on one item have met on it, and what they met on is disturbed.
Apart ==
    /\ \A v, w \in Workers : v # w => AtWork(txn[v]) \cap AtWork(txn[w]) \subseteq met[w]
    /\ \A w \in Workers : met[w] \subseteq AtWork(txn[w]) \cap disturbed

\* The rows: each covers its sheets, and is fresh unless an edit is not done with it.
RowsCover == \A i \in Present : Covers(items[i])

RowsFresh == \A i \in Present \ disturbed : Fresh(items[i]) \/ \E w \in Workers : Holding(txn[w], i)

CallsKnow == \A w \in Workers : \A i \in Items \ met[w] : Knows(txn[w], i, items[i])

\* Only the last offer may be pending.
OffersInOrder == \A k \in DOMAIN offers : k < Len(offers) => offers[k].status = "SENT"

\* The lines a send sees, and its total once it has one.
LinesSeen(c) == [i \in Items |-> LineSeen(c, i)]

SumHolds(c) == c.call = "send" /\ c.step = "commit" => c.total = Total(LinesSeen(c))

PricingInv ==
    /\ TypeOK
    /\ CardInv
    /\ \A w \in Workers : CallShape(txn[w])
    /\ Apart
    /\ RowsCover
    /\ RowsFresh
    /\ CallsKnow
    /\ OffersInOrder
    /\ SentOfferAddsUp
    /\ ~late => \A w \in Workers : SumHolds(txn[w])
-----------------------------------------------------------------------------
(* Rows and sums *)

\* The marks of a missing row are no rows.
LEMMA NoRowIsGone == Gone \notin Row /\ Unused \notin Row
BY DEF Gone, Unused, Row

\* Numbers have a least one.
LEMMA LeastNumber ==
    ASSUME NEW S \in SUBSET Nat, S # {}
    PROVE  \E x \in S : \A y \in S : x <= y
<1>1. PICK x \in S : \A y \in S : <<y, x>> \notin OpToRel(<, Nat)
  BY NatLessThanWellFounded, WFMin
<1>2. \A y \in S : ~(y < x)
  BY <1>1 DEF OpToRel
<1> QED BY <1>2

\* Min is a least number.
LEMMA MinOfNumbers ==
    ASSUME NEW S \in SUBSET Nat, S # {}
    PROVE  Min(S) \in S /\ \A y \in S : Min(S) <= y
BY LeastNumber DEF Min

\* Max is a greatest index.
LEMMA MaxOfIndices ==
    ASSUME NEW n \in Nat, NEW S \in SUBSET (1 .. n), S # {}
    PROVE  Max(S) \in S /\ \A y \in S : y <= Max(S)
<1> DEFINE below == {n - x : x \in S}
<1>1. below \in SUBSET Nat /\ below # {}
  <2>1. \A x \in S : n - x \in Nat
    OBVIOUS
  <2> QED BY <2>1
<1>2. PICK d \in below : \A e \in below : d <= e
  BY <1>1, LeastNumber
<1>3. PICK x \in S : d = n - x
  BY <1>2
<1>4. \A y \in S : n - y \in below
  OBVIOUS
<1>5. \A y \in S : y <= x
  <2>1. \A y \in S : n - x <= n - y
    BY <1>2, <1>3, <1>4
  <2> QED BY <2>1
<1> QED BY <1>5 DEF Max

\* The sums that Total runs through, up to n.
Sums(line, n) ==
    {f \in [0 .. n -> Int] : \A m \in 0 .. n : f[m] = IF m = 0 THEN 0 ELSE f[m - 1] + line[m]}

\* The recursive function of Total is defined on its whole domain.
LEMMA SumsExist ==
    ASSUME NEW line \in [Items -> Int], NEW n \in 0 .. MaxItems
    PROVE  Sums(line, n) # {}
<1> SUFFICES ASSUME Sums(line, n) = {} PROVE FALSE
  OBVIOUS
<1> DEFINE none == {m \in 0 .. MaxItems : Sums(line, m) = {}}
<1>1. MaxItems \in Nat
  BY PricingAssumption
<1>2. PICK m \in none : \A k \in none : m <= k
  <2>1. none \in SUBSET Nat /\ n \in none
    BY <1>1
  <2> HIDE DEF none
  <2> QED BY <2>1, LeastNumber
<1>3. m # 0
  <2>1. [k \in 0 .. 0 |-> 0] \in Sums(line, 0)
    BY DEF Sums
  <2> QED BY <1>2, <2>1
<1>4. m - 1 \in 0 .. MaxItems /\ m - 1 \notin none
  BY <1>1, <1>2, <1>3
<1>5. PICK f : f \in Sums(line, m - 1)
  BY <1>4
<1> DEFINE g == [k \in 0 .. m |-> IF k = m THEN f[m - 1] + line[m] ELSE f[k]]
<1>6. f \in [0 .. m - 1 -> Int] /\ m \in Nat /\ m - 1 \in 0 .. m - 1 /\ line[m] \in Int
  BY <1>1, <1>2, <1>3, <1>5 DEF Sums, Items
<1>7. g \in [0 .. m -> Int]
  BY <1>6
<1>8. ASSUME NEW k \in 0 .. m PROVE g[k] = IF k = 0 THEN 0 ELSE g[k - 1] + line[k]
  <2>1. CASE k = m
    BY <1>3, <1>6, <2>1
  <2>2. CASE k # m
    BY <1>5, <1>6, <2>2 DEF Sums
  <2> QED BY <2>1, <2>2
<1> QED BY <1>2, <1>7, <1>8 DEF Sums

\* Total is a number.
LEMMA TotalType ==
    ASSUME NEW line \in [Items -> Int]
    PROVE  Total(line) \in Int
<1> DEFINE Is(s) == s = [n \in 0 .. MaxItems |-> IF n = 0 THEN 0 ELSE s[n - 1] + line[n]]
           sum   == CHOOSE s : Is(s)
<1>1. MaxItems \in Nat
  BY PricingAssumption
<1>2. PICK f : f \in Sums(line, MaxItems)
  BY <1>1, SumsExist
<1>3. Is(f)
  BY <1>2 DEF Sums
<1>4. Is(sum)
  BY <1>3
<1>5. Total(line) = sum[MaxItems]
  BY DEF Total
<1>6. \A n \in 0 .. MaxItems : sum[n] = IF n = 0 THEN 0 ELSE sum[n - 1] + line[n]
  BY <1>4
<1> HIDE DEF sum
<1> DEFINE wrong == {n \in 0 .. MaxItems : sum[n] \notin Int}
<1>7. wrong = {}
  <2> SUFFICES ASSUME wrong # {} PROVE FALSE
    OBVIOUS
  <2>1. PICK n \in wrong : \A k \in wrong : n <= k
    <3>1. wrong \in SUBSET Nat
      BY <1>1
    <3> HIDE DEF wrong
    <3> QED BY <3>1, LeastNumber
  <2>2. n # 0
    BY <1>1, <1>6, <2>1
  <2>3. n - 1 \in 0 .. MaxItems /\ n - 1 \notin wrong /\ n \in Items
    BY <1>1, <2>1, <2>2 DEF Items
  <2>4. sum[n] = sum[n - 1] + line[n]
    BY <1>6, <2>1, <2>2
  <2> QED BY <2>1, <2>3, <2>4
<1> QED BY <1>1, <1>5, <1>7

-----------------------------------------------------------------------------
(* What a line may be *)

\* The rates with one price replaced, and what an item may say of its finishing.
LEMMA RatesType ==
    ASSUME NEW p \in Int, NEW fin \in Fins
    PROVE  /\ RateOf(fin, p) \in FinishingRate
           /\ EntryOf(fin) \in Entry
           /\ [PrintRate EXCEPT !.single = p] \in PrintingRate
<1>1. NoFinishing \in FinishingRate /\ Plain \in Entry
  BY DEF NoFinishing, FinishingRate, NullablePrice, Plain, Entry
<1>2. [Finishing EXCEPT !.price = p] \in FinishingRate
  BY PricingAssumption DEF FinishingRate
<1>3. fin # "none" => Entries[fin] \in Entry
  BY PricingAssumption DEF Fins
<1>4. [PrintRate EXCEPT !.single = p] \in PrintingRate
  BY PricingAssumption DEF PrintingRate
<1> QED BY <1>1, <1>2, <1>3, <1>4 DEF RateOf, EntryOf

\* The specifications on sheets, and the prices of the tables.
LEMMA JobsType ==
    ASSUME NEW name \in Names, Jobs[name].mode = "SHEET"
    PROVE  SheetJob(Jobs[name])
BY PricingAssumption DEF Names

LEMMA TablesType ==
    /\ Prices["paper"] \subseteq Int /\ Prices["printing"] \subseteq Int
    /\ Prices["finishing"] \subseteq Int
BY PricingAssumption, CardAssumption

\* The line of every specification on sheets is a number,
LEMMA SheetLineType ==
    ASSUME NEW job, SheetJob(job), NEW fin \in FinishingRate, NEW entry \in Entry,
           NEW paperPrice \in Int, NEW rate \in PrintingRate
    PROVE  SheetLine(job, fin, entry, paperPrice, rate) \in Int
<1> DEFINE sheets == IF NoTotals(job) THEN 0 ELSE BilledSheets(job) * SheetPrice(job, paperPrice, rate)
<1>1. sheets \in Int
  BY BilledCoversGood, SheetPriceType
<1>2. SheetLine(job, fin, entry, paperPrice, rate) =
        IF ~job.paper.chosen THEN 0 ELSE Finished(job, fin, entry, sheets)
  BY DEF SheetLine
<1> HIDE DEF sheets
<1> QED BY <1>1, <1>2, FinishedGrows

LEMMA LineTotalType ==
    ASSUME NEW name \in Names, Jobs[name].mode = "SHEET", NEW fin \in Fins,
           NEW paperPrice \in Int, NEW finPrice \in Int, NEW printPrice \in Int
    PROVE  LineTotal(Jobs[name], fin, paperPrice, finPrice, printPrice) \in Int
<1>1. SheetLine(Jobs[name], RateOf(fin, finPrice), EntryOf(fin), paperPrice,
                [PrintRate EXCEPT !.single = printPrice]) \in Int
  BY JobsType, RatesType, SheetLineType
<1> QED BY <1>1 DEF LineTotal

\* and made at any prices of the tables it covers its sheets at them.
LEMMA LineTotalCovers ==
    ASSUME NEW row \in Row, row.of.job \in Names,
           NEW paperPrice \in Prices["paper"], NEW finPrice \in Prices["finishing"],
           NEW printPrice \in Prices["printing"],
           row.line = LineTotal(Jobs[row.of.job], row.of.fin, paperPrice, finPrice, printPrice)
    PROVE  Covers(row)
<1> DEFINE job   == Jobs[row.of.job]
           fin   == row.of.fin
           rate  == RateOf(fin, finPrice)
           entry == EntryOf(fin)
           print == [PrintRate EXCEPT !.single = printPrice]
<1> SUFFICES ASSUME job.mode = "SHEET", job.quantity > 0, job.paper.chosen, ~NoTotals(job),
                    SheetAt(job, paperPrice, printPrice) >= 0
             PROVE  row.line >= Floor(job, fin, paperPrice, printPrice, finPrice)
  BY DEF Covers
<1>1. SheetJob(job) /\ fin \in Fins
  BY JobsType DEF Row
<1>2. /\ rate \in FinishingRate /\ entry \in Entry /\ print \in PrintingRate
      /\ paperPrice \in Int
  BY <1>1, TablesType, RatesType
<1>3. row.line = SheetLine(job, rate, entry, paperPrice, print)
  BY DEF LineTotal
<1>4. SheetPrice(job, paperPrice, print) >= 0
  BY DEF SheetAt
<1>5. Floor(job, fin, paperPrice, printPrice, finPrice) =
        Finished(job, rate, entry, GoodSheets(job.quantity, Copies(job))
                                     * SheetPrice(job, paperPrice, print))
  BY DEF Floor, SheetAt
<1> HIDE DEF job, fin, rate, entry, print
<1> QED BY <1>1, <1>2, <1>3, <1>4, <1>5, LinesCoverGoodSheets

-----------------------------------------------------------------------------
(* Parts of a step *)

\* The live rates are prices of the tables.
LEMMA PricesType ==
    ASSUME PricingInv
    PROVE  /\ rates["paper"] \in Prices["paper"] /\ rates["paper"] \in Int
           /\ rates["printing"] \in Prices["printing"] /\ rates["printing"] \in Int
           /\ rates["finishing"] \in Prices["finishing"] /\ rates["finishing"] \in Int
<1>1. rates \in Rows
  BY DEF PricingInv, TypeOK, CardTypeOK
<1> QED BY <1>1, TablesType, CardAssumption DEF Rows, Tables

\* A call at work, with the parts of the invariant that speak of it.
LEMMA CallAtWork ==
    ASSUME PricingInv, NEW w \in Workers
    PROVE  /\ txn \in [Workers -> Call] /\ txn[w] \in Call /\ CallShape(txn[w])
           /\ \A i \in Items \ met[w] : Knows(txn[w], i, items[i])
           /\ ~late => SumHolds(txn[w])
           /\ \A v \in Workers \ {w} : AtWork(txn[w]) \cap AtWork(txn[v]) \subseteq met[w] \cap met[v]
           /\ \A v \in Workers : met[v] \subseteq AtWork(txn[v]) \cap disturbed
           /\ met \in [Workers -> SUBSET Items]
           /\ status \in {"DRAFT", "SUBMITTED", "AWAITING", "QUOTED"}
           /\ late \in BOOLEAN /\ disturbed \subseteq Items
           /\ items \in [Items -> Row \cup {Unused, Gone}]
           /\ calls \in 0 .. MaxCalls
BY DEF PricingInv, TypeOK, CallsKnow, Apart, CardTypeOK

\* An idle worker asks nothing of the invariant.
LEMMA IdleCall ==
    /\ Idle \in Call /\ Idle.call = "none" /\ Idle.step = "idle" /\ AtWork(Idle) = {}
    /\ Idle.left = {} /\ Idle.fin = "keep"
    /\ CallShape(Idle)
    /\ \A i \in Items : \A row : Knows(Idle, i, row) /\ ~Holding(Idle, i)
    /\ SumHolds(Idle)
<1>1. Idle \in Call /\ Idle.call = "none" /\ Idle.item = 0 /\ Idle.step = "idle"
      /\ Idle.left = {} /\ Idle.fin = "keep"
      /\ \A i \in Items : Idle.seen[i] = Unused /\ Idle.own[i] = Unused
  BY DEF Idle, Call, NoRows, Fins
<1>2. AtWork(Idle) = {}
  BY <1>1 DEF AtWork, Items
<1>3. CallShape(Idle)
  BY <1>1, NoRowIsGone
     DEF CallShape, ItemShape, EditShape, TweakShape, AddShape, SendShape, PriceShape
<1>4. \A i \in Items : \A row : Knows(Idle, i, row) /\ ~Holding(Idle, i)
  BY <1>1 DEF Knows, KnowsEdited, KnowsTweaked, KnowsSent, Holding
<1>5. SumHolds(Idle)
  BY <1>1 DEF SumHolds
<1> QED BY <1>1, <1>2, <1>3, <1>4, <1>5

\* What a call makes of its own memory, and of who met whom.
LEMMA CallsChange ==
    ASSUME PricingInv, NEW w \in Workers, NEW c \in Call, CallShape(c),
           txn' = [txn EXCEPT ![w] = c],
           met' \in [Workers -> SUBSET Items],
           \A v \in Workers \ {w} : /\ AtWork(c) \cap AtWork(txn[v]) \subseteq met'[w] \cap met'[v]
                                    /\ met[v] \subseteq met'[v]
                                    /\ met'[v] \subseteq AtWork(txn[v]) \cap disturbed',
           met'[w] \subseteq AtWork(c) \cap disturbed'
    PROVE  /\ \A v \in Workers : txn'[v] = IF v = w THEN c ELSE txn[v]
           /\ txn' \in [Workers -> Call]
           /\ \A v \in Workers : CallShape(txn[v])'
           /\ Apart'
<1>1. \A v \in Workers : txn'[v] = IF v = w THEN c ELSE txn[v]
  BY CallAtWork
<1>2. txn' \in [Workers -> Call]
  BY CallAtWork
<1>3. \A v \in Workers : CallShape(txn'[v])
  BY <1>1, CallAtWork
<1>4. \A v \in Workers : CallShape(txn[v])'
  BY <1>3 DEF CallShape, ItemShape, EditShape, TweakShape, AddShape, SendShape, PriceShape,
              Wrote, Covers, Fresh, SpecOf, Target
<1>5. Apart'
  <2>1. ASSUME NEW u \in Workers, NEW v \in Workers, u # v
        PROVE  AtWork(txn'[u]) \cap AtWork(txn'[v]) \subseteq met'[v]
    BY <1>1, <2>1, CallAtWork
  <2>2. ASSUME NEW v \in Workers PROVE met'[v] \subseteq AtWork(txn'[v]) \cap disturbed'
    BY <1>1, <2>2
  <2> QED BY <2>1, <2>2 DEF Apart, AtWork
<1> QED BY <1>1, <1>2, <1>4, <1>5

\* A call that touches neither the rows nor the offers.
LEMMA CallMoves ==
    ASSUME PricingInv, NEW w \in Workers, NEW c \in Call, CallShape(c),
           txn' = [txn EXCEPT ![w] = c],
           UNCHANGED <<card, rates, tabs, raced, items, offers>>, calls' \in 0 .. MaxCalls,
           status' \in {"DRAFT", "SUBMITTED", "AWAITING", "QUOTED"},
           late' \in BOOLEAN, late => late',
           disturbed \subseteq disturbed', disturbed' \subseteq Items,
           met' \in [Workers -> SUBSET Items],
           \A v \in Workers \ {w} : /\ AtWork(c) \cap AtWork(txn[v]) \subseteq met'[w] \cap met'[v]
                                    /\ met[v] \subseteq met'[v]
                                    /\ met'[v] \subseteq AtWork(txn[v]) \cap disturbed',
           met'[w] \subseteq AtWork(c) \cap disturbed',
           \A i \in Items \ met'[w] : Knows(c, i, items[i]),
           \A i \in Items \ disturbed' :
              Exists(i) /\ Holding(txn[w], i) => Holding(c, i) \/ Fresh(items[i]),
           ~late' => SumHolds(c)
    PROVE  PricingInv'
<1>1. /\ \A v \in Workers : txn'[v] = IF v = w THEN c ELSE txn[v]
      /\ txn' \in [Workers -> Call]
      /\ \A v \in Workers : CallShape(txn[v])'
      /\ Apart'
  BY CallsChange
<1>2. CardInv'
  <2>1. CardTypeOK' /\ OneLock'
    BY DEF PricingInv, CardInv, CardTypeOK, OneLock, Saved
  <2>2. ~raced' => Numbered(card.version, card.serial)' /\ PagesNumbered' /\ SaveHolds'
    BY DEF PricingInv, CardInv, Numbered, PagesNumbered, SaveHolds, NextVersion
  <2> QED BY <2>1, <2>2 DEF CardInv
<1>3. TypeOK'
  BY <1>1, <1>2 DEF PricingInv, TypeOK, CardInv
<1>4. RowsCover'
  BY DEF PricingInv, RowsCover, Present, Exists, Covers
<1>5. RowsFresh'
  BY <1>1 DEF PricingInv, RowsFresh, Present, Exists, Fresh, Holding
<1>6. CallsKnow'
  BY <1>1 DEF PricingInv, CallsKnow, Knows, KnowsEdited, KnowsTweaked, KnowsSent, Holding, Fresh,
              FinOf
<1>7. OffersInOrder' /\ SentOfferAddsUp'
  BY DEF PricingInv, OffersInOrder, SentOfferAddsUp, LineTotals, Present, Exists
<1>8. ~late' => \A v \in Workers : SumHolds(txn[v])'
  BY <1>1 DEF PricingInv, SumHolds, LinesSeen, LineSeen, Exists, Wrote
<1> QED BY <1>1, <1>2, <1>3, <1>4, <1>5, <1>6, <1>7, <1>8 DEF PricingInv

\* The end of a call.
LEMMA CallEnds ==
    ASSUME PricingInv, NEW w \in Workers, End(w), Unmoved, UNCHANGED <<items, offers>>,
           status' \in {"DRAFT", "SUBMITTED", "AWAITING", "QUOTED"},
           late' \in BOOLEAN, late => late',
           disturbed \subseteq disturbed', disturbed' \subseteq Items,
           \A i \in Items \ disturbed' : Exists(i) /\ Holding(txn[w], i) => Fresh(items[i])
    PROVE  PricingInv'
<1>1. calls' \in 0 .. MaxCalls /\ UNCHANGED <<card, rates, tabs, raced, items, offers>>
  BY CallAtWork DEF Unmoved, cardVars
<1>2. /\ txn' = [txn EXCEPT ![w] = Idle]
      /\ met' \in [Workers -> SUBSET Items] /\ met'[w] = {}
      /\ \A v \in Workers \ {w} : met'[v] = met[v]
  BY CallAtWork DEF End
<1>3. \A v \in Workers \ {w} : met[v] \subseteq AtWork(txn[v]) \cap disturbed'
  BY CallAtWork
<1> QED BY <1>1, <1>2, <1>3, IdleCall, CallMoves

\* The start of a call.
LEMMA CallStarts ==
    ASSUME PricingInv, NEW w \in Workers, NEW c \in Call, CallShape(c), Starts(w, c),
           \A i \in Items : Knows(c, i, items[i]),
           c.step # "commit"
    PROVE  PricingInv'
<1>1. calls' \in 0 .. MaxCalls /\ UNCHANGED <<card, rates, tabs, raced, items, offers, status, late>>
  BY CallAtWork, CardAssumption DEF Starts, OneMoreCall, PricingInv, TypeOK, CardTypeOK
<1>2. \A v \in Workers : Shared(w, c, v) = IF v = w THEN {} ELSE AtWork(c) \cap AtWork(txn[v])
  BY DEF Shared
<1>3. \A v \in Workers : AtWork(txn[v]) \subseteq Items /\ AtWork(c) \subseteq Items
  BY DEF AtWork
<1>4. /\ \A v \in Workers \ {w} : met'[v] = met[v] \cup Shared(w, c, v)
      /\ met'[w] = UNION {Shared(w, c, u) : u \in Workers}
      /\ DOMAIN met' = Workers
      /\ met' = [v \in Workers |-> met'[v]]
  BY DEF Starts
<1>5. met'[w] \subseteq AtWork(c) /\ \A v \in Workers : Shared(w, c, v) \subseteq met'[w]
  BY <1>2, <1>4
<1>6. disturbed' = disturbed \cup met'[w]
  BY DEF Starts
<1>7. disturbed \subseteq disturbed' /\ disturbed' \subseteq Items /\ met'[w] \subseteq disturbed'
  BY <1>3, <1>5, <1>6, CallAtWork
<1>8. ASSUME NEW v \in Workers \ {w}
      PROVE  /\ AtWork(c) \cap AtWork(txn[v]) \subseteq met'[w] \cap met'[v]
             /\ met[v] \subseteq met'[v]
             /\ met'[v] \subseteq AtWork(txn[v]) \cap disturbed'
  <2>1. met[v] \subseteq AtWork(txn[v]) \cap disturbed
    BY CallAtWork
  <2>2. Shared(w, c, v) = AtWork(c) \cap AtWork(txn[v])
    BY <1>2
  <2> QED BY <1>4, <1>5, <1>7, <2>1, <2>2
<1>9. met' \in [Workers -> SUBSET Items]
  <2>1. \A v \in Workers : met'[v] \in SUBSET Items
    BY <1>3, <1>5, <1>8
  <2> QED BY <1>4, <2>1
<1>10. txn' = [txn EXCEPT ![w] = c] /\ \A i \in Items : ~Holding(txn[w], i)
  BY IdleCall DEF Starts
<1>11. SumHolds(c)
  BY DEF SumHolds
<1>12. late' \in BOOLEAN /\ (late => late') /\ status' \in {"DRAFT", "SUBMITTED", "AWAITING", "QUOTED"}
  BY <1>1, CallAtWork
<1> QED BY <1>1, <1>5, <1>7, <1>8, <1>9, <1>10, <1>11, <1>12, CallMoves

\* The next step of a call that touches nothing but its own memory.
LEMMA CallGoesOn ==
    ASSUME PricingInv, NEW w \in Workers, NEW c \in Call, CallShape(c),
           txn' = [txn EXCEPT ![w] = c], Unmoved,
           UNCHANGED <<status, items, offers, late, met, disturbed>>,
           c.call = txn[w].call, c.item = txn[w].item,
           \A i \in Items \ met[w] : Knows(c, i, items[i]),
           \A i \in Items : Holding(txn[w], i) => Holding(c, i),
           ~late => SumHolds(c)
    PROVE  PricingInv'
<1>1. AtWork(c) = AtWork(txn[w])
  BY DEF AtWork
<1>2. calls' \in 0 .. MaxCalls /\ UNCHANGED <<card, rates, tabs, raced>>
  BY CallAtWork DEF Unmoved, cardVars
<1>3. /\ late' = late /\ met' = met /\ disturbed' = disturbed /\ status' = status
      /\ items' = items /\ offers' = offers
  OBVIOUS
<1>4. /\ \A v \in Workers \ {w} : /\ AtWork(c) \cap AtWork(txn[v]) \subseteq met'[w] \cap met'[v]
                                    /\ met[v] \subseteq met'[v]
                                    /\ met'[v] \subseteq AtWork(txn[v]) \cap disturbed'
      /\ met'[w] \subseteq AtWork(c) \cap disturbed'
      /\ met' \in [Workers -> SUBSET Items]
  BY <1>1, <1>3, CallAtWork
<1>5. /\ \A i \in Items \ met'[w] : Knows(c, i, items[i])
      /\ disturbed' \subseteq Items /\ disturbed \subseteq disturbed'
      /\ late' \in BOOLEAN /\ (late => late') /\ (~late' => SumHolds(c))
      /\ status' \in {"DRAFT", "SUBMITTED", "AWAITING", "QUOTED"}
  BY <1>3, CallAtWork
<1> QED BY <1>2, <1>4, <1>5, CallMoves

\* The offer in force still adds up when lines, links and presence stay, or when it is
\* the offers that stay and none is sent.
LEMMA OfferStays ==
    ASSUME PricingInv, UNCHANGED offers, late => late',
           \/ late' \/ ~Sent
           \/ \A i \in Items : /\ items'[i] \in Row <=> items[i] \in Row
                               /\ items[i] \in Row => /\ items'[i].line = items[i].line
                                                      /\ items'[i].offer = items[i].offer
    PROVE  SentOfferAddsUp'
<1>1. CASE late' \/ ~Sent
  BY <1>1 DEF SentOfferAddsUp, Sent
<1>2. CASE \A i \in Items : /\ items'[i] \in Row <=> items[i] \in Row
                            /\ items[i] \in Row => /\ items'[i].line = items[i].line
                                                   /\ items'[i].offer = items[i].offer
  <2>1. Present' = Present
    BY <1>2 DEF Present, Exists
  <2>2. LineTotals' = LineTotals
    BY <1>2 DEF LineTotals, Exists
  <2>3. \A i \in Present : items'[i].offer = items[i].offer
    BY <1>2 DEF Present, Exists
  <2>4. SentOfferAddsUp
    BY DEF PricingInv
  <2> QED BY <2>1, <2>2, <2>3, <2>4 DEF SentOfferAddsUp
<1> QED BY <1>1, <1>2

\* A call writes the item it is at work on: in time, or leaving its line as it is.
LEMMA ItemMoves ==
    ASSUME PricingInv, NEW w \in Workers, NEW c \in Call, CallShape(c),
           NEW i \in Items, NEW row \in Row \cup {Gone},
           txn[w].call \in {"edit", "tweak", "add", "remove"}, txn[w].item = i,
           txn' = [txn EXCEPT ![w] = c], items' = [items EXCEPT ![i] = row],
           Unmoved, UNCHANGED <<status, offers>>,
           \/ c = Idle /\ met' = [met EXCEPT ![w] = {}]
           \/ c.call = txn[w].call /\ c.item = i /\ met' = met,
           disturbed' = disturbed \/ (c = Idle /\ Settles(w, {i})),
           \/ Writes(w)
           \/ /\ late' = late /\ items[i] \in Row /\ row \in Row
              /\ row.line = items[i].line /\ row.offer = items[i].offer,
           row \in Row => Covers(row),
           i \notin met[w] => Knows(c, i, row) /\ (row \in Row => Fresh(row) \/ Holding(c, i))
    PROVE  PricingInv'
<1>1. AtWork(txn[w]) = {i} /\ AtWork(c) \subseteq {i} /\ c.call # "send"
      /\ (c.call # "none" => c.item = i /\ AtWork(c) = {i})
  BY IdleCall DEF AtWork
<1>2. met' \in [Workers -> SUBSET Items] /\ met'[w] \in {met[w], {}}
      /\ \A v \in Workers \ {w} : met'[v] = met[v]
  BY CallAtWork
<1>3. \A v \in Workers \ {w} : i \in AtWork(txn[v]) => i \in met[w] /\ i \in met[v]
  BY <1>1, CallAtWork
<1>4. \A v \in Workers \ {w} : i \in met[v] => i \in met[w]
  <2>1. \A v \in Workers : met[v] \subseteq AtWork(txn[v])
    BY CallAtWork
  <2> QED BY <1>3, <2>1
<1>5. /\ disturbed' \subseteq disturbed /\ disturbed \ {i} \subseteq disturbed'
      /\ i \in met[w] => i \in disturbed'
  <2>1. met[w] \subseteq disturbed
    BY CallAtWork
  <2> QED BY <2>1 DEF Settles
<1>6. \A v \in Workers \ {w} : met[v] \subseteq AtWork(txn[v]) \cap disturbed'
  <2>1. \A v \in Workers : met[v] \subseteq AtWork(txn[v]) \cap disturbed
    BY CallAtWork
  <2> QED BY <1>4, <1>5, <2>1
<1>7. met'[w] \subseteq AtWork(c) \cap disturbed'
  <2>1. CASE met' = [met EXCEPT ![w] = {}]
    BY <2>1, CallAtWork
  <2>2. CASE c.call = txn[w].call /\ c.item = i /\ met' = met
    <3>1. AtWork(c) = {i} /\ met[w] \subseteq {i}
      BY <1>1, <2>2, CallAtWork
    <3> QED BY <1>5, <2>2, <3>1
  <2> QED BY <2>1, <2>2
<1>8. \A v \in Workers \ {w} : AtWork(c) \cap AtWork(txn[v]) \subseteq met'[w] \cap met'[v]
  <2>1. CASE c = Idle
    BY <2>1, IdleCall
  <2>2. CASE c.call = txn[w].call /\ c.item = i /\ met' = met
    BY <1>1, <1>3, <2>2
  <2> QED BY <2>1, <2>2
<1>9. /\ \A v \in Workers : txn'[v] = IF v = w THEN c ELSE txn[v]
      /\ txn' \in [Workers -> Call]
      /\ \A v \in Workers : CallShape(txn[v])'
      /\ Apart'
  BY <1>2, <1>6, <1>7, <1>8, CallsChange
<1>10. \A j \in Items : items'[j] = IF j = i THEN row ELSE items[j]
  BY CallAtWork
<1>11. CardInv'
  BY CardStutters DEF PricingInv, Unmoved
<1>12. late' \in BOOLEAN /\ (late => late')
  <2>1. CASE Writes(w)
    BY <2>1 DEF Writes
  <2>2. CASE late' = late
    BY <2>2, CallAtWork
  <2> QED BY <2>1, <2>2
<1>13. TypeOK'
  <2>1. items' \in [Items -> Row \cup {Unused, Gone}]
    BY CallAtWork
  <2>2. disturbed' \subseteq Items
    BY <1>5, CallAtWork
  <2> QED BY <1>2, <1>9, <1>11, <1>12, <2>1, <2>2 DEF PricingInv, TypeOK, CardInv
<1>14. RowsCover'
  <2>1. \A j \in Items : items'[j] \in Row => Covers(items'[j])
    BY <1>10 DEF PricingInv, RowsCover, Present, Exists
  <2> QED BY <2>1 DEF RowsCover, Present, Exists, Covers
<1>15. RowsFresh'
  <2>1. \A j \in Items \ {i} : ~Holding(txn[w], j)
    BY DEF Holding
  <2>2. ASSUME NEW j \in Items \ disturbed', items'[j] \in Row
        PROVE  Fresh(items'[j]) \/ \E v \in Workers : Holding(txn'[v], j)
    <3>1. CASE j = i
      BY <1>5, <1>9, <1>10, <2>2, <3>1
    <3>2. CASE j # i
      <4>1. j \notin disturbed /\ items'[j] = items[j]
        BY <1>5, <1>10, <2>2, <3>2
      <4>2. Fresh(items[j]) \/ \E v \in Workers : Holding(txn[v], j)
        BY <2>2, <4>1 DEF PricingInv, RowsFresh, Present, Exists
      <4> QED BY <1>9, <2>1, <3>2, <4>1, <4>2
    <3> QED BY <3>1, <3>2
  <2> QED BY <2>2 DEF RowsFresh, Present, Exists, Fresh, Holding
<1>16. CallsKnow'
  <2>1. ASSUME NEW v \in Workers, NEW j \in Items \ met'[v]
        PROVE  Knows(txn'[v], j, items'[j])
    <3>1. CASE v = w /\ j = i
      <4>1. CASE c = Idle
        BY <1>9, <3>1, <4>1, IdleCall
      <4>2. CASE met' = met
        BY <1>9, <1>10, <2>1, <3>1, <4>2
      <4> QED BY <4>1, <4>2
    <3>2. CASE v = w /\ j # i
      BY <1>1, <1>9, <3>2 DEF Knows, KnowsEdited, KnowsTweaked, KnowsSent, Holding
    <3>3. CASE v # w /\ j = i
      <4>1. i \notin AtWork(txn[v])
        BY <1>2, <1>3, <2>1, <3>3
      <4>2. txn[v].call # "send" /\ txn[v].item # i
        BY <4>1 DEF AtWork
      <4> QED BY <1>9, <3>3, <4>2 DEF Knows, KnowsEdited, KnowsTweaked, KnowsSent, Holding
    <3>4. CASE v # w /\ j # i
      BY <1>2, <1>9, <1>10, <2>1, <3>4, CallAtWork
    <3> QED BY <3>1, <3>2, <3>3, <3>4
  <2> QED BY <2>1 DEF CallsKnow, Knows, KnowsEdited, KnowsTweaked, KnowsSent, Holding, Fresh, FinOf
<1>17. OffersInOrder'
  BY DEF PricingInv, OffersInOrder
<1>18. SentOfferAddsUp'
  <2>1. CASE Writes(w)
    BY <1>12, <2>1, OfferStays DEF Writes
  <2>2. CASE /\ late' = late /\ items[i] \in Row /\ row \in Row
             /\ row.line = items[i].line /\ row.offer = items[i].offer
    BY <1>10, <1>12, <2>2, OfferStays
  <2> QED BY <2>1, <2>2
<1>19. ASSUME ~late', NEW v \in Workers PROVE SumHolds(txn[v])'
  <2>1. CASE v = w
    BY <1>1, <1>9, <2>1 DEF SumHolds
  <2>2. CASE v # w /\ Writes(w)
    BY <1>9, <1>19, <2>2 DEF Writes, At, SumHolds
  <2>3. CASE /\ v # w /\ late' = late /\ items[i] \in Row /\ row \in Row
             /\ row.line = items[i].line
    <3>1. txn'[v] = txn[v] /\ SumHolds(txn[v])
      BY <1>9, <1>19, <2>3, CallAtWork
    <3>2. \A j \in Items : LineSeen(txn[v], j)' = LineSeen(txn[v], j)
      BY <1>9, <1>10, <2>3 DEF LineSeen, Exists, Wrote
    <3>3. LinesSeen(txn[v])' = LinesSeen(txn[v])
      BY <3>2 DEF LinesSeen
    <3> QED BY <3>1, <3>3 DEF SumHolds
  <2> QED BY <2>1, <2>2, <2>3
<1> QED BY <1>9, <1>11, <1>13, <1>14, <1>15, <1>16, <1>17, <1>18, <1>19 DEF PricingInv

-----------------------------------------------------------------------------
(* The calls begin *)

\* What a buyer may ask for.
LEMMA RequestType ==
    ASSUME NEW r \in Requests
    PROVE  r.job \in Names /\ r.fin \in Fins \cup {"keep"}
BY PricingAssumption DEF Names, Fins

\* The calls begin: an edit or a tweak,
LEMMA BeginChangeKeeps ==
    ASSUME PricingInv, NEW w \in Workers, BeginChange(w)
    PROVE  PricingInv'
<1>1. PICK i \in Present, r \in Requests :
        \/ Starts(w, [Idle EXCEPT !.call = "edit", !.step = "read", !.item = i,
                                  !.job = r.job, !.fin = r.fin])
        \/ Starts(w, [Idle EXCEPT !.call = "tweak", !.step = "write", !.item = i,
                                  !.job = r.job, !.fin = r.fin, !.seen[i] = items[i]])
  BY DEF BeginChange
<1>2. /\ i \in Items /\ items[i] \in Row /\ Covers(items[i])
      /\ r.job \in Names /\ r.fin \in Fins \cup {"keep"}
  BY RequestType DEF Present, Exists, PricingInv, RowsCover
<1> DEFINE e == [Idle EXCEPT !.call = "edit", !.step = "read", !.item = i,
                             !.job = r.job, !.fin = r.fin]
           t == [Idle EXCEPT !.call = "tweak", !.step = "write", !.item = i,
                             !.job = r.job, !.fin = r.fin, !.seen[i] = items[i]]
<1>3. CASE Starts(w, e)
  <2>1. /\ e \in Call
        /\ e.call = "edit" /\ e.step = "read" /\ e.item = i /\ e.job = r.job
        /\ \A j \in Items : e.seen[j] = Unused /\ e.own[j] = Unused
    BY <1>2, IdleCall DEF Call, Idle, NoRows
  <2> HIDE DEF e
  <2>2. CallShape(e)
    BY <1>2, <2>1, NoRowIsGone
       DEF CallShape, ItemShape, EditShape, TweakShape, AddShape, SendShape, PriceShape, Wrote
  <2>3. \A j \in Items : Knows(e, j, items[j])
    BY <2>1 DEF Knows, KnowsEdited, KnowsTweaked, KnowsSent, Holding, Saving
  <2> QED BY <1>3, <2>1, <2>2, <2>3, CallStarts
<1>4. CASE Starts(w, t)
  <2>1. /\ t \in Call
        /\ t.call = "tweak" /\ t.step = "write" /\ t.item = i /\ t.job = r.job
        /\ \A j \in Items : t.own[j] = Unused
        /\ \A j \in Items : t.seen[j] = IF j = i THEN items[i] ELSE Unused
    BY <1>2, IdleCall DEF Call, Idle, NoRows
  <2> HIDE DEF t
  <2>2. CallShape(t)
    BY <1>2, <2>1, NoRowIsGone
       DEF CallShape, ItemShape, EditShape, TweakShape, AddShape, SendShape, PriceShape
  <2>3. \A j \in Items : Knows(t, j, items[j])
    BY <2>1 DEF Knows, KnowsEdited, KnowsTweaked, KnowsSent, Holding
  <2> QED BY <1>4, <2>1, <2>2, <2>3, CallStarts
<1> QED BY <1>1, <1>3, <1>4

\* A removal,
LEMMA BeginRemoveKeeps ==
    ASSUME PricingInv, NEW w \in Workers, BeginRemove(w)
    PROVE  PricingInv'
<1>1. PICK i \in Present :
        Starts(w, [Idle EXCEPT !.call = "remove", !.step = "write", !.item = i])
  BY DEF BeginRemove
<1> DEFINE c == [Idle EXCEPT !.call = "remove", !.step = "write", !.item = i]
<1>2. /\ c \in Call /\ i \in Items
      /\ c.call = "remove" /\ c.step = "write" /\ c.item = i
      /\ \A j \in Items : c.seen[j] = Unused /\ c.own[j] = Unused
  BY <1>1, IdleCall DEF Call, Idle, NoRows, Present
<1>3. Starts(w, c)
  BY <1>1
<1> HIDE DEF c
<1>4. CallShape(c)
  BY <1>2, NoRowIsGone
     DEF CallShape, ItemShape, EditShape, TweakShape, AddShape, SendShape, PriceShape
<1>5. \A j \in Items : Knows(c, j, items[j])
  BY <1>2 DEF Knows, KnowsEdited, KnowsTweaked, KnowsSent, Holding
<1> QED BY <1>2, <1>3, <1>4, <1>5, CallStarts

\* A row that was just inserted has no price.
LEMMA NewRowType ==
    ASSUME NEW job \in Names, NEW fin \in Fins
    PROVE  /\ NewRow(job, fin) \in Row
           /\ NewRow(job, fin).job = job /\ NewRow(job, fin).fin = fin
           /\ NewRow(job, fin).of.job = ""
<1>1. NotPriced \in [job : Names \cup {""}, fin : Fins] /\ NotPriced.job = ""
  BY DEF NotPriced, Fins
<1>2. NewRow(job, fin) \in Row
  <2>1. ASSUME NEW of \in [job : Names \cup {""}, fin : Fins], NEW n \in Int, NEW k \in Nat,
               NEW b \in BOOLEAN
        PROVE  [job |-> job, fin |-> fin, line |-> n, of |-> of, offer |-> k, review |-> b] \in Row
    BY Zenon DEF Row
  <2>2. 0 \in Int /\ 0 \in Nat /\ FALSE \in BOOLEAN
    OBVIOUS
  <2> QED BY <1>1, <2>1, <2>2, Zenon DEF NewRow
<1>3. NewRow(job, fin).job = job /\ NewRow(job, fin).fin = fin
  BY DEF NewRow
<1>4. NewRow(job, fin).of = NotPriced
  BY DEF NewRow
<1> QED BY <1>1, <1>2, <1>3, <1>4

\* an addition, which nobody else knows of,
LEMMA BeginAddKeeps ==
    ASSUME PricingInv, NEW w \in Workers, BeginAdd(w)
    PROVE  PricingInv'
<1>1. PICK i \in Items, r \in Requests :
        LET row == NewRow(r.job, IF r.fin = "keep" THEN "none" ELSE r.fin)
        IN  Starts(w, [Idle EXCEPT !.call = "add", !.step = "price", !.item = i,
                                   !.job = r.job, !.fin = r.fin, !.seen[i] = row,
                                   !.own[i] = row])
  BY DEF BeginAdd
<1> DEFINE row == NewRow(r.job, IF r.fin = "keep" THEN "none" ELSE r.fin)
           c   == [Idle EXCEPT !.call = "add", !.step = "price", !.item = i,
                               !.job = r.job, !.fin = r.fin, !.seen[i] = row, !.own[i] = row]
<1>2. r.job \in Names /\ r.fin \in Fins \cup {"keep"}
  BY RequestType
<1>3. row \in Row /\ Covers(row)
  <2> DEFINE asked == IF r.fin = "keep" THEN "none" ELSE r.fin
  <2>1. asked \in Fins
    BY <1>2 DEF Fins
  <2> HIDE DEF asked
  <2>2. NewRow(r.job, asked) \in Row /\ NewRow(r.job, asked).of.job = ""
    BY <1>2, <2>1, NewRowType
  <2>3. Covers(NewRow(r.job, asked))
    BY <2>2 DEF Covers
  <2> QED BY <2>2, <2>3 DEF asked
<1>4. Starts(w, c)
  BY <1>1
<1> HIDE DEF row
<1>5. /\ c \in Call
      /\ c.call = "add" /\ c.step = "price" /\ c.item = i /\ c.fin = r.fin
      /\ \A j \in Items : c.seen[j] = IF j = i THEN row ELSE Unused
      /\ \A j \in Items : c.own[j] = IF j = i THEN row ELSE Unused
  <2>1. /\ Idle \in Call
        /\ \A j \in Items : Idle.seen[j] = Unused /\ Idle.own[j] = Unused
    BY IdleCall DEF Idle, NoRows
  <2>2. [Idle.seen EXCEPT ![i] = row] \in [Items -> Row \cup {Unused}]
        /\ [Idle.own EXCEPT ![i] = row] \in [Items -> Row \cup {Unused}]
    BY <1>3, <2>1 DEF Call
  <2> QED BY <1>2, <1>3, <2>1, <2>2 DEF Call
<1> HIDE DEF c
<1>6. CallShape(c)
  BY <1>3, <1>5, NoRowIsGone
     DEF CallShape, ItemShape, EditShape, TweakShape, AddShape, SendShape, PriceShape
<1>7. \A j \in Items : Knows(c, j, items[j])
  BY <1>5 DEF Knows, KnowsEdited, KnowsTweaked, KnowsSent, Holding
<1> QED BY <1>4, <1>5, <1>6, <1>7, CallStarts

\* a submission,
LEMMA BeginSubmitKeeps ==
    ASSUME PricingInv, NEW w \in Workers, BeginSubmit(w)
    PROVE  PricingInv'
<1> DEFINE c == [Idle EXCEPT !.call = "submit", !.step = "write"]
<1>1. Starts(w, c)
  BY DEF BeginSubmit
<1>2. /\ c \in Call /\ c.call = "submit" /\ c.step = "write"
      /\ \A j \in Items : c.seen[j] = Unused /\ c.own[j] = Unused
  BY IdleCall DEF Call, Idle, NoRows
<1> HIDE DEF c
<1>3. CallShape(c)
  BY <1>2, NoRowIsGone
     DEF CallShape, ItemShape, EditShape, TweakShape, AddShape, SendShape, PriceShape
<1>4. \A j \in Items : Knows(c, j, items[j])
  BY <1>2 DEF Knows, KnowsEdited, KnowsTweaked, KnowsSent, Holding
<1> QED BY <1>1, <1>2, <1>3, <1>4, CallStarts

\* and a send.
LEMMA BeginSendKeeps ==
    ASSUME PricingInv, NEW w \in Workers, BeginSend(w)
    PROVE  PricingInv'
<1> DEFINE c == [Idle EXCEPT !.call = "send", !.step = "fetch"]
<1>1. Starts(w, c)
  BY DEF BeginSend
<1>2. /\ c \in Call /\ c.call = "send" /\ c.step = "fetch" /\ c.left = {}
      /\ c.seen = NoRows /\ c.own = NoRows
      /\ \A j \in Items : c.seen[j] = Unused /\ c.own[j] = Unused
  BY IdleCall DEF Call, Idle, NoRows
<1> HIDE DEF c
<1>3. CallShape(c)
  BY <1>2, NoRowIsGone
     DEF CallShape, ItemShape, EditShape, TweakShape, AddShape, SendShape, PriceShape
<1>4. \A j \in Items : Knows(c, j, items[j])
  BY <1>2, NoRowIsGone DEF Knows, KnowsEdited, KnowsTweaked, KnowsSent, Holding
<1> QED BY <1>1, <1>2, <1>3, <1>4, CallStarts

-----------------------------------------------------------------------------
(* The buyer's calls *)

\* Only the line and what it was made for decide whether a row covers its sheets.
LEMMA SameLineCovers ==
    ASSUME NEW row, NEW other, Covers(row), other.of = row.of, other.line = row.line
    PROVE  Covers(other)
<1> DEFINE job == Jobs[row.of.job]
<1>1. other.of.job = row.of.job /\ Jobs[other.of.job] = job /\ other.of.fin = row.of.fin
  OBVIOUS
<1>2. Covers(row) = Covers(other)
  <2> HIDE DEF job
  <2> QED BY <1>1 DEF Covers, job
<1> QED BY <1>2

\* The request leaves DRAFT.
LEMMA SubmitKeeps ==
    ASSUME PricingInv, NEW w \in Workers, Submit(w)
    PROVE  PricingInv'
<1>1. \A i \in Items : ~Holding(txn[w], i)
  BY DEF Submit, At, Holding
<1>2. late' \in BOOLEAN /\ (late => late') /\ status' = "SUBMITTED" /\ disturbed' = disturbed
  BY CallAtWork DEF Submit
<1> QED BY <1>1, <1>2, CallAtWork, CallEnds DEF Submit

\* An edit reads its item.
LEMMA ReadKeeps ==
    ASSUME PricingInv, NEW w \in Workers, Read(w)
    PROVE  PricingInv'
<1> DEFINE i == txn[w].item
           c == [txn[w] EXCEPT !.seen[i] = items[i], !.step = "write"]
<1>1. /\ txn[w] \in Call /\ txn[w].call = "edit" /\ txn[w].step = "read" /\ i \in Items
      /\ CallShape(txn[w])
  BY CallAtWork DEF Read, At, CallShape, ItemShape
<1>2. CASE Exists(i)
  <2>0. ~ (~Exists(i) /\ End(w))
    BY <1>2
  <2>1. txn' = [txn EXCEPT ![w] = c] /\ UNCHANGED met
    BY <1>1, <2>0 DEF Read
  <2>2. items[i] \in Row /\ Covers(items[i])
    BY <1>1, <1>2 DEF Exists, PricingInv, RowsCover, Present
  <2>3. /\ c \in Call
        /\ c.call = "edit" /\ c.step = "write" /\ c.item = i /\ c.own = txn[w].own
        /\ c.job = txn[w].job
        /\ \A j \in Items : c.seen[j] = IF j = i THEN items[i] ELSE txn[w].seen[j]
    BY <1>1, <2>2 DEF Call
  <2> HIDE DEF c
  <2>4. CallShape(c)
    BY <1>1, <2>2, <2>3
       DEF CallShape, ItemShape, EditShape, TweakShape, AddShape, SendShape, PriceShape, Wrote, Saving
  <2>5. (\A j \in Items : Knows(c, j, items[j])) /\ SumHolds(c)
    BY <2>3 DEF Knows, KnowsEdited, KnowsTweaked, KnowsSent, Holding, Saving, SumHolds
  <2>6. \A j \in Items : ~Holding(txn[w], j)
    BY <1>1 DEF Holding, Saving
  <2> QED BY <1>1, <2>1, <2>3, <2>4, <2>5, <2>6, CallGoesOn DEF Read
<1>3. CASE ~Exists(i)
  <2>1. End(w) /\ \A j \in Items : ~Holding(txn[w], j)
    BY <1>1, <1>3 DEF Read, Holding, Saving
  <2> QED BY <2>1, CallAtWork, CallEnds DEF Read
<1> QED BY <1>2, <1>3

\* A write is late or not.
LEMMA WritesType ==
    ASSUME PricingInv, NEW w \in Workers, Writes(w)
    PROVE  late' \in BOOLEAN /\ (late => late')
BY DEF Writes

\* A removal deletes it, if it is there.
LEMMA DestroyKeeps ==
    ASSUME PricingInv, NEW w \in Workers, Destroy(w)
    PROVE  PricingInv'
<1> DEFINE i == txn[w].item
<1>1. txn[w].call = "remove" /\ i \in Items
  BY CallAtWork DEF Destroy, At, CallShape, ItemShape
<1>2. CASE Exists(i)
  <2>1. items' = [items EXCEPT ![i] = Gone] /\ txn' = [txn EXCEPT ![w] = Idle]
        /\ met' = [met EXCEPT ![w] = {}]
    BY <1>2 DEF Destroy, End
  <2>2. Writes(w) /\ Unmoved /\ UNCHANGED <<status, offers>> /\ disturbed' = disturbed
    BY DEF Destroy
  <2>3. Gone \in Row \cup {Gone} /\ Gone \notin Row /\ Knows(Idle, i, Gone)
        /\ Idle \in Call /\ CallShape(Idle)
    BY <1>1, NoRowIsGone, IdleCall
  <2> QED BY <1>1, <2>1, <2>2, <2>3, ItemMoves
<1>3. CASE ~Exists(i)
  <2>1. items' = items /\ disturbed' = disturbed
    BY <1>3 DEF Destroy
  <2>2. late' \in BOOLEAN /\ (late => late')
    BY WritesType DEF Destroy
  <2>3. \A j \in Items : ~Holding(txn[w], j)
    BY <1>1 DEF Holding
  <2> QED BY <2>1, <2>2, <2>3, CallAtWork, CallEnds DEF Destroy
<1> QED BY <1>2, <1>3

\* The finishing of an item.
LEMMA FinishesType ==
    ASSUME NEW i \in Items
    PROVE  Finishes(i) = FinOf(items[i]) /\ Finishes(i) \in Fins
BY DEF Finishes, FinOf, Exists, Row, Fins

\* The row an edit or a tweak saves.
LEMMA SavedRowType ==
    ASSUME PricingInv, NEW w \in Workers, NEW i \in Items, i = txn[w].item,
           txn[w].call \in {"edit", "tweak"}, txn[w].seen[i] \in Row
    PROVE  /\ SavedRow(w, i) \in Row /\ Covers(SavedRow(w, i))
           /\ SavedRow(w, i).job = txn[w].job
           /\ SavedRow(w, i).fin = Finishes(i)
<1>1. txn[w].job \in Names /\ Finishes(i) \in Fins
  BY CallAtWork, FinishesType DEF CallShape, ItemShape
<1>2. Covers(txn[w].seen[i])
  BY CallAtWork DEF CallShape, PriceShape
<1>3. SavedRow(w, i) = [txn[w].seen[i] EXCEPT !.job = txn[w].job, !.fin = Finishes(i)]
  BY DEF SavedRow
<1>4. SavedRow(w, i) \in Row
  BY <1>1, <1>3 DEF Row
<1>5. /\ SavedRow(w, i).job = txn[w].job
      /\ SavedRow(w, i).fin = Finishes(i)
      /\ SavedRow(w, i).of = txn[w].seen[i].of /\ SavedRow(w, i).line = txn[w].seen[i].line
  BY <1>3 DEF Row
<1>6. Covers(SavedRow(w, i))
  BY <1>2, <1>5, SameLineCovers
<1> QED BY <1>4, <1>5, <1>6

\* An edit saves the specification,
LEMMA SaveKeeps ==
    ASSUME PricingInv, NEW w \in Workers, Save(w)
    PROVE  PricingInv'
<1> DEFINE i   == txn[w].item
           row == SavedRow(w, i)
           c   == [txn[w] EXCEPT !.seen[i] = row, !.step = AfterSave(w)]
<1>1. /\ txn[w] \in Call /\ txn[w].call = "edit" /\ txn[w].step = "write" /\ i \in Items
      /\ txn[w].seen[i] \in Row /\ CallShape(txn[w])
  BY CallAtWork DEF Save, At, CallShape, ItemShape, EditShape
<1>2. /\ row \in Row /\ Covers(row)
  BY <1>1, SavedRowType
<1>3. txn' = [txn EXCEPT ![w] = c] /\ items' = [items EXCEPT ![i] = row]
  BY <1>1 DEF Save
<1> HIDE DEF row
<1>4. AfterSave(w) \in {"clear", "price"} /\ (AfterSave(w) = "clear" => txn[w].fin # "keep")
  BY DEF AfterSave
<1>5. /\ c \in Call
      /\ c.call = "edit" /\ c.step \in {"clear", "price"} /\ c.item = i /\ c.own = txn[w].own
      /\ c.job = txn[w].job /\ (c.step = "clear" => c.fin # "keep")
      /\ \A j \in Items : c.seen[j] = IF j = i THEN row ELSE txn[w].seen[j]
  BY <1>1, <1>2, <1>4 DEF Call
<1> HIDE DEF c
<1>6. CallShape(c)
  BY <1>1, <1>2, <1>5
     DEF CallShape, ItemShape, EditShape, TweakShape, AddShape, SendShape, PriceShape, Wrote, Saving
<1>7. Knows(c, i, row) /\ Holding(c, i)
  BY <1>1, <1>2, <1>5 DEF Knows, KnowsEdited, KnowsTweaked, KnowsSent, Holding, Saving
<1>8. Writes(w) /\ Unmoved /\ UNCHANGED <<status, offers>> /\ met' = met /\ disturbed' = disturbed
  BY DEF Save
<1> QED BY <1>1, <1>2, <1>3, <1>5, <1>6, <1>7, <1>8, ItemMoves

\* deletes the finishings,
LEMMA ClearKeeps ==
    ASSUME PricingInv, NEW w \in Workers, Clear(w)
    PROVE  PricingInv'
<1> DEFINE i    == txn[w].item
           next == IF txn[w].fin = "none" THEN "price" ELSE "attach"
           c    == [txn[w] EXCEPT !.step = next]
           row  == [items[i] EXCEPT !.fin = "none"]
<1>1. /\ txn[w] \in Call /\ txn[w].call = "edit" /\ txn[w].step = "clear" /\ i \in Items
      /\ CallShape(txn[w])
  BY CallAtWork DEF Clear, At, CallShape, ItemShape
<1>2. txn' = [txn EXCEPT ![w] = c]
  BY <1>1 DEF Clear, Goto
<1>3. /\ c \in Call
      /\ c.call = "edit" /\ c.step \in {"attach", "price"} /\ c.item = i /\ c.own = txn[w].own
      /\ c.job = txn[w].job /\ c.seen = txn[w].seen /\ c.fin = txn[w].fin
  BY <1>1 DEF Call
<1> HIDE DEF c, next
<1>4. CallShape(c)
  BY <1>1, <1>3
     DEF CallShape, ItemShape, EditShape, TweakShape, AddShape, SendShape, PriceShape, Wrote, Saving
<1>5. Holding(c, i) /\ Holding(txn[w], i)
  BY <1>1, <1>3 DEF Holding, Saving
<1>6. i \notin met[w] => items[i] \in Row /\ items[i].job = c.seen[i].job
  BY <1>1, <1>3, <1>5, CallAtWork DEF Knows, KnowsEdited
<1>7. /\ Unmoved /\ UNCHANGED <<status, offers>> /\ late' = late /\ met' = met
      /\ disturbed' = disturbed
  BY DEF Clear
<1>8. CASE Exists(i)
  <2>1. items[i] \in Row /\ Covers(items[i])
    BY <1>1, <1>8 DEF Exists, PricingInv, RowsCover, Present
  <2>2. items' = [items EXCEPT ![i] = row]
    BY <1>1, <1>8, CallAtWork DEF Clear
  <2>3. /\ row \in Row /\ row.job = items[i].job /\ row.of = items[i].of
        /\ row.line = items[i].line /\ row.offer = items[i].offer
    BY <2>1 DEF Row, Fins
  <2> HIDE DEF row
  <2>4. Covers(row)
    BY <2>1, <2>3, SameLineCovers
  <2>5. i \notin met[w] => Knows(c, i, row)
    BY <1>3, <1>6, <2>3 DEF Knows, KnowsEdited, KnowsTweaked, KnowsSent
  <2> QED BY <1>1, <1>2, <1>3, <1>4, <1>5, <1>7, <2>1, <2>2, <2>3, <2>4, <2>5, ItemMoves
<1>9. CASE ~Exists(i)
  <2>1. items' = items
    BY <1>9 DEF Clear
  <2>2. i \in met[w]
    BY <1>1, <1>6, <1>9 DEF Exists
  <2>3. \A j \in Items \ met[w] : Knows(c, j, items[j])
    BY <1>3, <2>2 DEF Knows, KnowsEdited, KnowsTweaked, KnowsSent, Holding
  <2>4. \A j \in Items : Holding(txn[w], j) => Holding(c, j)
    BY <1>3, <1>5 DEF Holding
  <2>5. SumHolds(c)
    BY <1>3 DEF SumHolds
  <2> QED BY <1>1, <1>2, <1>3, <1>4, <1>7, <2>1, <2>3, <2>4, <2>5, CallGoesOn
<1> QED BY <1>8, <1>9

\* and attaches the new one.
LEMMA AttachKeeps ==
    ASSUME PricingInv, NEW w \in Workers, Attach(w)
    PROVE  PricingInv'
<1> DEFINE i   == txn[w].item
           c   == [txn[w] EXCEPT !.step = "price"]
           row == [items[i] EXCEPT !.fin = txn[w].fin]
<1>1. /\ txn[w] \in Call /\ txn[w].call = "edit" /\ txn[w].step = "attach" /\ i \in Items
      /\ CallShape(txn[w])
  BY CallAtWork DEF Attach, At, CallShape, ItemShape
<1>2. items[i] \in Row /\ Covers(items[i]) /\ txn[w].fin \in Fins
  <2>1. items[i] \in Row /\ Covers(items[i])
    BY <1>1 DEF Attach, Exists, PricingInv, RowsCover, Present
  <2>2. txn[w].fin \in Fins \cup {"keep"} /\ txn[w].fin # "keep"
    BY <1>1 DEF Call, CallShape, EditShape
  <2> QED BY <2>1, <2>2
<1>3. txn' = [txn EXCEPT ![w] = c] /\ items' = [items EXCEPT ![i] = row]
  BY <1>1, CallAtWork DEF Attach, Goto
<1>4. /\ c \in Call
      /\ c.call = "edit" /\ c.step = "price" /\ c.item = i /\ c.own = txn[w].own
      /\ c.job = txn[w].job /\ c.seen = txn[w].seen
  BY <1>1 DEF Call
<1>5. /\ row \in Row /\ row.job = items[i].job /\ row.of = items[i].of
      /\ row.line = items[i].line /\ row.offer = items[i].offer
  BY <1>2 DEF Row
<1> HIDE DEF c, row
<1>6. CallShape(c)
  BY <1>1, <1>4
     DEF CallShape, ItemShape, EditShape, TweakShape, AddShape, SendShape, PriceShape, Wrote, Saving
<1>7. Holding(c, i) /\ Holding(txn[w], i) /\ Covers(row)
  BY <1>1, <1>2, <1>4, <1>5, SameLineCovers DEF Holding, Saving
<1>8. i \notin met[w] => items[i].job = c.seen[i].job
  BY <1>1, <1>4, <1>7, CallAtWork DEF Knows, KnowsEdited
<1>9. i \notin met[w] => Knows(c, i, row)
  BY <1>4, <1>5, <1>8 DEF Knows, KnowsEdited, KnowsTweaked, KnowsSent
<1>10. /\ Unmoved /\ UNCHANGED <<status, offers>> /\ late' = late /\ met' = met
       /\ disturbed' = disturbed
  BY DEF Attach
<1> QED BY <1>1, <1>2, <1>3, <1>4, <1>5, <1>6, <1>7, <1>9, <1>10, ItemMoves

\* A tweak writes all of it, unseen by the others.
LEMMA TweakWriteKeeps ==
    ASSUME PricingInv, NEW w \in Workers, TweakWrite(w)
    PROVE  PricingInv'
<1> DEFINE i   == txn[w].item
           now == Finishes(i)
           fin == IF txn[w].fin = "keep" THEN now ELSE txn[w].fin
           row == [SavedRow(w, i) EXCEPT !.fin = fin]
           c   == [txn[w] EXCEPT !.own[i] = row, !.step = "price", !.seen[i].fin = now]
<1>1. /\ txn[w] \in Call /\ txn[w].call = "tweak" /\ txn[w].step = "write" /\ i \in Items
      /\ txn[w].seen[i] \in Row /\ CallShape(txn[w])
  BY CallAtWork DEF TweakWrite, At, CallShape, ItemShape, TweakShape
<1>2. /\ SavedRow(w, i) \in Row /\ Covers(SavedRow(w, i))
      /\ SavedRow(w, i).fin = now /\ now \in Fins /\ now = FinOf(items[i])
  BY <1>1, SavedRowType, FinishesType
<1>3. txn' = [txn EXCEPT ![w] = c]
  BY <1>1, CallAtWork DEF TweakWrite
<1>4. fin \in Fins
  BY <1>1, <1>2 DEF Call
<1> HIDE DEF now
<1>5. row \in Row /\ row.fin = fin /\ row.of = SavedRow(w, i).of /\ row.line = SavedRow(w, i).line
  BY <1>2, <1>4 DEF Row
<1>6. Covers(row)
  BY <1>2, <1>5, SameLineCovers
<1> DEFINE saw == [txn[w].seen[i] EXCEPT !.fin = now]
<1>7. /\ saw \in Row /\ saw.fin = now
      /\ saw.of = txn[w].seen[i].of /\ saw.line = txn[w].seen[i].line
  BY <1>1, <1>2 DEF Row
<1>8. Covers(saw)
  <2>1. Covers(txn[w].seen[i])
    BY <1>1 DEF CallShape, PriceShape
  <2> QED BY <1>7, <2>1, SameLineCovers
<1> HIDE DEF row
<1>9. c = [txn[w] EXCEPT !.own[i] = row, !.step = "price", !.seen[i] = saw]
  BY <1>1 DEF Call
<1> HIDE DEF saw, c
<1>10. /\ c \in Call
       /\ c.call = "tweak" /\ c.step = "price" /\ c.item = i /\ c.job = txn[w].job
       /\ c.fin = txn[w].fin
       /\ \A j \in Items : c.seen[j] = IF j = i THEN saw ELSE txn[w].seen[j]
       /\ \A j \in Items : c.own[j] = IF j = i THEN row ELSE txn[w].own[j]
  BY <1>1, <1>5, <1>7, <1>9 DEF Call
<1>11. CallShape(c)
  BY <1>1, <1>5, <1>6, <1>7, <1>8, <1>10
     DEF CallShape, ItemShape, EditShape, TweakShape, AddShape, SendShape, PriceShape
<1>12. (\A j \in Items : Knows(c, j, items[j])) /\ SumHolds(c)
  BY <1>1, <1>2, <1>7, <1>10
     DEF Knows, KnowsEdited, KnowsTweaked, KnowsSent, Holding, SumHolds
<1>13. \A j \in Items : ~Holding(txn[w], j)
  BY <1>1 DEF Holding
<1>14. Unmoved /\ UNCHANGED <<status, items, offers, late, met, disturbed>>
  BY DEF TweakWrite
<1> QED BY <1>1, <1>3, <1>10, <1>11, <1>12, <1>13, <1>14, CallGoesOn

\* The item a pricing is about, and its specification.
LEMMA TargetType ==
    ASSUME PricingInv, NEW w \in Workers, txn[w].step \in {"price", "store"}
    PROVE  LET i == Target(txn[w])
           IN  /\ txn[w].call \in {"edit", "tweak", "add", "send"}
               /\ i \in Items
               /\ txn[w].call = "send" => /\ i = Min(txn[w].left) /\ i \in txn[w].left
                                          /\ i \notin Wrote(txn[w]) /\ txn[w].seen[i] \in Row
               /\ txn[w].call # "send" => i = txn[w].item
               /\ txn[w].call \in {"tweak", "add"} => i \in Wrote(txn[w])
               /\ txn[w].call = "edit" => i \notin Wrote(txn[w]) /\ txn[w].seen[i] \in Row
               /\ SpecOf(txn[w]) = IF i \in Wrote(txn[w]) THEN txn[w].own[i].job
                                   ELSE txn[w].seen[i].job
               /\ SpecOf(txn[w]) \in Names
<1> DEFINE i == Target(txn[w])
<1>1. txn[w] \in Call /\ CallShape(txn[w])
  BY CallAtWork
<1>2. txn[w].call # "none" /\ txn[w].call \notin {"submit", "remove"}
  BY <1>1, IdleCall DEF CallShape, ItemShape
<1>3. txn[w].call \in {"edit", "tweak", "add", "send"}
  BY <1>1, <1>2 DEF Call
<1>4. txn[w].call = "send" => /\ i = Min(txn[w].left) /\ i \in txn[w].left /\ i \in Items
                              /\ i \notin Wrote(txn[w]) /\ txn[w].seen[i] \in Row
  <2> SUFFICES ASSUME txn[w].call = "send"
               PROVE  /\ i = Min(txn[w].left) /\ i \in txn[w].left /\ i \in Items
                      /\ i \notin Wrote(txn[w]) /\ txn[w].seen[i] \in Row
    OBVIOUS
  <2>1. txn[w].left \subseteq Items /\ txn[w].left # {}
    BY <1>1 DEF Call, CallShape, SendShape
  <2>2. txn[w].left \in SUBSET Nat
    BY <2>1, PricingAssumption DEF Items
  <2>3. Min(txn[w].left) \in txn[w].left
    BY <2>1, <2>2, MinOfNumbers
  <2> QED BY <1>1, <2>1, <2>3 DEF Target, CallShape, SendShape, Wrote
<1>5. txn[w].call # "send" => i = txn[w].item /\ i \in Items
  BY <1>1, <1>3 DEF Target, CallShape, ItemShape
<1>6. txn[w].call \in {"tweak", "add"} => i \in Wrote(txn[w])
  BY <1>1, <1>5 DEF CallShape, TweakShape, AddShape, Wrote
<1>7. txn[w].call = "edit" => i \notin Wrote(txn[w]) /\ txn[w].seen[i] \in Row
  BY <1>1, <1>5 DEF CallShape, EditShape
<1>8. SpecOf(txn[w]) = IF i \in Wrote(txn[w]) THEN txn[w].own[i].job ELSE txn[w].seen[i].job
  BY DEF SpecOf
<1> HIDE DEF i
<1>9. SpecOf(txn[w]) \in Names
  BY <1>3, <1>4, <1>6, <1>7, <1>8 DEF Wrote, Row
<1> QED BY <1>3, <1>4, <1>5, <1>6, <1>7, <1>8, <1>9 DEF i

\* What a pricing makes of a row.
LEMMA PricedRow ==
    ASSUME PricingInv, NEW w \in Workers, txn[w].step = "store", NEW row \in Row
    PROVE  /\ Priced(w, row) \in Row
           /\ Covers(Priced(w, row))
           /\ Priced(w, row).job = row.job
           /\ Priced(w, row).fin = row.fin
           /\ Priced(w, row).of = [job |-> SpecOf(txn[w]), fin |-> txn[w].finRow]
           /\ Priced(w, row).offer = row.offer
<1> DEFINE c    == txn[w]
           name == SpecOf(c)
           of   == [job |-> name, fin |-> c.finRow]
           line == LineTotal(Jobs[name], c.finRow, c.paper, c.finPrice, rates["printing"])
<1>1. c \in Call /\ PriceShape(c) /\ name \in Names
  BY TargetType, CallAtWork DEF CallShape
<1>2. /\ c.finRow \in Fins /\ c.paper \in Prices["paper"] /\ c.finPrice \in Prices["finishing"]
      /\ c.paper \in Int /\ c.finPrice \in Int /\ Jobs[name].mode = "SHEET"
      /\ rates["printing"] \in Prices["printing"] /\ rates["printing"] \in Int
  BY <1>1, PricesType DEF Call, PriceShape
<1>3. line \in Int
  BY <1>1, <1>2, LineTotalType
<1>4. Priced(w, row) = [row EXCEPT !.line = line, !.of = of, !.review = FALSE]
  BY DEF Priced
<1>5. of \in [job : Names \cup {""}, fin : Fins] /\ of.job = name /\ of.fin = c.finRow
  BY <1>1, <1>2
<1> HIDE DEF line, of
<1>6. /\ Priced(w, row) \in Row
      /\ Priced(w, row).line = line /\ Priced(w, row).of = of
      /\ Priced(w, row).job = row.job
      /\ Priced(w, row).fin = row.fin
      /\ Priced(w, row).offer = row.offer
  BY <1>3, <1>4, <1>5 DEF Row
<1>7. Covers(Priced(w, row))
  <2> DEFINE new == Priced(w, row)
  <2>1. new \in Row /\ new.of.job = name /\ new.of.fin = c.finRow /\ new.line = line
    BY <1>5, <1>6
  <2>2. new.line = LineTotal(Jobs[new.of.job], new.of.fin, c.paper, c.finPrice, rates["printing"])
    BY <2>1 DEF line
  <2> HIDE DEF new, name, c
  <2> QED BY <1>1, <1>2, <2>1, <2>2, LineTotalCovers DEF new
<1> QED BY <1>6, <1>7 DEF of

\* The pricing reads what it is made of.
LEMMA PriceKeeps ==
    ASSUME PricingInv, NEW w \in Workers, Price(w)
    PROVE  PricingInv'
<1> DEFINE i   == Target(txn[w])
           fin == FinishingSeen(txn[w], i)
           c   == [txn[w] EXCEPT !.paper = rates["paper"], !.finPrice = rates["finishing"],
                                 !.finRow = fin, !.step = "store"]
<1>1. txn[w] \in Call /\ CallShape(txn[w]) /\ txn[w].step = "price"
  BY CallAtWork DEF Price
<1>2. i \in Items /\ Finishes(i) \in Fins /\ Finishes(i) = FinOf(items[i])
  BY <1>1, TargetType, FinishesType
<1>3. fin = IF txn[w].call = "add" \/ HoldsFinishing(txn[w], i) THEN txn[w].own[i].fin
            ELSE FinOf(items[i])
  BY <1>2 DEF FinishingSeen
<1>4. fin \in Fins
  <2>1. txn[w].call = "add" \/ HoldsFinishing(txn[w], i) => txn[w].own[i] \in Row
    BY <1>1, TargetType DEF HoldsFinishing, Wrote
  <2> QED BY <1>2, <1>3, <2>1 DEF Row
<1>5. txn' = [txn EXCEPT ![w] = c]
  BY <1>1, CallAtWork DEF Price
<1>6. /\ rates["paper"] \in Prices["paper"] /\ rates["finishing"] \in Prices["finishing"]
      /\ rates["paper"] \in Int /\ rates["finishing"] \in Int
  BY PricesType
<1> HIDE DEF fin, i
<1>7. /\ c \in Call
      /\ c.step = "store" /\ c.finRow = fin
      /\ c.paper \in Prices["paper"] /\ c.finPrice \in Prices["finishing"]
      /\ c.call = txn[w].call /\ c.item = txn[w].item /\ c.job = txn[w].job /\ c.fin = txn[w].fin
      /\ c.seen = txn[w].seen /\ c.own = txn[w].own /\ c.left = txn[w].left
  BY <1>1, <1>4, <1>6 DEF Call
<1> HIDE DEF c
<1>8. Wrote(c) = Wrote(txn[w]) /\ Target(c) = i /\ SpecOf(c) = SpecOf(txn[w])
  BY <1>7 DEF Wrote, Target, SpecOf, i
<1>9. CallShape(c)
  <2>1. ItemShape(c)
    BY <1>1, <1>7, TargetType DEF CallShape, ItemShape
  <2>2. EditShape(c)
    BY <1>1, <1>7, <1>8, TargetType DEF CallShape, EditShape, Saving
  <2>3. SendShape(c)
    BY <1>1, <1>7 DEF CallShape, SendShape
  <2>4. PriceShape(c)
    BY <1>1, <1>7, <1>8 DEF CallShape, PriceShape, Price
  <2>5. TweakShape(c)
    BY <1>1, <1>7 DEF CallShape, TweakShape
  <2>6. AddShape(c)
    <3>1. txn[w].call = "add" => i = txn[w].item
      BY <1>1, TargetType DEF i
    <3> QED BY <1>1, <1>3, <1>7, <3>1 DEF CallShape, AddShape
  <2> QED BY <2>1, <2>2, <2>3, <2>4, <2>5, <2>6 DEF CallShape
<1>10. ASSUME NEW j \in Items \ met[w] PROVE Knows(c, j, items[j])
  <2>1. Knows(txn[w], j, items[j])
    BY CallAtWork
  <2>2. KnowsEdited(c, j, items[j])
    <3> SUFFICES ASSUME Holding(c, j) PROVE KnowsEdited(c, j, items[j])
      BY DEF KnowsEdited
    <3>1. Holding(txn[w], j) /\ txn[w].call = "edit" /\ txn[w].item = j
      BY <1>1, <1>7 DEF Holding, Saving
    <3>2. i = j /\ ~HoldsFinishing(txn[w], i)
      BY <1>1, <3>1, TargetType DEF HoldsFinishing, i
    <3>3. items[j] \in Row /\ items[j].job = txn[w].seen[j].job
      BY <2>1, <3>1 DEF Knows, KnowsEdited
    <3> QED BY <1>3, <1>7, <3>1, <3>2, <3>3 DEF KnowsEdited, FinOf
  <2>3. KnowsTweaked(c, j, items[j])
    <3> SUFFICES ASSUME c.call = "tweak", c.item = j PROVE KnowsTweaked(c, j, items[j])
      BY DEF KnowsTweaked
    <3>1. i = j /\ i \in Wrote(txn[w]) /\ txn[w].call = "tweak" /\ txn[w].item = j
      BY <1>1, <1>7, TargetType DEF i
    <3>2. txn[w].seen[j].fin = FinOf(items[j])
      BY <1>1, <2>1, <3>1 DEF Knows, KnowsTweaked
    <3>3. /\ txn[w].own[j].fin = IF txn[w].fin = "keep" THEN txn[w].seen[j].fin ELSE txn[w].fin
          /\ txn[w].fin \in Fins \cup {"keep"}
      BY <1>1, <3>1 DEF CallShape, TweakShape, Call
    <3>4. fin = txn[w].own[j].fin
      <4>1. CASE HoldsFinishing(txn[w], i)
        BY <1>3, <3>1, <4>1
      <4>2. CASE ~HoldsFinishing(txn[w], i)
        <5>1. fin = txn[w].seen[j].fin
          BY <1>3, <3>1, <3>2, <4>2
        <5>2. txn[w].fin \notin DOMAIN Entries /\ (txn[w].fin = "none" => txn[w].seen[j].fin = "none")
          BY <3>1, <4>2 DEF HoldsFinishing
        <5> QED BY <3>3, <5>1, <5>2 DEF Fins
      <4> QED BY <4>1, <4>2
    <3> QED BY <1>7, <3>2, <3>4 DEF KnowsTweaked
  <2>4. KnowsSent(c, j, items[j])
    <3> SUFFICES ASSUME c.call = "send" PROVE KnowsSent(c, j, items[j])
      BY DEF KnowsSent
    <3>1. txn[w].call = "send" /\ i = Min(txn[w].left) /\ ~HoldsFinishing(txn[w], i)
      BY <1>1, <1>7, TargetType DEF HoldsFinishing, i
    <3>2. fin = FinOf(items[i])
      BY <1>3, <3>1
    <3> QED BY <1>1, <1>7, <2>1, <3>1, <3>2 DEF Knows, KnowsSent
  <2> QED BY <2>2, <2>3, <2>4 DEF Knows
<1>11. \A j \in Items : Holding(txn[w], j) => Holding(c, j)
  BY <1>7 DEF Holding, Saving
<1>12. SumHolds(c)
  BY <1>7 DEF SumHolds
<1>13. Unmoved /\ UNCHANGED <<status, items, offers, late, met, disturbed>>
  BY DEF Price
<1> QED BY <1>5, <1>7, <1>9, <1>10, <1>11, <1>12, <1>13, CallGoesOn

\* An edit stores the price,
LEMMA StoreEditKeeps ==
    ASSUME PricingInv, NEW w \in Workers, StoreEdit(w)
    PROVE  PricingInv'
<1> DEFINE i   == txn[w].item
           row == Priced(w, items[i])
<1>1. /\ txn[w] \in Call /\ txn[w].call = "edit" /\ txn[w].step = "store" /\ i \in Items
      /\ SpecOf(txn[w]) = txn[w].seen[i].job
  BY CallAtWork, TargetType DEF StoreEdit, At
<1>2. items[i] \in Row
  BY <1>1 DEF StoreEdit, Exists
<1>3. /\ row \in Row /\ Covers(row) /\ row.job = items[i].job /\ row.fin = items[i].fin
      /\ row.of = [job |-> txn[w].seen[i].job, fin |-> txn[w].finRow]
  BY <1>1, <1>2, PricedRow
<1>4. /\ txn' = [txn EXCEPT ![w] = Idle] /\ met' = [met EXCEPT ![w] = {}]
      /\ items' = [items EXCEPT ![i] = row]
  BY <1>1, CallAtWork DEF StoreEdit, End
<1> HIDE DEF row
<1>5. i \notin met[w] => Fresh(row)
  <2>1. i \notin met[w] => Knows(txn[w], i, items[i])
    BY <1>1, CallAtWork
  <2> QED BY <1>1, <1>3, <2>1 DEF Knows, KnowsEdited, Holding, Saving, Fresh
<1>6. Writes(w) /\ Settles(w, {i}) /\ Unmoved /\ UNCHANGED <<status, offers>>
  BY DEF StoreEdit
<1>7. Idle \in Call /\ CallShape(Idle) /\ Knows(Idle, i, row)
  BY <1>1, IdleCall
<1> QED BY <1>1, <1>3, <1>4, <1>5, <1>6, <1>7, ItemMoves

\* an add or a tweak keeps it in its transaction,
LEMMA StoreOwnKeeps ==
    ASSUME PricingInv, NEW w \in Workers, StoreOwn(w)
    PROVE  PricingInv'
<1> DEFINE i   == txn[w].item
           row == Priced(w, txn[w].own[i])
           c   == [txn[w] EXCEPT !.own[i] = row, !.step = "commit"]
<1>1. /\ txn[w] \in Call /\ txn[w].call \in {"tweak", "add"} /\ txn[w].step = "store" /\ i \in Items
      /\ i \in Wrote(txn[w]) /\ CallShape(txn[w]) /\ SpecOf(txn[w]) = txn[w].own[i].job
  BY CallAtWork, TargetType DEF StoreOwn
<1>2. /\ txn[w].own[i] \in Row
      /\ txn[w].call = "add" => txn[w].own[i].fin = txn[w].finRow
      /\ txn[w].call = "tweak" =>
            txn[w].own[i].fin = IF txn[w].fin = "keep" THEN txn[w].seen[i].fin ELSE txn[w].fin
      /\ txn[w].call = "tweak" => txn[w].seen[i] \in Row
      /\ \A j \in Items : txn[w].call = "tweak" /\ j \notin met[w] /\ j = i =>
            txn[w].own[i].fin = txn[w].finRow
  BY <1>1, CallAtWork DEF Wrote, CallShape, AddShape, TweakShape, Knows, KnowsTweaked
<1>3. /\ row \in Row /\ Covers(row)
      /\ row.job = txn[w].own[i].job /\ row.fin = txn[w].own[i].fin
      /\ row.of = [job |-> txn[w].own[i].job, fin |-> txn[w].finRow]
  BY <1>1, <1>2, PricedRow
<1>4. txn' = [txn EXCEPT ![w] = c]
  BY <1>1, CallAtWork DEF StoreOwn
<1> HIDE DEF row
<1>5. txn[w].own[i].fin = txn[w].finRow => Fresh(row)
  BY <1>3 DEF Fresh
<1>6. /\ c \in Call
      /\ c.step = "commit" /\ c.call = txn[w].call /\ c.item = i /\ c.job = txn[w].job
      /\ c.fin = txn[w].fin /\ c.seen = txn[w].seen
      /\ \A j \in Items : c.own[j] = IF j = i THEN row ELSE txn[w].own[j]
  BY <1>1, <1>3 DEF Call
<1> HIDE DEF c
<1>7. CallShape(c)
  BY <1>1, <1>2, <1>3, <1>5, <1>6
     DEF CallShape, ItemShape, EditShape, TweakShape, AddShape, SendShape, PriceShape
<1>8. \A j \in Items \ met[w] : Knows(c, j, items[j])
  BY <1>1, <1>2, <1>5, <1>6, CallAtWork DEF Knows, KnowsEdited, KnowsTweaked, KnowsSent, Holding
<1>9. SumHolds(c) /\ \A j \in Items : ~Holding(txn[w], j)
  BY <1>1, <1>6 DEF SumHolds, Holding
<1>10. Unmoved /\ UNCHANGED <<status, items, offers, late, met, disturbed>>
  BY DEF StoreOwn
<1> QED BY <1>4, <1>6, <1>7, <1>8, <1>9, <1>10, CallGoesOn

\* and so does a send, item by item.
LEMMA StoreSendKeeps ==
    ASSUME PricingInv, NEW w \in Workers, StoreSend(w)
    PROVE  PricingInv'
<1> DEFINE i    == Target(txn[w])
           row  == Priced(w, items[i])
           name == txn[w].seen[i].job
           next == IF txn[w].left = {i} THEN "sum" ELSE "price"
           c    == [txn[w] EXCEPT !.own[i] = row, !.left = txn[w].left \ {i}, !.step = next]
<1>1. /\ txn[w] \in Call /\ txn[w].call = "send" /\ txn[w].step = "store" /\ i \in Items
      /\ i = Min(txn[w].left) /\ i \in txn[w].left /\ i \notin Wrote(txn[w])
      /\ txn[w].seen[i] \in Row /\ CallShape(txn[w]) /\ SpecOf(txn[w]) = name
  BY CallAtWork, TargetType DEF StoreSend, At
<1>2. items[i] \in Row
  BY <1>1 DEF StoreSend, Exists
<1>3. /\ row \in Row /\ Covers(row)
      /\ row.of = [job |-> name, fin |-> txn[w].finRow]
  BY <1>1, <1>2, PricedRow
<1>4. txn' = [txn EXCEPT ![w] = c]
  BY <1>1, CallAtWork DEF StoreSend
<1> HIDE DEF row, i
<1>5. /\ c \in Call
      /\ c.step = next /\ c.call = "send" /\ c.item = txn[w].item
      /\ c.seen = txn[w].seen /\ c.left = txn[w].left \ {i}
      /\ \A j \in Items : c.own[j] = IF j = i THEN row ELSE txn[w].own[j]
  BY <1>1, <1>3 DEF Call
<1> HIDE DEF c
<1>6. CallShape(c)
  <2>1. ItemShape(c) /\ EditShape(c) /\ TweakShape(c) /\ AddShape(c)
    BY <1>1, <1>5 DEF ItemShape, EditShape, TweakShape, AddShape
  <2>2. PriceShape(c)
    BY <1>1, <1>3, <1>5 DEF CallShape, PriceShape
  <2>3. c.left \subseteq Items
    BY <1>5 DEF Call
  <2>4. SendShape(c)
    BY <1>1, <1>5, <2>3 DEF CallShape, SendShape
  <2> QED BY <2>1, <2>2, <2>4 DEF CallShape
<1>7. ASSUME NEW j \in Items \ met[w] PROVE Knows(c, j, items[j])
  <2>1. KnowsSent(txn[w], j, items[j])
    BY CallAtWork DEF Knows
  <2>2. CASE j = i
    <3>1. items[i].job = name /\ txn[w].finRow = items[i].fin
      BY <1>1, <1>2, <2>1, <2>2 DEF KnowsSent, FinOf
    <3>2. c.step # "store"
      BY <1>5
    <3>3. KnowsSent(c, i, items[i])
      BY <1>1, <1>2, <1>3, <1>5, <3>1, <3>2 DEF KnowsSent
    <3> QED BY <1>5, <2>2, <3>3 DEF Knows, KnowsEdited, KnowsTweaked, Holding
  <2>3. CASE j # i
    BY <1>1, <1>5, <2>1, <2>3 DEF Knows, KnowsEdited, KnowsTweaked, KnowsSent, Holding
  <2> QED BY <2>2, <2>3
<1>8. SumHolds(c)
  BY <1>5 DEF SumHolds
<1>9. \A j \in Items : ~Holding(txn[w], j)
  BY <1>1 DEF Holding
<1>10. Unmoved /\ UNCHANGED <<status, items, offers, late, met, disturbed>>
  BY DEF StoreSend
<1> QED BY <1>1, <1>4, <1>5, <1>6, <1>7, <1>8, <1>9, <1>10, CallGoesOn

\* A pricing that raised.
LEMMA FlagKeeps ==
    ASSUME PricingInv, NEW w \in Workers, Flag(w)
    PROVE  PricingInv'
<1> DEFINE i == txn[w].item
<1>1. txn[w] \in Call /\ CallShape(txn[w]) /\ txn[w].step \in {"price", "store"}
  BY CallAtWork DEF Flag
<1>2. CASE txn[w].call = "edit"
  <2> DEFINE row == [items[i] EXCEPT !.review = TRUE]
  <2>1. i \in Items /\ items[i] \in Row /\ Covers(items[i])
    BY <1>1, <1>2 DEF Flag, Exists, CallShape, ItemShape, PricingInv, RowsCover, Present
  <2>2. /\ row \in Row /\ row.of = items[i].of /\ row.line = items[i].line
        /\ row.offer = items[i].offer /\ row.review
    BY <2>1 DEF Row
  <2>3. /\ txn' = [txn EXCEPT ![w] = Idle] /\ met' = [met EXCEPT ![w] = {}]
        /\ items' = [items EXCEPT ![i] = row]
        /\ Settles(w, {i}) /\ late' = late /\ Unmoved /\ UNCHANGED <<status, offers>>
    BY <1>2, <2>1, CallAtWork DEF Flag, End
  <2> HIDE DEF row
  <2>4. Covers(row) /\ Fresh(row)
    BY <2>1, <2>2, SameLineCovers DEF Fresh
  <2>5. Idle \in Call /\ CallShape(Idle) /\ Knows(Idle, i, row)
    BY <2>1, IdleCall
  <2> QED BY <1>2, <2>1, <2>2, <2>3, <2>4, <2>5, ItemMoves
<1>3. CASE txn[w].call = "add"
  <2> DEFINE row == [txn[w].own[i] EXCEPT !.review = TRUE]
             c   == [txn[w] EXCEPT !.own[i].review = TRUE, !.step = "commit"]
  <2>1. i \in Items /\ txn[w].own[i] \in Row /\ Covers(txn[w].own[i])
    BY <1>1, <1>3 DEF CallShape, ItemShape, AddShape, PriceShape
  <2>2. /\ row \in Row /\ row.of = txn[w].own[i].of /\ row.line = txn[w].own[i].line /\ row.review
    BY <2>1 DEF Row
  <2>3. /\ txn' = [txn EXCEPT ![w] = c] /\ Unmoved
        /\ UNCHANGED <<status, items, offers, late, met, disturbed>>
    BY <1>1, <1>3, CallAtWork DEF Flag
  <2>4. c = [txn[w] EXCEPT !.own[i] = row, !.step = "commit"]
    BY <1>1, <2>1 DEF Call
  <2> HIDE DEF row, c
  <2>5. Covers(row) /\ Fresh(row)
    BY <2>1, <2>2, SameLineCovers DEF Fresh
  <2>6. /\ c \in Call
        /\ c.step = "commit" /\ c.call = "add" /\ c.item = i /\ c.seen = txn[w].seen
        /\ \A j \in Items : c.own[j] = IF j = i THEN row ELSE txn[w].own[j]
    BY <1>1, <1>3, <2>1, <2>2, <2>4 DEF Call
  <2>7. CallShape(c)
    BY <1>1, <1>3, <2>1, <2>2, <2>5, <2>6
       DEF CallShape, ItemShape, EditShape, TweakShape, AddShape, SendShape, PriceShape
  <2>8. (\A j \in Items : Knows(c, j, items[j])) /\ SumHolds(c) /\ \A j \in Items : ~Holding(txn[w], j)
    BY <1>3, <2>6 DEF Knows, KnowsEdited, KnowsTweaked, KnowsSent, Holding, SumHolds
  <2> QED BY <1>3, <2>3, <2>6, <2>7, <2>8, CallGoesOn
<1> QED BY <1>2, <1>3 DEF Flag

\* The commit of an add or a tweak.
LEMMA CommitItemKeeps ==
    ASSUME PricingInv, NEW w \in Workers, CommitItem(w)
    PROVE  PricingInv'
<1> DEFINE i   == txn[w].item
           c   == txn[w]
           fin == FinishingSeen(c, i)
           row == [c.own[i] EXCEPT !.fin = fin]
<1>1. /\ c \in Call /\ c.call \in {"tweak", "add"} /\ c.step = "commit" /\ i \in Items
      /\ c.own[i] \in Row /\ Covers(c.own[i])
      /\ c.call = "add" => Fresh(c.own[i])
      /\ c.call = "tweak" =>
            c.own[i].fin = IF c.fin = "keep" THEN c.seen[i].fin ELSE c.fin
      /\ c.fin \in Fins \cup {"keep"}
  BY CallAtWork DEF CommitItem, CallShape, ItemShape, TweakShape, AddShape, PriceShape, Call
<1>2. /\ items' = [items EXCEPT ![i] = row]
      /\ txn' = [txn EXCEPT ![w] = Idle] /\ met' = [met EXCEPT ![w] = {}]
  BY <1>1, CallAtWork DEF CommitItem, End
<1>3. Writes(w) /\ Settles(w, {i}) /\ Unmoved /\ UNCHANGED <<status, offers>>
  BY DEF CommitItem
<1>4. Finishes(i) \in Fins /\ Finishes(i) = FinOf(items[i])
  BY <1>1, FinishesType
<1>5. fin = IF c.call = "add" \/ HoldsFinishing(c, i) THEN c.own[i].fin ELSE FinOf(items[i])
  BY <1>4 DEF FinishingSeen
<1> HIDE DEF fin
<1>6. fin \in Fins
  BY <1>1, <1>4, <1>5 DEF Row
<1>7. i \notin met[w] => fin = c.own[i].fin /\ Fresh(c.own[i])
  <2> SUFFICES ASSUME i \notin met[w] PROVE fin = c.own[i].fin /\ Fresh(c.own[i])
    OBVIOUS
  <2>1. CASE c.call = "add"
    BY <1>1, <1>5, <2>1
  <2>2. CASE c.call = "tweak"
    <3>1. c.seen[i].fin = FinOf(items[i]) /\ Fresh(c.own[i])
      BY <1>1, <2>2, CallAtWork DEF Knows, KnowsTweaked
    <3>2. CASE HoldsFinishing(c, i)
      BY <1>5, <3>1, <3>2
    <3>3. CASE ~HoldsFinishing(c, i)
      <4>1. c.fin \notin DOMAIN Entries /\ (c.fin = "none" => c.seen[i].fin = "none")
        BY <1>1, <2>2, <3>3 DEF HoldsFinishing, Wrote
      <4>2. c.fin \in {"keep", "none"}
        BY <1>1, <4>1 DEF Fins
      <4>3. fin = c.seen[i].fin
        BY <1>5, <2>2, <3>1, <3>3
      <4> QED BY <1>1, <2>2, <3>1, <4>1, <4>2, <4>3
    <3> QED BY <3>2, <3>3
  <2> QED BY <1>1, <2>1, <2>2
<1>8. row \in Row /\ row.of = c.own[i].of /\ row.line = c.own[i].line /\ row.fin = fin
      /\ row.job = c.own[i].job /\ row.review = c.own[i].review
  BY <1>1, <1>6 DEF Row
<1> HIDE DEF row
<1>9. Covers(row) /\ (i \notin met[w] => Fresh(row))
  BY <1>1, <1>7, <1>8, SameLineCovers DEF Fresh
<1>10. Idle \in Call /\ CallShape(Idle) /\ Knows(Idle, i, row)
  BY <1>1, IdleCall
<1> QED BY <1>1, <1>2, <1>3, <1>8, <1>9, <1>10, ItemMoves

\* A send reads its items.
LEMMA FetchKeeps ==
    ASSUME PricingInv, NEW w \in Workers, Fetch(w)
    PROVE  PricingInv'
<1> DEFINE seen == [i \in Items |-> IF Exists(i) THEN items[i] ELSE Unused]
           next == IF Present = {} THEN "sum" ELSE "price"
           c    == [txn[w] EXCEPT !.seen = seen, !.left = Present, !.step = next]
<1>1. /\ txn[w] \in Call /\ txn[w].call = "send" /\ txn[w].step = "fetch" /\ CallShape(txn[w])
      /\ \A i \in Items : txn[w].own[i] = Unused
  BY CallAtWork DEF Fetch, At, CallShape, SendShape, NoRows
<1>2. txn' = [txn EXCEPT ![w] = c]
  BY <1>1, CallAtWork DEF Fetch
<1>3. seen \in [Items -> Row \cup {Unused}] /\ Present \subseteq Items
  BY DEF Exists, Present
<1>4. \A i \in Items : /\ seen[i] = IF items[i] \in Row THEN items[i] ELSE Unused
                       /\ items[i] \in Row <=> i \in Present
  BY DEF Exists, Present
<1> HIDE DEF seen
<1>5. /\ c \in Call
      /\ c.step = next /\ c.call = "send" /\ c.item = txn[w].item
      /\ c.seen = seen /\ c.own = txn[w].own /\ c.left = Present
  BY <1>1, <1>3 DEF Call
<1> HIDE DEF c
<1>6. CallShape(c)
  <2>1. ItemShape(c) /\ EditShape(c) /\ TweakShape(c) /\ AddShape(c)
    BY <1>5 DEF ItemShape, EditShape, TweakShape, AddShape
  <2>2. SendShape(c)
    BY <1>1, <1>3, <1>4, <1>5, NoRowIsGone DEF SendShape
  <2>3. PriceShape(c)
    BY <1>1, <1>4, <1>5, NoRowIsGone DEF PriceShape, PricingInv, RowsCover
  <2> QED BY <2>1, <2>2, <2>3 DEF CallShape
<1>7. \A i \in Items : Knows(c, i, items[i])
  BY <1>1, <1>4, <1>5, NoRowIsGone DEF Knows, KnowsEdited, KnowsTweaked, KnowsSent, Holding
<1>8. SumHolds(c) /\ \A i \in Items : ~Holding(txn[w], i)
  BY <1>1, <1>5 DEF SumHolds, Holding
<1>9. Unmoved /\ UNCHANGED <<status, items, offers, late, met, disturbed>>
  BY DEF Fetch
<1> QED BY <1>1, <1>2, <1>5, <1>6, <1>7, <1>8, <1>9, CallGoesOn

\* The lines are added up as the transaction sees them.
LEMMA SumKeeps ==
    ASSUME PricingInv, NEW w \in Workers, Sum(w)
    PROVE  PricingInv'
<1> DEFINE c == [txn[w] EXCEPT !.total = Total(LinesSeen(txn[w])), !.step = "commit"]
<1>1. /\ txn[w] \in Call /\ txn[w].call = "send" /\ txn[w].step = "sum" /\ CallShape(txn[w])
      /\ txn[w].left = {}
  BY CallAtWork DEF Sum, At, CallShape, SendShape
<1>2. txn' = [txn EXCEPT ![w] = c]
  BY <1>1, CallAtWork DEF Sum, LinesSeen
<1>3. LinesSeen(txn[w]) \in [Items -> Int]
  <2>1. \A row \in Row : row.line \in Int
    BY DEF Row
  <2>2. ASSUME NEW i \in Items PROVE LineSeen(txn[w], i) \in Int
    BY <2>1 DEF LineSeen, Exists, Wrote
  <2> QED BY <2>2 DEF LinesSeen
<1>4. Total(LinesSeen(txn[w])) \in Int
  BY <1>3, TotalType
<1> DEFINE total == Total(LinesSeen(txn[w]))
<1> HIDE DEF total
<1>5. c = [txn[w] EXCEPT !.total = total, !.step = "commit"]
  BY DEF total
<1> HIDE DEF c
<1>6. /\ c \in Call
      /\ c.step = "commit" /\ c.call = "send" /\ c.item = txn[w].item
      /\ c.seen = txn[w].seen /\ c.own = txn[w].own /\ c.left = {} /\ c.total = total
  BY <1>1, <1>4, <1>5 DEF Call, total
<1>7. CallShape(c)
  BY <1>1, <1>6
     DEF CallShape, ItemShape, EditShape, TweakShape, AddShape, SendShape, PriceShape
<1>8. \A i \in Items \ met[w] : Knows(c, i, items[i])
  BY <1>1, <1>6, CallAtWork DEF Knows, KnowsEdited, KnowsTweaked, KnowsSent, Holding
<1>9. SumHolds(c)
  <2>1. \A i \in Items : LineSeen(c, i) = LineSeen(txn[w], i)
    BY <1>6 DEF LineSeen, Wrote
  <2>2. LinesSeen(c) = LinesSeen(txn[w])
    BY <2>1 DEF LinesSeen
  <2> QED BY <1>6, <2>2 DEF SumHolds, total
<1>10. \A i \in Items : ~Holding(txn[w], i)
  BY <1>1 DEF Holding
<1>11. Unmoved /\ UNCHANGED <<status, items, offers, late, met, disturbed>>
  BY DEF Sum
<1> QED BY <1>1, <1>2, <1>6, <1>7, <1>8, <1>9, <1>10, <1>11, CallGoesOn

\* A call that dies.
LEMMA FailKeeps ==
    ASSUME PricingInv, NEW w \in Workers, Fail(w)
    PROVE  PricingInv'
<1>1. disturbed \subseteq disturbed' /\ disturbed' \subseteq Items
  BY CallAtWork DEF Fail, CallShape, ItemShape
<1>2. \A i \in Items \ disturbed' : ~Holding(txn[w], i)
  BY DEF Fail, Holding, Saving
<1> QED BY <1>1, <1>2, CallAtWork, CallEnds DEF Fail

\* Steps of the rate card, which no call sees but through the rates.
LEMMA CardStepKeeps ==
    ASSUME PricingInv, CardInv', UNCHANGED pricingVars
    PROVE  PricingInv'
<1>1. TypeOK'
  BY DEF PricingInv, TypeOK, CardInv, pricingVars
<1>2. \A w \in Workers : CallShape(txn[w])'
  <2>1. \A w \in Workers : CallShape(txn'[w])
    BY DEF PricingInv, pricingVars
  <2> QED BY <2>1 DEF CallShape, ItemShape, EditShape, TweakShape, AddShape, SendShape, PriceShape,
                      Wrote, Covers, Fresh, SpecOf, Target
<1>3. Apart' /\ RowsCover'
  BY DEF PricingInv, pricingVars, Apart, AtWork, RowsCover, Present, Exists, Covers
<1>4. RowsFresh' /\ CallsKnow' /\ OffersInOrder' /\ SentOfferAddsUp'
  BY DEF PricingInv, pricingVars, RowsFresh, CallsKnow, Present, Exists, Fresh, Holding,
         Knows, KnowsEdited, KnowsTweaked, KnowsSent, FinOf, OffersInOrder, SentOfferAddsUp, LineTotals
<1>5. ~late' => \A w \in Workers : SumHolds(txn[w])'
  BY DEF PricingInv, pricingVars, SumHolds, LinesSeen, LineSeen, Exists, Wrote
<1> QED BY <1>1, <1>2, <1>3, <1>4, <1>5 DEF PricingInv

-----------------------------------------------------------------------------
(* send_quote *)

\* What send_quote leaves of a row when its transaction commits.
LEMMA SentRowType ==
    ASSUME PricingInv, NEW w \in Workers, NEW i \in Items, items[i] \in Row, NEW k \in Nat, NEW to
    PROVE  LET row == SentRow(w, i, k, to)
           IN  /\ row \in Row /\ Covers(row)
               /\ row.job = items[i].job /\ row.fin = items[i].fin
               /\ to = "SENT" => row.offer = k
               /\ row.line = LineSeen(txn[w], i)
               /\ i \in Wrote(txn[w]) => row.of = txn[w].own[i].of
<1> DEFINE row == IF i \in Wrote(txn[w])
                  THEN [items[i] EXCEPT !.line = txn[w].own[i].line, !.of = txn[w].own[i].of,
                                        !.review = FALSE]
                  ELSE items[i]
           new == IF to = "SENT" THEN [row EXCEPT !.offer = k] ELSE row
<1>1. Covers(items[i])
  BY DEF Exists, PricingInv, RowsCover, Present
<1>2. i \in Wrote(txn[w]) => txn[w].own[i] \in Row /\ Covers(txn[w].own[i])
  BY CallAtWork DEF Wrote, CallShape, PriceShape
<1>3. SentRow(w, i, k, to) = new
  BY DEF SentRow
<1>4. /\ row \in Row /\ row.job = items[i].job /\ row.fin = items[i].fin
      /\ i \in Wrote(txn[w]) => row.line = txn[w].own[i].line /\ row.of = txn[w].own[i].of
      /\ i \notin Wrote(txn[w]) => row = items[i]
  BY <1>2 DEF Row
<1> HIDE DEF row
<1>5. Covers(row)
  BY <1>1, <1>2, <1>4, SameLineCovers
<1>6. /\ new \in Row /\ new.job = row.job /\ new.fin = row.fin /\ new.of = row.of
      /\ new.line = row.line /\ (to = "SENT" => new.offer = k)
  BY <1>4 DEF Row
<1> HIDE DEF new
<1>7. Covers(new)
  BY <1>5, <1>6, SameLineCovers
<1>8. row.line = LineSeen(txn[w], i)
  BY <1>4 DEF LineSeen, Exists
<1> QED BY <1>3, <1>4, <1>6, <1>7, <1>8

\* The commit of a send: the last offer, new or pending before, is what was sent, with
\* the lines as the transaction saw them.
LEMMA CommitSendKeeps ==
    ASSUME PricingInv, NEW w \in Workers, CommitSend(w)
    PROVE  PricingInv'
<1> DEFINE pending == {k \in DOMAIN offers : offers[k].status = "PENDING"}
           k       == IF pending = {} THEN Len(offers) + 1 ELSE Max(pending)
<1>1. PICK to \in {"PENDING", "SENT"}, computed \in BOOLEAN :
        LET offer == [status |-> to, computed |-> computed,
                      total |-> IF computed THEN txn[w].total ELSE 0]
        IN  /\ offers' = IF pending = {} THEN Append(offers, offer)
                         ELSE [offers EXCEPT ![k] = offer]
            /\ items' = [i \in Items |-> IF Exists(i) THEN SentRow(w, i, k, to) ELSE items[i]]
            /\ status' = IF to = "SENT" THEN "QUOTED" ELSE "AWAITING"
            /\ late' = (\/ late
                        \/ to = "PENDING" /\ Sent
                        \/ \E v \in Workers \ {w} : At(v, "send", "commit"))
  BY DEF CommitSend
<1> DEFINE offer == [status |-> to, computed |-> computed,
                     total |-> IF computed THEN txn[w].total ELSE 0]
<1>2. /\ txn[w] \in Call /\ txn[w].call = "send" /\ txn[w].step = "commit" /\ CallShape(txn[w])
      /\ txn[w].left = {} /\ AtWork(txn[w]) = Items
  BY CallAtWork DEF CommitSend, At, CallShape, SendShape, AtWork
<1>3. offers \in Seq(Offer) /\ Len(offers) \in Nat /\ DOMAIN offers = 1 .. Len(offers)
  BY LenProperties DEF PricingInv, TypeOK
<1>4. offer \in Offer /\ offer.status = to /\ (computed => offer.total = txn[w].total)
      /\ offer.computed = computed
  <2>1. txn[w].total \in Int
    BY <1>2 DEF Call
  <2> QED BY <2>1 DEF Offer
<1>5. pending # {} => k = Len(offers) /\ k \in 1 .. Len(offers) /\ \A j \in pending : j = k
  <2> SUFFICES ASSUME pending # {}
               PROVE  k = Len(offers) /\ k \in 1 .. Len(offers) /\ \A j \in pending : j = k
    OBVIOUS
  <2>1. Max(pending) \in pending
    BY <1>3, MaxOfIndices
  <2>2. \A j \in pending : j = Len(offers)
    BY <1>3 DEF PricingInv, OffersInOrder
  <2> QED BY <1>3, <2>1, <2>2
<1> HIDE DEF offer
<1>6. /\ offers' \in Seq(Offer) /\ DOMAIN offers' = 1 .. Len(offers') /\ Len(offers') \in Nat
      /\ k = Len(offers') /\ k \in DOMAIN offers' /\ offers'[k] = offer
      /\ \A j \in DOMAIN offers' \ {k} : j \in DOMAIN offers /\ offers'[j] = offers[j]
  <2>1. CASE pending = {}
    <3>1. offers' = Append(offers, offer) /\ k = Len(offers) + 1
      BY <1>1, <2>1 DEF offer
    <3>2. /\ DOMAIN offers' = 1 .. Len(offers) + 1 /\ offers' \in Seq(Offer)
          /\ Len(offers') = Len(offers) + 1
      BY <1>3, <1>4, <3>1, AppendProperties, LenProperties
    <3> HIDE DEF k
    <3> QED BY <1>3, <1>4, <3>1, <3>2, AppendProperties
  <2>2. CASE pending # {}
    <3>1. offers' = [offers EXCEPT ![k] = offer]
      BY <1>1, <2>2 DEF offer
    <3>2. k = Len(offers) /\ k \in 1 .. Len(offers)
      BY <1>5, <2>2
    <3> HIDE DEF k
    <3>3. offers' \in Seq(Offer) /\ DOMAIN offers' = DOMAIN offers /\ Len(offers') = Len(offers)
      BY <1>3, <1>4, <3>1, <3>2, ExceptSeq, LenProperties
    <3> QED BY <1>3, <3>1, <3>2, <3>3
  <2> QED BY <2>1, <2>2
<1>7. /\ status' \in {"QUOTED", "AWAITING"}
      /\ txn' = [txn EXCEPT ![w] = Idle] /\ met' = [met EXCEPT ![w] = {}]
      /\ disturbed' = disturbed \ (Items \ met[w]) /\ Unmoved
  BY <1>1 DEF CommitSend, End, Settles
<1>8. late' \in BOOLEAN /\ (late => late')
      /\ (~late' => ~(to = "PENDING" /\ Sent) /\ \A v \in Workers \ {w} : ~At(v, "send", "commit"))
  BY <1>1
<1>9. \A i \in Items :
        /\ items[i] \notin Row => items'[i] = items[i]
        /\ items[i] \in Row =>
              /\ items'[i] \in Row /\ Covers(items'[i])
              /\ items'[i].job = items[i].job /\ items'[i].fin = items[i].fin
              /\ to = "SENT" => items'[i].offer = k
              /\ items'[i].line = LineSeen(txn[w], i)
              /\ i \in Wrote(txn[w]) => items'[i].of = txn[w].own[i].of
  <2>1. \A i \in Items : items'[i] = IF items[i] \in Row THEN SentRow(w, i, k, to) ELSE items[i]
    BY <1>1 DEF Exists
  <2>2. k \in Nat
    BY <1>6
  <2> HIDE DEF k
  <2>3. ASSUME NEW i \in Items, items[i] \in Row
        PROVE  /\ items'[i] \in Row /\ Covers(items'[i])
               /\ items'[i].job = items[i].job /\ items'[i].fin = items[i].fin
               /\ to = "SENT" => items'[i].offer = k
               /\ items'[i].line = LineSeen(txn[w], i)
               /\ i \in Wrote(txn[w]) => items'[i].of = txn[w].own[i].of
    <3>1. items'[i] = SentRow(w, i, k, to)
      BY <2>1, <2>3
    <3> QED BY <2>2, <2>3, <3>1, SentRowType
  <2> QED BY <2>1, <2>3
<1> HIDE DEF k, pending
<1>10. \A i \in Items : items'[i] \in Row <=> items[i] \in Row
  BY <1>9
<1>11. met' \in [Workers -> SUBSET Items] /\ met'[w] = {} /\ \A v \in Workers \ {w} : met'[v] = met[v]
  BY <1>7, CallAtWork
<1>12. disturbed' \subseteq disturbed /\ met[w] \subseteq disturbed'
       /\ \A i \in Items : i \notin disturbed' => i \notin met[w]
  <2>1. met[w] \subseteq disturbed /\ met[w] \subseteq Items
    BY CallAtWork
  <2> QED BY <1>7, <2>1
<1>13. \A v \in Workers \ {w} : AtWork(txn[v]) \subseteq met[w] \cap met[v]
  <2>1. \A v \in Workers : AtWork(txn[v]) \subseteq Items
    BY DEF AtWork
  <2> QED BY <1>2, <2>1, CallAtWork
<1>14. \A v \in Workers \ {w} : met[v] \subseteq AtWork(txn[v]) \cap disturbed'
  <2>1. \A v \in Workers : met[v] \subseteq AtWork(txn[v])
    BY CallAtWork
  <2> QED BY <1>12, <1>13, <2>1
<1>15. /\ \A v \in Workers : txn'[v] = IF v = w THEN Idle ELSE txn[v]
       /\ txn' \in [Workers -> Call]
       /\ \A v \in Workers : CallShape(txn[v])'
       /\ Apart'
  <2>1. Idle \in Call /\ CallShape(Idle) /\ AtWork(Idle) = {}
    BY IdleCall
  <2> QED BY <1>7, <1>11, <1>14, <2>1, CallsChange
<1>16. CardInv'
  BY <1>7, CardStutters DEF PricingInv, Unmoved
<1>17. TypeOK'
  <2>1. \A i \in Items : items'[i] \in Row \cup {Unused, Gone}
    BY <1>9, CallAtWork
  <2>2. items' \in [Items -> Row \cup {Unused, Gone}]
    BY <1>1, <2>1
  <2>3. disturbed' \subseteq Items
    BY <1>12, CallAtWork
  <2> QED BY <1>6, <1>7, <1>8, <1>11, <1>15, <1>16, <2>2, <2>3 DEF TypeOK, CardInv
<1>18. RowsCover'
  <2>1. \A i \in Items : items'[i] \in Row => Covers(items'[i])
    BY <1>9
  <2> QED BY <2>1 DEF RowsCover, Present, Exists, Covers
<1>19. RowsFresh'
  <2>1. ASSUME NEW i \in Items, i \notin disturbed', items'[i] \in Row PROVE Fresh(items'[i])
    <3>1. items[i] \in Row /\ i \notin met[w]
      BY <1>9, <1>12, <2>1
    <3>2. /\ i \in Wrote(txn[w])
          /\ txn[w].own[i].of = [job |-> items[i].job, fin |-> items[i].fin]
      BY <1>2, <3>1, CallAtWork DEF Knows, KnowsSent, Wrote
    <3> QED BY <1>9, <3>1, <3>2 DEF Fresh
  <2> QED BY <2>1 DEF RowsFresh, Present, Exists, Fresh
<1>20. CallsKnow'
  <2>1. ASSUME NEW v \in Workers, NEW i \in Items \ met'[v]
        PROVE  Knows(txn'[v], i, items'[i])
    <3>1. CASE v = w
      BY <1>15, <3>1, IdleCall
    <3>2. CASE v # w
      <4>1. i \notin AtWork(txn[v])
        BY <1>11, <1>13, <2>1, <3>2
      <4>2. txn[v].call # "send" /\ txn[v].item # i
        BY <4>1 DEF AtWork
      <4> QED BY <1>15, <3>2, <4>2 DEF Knows, KnowsEdited, KnowsTweaked, KnowsSent, Holding
    <3> QED BY <3>1, <3>2
  <2> QED BY <2>1 DEF CallsKnow, Knows, KnowsEdited, KnowsTweaked, KnowsSent, Holding, Fresh, FinOf
<1>21. OffersInOrder'
  <2>1. \A j \in DOMAIN offers' \ {k} : offers[j].status = "SENT"
    <3>1. ASSUME NEW j \in DOMAIN offers' \ {k} PROVE offers[j].status = "SENT"
      <4>1. j \in DOMAIN offers /\ offers[j] \in Offer
        BY <1>3, <1>6, ElementOfSeq
      <4>2. j \notin pending
        BY <1>5, <3>1
      <4> QED BY <4>1, <4>2 DEF pending, Offer
    <3> QED BY <3>1
  <2> QED BY <1>6, <2>1 DEF OffersInOrder
<1>22. Present' = Present
  BY <1>10 DEF Present, Exists
<1>23. SentOfferAddsUp'
  <2> DEFINE sent == {j \in DOMAIN offers' : offers'[j].status = "SENT"}
  <2> SUFFICES ASSUME ~late', sent # {}
               PROVE  /\ \A i \in Present' : items'[i].offer = Max(sent)
                      /\ offers'[Max(sent)].computed => offers'[Max(sent)].total = Total(LineTotals')
    BY DEF SentOfferAddsUp
  <2>1. CASE to = "PENDING"
    <3>1. ~Sent
      BY <1>8, <2>1
    <3>2. sent = {}
      BY <1>4, <1>6, <2>1, <3>1 DEF Sent
    <3> QED BY <3>2
  <2>2. CASE to = "SENT"
    <3>1. Max(sent) = k
      <4>1. k \in sent /\ sent \subseteq 1 .. Len(offers')
        BY <1>4, <1>6, <2>2
      <4>2. Max(sent) \in sent /\ k <= Max(sent)
        BY <1>6, <4>1, MaxOfIndices
      <4> QED BY <1>6, <4>1, <4>2
    <3>2. \A i \in Present' : items'[i].offer = k
      BY <1>9, <1>22, <2>2 DEF Present, Exists
    <3>3. LineTotals' = LinesSeen(txn[w])
      <4>1. \A i \in Items : (IF items'[i] \in Row THEN items'[i].line ELSE 0) = LineSeen(txn[w], i)
        BY <1>9, <1>10 DEF LineSeen, Exists
      <4> QED BY <4>1 DEF LineTotals, LinesSeen, Exists
    <3>4. txn[w].total = Total(LinesSeen(txn[w]))
      BY <1>2, <1>8, CallAtWork DEF SumHolds
    <3>5. offers'[k].computed => offers'[k].total = txn[w].total
      BY <1>4, <1>6
    <3> QED BY <3>1, <3>2, <3>3, <3>4, <3>5
  <2> QED BY <2>1, <2>2
<1>24. ~late' => \A v \in Workers : SumHolds(txn[v])'
  <2> SUFFICES ASSUME ~late', NEW v \in Workers PROVE SumHolds(txn[v])'
    OBVIOUS
  <2>1. ~(txn'[v].call = "send" /\ txn'[v].step = "commit")
    BY <1>8, <1>15, IdleCall DEF At
  <2> QED BY <2>1 DEF SumHolds
<1> QED BY <1>15, <1>16, <1>17, <1>18, <1>19, <1>20, <1>21, <1>23, <1>24 DEF PricingInv

-----------------------------------------------------------------------------
(* The theorems *)

\* PricingInv is inductive.
LEMMA PricingStarts == Init => PricingInv
<1> SUFFICES ASSUME Init PROVE PricingInv
  OBVIOUS
<1>1. CardInv
  BY CardStarts DEF Init
<1>2. PICK r \in {q \in Requests : Jobs[q.job].mode = "SHEET" /\ q.fin # "keep"} :
        LET line == LineTotal(Jobs[r.job], r.fin, rates["paper"], rates["finishing"], rates["printing"])
        IN  items = [i \in Items |->
               IF i = 1 THEN [NewRow(r.job, r.fin) EXCEPT !.line = line, !.of = r] ELSE Unused]
  BY DEF Init
<1> DEFINE line == LineTotal(Jobs[r.job], r.fin, rates["paper"], rates["finishing"], rates["printing"])
           new  == NewRow(r.job, r.fin)
           row  == [new EXCEPT !.line = line, !.of = r]
<1>3. /\ status = "DRAFT" /\ offers = <<>> /\ txn = [w \in Workers |-> Idle]
      /\ late = FALSE /\ disturbed = {} /\ met = [w \in Workers |-> {}]
  BY DEF Init
<1>4. /\ rates["paper"] \in Prices["paper"] /\ rates["printing"] \in Prices["printing"]
      /\ rates["finishing"] \in Prices["finishing"]
      /\ rates["paper"] \in Int /\ rates["printing"] \in Int /\ rates["finishing"] \in Int
  <2>1. rates \in Rows
    BY <1>1 DEF CardInv, CardTypeOK
  <2> QED BY <2>1, TablesType, CardAssumption DEF Rows, Tables
<1>5. r.job \in Names /\ r.fin \in Fins /\ Jobs[r.job].mode = "SHEET"
      /\ r \in [job : Names \cup {""}, fin : Fins]
      /\ r = [job |-> r.job, fin |-> r.fin]
  <2>1. r \in [job : Names, fin : {"keep", "none"} \cup DOMAIN Entries] /\ r.fin # "keep"
    BY PricingAssumption DEF Names
  <2> QED BY <2>1 DEF Fins
<1>6. line \in Int
  BY <1>4, <1>5, LineTotalType
<1>7. items = [i \in Items |-> IF i = 1 THEN row ELSE Unused]
  BY <1>2
<1>8. new \in Row
  <2>1. r.job \in Names /\ r.fin \in Fins
    BY <1>5
  <2> QED BY <2>1, NewRowType
<1>9. new.job = r.job /\ new.fin = r.fin
  BY DEF NewRow
<1> HIDE DEF new
<1>10. row \in Row /\ row.job = r.job /\ row.fin = r.fin /\ row.of = r /\ row.line = line
  <2> HIDE DEF line
  <2> QED BY <1>5, <1>6, <1>8, <1>9 DEF Row
<1> HIDE DEF row
<1>11. Covers(row) /\ Fresh(row)
  <2>1. row.line = LineTotal(Jobs[row.of.job], row.of.fin, rates["paper"], rates["finishing"],
                             rates["printing"])
    BY <1>10
  <2> HIDE DEF line
  <2>2. Covers(row)
    BY <1>4, <1>5, <1>10, <2>1, LineTotalCovers
  <2> QED BY <1>5, <1>10, <2>2 DEF Fresh
<1>12. \A i \in Items : items[i] = IF i = 1 THEN row ELSE Unused
  BY <1>7
<1>13. \A w \in Workers : txn[w] = Idle /\ met[w] = {}
  BY <1>3
<1>14. TypeOK
  <2>1. items \in [Items -> Row \cup {Unused, Gone}]
    BY <1>7, <1>10
  <2>2. txn \in [Workers -> Call]
    BY <1>3, IdleCall
  <2>3. offers \in Seq(Offer)
    BY <1>3
  <2>4. met \in [Workers -> SUBSET Items]
    BY <1>3
  <2> QED BY <1>1, <1>3, <2>1, <2>2, <2>3, <2>4 DEF TypeOK, CardInv
<1>15. RowsCover /\ RowsFresh
  BY <1>11, <1>12, NoRowIsGone DEF RowsCover, RowsFresh, Present, Exists
<1>16. (\A w \in Workers : CallShape(txn[w])) /\ Apart /\ CallsKnow
  BY <1>13, IdleCall DEF Apart, CallsKnow
<1>17. OffersInOrder /\ SentOfferAddsUp
  BY <1>3 DEF OffersInOrder, SentOfferAddsUp
<1>18. \A w \in Workers : SumHolds(txn[w])
  BY <1>13, IdleCall
<1> QED BY <1>1, <1>14, <1>16, <1>17, <1>18, <1>15 DEF PricingInv

\* Every step keeps it.
LEMMA PricingNext == PricingInv /\ [Next]_vars => PricingInv'
<1> SUFFICES ASSUME PricingInv, [Next]_vars PROVE PricingInv'
  OBVIOUS
<1>1. ASSUME NEW w \in Workers, Begins(w) PROVE PricingInv'
  BY <1>1, BeginChangeKeeps, BeginRemoveKeeps, BeginAddKeeps, BeginSubmitKeeps, BeginSendKeeps
     DEF Begins
<1>2. ASSUME NEW w \in Workers, Step(w) PROVE PricingInv'
  BY <1>2, SubmitKeeps, ReadKeeps, DestroyKeeps, SaveKeeps, ClearKeeps, AttachKeeps, TweakWriteKeeps,
     PriceKeeps, StoreEditKeeps, StoreOwnKeeps, StoreSendKeeps, FlagKeeps, CommitItemKeeps,
     FetchKeeps, SumKeeps, CommitSendKeeps, FailKeeps
     DEF Step
<1>3. CASE CardNext /\ UNCHANGED pricingVars
  BY <1>3, CardNextKeeps, CardStepKeeps DEF PricingInv
<1>4. CASE UNCHANGED vars
  BY <1>4, CardStutters, CardStepKeeps DEF PricingInv, vars
<1> QED BY <1>1, <1>2, <1>3, <1>4 DEF Next

\* api/views.py, api/serializers.py, api/quote_views.py, quotes/pricing_service.py:
\* whatever steps the calls take between each other, each stays in its shape, and
\* knows its item unless another call is at work on it.
THEOREM PricingInvariant == Spec => []PricingInv
BY PricingStarts, PricingNext, PTL DEF Spec

\* api/quote_views.py:203 and 583: the request is only ever in the statuses its
\* handlers know, and rows, offers and what the calls hold are well formed.
THEOREM PricingTypeCorrect == Spec => []TypeOK
<1>1. PricingInv => TypeOK
  BY DEF PricingInv
<1> QED BY <1>1, PricingInvariant, PTL

\* api/quote_views.py:622-702: unless a line was written between a send's sum and its
\* commit, or after an offer was sent, the offer in force is linked to every item and
\* its computed total is the sum of their lines, whatever the buyer writes while the
\* send prices.
THEOREM OffersAddUp == Spec => []SentOfferAddsUp
<1>1. PricingInv => SentOfferAddsUp
  BY DEF PricingInv
<1> QED BY <1>1, PricingInvariant, PTL

\* What may be at work on an unfresh row is at work on it or has disturbed it.
LEMMA InvFlags == PricingInv => StalePriceIsFlagged
BY DEF PricingInv, RowsFresh, Fresh, Holding, StalePriceIsFlagged

\* api/serializers.py:733-781, api/views.py:1783: a price made for another
\* specification is flagged, unless an edit is at work on the item, or calls overlapped
\* or an edit died on it and no call has priced it alone since.
THEOREM StalePricesAreFlagged == Spec => []StalePriceIsFlagged
BY InvFlags, PricingInvariant, PTL

\* Covered rows and numbers for totals are what a sound price needs.
LEMMA InvSound == PricingInv => PricesAreSound
<1> SUFFICES ASSUME PricingInv PROVE PricesAreSound
  OBVIOUS
<1>1. LinesCoverTheSheets
  BY DEF PricingInv, RowsCover, LinesCoverTheSheets
<1>2. RollsCoverTheArtwork
  <2> SUFFICES ASSUME NEW job \in Rolls, NEW price \in Prices["finishing"],
                      NEW sides \in {"SINGLE", "DOUBLE", "BOTH"},
                      job.roll.price >= 0, job.roll.print >= 0
               PROVE  LET rate  == [Finishing EXCEPT !.price = price]
                          entry == [Plain EXCEPT !.sides = sides]
                      IN  RollLine(job, rate, entry) >=
                            RollFinished(job, rate, entry, RollCharge(job, ArtworkArea(job)))
    BY DEF RollsCoverTheArtwork
  <2>1. RollJob(job) /\ price \in Int
    BY PricingAssumption, TablesType
  <2>2. [Finishing EXCEPT !.price = price] \in FinishingRate
    BY <2>1, PricingAssumption DEF FinishingRate
  <2>3. [Plain EXCEPT !.sides = sides] \in Entry
    BY DEF Plain, Entry, NullablePrice
  <2> QED BY <2>1, <2>2, <2>3, RollsCoverTheirArtwork
<1>3. \A cost \in Int : SoundAtEveryMarkup(cost)
  BY PricingAssumption, AllowedSalesSplitSoundly DEF SoundAtEveryMarkup
<1>4. \A k \in DOMAIN offers : offers[k].total \in Int
  <2>1. offers \in Seq(Offer)
    BY DEF PricingInv, TypeOK
  <2>2. \A k \in DOMAIN offers : offers[k] \in Offer
    BY <2>1, LenProperties, ElementOfSeq
  <2> QED BY <2>2 DEF Offer
<1> QED BY <1>1, <1>2, <1>3, <1>4, PricingAssumption
        DEF PricesAreSound, SharesAreSound, SoundAtTheLimits

\* quotes/pricing_service.py:349, quotes/large_format_calculator.py:71 and
\* pricing/services/platform_fee_policy.py:135: a line covers the sheets of its copies
\* at prices the shop had, with what the item says of its finishing on top, a roll is
\* charged for its artwork, and every sale the policy allows is split soundly.
THEOREM PricesStaySound == Spec => []PricesAreSound
BY InvSound, PricingInvariant, PTL

\* No call on a quote touches the card.
LEMMA OnlyThePagesSave == [Next]_vars => [CardNext]_cardVars \/ card' = card
<1> SUFFICES ASSUME [Next]_vars PROVE [CardNext]_cardVars \/ card' = card
  OBVIOUS
<1>1. ASSUME NEW w \in Workers, Begins(w) PROVE card' = card
  <2>1. \A c : Starts(w, c) => card' = card
    BY DEF Starts
  <2> QED BY <1>1, <2>1 DEF Begins, BeginChange, BeginRemove, BeginAdd, BeginSubmit, BeginSend
<1>2. ASSUME NEW w \in Workers, Step(w) PROVE card' = card
  <2>1. Unmoved => card' = card
    BY DEF Unmoved, cardVars
  <2>2. Submit(w) \/ Read(w) \/ Destroy(w) \/ Save(w) \/ Clear(w) \/ Attach(w) => Unmoved
    BY DEF Submit, Read, Destroy, Save, Clear, Attach
  <2>3. TweakWrite(w) \/ Price(w) \/ StoreEdit(w) \/ StoreOwn(w) \/ StoreSend(w) => Unmoved
    BY DEF TweakWrite, Price, StoreEdit, StoreOwn, StoreSend
  <2>4. Flag(w) \/ CommitItem(w) \/ Fetch(w) \/ Sum(w) \/ CommitSend(w) \/ Fail(w) => Unmoved
    BY DEF Flag, CommitItem, Fetch, Sum, CommitSend, Fail
  <2> QED BY <1>2, <2>1, <2>2, <2>3, <2>4 DEF Step
<1>3. CASE CardNext /\ UNCHANGED pricingVars
  BY <1>3
<1>4. CASE UNCHANGED vars
  BY <1>4 DEF vars
<1> QED BY <1>1, <1>2, <1>3, <1>4 DEF Next

\* services/pricing/mvp_rate_card.py:1790: the calls on a quote read the rates a page
\* replaces, and still a save replaces only the copy its page loaded.
THEOREM NoSaveIsLostWhilePricing == Spec => NoSilentOverwrite
<1>1. PricingInv /\ [Next]_vars =>
        [\A t \in Tabs :
           (card' # card /\ tabs[t].checked /\ tabs[t].step \in {"locked", "unlocked"}
              /\ tabs'[t].step = "idle" /\ ~raced')
           => tabs[t].serial = card.serial]_cardVars
  BY OnlyThePagesSave, SaveMeetsItsCopy DEF PricingInv
<1> QED BY <1>1, PricingInvariant, PTL DEF Spec, NoSilentOverwrite
=============================================================================
