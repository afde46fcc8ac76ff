----------------------------- MODULE PriceRules -----------------------------
(***************************************************************************)
(* The arithmetic of a price, as operators over whole numbers: imposition  *)
(* and sheets (services/pricing/imposition.py,                             *)
(* pricing/services/production_cost_calculator.py), printing and finishing *)
(* rates (pricing/models.py, quotes/pricing_service.py), rolls             *)
(* (quotes/large_format_calculator.py, services/engine) and the split of a *)
(* sale between shop, manager and Printy                                   *)
(* (pricing/services/platform_fee_policy.py).                              *)
(*                                                                         *)
(* Money is in cents unless a name says shillings, lengths are in          *)
(* millimetres, rates in 1/10000 and the multiples of a sale in percent.   *)
(***************************************************************************)
EXTENDS Integers

CONSTANT NoPrice      \* a null in a column of prices

ASSUME NullAssumption == NoPrice \notin Int

Larger(a, b)  == IF a >= b THEN a ELSE b
Smaller(a, b) == IF a <= b THEN a ELSE b

-----------------------------------------------------------------------------
(* Rounding.  n and d are whole and d > 0; n >= 0 for CeilDiv and HalfUp. *)

\* ROUND_CEILING, math.ceil
CeilDiv(n, d) == (n + d - 1) \div d

\* ROUND_HALF_UP: money, rate, whole_kes
HalfUp(n, d) == (2 * n + d) \div (2 * d)

\* Decimal.quantize without a rounding mode (half to even) of a + n/d
HalfEven(a, n, d) ==
    LET q == a + n \div d
        r == 2 * (n % d)
    IN  IF r > d \/ (r = d /\ q % 2 = 1) THEN q + 1 ELSE q

\* What numeric(12, 2) of PostgreSQL stores of a + n/d: half away from zero
HalfAway(a, n, d) ==
    LET q == a + n \div d
        r == 2 * (n % d)
    IN  IF r > d \/ (r = d /\ q >= 0) THEN q + 1 ELSE q

-----------------------------------------------------------------------------
(* Sheets *)

\* Mutant: an edge piece that is cut off counts.
FitsRoundedUp(available, item) ==
    IF available <= 0 \/ item <= 0 THEN 0 ELSE CeilDiv(available, item)

\* How many items lie side by side.
Fits(available, item) ==
    IF available <= 0 \/ item <= 0 THEN 0 ELSE available \div item

\* compute_copies_per_sheet: the better of the two orientations, 0 for no fit.
\* The callers turn a bleed of 0 into 3 (`or 3').
CopiesPerSheet(piece, sheet, bleed) ==
    LET edge == 2 * (IF bleed = 0 THEN 3 ELSE bleed)
        w    == piece.w + edge
        h    == piece.h + edge
    IN  IF piece.w <= 0 \/ piece.h <= 0 THEN 0
        ELSE Larger(Fits(sheet.w, w) * Fits(sheet.h, h),
                    Fits(sheet.w, h) * Fits(sheet.h, w))

GoodSheets(quantity, copies) ==
    IF copies <= 0 \/ quantity <= 0 THEN 0 ELSE CeilDiv(quantity, copies)

\* WastePolicy.clean
WastePolicy(waste) ==
    /\ waste.fixed \in Nat /\ waste.rate \in Nat /\ waste.spoilage \in Nat
    /\ waste.minimum \in Nat \ {0}

\* calculate_billable_sheets: the good sheets with their waste, never more than
\* the spoilage cap allows.
BillableSheets(quantity, yield, waste) ==
    LET raw        == CeilDiv(quantity, yield)
        needed     == raw + waste.fixed + CeilDiv(raw * waste.rate, 10000)
        production == Larger(needed, waste.minimum)
        cap        == raw + CeilDiv(raw * waste.spoilage, 10000)
    IN  Smaller(production, cap)

-----------------------------------------------------------------------------
(* Rates.  No column of a price says that it is not below zero. *)

\* should_apply_duplex_surcharge: heavy stock, except art paper of 130 gsm
SurchargeApplies(rate, paper) ==
    /\ rate.surcharge > 0
    /\ rate.enabled
    /\ ~(paper.art /\ paper.gsm = 130)
    /\ rate.threshold = NoPrice \/ paper.gsm >= rate.threshold

\* get_price_for_sides
PrintPrice(rate, paper, duplex) ==
    LET extra == IF SurchargeApplies(rate, paper) THEN rate.surcharge ELSE 0
        base  == IF ~duplex THEN rate.single
                 ELSE IF rate.double # NoPrice THEN rate.double
                 ELSE 2 * rate.single
    IN  base + extra

\* compute_single_finishing_cost without PER_SQM (see AreaCost): no branch adds a
\* minimum charge.  An entry is what the item says of its finishing: a price of
\* its own, and its sides.  A job without sheets is charged one sheet a copy.
FinishingCost(fin, entry, printed, quantity, sheets) ==
    LET own      == entry.override # NoPrice
        single   == IF own THEN entry.override ELSE fin.price
        double   == IF own THEN 2 * entry.override
                    ELSE IF fin.double # NoPrice THEN fin.double ELSE 2 * fin.price
        sides    == CASE entry.sides = "SINGLE" -> 1 [] entry.sides = "DOUBLE" -> 2 [] OTHER -> printed
        flat     == IF sides = 2 THEN double ELSE single
        count    == IF sheets > 0 THEN sheets ELSE Larger(1, quantity)
        sided(p) == IF sides = 2 /\ fin.double # NoPrice THEN fin.double ELSE p * sides
    IN  CASE fin.unit = "PER_PIECE" -> flat * quantity
          [] fin.unit = "PER_SIDE"  -> single * quantity * sides
          [] fin.unit = "PER_SHEET" -> (IF fin.sided THEN sided(fin.price) ELSE fin.price) * count + fin.setup
          [] fin.unit = "PER_SIDE_PER_SHEET" -> sided(single) * count + fin.setup
          [] fin.unit = "FLAT"      -> flat + fin.setup
          [] OTHER                  -> 0

\* PER_SQM, in millionths of a cent: the area is in square millimetres.
AreaCost(fin, area) == IF fin.unit = "PER_SQM" THEN fin.price * area ELSE 0

-----------------------------------------------------------------------------
(* The line of an item.  A job is what the client ordered, `machine' standing  *)
(* for a machine, sides and colour mode that are all chosen and `rated' for an *)
(* active printing rate of that machine, sheet size and colour mode (B&W has   *)
(* none unless the shop holds one); fin and the prices are what the queries    *)
(* of the pricing found.                                                       *)

NoFinishing == [unit |-> "NONE", price |-> 0, double |-> NoPrice, setup |-> 0,
                sided |-> FALSE]

\* An entry that says nothing.
Plain == [override |-> NoPrice, sides |-> "BOTH"]

\* What the database may hold: a job on sheets and one on a roll, a printing rate
\* and a finishing rate.
SheetJob(job) ==
    /\ job.quantity \in Nat /\ job.bleed \in Nat
    /\ job.machine \in BOOLEAN /\ job.rated \in BOOLEAN /\ job.duplex \in BOOLEAN
    /\ job.piece.w \in Int /\ job.piece.h \in Int
    /\ job.paper.w \in Nat /\ job.paper.h \in Nat /\ job.paper.gsm \in Nat
    /\ job.paper.chosen \in BOOLEAN /\ job.paper.art \in BOOLEAN
    /\ WastePolicy(job.waste)

RollJob(job) ==
    /\ job.quantity \in Nat /\ job.bleed \in Nat /\ job.duplex \in BOOLEAN
    /\ job.piece.w \in Nat \ {0} /\ job.piece.h \in Nat \ {0}
    /\ job.roll.width \in Nat /\ job.roll.lead \in Nat /\ job.roll.minArea \in Nat
    /\ job.roll.price \in Int /\ job.roll.print \in Int

NullablePrice == Int \cup {NoPrice}

PrintingRate == [single : Int, double : NullablePrice, surcharge : Int, enabled : BOOLEAN,
                 threshold : NullablePrice]

FinishingRate == [unit : {"PER_PIECE", "PER_SIDE", "PER_SHEET", "PER_SIDE_PER_SHEET", "FLAT",
                          "PER_SQM", "NONE"},
                  price : Int, double : NullablePrice, setup : Int, sided : BOOLEAN]

\* QuoteItemFinishing: the buyer writes both, the price without a bound.
Entry == [override : NullablePrice, sides : {"SINGLE", "DOUBLE", "BOTH"}]

Copies(job) == CopiesPerSheet(job.piece, job.paper, job.bleed)

\* Mutant: the last sheet, which is not full, is not billed.
BilledFullSheets(job) ==
    IF job.machine /\ Copies(job) = 0 THEN 0 ELSE job.quantity \div Larger(Copies(job), 1)

\* The sheets paper and print are billed on: with a machine the engine's, which
\* has none for a piece that does not fit; without one the fallback's, which then
\* counts one copy a sheet.
BilledSheets(job) ==
    LET copies == Copies(job)
    IN  IF job.machine /\ copies = 0 THEN 0
        ELSE BillableSheets(job.quantity, IF copies = 0 THEN 1 ELSE copies, job.waste)

\* The engine's answer has no totals: paper and print then count as nothing.
NoTotals(job) == job.machine /\ (Copies(job) = 0 \/ ~job.rated)

\* Paper and print of one sheet.  Without a machine there is no print.
SheetPrice(job, paperPrice, printRate) ==
    paperPrice + IF job.machine THEN PrintPrice(printRate, job.paper, job.duplex) ELSE 0

\* The line of a job on sheets that cost so much together: the finishing is charged
\* on the good sheets.
Finished(job, fin, entry, sheets) ==
    LET good == GoodSheets(job.quantity, Copies(job))
    IN  HalfAway(sheets + FinishingCost(fin, entry, IF job.duplex THEN 2 ELSE 1, job.quantity, good),
                 AreaCost(fin, job.paper.w * job.paper.h * good), 1000000)

\* _compute_sheet_pricing with calculate_sheet_pricing.  Without a paper the line is 0.
SheetLine(job, fin, entry, paperPrice, printRate) ==
    IF ~job.paper.chosen THEN 0
    ELSE Finished(job, fin, entry, IF NoTotals(job) THEN 0
                                   ELSE BilledSheets(job) * SheetPrice(job, paperPrice, printRate))

-----------------------------------------------------------------------------
(* Rolls.  Only the price of a gallery product is made here: an item of a      *)
(* request has no material, and its pricing raises.                            *)

\* roll_orientation: the piece is turned only when that scores strictly better
\* (fits, pieces side by side, share of the width used).
Turned(w, h, width) ==
    LET across(item) == IF item <= width THEN Fits(width, item) ELSE 0
    IN  \/ w > width /\ h <= width
        \/ /\ w <= width /\ h <= width
           /\ \/ across(h) > across(w)
              \/ across(h) = across(w) /\ h > w

\* RollLayoutImposer.impose: the length of roll the copies take.  A piece wider
\* than the roll is cut into strips of equal width.
RollLength(job) ==
    LET edge   == 2 * job.bleed
        turned == Turned(job.piece.w + edge, job.piece.h + edge, job.roll.width)
        w      == (IF turned THEN job.piece.h ELSE job.piece.w) + edge
        h      == (IF turned THEN job.piece.w ELSE job.piece.h) + edge
        strips == CeilDiv(w, job.roll.width)
        across == (job.roll.width * strips) \div w
    IN  CeilDiv(strips * job.quantity, across) * h + job.roll.lead

\* calculate_large_format: square metres / 10000, at least the product's minimum.
\* A material without a roll width is charged by the area of the artwork.
RollArea(job) ==
    LET used == IF job.roll.width = 0 THEN job.piece.w * job.piece.h * job.quantity
                ELSE RollLength(job) * job.roll.width
    IN  Larger(HalfEven(0, used, 100), job.roll.minArea)

\* Square metres / 10000 of the artwork itself.
ArtworkArea(job) == HalfEven(0, job.piece.w * job.piece.h * job.quantity, 100)

\* Material and print of an area, each rounded.
RollCharge(job, area) ==
    HalfEven(0, job.roll.price * area, 10000) + HalfEven(0, job.roll.print * area, 10000)

\* The line of a roll job whose material and print cost so much: the finishing is
\* charged on the artwork.
RollFinished(job, fin, entry, charge) ==
    HalfEven(charge + FinishingCost(fin, entry, IF job.duplex THEN 2 ELSE 1, job.quantity, 0),
             AreaCost(fin, job.piece.w * job.piece.h * job.quantity), 1000000)

\* _compute_large_format_pricing
RollLine(job, fin, entry) == RollFinished(job, fin, entry, RollCharge(job, RollArea(job)))

-----------------------------------------------------------------------------
(* The split of a sale, in whole shillings: calculate_quote_financials *)

\* shop_floor_multiple, manager_commission_cap_rate, max_client_price_multiple, in percent
Tier(cost) ==
    IF cost < 1000 THEN [floor |-> 100, cap |-> 60, max |-> 300]
    ELSE IF cost <= 10000 THEN [floor |-> 105, cap |-> 45, max |-> 250]
    ELSE [floor |-> 108, cap |-> 35, max |-> 200]

\* The raw amounts are in cents: they are checked before and after rounding.
SplitAllowed(rawCost, rawMarkup) ==
    LET cost   == HalfUp(rawCost, 100)
        markup == HalfUp(rawMarkup, 100)
        most   == Tier(cost).max
    IN  /\ rawCost > 0 /\ rawMarkup >= 0 /\ cost > 0
        /\ cost + markup <= HalfUp(cost * most, 100)
        /\ (rawCost + rawMarkup) * 100 <= rawCost * most

\* Mutant: the three shares are rounded each on its own.
SplitOnItsOwn(rawCost, rawMarkup) ==
    LET cost    == HalfUp(rawCost, 100)
        markup  == HalfUp(rawMarkup, 100)
        shop    == HalfUp(cost * Tier(cost).floor, 100)
        manager == Smaller(markup, HalfUp(markup * Tier(cost).cap, 100))
    IN  [client |-> cost + markup, shop |-> shop, manager |-> manager,
         printy |-> HalfUp(markup * (100 - Tier(cost).cap), 100) - (shop - cost)]

\* The fee is what is left, so that the three shares always add up.
Split(rawCost, rawMarkup) ==
    LET cost    == HalfUp(rawCost, 100)
        markup  == HalfUp(rawMarkup, 100)
        shop    == HalfUp(cost * Tier(cost).floor, 100)
        manager == Smaller(markup, HalfUp(markup * Tier(cost).cap, 100))
    IN  [client |-> cost + markup, shop |-> shop, manager |-> manager,
         printy |-> cost + markup - shop - manager]

\* Of a sale the policy allows, the shares add up to what the client pays, which
\* is within a shilling of what was quoted; the shop gets its cost at least and
\* the manager no more than his markup; and Printy, who keeps what is left, never
\* pays more than the shop's premium over its cost, and nothing in the first tier.
SoundSplit(rawCost, rawMarkup) ==
    LET share   == Split(rawCost, rawMarkup)
        cost    == HalfUp(rawCost, 100)
        premium == share.shop - cost
    IN  /\ share.shop + share.manager + share.printy = share.client
        /\ 100 * share.client - (rawCost + rawMarkup) \in -100 .. 100
        /\ premium >= 0
        /\ share.manager \in 0 .. HalfUp(rawMarkup, 100)
        /\ share.printy >= -premium
        /\ cost < 1000 => share.printy >= 0
=============================================================================
