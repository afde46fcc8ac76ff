------------------------------ MODULE RateCard ------------------------------
(***************************************************************************)
(* The rate card of one shop: services/pricing/mvp_rate_card.py and the    *)
(* views of api/workflow_views.py that load and save it, next to the       *)
(* views of api/views.py that edit one rate directly.                      *)
(*                                                                         *)
(* A card is kept twice: as the rows the shop typed (ShopRateCardSetup),   *)
(* with a version, and as the live rates the pricing reads (Paper,         *)
(* PrintingRate, FinishingRate).  A save replaces both.  It is a           *)
(* transaction that locks the setup row first, but a shop that never saved *)
(* has no row to lock.                                                     *)
(***************************************************************************)
EXTENDS Integers

CONSTANTS Tabs,       \* open rate card pages and other callers of a save
          Prices,     \* table |-> the prices it may hold
          MaxCalls    \* bound: calls that begin

ASSUME CardAssumption ==
    /\ MaxCalls \in Nat
    /\ DOMAIN Prices = {"paper", "printing", "finishing"}

VARIABLES card,    \* the ShopRateCardSetup row
          rates,   \* the live rates
          calls,   \* how many pages were loaded and rates edited directly
          tabs,    \* what each caller holds
          raced    \* history: a first save met a card that was not there before

cardVars == <<card, rates, calls, tabs, raced>>

Tables == DOMAIN Prices
Rows   == {f \in [Tables -> UNION {Prices[t] : t \in Tables}] :
             \A t \in Tables : f[t] \in Prices[t]}

\* Versions are decimal numerals, "0" when there is no row.  A row saved before
\* versioning answers with its time stamp, which no numeral equals.
Never  == 0
Stamp  == -1
Labels == Nat \cup {Stamp}

\* `serial' tells the saved copies apart, as their content and time would; it is
\* not in the code.  0 stands for no card.
Card   == [version : Labels, rows : Rows, serial : Nat]
Blank  == CHOOSE rows \in Rows : TRUE
NoCard == [version |-> Never, rows |-> Blank, serial |-> 0]

Saved == card.serial > 0

\* version, serial: the copy the page was given.  rows: what it will save.
\* next: the version the transaction computed.  checked: it sends the version.
Tab == [step : {"idle", "open", "locked", "unlocked"}, version : Labels,
        serial : Nat, rows : Rows, checked : BOOLEAN, next : Labels]

Closed == [step |-> "idle", version |-> Never, serial |-> 0, rows |-> Blank,
           checked |-> FALSE, next |-> Never]

CardTypeOK ==
    /\ card \in Card
    /\ rates \in Rows
    /\ calls \in 0 .. MaxCalls
    /\ tabs \in [Tabs -> Tab]
    /\ raced \in BOOLEAN

\* A shop that has rates but never saved a card, or saved one before versioning.
CardInit ==
    \E rows \in Rows, legacy \in BOOLEAN :
       /\ card = IF legacy THEN [version |-> Stamp, rows |-> rows, serial |-> 1]
                 ELSE NoCard
       /\ rates = rows
       /\ calls = 0
       /\ tabs = [t \in Tabs |-> Closed]
       /\ raced = FALSE

\* select_for_update on the setup row, held until the transaction ends.
CardLocked == \E t \in Tabs : tabs[t].step = "locked"

\* One rate is typed anew, or none.
Edited(rows) == {r \in Rows : \E t \in Tables : \A u \in Tables \ {t} : r[u] = rows[u]}

OneMoreCall == calls < MaxCalls /\ calls' = calls + 1

\* _next_rate_card_version: computed when the row is read under the lock.
NextVersion(t) == IF card.version = Stamp THEN 2 ELSE card.version + 1

\* GET, and the first read of complete_shop_rate_card_setup: the stored rows, or
\* the live rates of a shop without a card.
Load(t) ==
    /\ tabs[t].step = "idle"
    /\ OneMoreCall
    /\ tabs' = [tabs EXCEPT ![t] =
          [Closed EXCEPT !.step = "open", !.version = card.version, !.serial = card.serial,
                         !.rows = IF Saved THEN card.rows ELSE rates]]
    /\ UNCHANGED <<card, rates, raced>>

\* Mutant: the version is compared before the row is locked.
BeginUnlocked(t) ==
    /\ tabs[t].step = "open"
    /\ \E checked \in BOOLEAN, rows \in Edited(tabs[t].rows) :
          /\ ~checked \/ tabs[t].version = card.version
          /\ tabs' = [tabs EXCEPT ![t] =
                [@ EXCEPT !.step = IF Saved THEN "locked" ELSE "unlocked", !.rows = rows,
                          !.checked = checked, !.next = NextVersion(t)]]
    /\ UNCHANGED <<card, rates, calls, raced>>

\* The start of save_shop_rate_card_setup: the row is locked if there is one, and
\* a page that sends the version it loaded is refused when the card moved on (it
\* then reloads).  A public save or a completion sends none.
Begin(t) ==
    /\ tabs[t].step = "open"
    /\ ~CardLocked \/ ~Saved
    /\ \E checked \in BOOLEAN, rows \in Edited(tabs[t].rows) :
          tabs' = [tabs EXCEPT ![t] =
             IF checked /\ tabs[t].version # card.version THEN Closed
             ELSE [@ EXCEPT !.step = IF Saved THEN "locked" ELSE "unlocked", !.rows = rows,
                            !.checked = checked, !.next = NextVersion(t)]]
    /\ UNCHANGED <<card, rates, calls, raced>>

\* The rest of it, seen by others at the commit: the live rates are replaced by
\* the rows, and the card with them.  A transaction that found no row inserts
\* one, or updates the one that another put there meanwhile.
Commit(t) ==
    /\ \/ tabs[t].step = "locked"
       \/ tabs[t].step = "unlocked" /\ ~CardLocked
    /\ card' = [version |-> tabs[t].next, rows |-> tabs[t].rows, serial |-> card.serial + 1]
    /\ rates' = tabs[t].rows
    /\ raced' = (raced \/ (tabs[t].step = "unlocked" /\ Saved))
    /\ tabs' = [tabs EXCEPT ![t] = Closed]
    /\ UNCHANGED calls

\* The transaction fails: an error, or the database ends a deadlock between a
\* first save, which takes the rates before the card, and a later one.
Abort(t) ==
    /\ tabs[t].step \in {"locked", "unlocked"}
    /\ tabs' = [tabs EXCEPT ![t] = Closed]
    /\ UNCHANGED <<card, rates, calls, raced>>

\* The page is left.
Leave(t) ==
    /\ tabs[t].step = "open"
    /\ tabs' = [tabs EXCEPT ![t] = Closed]
    /\ UNCHANGED <<card, rates, calls, raced>>

\* ShopPaperViewSet, MachinePrintingRateViewSet, ShopFinishingRateViewSet: one live
\* rate, while the card keeps its rows and its version.
DirectEdit ==
    /\ OneMoreCall
    /\ rates' \in Edited(rates) \ {rates}
    /\ UNCHANGED <<card, tabs, raced>>

CardNext ==
    \/ \E t \in Tabs : Load(t) \/ Begin(t) \/ Commit(t) \/ Abort(t) \/ Leave(t)
    \/ DirectEdit

CardSpec == CardInit /\ [][CardNext]_cardVars

-----------------------------------------------------------------------------
(* Properties *)

\* A save that sent the version it loaded replaces exactly the copy it loaded: no
\* other save gets lost unseen (StaleRateCardVersion).  Unless two first saves met.
NoSilentOverwrite ==
    [][\A t \in Tabs :
          (card' # card /\ tabs[t].checked /\ tabs[t].step \in {"locked", "unlocked"}
             /\ tabs'[t].step = "idle" /\ ~raced')
          => tabs[t].serial = card.serial]_cardVars

\* A version names one copy: whoever was given the version of the card in force
\* was given that card.  Unless two first saves met, which both become "1".
VersionNamesCopy ==
    ~raced => \A t \in Tabs :
       (tabs[t].step # "idle" /\ tabs[t].version = card.version) => tabs[t].serial = card.serial
=============================================================================
