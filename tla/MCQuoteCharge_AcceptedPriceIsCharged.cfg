SPECIFICATION Spec

CONSTANTS
    Requests = {r1}
    Amounts = {a1, a2}
    NoAmount = NoAmount

PROPERTIES
    AcceptedPriceIsCharged
