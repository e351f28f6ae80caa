SPECIFICATION LocksSpec
CONSTANTS
    a = a
    b = b
    Teams = {a, b}
    Proposals = {1, 2}
    Offer <- MCOffer
    Requests = {1, 2, 3, 4}
    Call <- MCSellCall
    Credits = 2
INVARIANTS BalanceIsLedger
CHECK_DEADLOCK FALSE
