SPECIFICATION LocksFairSpec
CONSTANTS
    a = a
    b = b
    Teams = {a, b}
    Proposals = {1, 2}
    Offer <- MCOffer
    Requests = {1, 2, 3, 4, 5, 6}
    Call <- MCCall
    Credits = 2
INVARIANTS BalanceIsLedger OneDecision 
PROPERTIES EveryRequestEnds
CHECK_DEADLOCK FALSE
