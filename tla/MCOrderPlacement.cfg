CONSTANTS
    r1 = r1
    r2 = r2
    t1 = t1
    latte = latte
    toast = toast
    NoPrice = NoPrice
    Requests <- MCRequests
    Tables <- MCTables
    Items <- MCItems
    Prices <- MCPrices
    Carts <- MCCarts
    OpeningMenu <- MCOpeningMenu
    MaxDay = 2
    MaxOrders = 3
    MaxEdits = 2
SPECIFICATION Spec
INVARIANTS
    TypeOK
    NumbersAreSequential
    PricedAtOneInstant
    OrdersKeepTheirTable
PROPERTIES
    DrawnNumberIsFree
    ImplementsBook
CHECK_DEADLOCK FALSE
