SPECIFICATION Spec
CONSTANTS
    ann = ann
    bob = bob
    eur = eur
    kzt = kzt
    KZT = KZT
    EUR = EUR
    Null = Null
    i1 = i1
    i2 = i2
    Users = {ann, bob}
    Accounts = {eur, kzt}
    Ids = {i1, i2}
    Currencies = {EUR, KZT}
    Bases = {1}
    DayLength = 2
    Cent = 5
CONSTANT Years <- MCYears
CONSTANT AskedYears <- MCAskedYears
CONSTANT AskedMonths <- MCMonths
CONSTANT Zones <- MCZones
CONSTANT Instants <- MCInstants
CONSTANT Early <- LastNoon
CONSTANT Late <- NewYear
CONSTANT AccountRequests <- MCAccountRequests
CONSTANT AccountEdits <- NoAccountEdits
CONSTANT ExpenseRequests <- MCExpenseRequests
CONSTANT ExpenseEdits <- Moves
CONSTANT IncomeRequests <- MCIncomeRequests
CONSTANT IncomeEdits <- MCIncomeEdits
CONSTANT TransferRequests <- MCTransferRequests
INVARIANTS
    TypeOK
    NoDangling
    OwnerFollowsAccount
    MonthsFillTheYear
    YearsFillAllTime
    MonthsWrap
    UserViewsAgree
    ListsExplainBalance
    WindowsTile
SYMMETRY Symmetry
