SPECIFICATION Spec
CONSTANTS
    ann = ann
    bob = bob
    eur = eur
    kzt = kzt
    KZT = KZT
    EUR = EUR
    Null = Null
    i1 = i1
    i2 = i2
    Users = {ann, bob}
    Accounts = {eur, kzt}
    Ids = {i1, i2}
    Currencies = {EUR, KZT}
    Bases = {1}
    Early = 1
    Late = 2
CONSTANT AccountRequests <- MCAccountRequests
CONSTANT AccountEdits <- MCAccountEdits
CONSTANT ExpenseRequests <- MCExpenseRequests
CONSTANT ExpenseEdits <- MCExpenseEdits
CONSTANT IncomeRequests <- MCIncomeRequests
CONSTANT IncomeEdits <- MCIncomeEdits
CONSTANT TransferRequests <- MCTransferRequests
INVARIANTS
    FeesOutsideBalance
