SPECIFICATION ReaderSpec
CONSTANTS
    ann = ann
    bob = bob
    eur = eur
    kzt = kzt
    KZT = KZT
    EUR = EUR
    Null = Null
    i1 = i1
    i2 = i2
    Users = {ann, bob}
    Accounts = {eur, kzt}
    Ids = {i1, i2}
    Currencies = {EUR, KZT}
    Bases = {1}
    Early = 1
    Late = 2
CONSTANT AccountRequests <- FewAccountRequests
CONSTANT AccountEdits <- MCAccountEdits
CONSTANT ExpenseRequests <- FewExpenseRequests
CONSTANT ExpenseEdits <- FewExpenseEdits
CONSTANT IncomeRequests <- FewIncomeRequests
CONSTANT IncomeEdits <- FewIncomeEdits
CONSTANT TransferRequests <- FewTransferRequests
PROPERTIES
    ExactWhenStill
