SPECIFICATION Spec
CONSTANTS
    t1 = t1
    t2 = t2
    e1 = e1
    e2 = e2
    kzt = kzt
    eur = eur
    KZT = KZT
    USD = USD
    EUR = EUR
    Null = Null
    Accounts = {kzt, eur}
    Currencies = {EUR, KZT, USD}
    PoolSize = 4
CONSTANT Req <- MCReq
CONSTANT Cmds <- MCCmds
INVARIANTS
    TypeOK
    NoLostUpdate
    Conservation
    TransferWhole
    LocksInOrder
    LockingInv
    LoopInv
PROPERTIES
    LotNeverRefilled
    FifoOrder
    PricedFromStock
