\* The listening thread and the main thread around two M keys and MR.
SPECIFICATION FairSpec
CONSTANTS
    m1 = m1
    m2 = m2
    Bank <- TwoKeys
    NoBank = NoBank
    Reports <- KeyReports
INVARIANTS
    TypeOK
    BankTold
    ClosedIsDark
PROPERTIES
    CloseEnds
