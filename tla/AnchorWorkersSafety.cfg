\* A mock and two Fabric runs over two batches that may share events.
SPECIFICATION Spec
CONSTANTS
    e1 = e1
    e2 = e2
    e3 = e3
    c1 = c1
    c2 = c2
    Event = {e1, e2, e3}
    Company = {c1, c2}
    CompanyOf <- MCCompanyOf
    Batch = {b1, b2}
    Leaves <- MCLeaves
    MockRun = {m1}
    FabricRun = {f1, f2}
    TxId = {t1, t2}
INVARIANTS
    TypeOK
    SubmittedOnce
    AnchorIsTrue
    ProofsVerify
PROPERTY EveryBatchEnds
CHECK_DEADLOCK FALSE
