SPECIFICATION Spec
CONSTANTS
    t1 = t1
    t2 = t2
    car = car
    house = house
    red = red
    Tx <- MCTx
    Resource <- MCResource
    Value <- MCValue
    Absent = Absent
    Genesis = Genesis
    Nil = Nil
INVARIANTS
    HistorianExact
    RejectedForAnother
PROPERTIES
    AtomicSpec
CHECK_DEADLOCK FALSE
