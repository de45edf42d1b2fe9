SPECIFICATION Spec
CONSTANTS
    MaxElem = 4
    Elem <- MCElem
    LT <- MCLT
    MaxSize = 7
    None = None
INVARIANTS
    TypeOK
    HeapOrdered
PROPERTIES
    PopTakesMaximal
    ImplementsPriorityBag
