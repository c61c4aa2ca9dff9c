\* Two claims on one card that holds both, with the faults taken one kind at a time.
CONSTANTS
    a = a
    b = b
    Order <- MCOrder
    Card = 8
    Footprint <- MCFootprint
    KVFloor <- MCKVFloor
    Startup = 5
    MinChange = 2
    MaxFaults = 1
    MaxBursts = 1
    Scenarios <- MCScenarios
SPECIFICATION Spec
CHECK_DEADLOCK FALSE
INVARIANTS
    TypeOK
    RecordsFit
    NeverOversubscribed
    HeldWithinRecord
    EngineAnswersToClaim
PROPERTIES
    EventuallyServed
    DeletedGoes
    
