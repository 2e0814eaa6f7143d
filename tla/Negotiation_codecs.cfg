SPECIFICATION Spec
CONSTANTS
    Configurations <- MC_Configurations
    Offers <- MC_Offers
INVARIANTS
    PayloadTypesAgree
    ProducedAsMatched
    ConsumedAsNegotiated
    AnswerIsAgreed
CHECK_DEADLOCK FALSE
