CONSTANTS
    Requests = {r1, r2}
    Deferreds = {r1, r2, x}
    NoDeferred = none
    Counted = {r1, r2, x}
    MaxObjects = 4
    Converters <- MCConverters
    Form <- MCForm
    NoType = notype
    AskedFor <- MCAskedFor
    Answers <- MCAnswers
SPECIFICATION Spec
CHECK_DEADLOCK FALSE
INVARIANTS
    ConversionIsRight
    CalledOnceInOrder
    DerivedAgree
    ActiveCounts
    NoLateAnswer
PROPERTIES
    CompleteComesLast
    EveryRequestEnds
