SPECIFICATION Spec
INVARIANTS
    PictureOfMeans
    AnswersAreRight
    NoPageLost
PROPERTIES
    VectorKeepsPromises
    StepsAreNormalOrder
CHECK_DEADLOCK FALSE
