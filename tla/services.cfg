SPECIFICATION FairSpec
CONSTANT
    SearchPages <- MCSearchPages
INVARIANTS
    TypeOK
    AnswerSound
PROPERTY
    RequestEnds
