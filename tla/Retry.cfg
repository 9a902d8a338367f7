\* One call, any mix of answers.
SPECIFICATION FairSpec
CONSTANT Answers <- MCAnswers
INVARIANTS
    TypeOK
    EndsWithLatestAnswer
    AttemptsAreBounded
    WaitsAreBounded
PROPERTY Terminates
\* The call ends.
CHECK_DEADLOCK FALSE
