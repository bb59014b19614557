SPECIFICATION ConversationSpec
CONSTANTS
    Asks = {"q1", "q2"}
    Forms <- MCForms
    Chain <- MCChain
    Turns <- MCTurns
    ToolTTL = 2
    AnswerTTL = 2
    CooldownTicks = 1
    MaxRounds = 2
    MaxCalls = 2
    RetryAttempts = 2
    MaxRestarts = 1
    MaxTook = 1
INVARIANT AnswersFitTheQuestion
INVARIANT FiguresAreRecent
INVARIANT PromisesAreKept
PROPERTY EveryQuestionEnds
CHECK_DEADLOCK FALSE
