SPECIFICATION FairSpec
CONSTANTS
    audio = audio
    text = text
    Datapaths = {audio, text}
    Decoded = {audio}
    ApiTypes = {"pause", "stop", "reset", "quick", "cancel", "cancelAll"}
    MaxCmds = 3
    MaxErrors = 2
    Budgets <- MCBudgets
INVARIANTS
    AnsweredOnce
    SomeoneWillWakeIt
    CountersMatch
    QuietStatesAreSettled
    QueueIsSignalled
PROPERTIES
    CommandsAnswered
CHECK_DEADLOCK FALSE
