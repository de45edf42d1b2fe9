SPECIFICATION Spec
CONSTANTS
    audio = audio
    text = text
    Datapaths = {audio, text}
    Decoded = {audio}
    ApiTypes = {"stop"}
    MaxCmds = 1
    MaxErrors = 1
    Budgets <- MCBudgetsMixed
INVARIANTS
    ErrorHandlingOnTop
CHECK_DEADLOCK FALSE
