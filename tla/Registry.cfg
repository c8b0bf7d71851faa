CONSTANTS
    Nil = Nil
    Keys <- MCKeys
    Payloads <- MCPayloads
    HistoryCap = 2
    Budgets <- MCBudgets
    Entities <- MCEntities
    Default <- MCDefault
    Overlay <- MCOverlay
    Calls <- MCCalls
SPECIFICATION ResetSpec
 
PROPERTIES CallsAreBounded 
CHECK_DEADLOCK FALSE
