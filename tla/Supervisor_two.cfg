CONSTANT N = 2
SPECIFICATION SupFairSpec
INVARIANTS NoChildLeftBehind OnlyToldEnds
PROPERTIES TermWhileWaitingIsObeyed CrashIsRepaired HupIsObeyed
CHECK_DEADLOCK FALSE
