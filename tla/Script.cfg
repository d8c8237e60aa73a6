SPECIFICATION FairSpec
CONSTANTS
    UI = UI
    SERVER = SERVER
    t1 = t1
    t2 = t2
    Contexts = {UI, SERVER}
    Threads = {t1, t2}
    MaxHandle = 2
    MaxVms = 3
    MaxCommands = 1
CHECK_DEADLOCK FALSE
INVARIANTS
    AnswersMatch
    AnsweredOnce
    AnswerUnderWay
    CommandsStay
PROPERTY RequestsAnswered
