SPECIFICATION Spec
CONSTANTS
    TCP_WND = 4
    TCP_SND_BUF = 5
    TCP_MAXRTX = 4
    TCP_SYNMAXRTX = 3
    SeqSpace = 32
    Loads <- FullWindow
INVARIANT AssertionsHold
CHECK_DEADLOCK FALSE
