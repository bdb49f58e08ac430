\* The wake-up promise on x86-64: one writer suffices.
SPECIFICATION BufferedSpec
CONSTANTS
    Writers = {w1}
    Units = {2}
    HighParam = 2
    LowParam = 1
INVARIANTS
    WriterNeverStranded
