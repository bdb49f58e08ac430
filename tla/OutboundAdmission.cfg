\* Two concurrent writers, payloads below, at and above the high watermark.
SPECIFICATION Spec
CONSTANTS
    Writers = {w1, w2}
    Units = {1, 2, 5}
    HighParam = 4
    LowParam = 2
INVARIANTS
    WindowConserved
    NoLostWakeup
PROPERTIES
    OversizedOnlyWhenEmpty
    ImplementsWindow
    AdmittedUnlessOvertaken
