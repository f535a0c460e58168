\* Two exercises, sessions of a few steps: the log, the two engines and the report.
SPECIFICATION Spec
CONSTANTS
    Tick = 5000
    Similar <- MC_Similar
    Sessions <- MC_Sessions
    Lines <- MC_Lines
    SuiteResult <- MC_SuiteResult
    VisibleTotal = 2
    HiddenTotal = 1
    Prompts <- MC_Prompts
    Replies <- MC_Replies
    Hypotheses <- MC_Hypotheses
    Signals <- MC_Signals
    Locations <- MC_Locations
    Suites <- MC_Suites
    Answers <- MC_Answers
    PromptVerdicts <- MC_PromptVerdicts
    LocateVerdicts <- MC_LocateVerdicts
INVARIANTS
    SignalsNeverPay
    SolvingPays
    OutageKeepsAxes
    ReportIsConsistent
CHECK_DEADLOCK FALSE
