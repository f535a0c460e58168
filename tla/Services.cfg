\* The smaller services on small instances: two requests in flight everywhere.
SPECIFICATION Spec
CONSTANTS
    t1 = t1
    t2 = t2
    t3 = t3
    t4 = t4
    Attempts = {t1, t2, t3, t4}
    Student <- MCStudent
    Exercise <- MCExercise
    Skills <- MCSkills
    Submitted <- MCSubmitted
    Simulated = {"sim"}
    MaxRebuilds = 1
    LastInstant = 6
    None = None
    Keys = {"run", "login"}
    MaxCalls <- MCMaxCalls
    Window <- MCWindow
    Start = 2
    MaxClock = 7
    Players = {"mai"}
    Lines = {1, 2}
    LastDay = 2
    MaxHunts = 3
    Hunters = {h1, h2, h3}
    Admins = {"ann"}
    Chief = "chief"
    OwnPasswords = {p1}
    MaxAdminRequests = 3
    AdminWorkers = {w1, w2}
    Tries = {"m1", "m2"}
    CodeLines = {"x", "y"}
    Editors <- MCEditors
    PerReply = 1
    PerAttempt = 1
    AttemptCap = 2
    DayCap = 1
    HypothesisCap = 1
    LastChatDay = 2
    MaxMessages = 5
    ChatWorkers = {w1, w2}
    People = {"lan", "ops"}
    Staff = {"ops"}
    SignUpWorkers = {w1, w2}
    StateLife = 1
    TokenLife = 1
    LastPolicy = 2
    LastHour = 2
    MaxSignIns = 3
    Chance <- MCChance
INVARIANTS
    EachAttemptCountsOnce
    ExactInStep
    BurstIsBounded
    GradedAsStored
    ResetTakesHold
    CodeShownIsBounded
    OverrunsByFlight
    OneAccountEach
PROPERTIES
    PlayedDaysAreFinal
    ConsentIsToTheTextRead
CHECK_DEADLOCK FALSE
SYMMETRY AnyWorker
