SPECIFICATION SystemSpec
CONSTANTS
    Parts = {"client", "budget", "dispatch", "surface", "magic", "oauth", "voice", "speech", "form", "cli", "manifests", "docs"}
    p1 = p1
    p2 = p2
    q = q
    a = a
    b = b
    m1 = m1
    m2 = m2
    Selves = {"m1", "m2"}
    Peers = {"p"}
    PresenceKeys = {"x"}
    Unset = "unset"
    Absent = Absent
    Patches <- MCPatches
    MaxPatches = 2
    MaxRooms = 1
    PromptServer = TRUE
    Invocations = {p1, p2, q}
    Estimate = 2
    Costs <- MCCosts
    Budgets <- MCBudgets
    Windows <- MCWindows
    Copilots = {"c1", "c2"}
    Idlers = {"c1", "c2"}
    Restless = {"c1"}
    People = {"h1"}
    Sent = {"question", "presence", "left"}
    PromptTurns = FALSE
    Policies = {"first-wins", "round-robin", "all", "custom"}
    MaxFrames = 2
    MaxIdle = 1
    Humans = {"h1"}
    Bots = {"b1"}
    Me = "me"
    Definitions <- MCDefinitions
    MaxEvents = 4
    Cap = 2
    Tokens = {a, b}
    Clicks = {p1, p2}
    Mailboxes = {m1, m2}
    Malformed = Malformed
    NoEmail = NoEmail
    NoToken = NoToken
    SignIns <- MCSignIns
    Lifetime = 1
    MaxTime = 2
    Flows = {a, b}
    Callbacks = {p1, p2}
    Accounts = {m1, m2}
    NoAccount = NoAccount
    NoFlow = NoFlow
    EmailLists <- MCEmailLists
    MaxRecordings = 3
    MaxSpeaks = 3
    SpeechInputs <- MCSpeech
    Names = {"", "n"}
    TagLists <- MCTags
    Cities = {"none", "x"}
    NoCity = "none"
    FileLists <- MCFiles
    Answers <- MCAnswers
    MaxSubmits = 2
    MaxEdits = 2
    DbOptions <- MCOptions
    NotSet = "unset"
    MaxRuns = 2
    Packages = {a, b}
    Releases <- MCReleases
    Ranges <- MCRanges
    DecorationKeys = {"k1", "k2"}
    Forms = {"exported", "local", "literal", "call"}
    MaxCommits = 2
    Lines = {"open ts", "fence", "partial", "continues", "typo", "A", "wrong types", "no syntax", "blank"}
    ApiNames = {"A"}
    Passages <- MCPassages
    MaxPassages = 3
    MaxDay = 1
INVARIANTS
    ClientKept
    BudgetKept
    DispatchKept
    
    LinkKept
    
    RecorderKept
    OneVoice
    
    ArgvKept
    
    DocsKept
SYMMETRY Symmetry
CHECK_DEADLOCK FALSE
