CONSTANTS
    Blank = {" "}
    Spaced = {"two words"}
    Numeral <- MCNumeral
    Instant <- MCInstant
    IsoText <- MCIsoText
    Environment <- MCEnvironment
    RowNames <- MCRowNames
    Versions <- MCVersions
    Paths <- MCPaths
    Live = "live.db"
    Files <- MCFiles
    Short = {"weak"}
    FirstLines <- MCFirstLines
    Lines <- MCLines
    Calls <- MCCalls
    MaxLines = 2
    MaxCalls = 1
    MaxFaults = 1
SPECIFICATION Spec
INVARIANTS PlanRowsAgree NothingLeftBehind PrintedLinesRun
PROPERTIES DestructionConfirmed
CHECK_DEADLOCK FALSE
