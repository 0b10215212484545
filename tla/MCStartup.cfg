SPECIFICATION StartupSpec
CONSTANTS
    ArgLists <- MCArgLists
    Settings <- MCSettings
    Fragments <- MCFragments
    Millisecond = 10
    WordSize = 134217728
INVARIANTS SettingsAreUsable RawAccessIsAsked PrecedenceHolds
CHECK_DEADLOCK FALSE
