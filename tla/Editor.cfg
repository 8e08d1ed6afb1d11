\* The editor: a few edits, clicks at any time, two ticks.
CONSTANTS
    MuxTopic <- EditorMux
    WireTopic <- EditorWire
    ProjectName <- EditorProject
    Palette <- EditorPalette
    Texts <- EditorTexts
    Numbers <- EditorNumbers
    Saves <- EditorSaves
    Inputs <- EditorInputs
    Profiles <- EditorProfiles
    Stored <- EditorStored
    Kept <- EditorKept
    MaxEdits = 2
    MaxTicks = 2
    MaxTimers = 1
SPECIFICATION Spec
INVARIANTS StoreSound EdgesCarry ExportFollowsSim
PROPERTIES ConnectsAsAsked SignalFlowSpec
CHECK_DEADLOCK FALSE
