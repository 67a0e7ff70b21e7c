SPECIFICATION ProgramsSpec
CONSTANTS
    \* the feed and its readers
    Clients = {c1, c2}
    None = None
    Synthetic = Synthetic
    MaxSamples = 2
    MaxFrames = 3
    \* the debug window
    Missing = Missing
    Unreadable = Unreadable
    Unset = Unset
    SelfMarker = {"FrameWatch"}
    SystemOwners = {{"Dock"}}
    DesktopWindows <- MCWindows
    OwnWindow <- MCOwnWindow
    Words = {"mine"}
    Blank = Blank
    MaxBuffer = 1
    Options <- MCOptions
    LookKeys = {"show_graph"}
    RepeatedFailures = FALSE
    Height = 420
    Screen <- MCScreen
    Centered = Centered
    \* the overlay
    Chains = {"s1", "s2", "s3"}
    Address <- MCAddress
    NoChain = NoChain
    NoProc = NoProc
    \* the Vulkan hook
    Hooks = {v1, v2}
    NoHook = NoHook
INVARIANTS
    NoSyntheticDuringClient
    IndicesFitTheList 
    DrawsOnThePresentedChain MessagesReachTheGame SettingsAreNotForgotten StoppedMeansGivenBack
    QuietHook PresentsGoThrough
PROPERTIES QuitEnds SelectionFollowsWindow
CHECK_DEADLOCK FALSE
