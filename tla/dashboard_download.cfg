SPECIFICATION Spec
CONSTANTS
    None = None
    Upper <- MCUpper
    Rounded <- MCRounded
    Feed <- MCFeed
    Tokens <- MCTokens
    Paths <- MCPaths
    LinkKeys = {"service", "level"}
    Levels <- MCLevels
    Edits <- MCEdits
    PAGE_SIZES = {3}
    PageMin = 2
    PageMax = 3
    PageDefault = 2
    MaxPage = 4
    DownloadCap = 4
INVARIANTS
    DownloadCoversPage
