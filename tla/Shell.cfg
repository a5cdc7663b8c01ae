SPECIFICATION Spec
CONSTANTS
    g_cols = 4
    g_height = 5
    FONT_HEIGHT = 2
    LINE_MAX = 3
    HISTORY_SIZE = 3
    Letters = {99, 104}
    Commands <- MCCommands
    Message <- MCMessage
INVARIANTS ScreenShowsText 
PROPERTY ImplementsEditor
CHECK_DEADLOCK FALSE
