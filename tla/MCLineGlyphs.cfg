INIT Init
NEXT Next
CONSTANTS
  ROOT_CLIPBOARD_MAX_CODEPOINTS = 3
  Wide = {"w"}
  TERMINAL_SCROLLBACK_LINES = 1
  TERMINAL_OUTPUT_DEFER_THRESHOLD = 2
  Geometries <- MC_Geometries
  Texts = {}
  MaxBatches = 1
  COMMAND_BUFFER_SIZE = 3
  SHELL_HISTORY_SIZE = 2
  PROMPT_LIMIT = 2
  Prompts = {2, 3}
  Typed = {"a", "w"}
  Outputs <- MC_Outputs
  ROOTEDIT_MAX_CODEPOINTS = 2
  ROOTEDIT_UNDO_DEPTH = 1
  EDITOR_COLUMNS = 2
  BODY_ROWS = 2
  Files <- MC_Files
  Clips <- MC_Clips
  Keys = {"w"}
  Bad = "?"
  Replacement = "R"
  Old = "o"
  MaxEdits = 2
  ROOT_INPUT_QUEUE_SIZE = 4
  MOUSE_MAX_X = 1
  CLICK_DISTANCE = 0
  ROOT_DOUBLE_CLICK_DISTANCE = 0
  WHEEL_LIMIT = 1
  Caps <- MC_Caps
  Moves = {0, 1, 255}
  Wheels = {0, 1}
  Sessions <- MC_Sessions
  HALF = 3
  FREQUENCY = 3
  SECOND = 4
  Sleeps = {1, 3}
  MaxTicks = 9
  CallTicks = 2
CONSTRAINT Focus
CHECK_DEADLOCK FALSE
INVARIANT
  GlyphsWhole
