INIT Init
NEXT Next
CONSTANTS
  DISPLAY_WIDTH = 1
  DISPLAY_HEIGHT = 3
  CURSOR_WIDTH = 1
  CURSOR_HEIGHT = 2
  cursor_shape <- MC_Shape
  U32 = 16
  ADDRESS_SPACE = 64
  PAGE_SIZE_2M = 4
  FB_WINDOW_BASE = 32
  FB_WINDOW_SIZE = 16
  SHADOW_FRAMEBUFFER_BYTES = 13
  PHYSICAL_PAGES = 64
  Multiboots <- MC_Multiboots
  Rects <- MC_Rects
  Colors = {255}
  Shifts <- MC_Shifts
  MaxUpdates = 2
  TERMINAL_SCROLLBACK_LINES = 2
  TERMINAL_OUTPUT_DEFER_THRESHOLD = 2
  ROOT_CLIPBOARD_MAX_CODEPOINTS = 3
  Wide = {"w"}
  Geometries <- MC_Geometries
  Texts <- MC_Texts
  MaxBatches = 1
CONSTRAINT FewGlyphs
INVARIANTS
  ScreenShowsDrawing
  ScreenShowsText
  CopyIsHighlight
  ApertureReachesFramebuffer
