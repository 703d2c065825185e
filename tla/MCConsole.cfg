SPECIFICATION MCSpec
CONSTANTS
  rows = 1
  cols = 3
  Glyphs = {"blank", "A"}
  Colours = {"black", "white"}
  default_bg = "black"
  Written <- MCWritten
  Alphabets <- MCAlphabets
  BufferSize = 5
  Printable = {"e", "x", " "}
  SPACE = " "
  NUL = "NUL"
  ENTER = "ENTER"
  BACKSPACE = "BACKSPACE"
  TAB = "TAB"
  Commands <- MCCommands
INVARIANTS QueueFits TerminalStateFits ColoursFollowAttributes ScreenShowsLine
PROPERTIES FlushShowsText ImplementsTextGrid MovesStayInRegion RunsWhatIsShown
