SPECIFICATION DesktopSpec
CONSTANTS
  GuiChars = {"a"}
  GuiNL = "n"
  GuiCR = "r"
  GuiMaxLines = 3
  GuiMaxCols = 2
  GuiFiles <- GuiTexts
  GuiMaxText = 3
  GuiViews = {1, 2}
  MsRows = 3
  MsCols = 4
  MsMines = 1
  MsMaxFlags = 1
  MaxWindows = 3
  Programs = {"term", "files", "browser", "mines", "editor"}
  ScreenW = 4
  ScreenH = 4
  MenuH = 1
  TitleH = 1
  MinW = 2
  MinH = 2
  Opened <- Windows
INVARIANTS
  ProgramsKeepTheirWindows
PROPERTIES
  GuiKeysEdit
  MinesAreFair
  WindowsStayOnScreen
CHECK_DEADLOCK FALSE
