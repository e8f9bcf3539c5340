SPECIFICATION DesktopSpec
CONSTANTS
  GuiChars = {"a", "b"}
  GuiNL = "n"
  GuiCR = "r"
  GuiMaxLines = 3
  GuiMaxCols = 2
  GuiFiles <- PlainTexts
  GuiMaxText = 2
  GuiViews = {2}
  MsRows = 3
  MsCols = 3
  MsMines = 2
  MsMaxFlags = 1
  MaxWindows = 3
  Programs = {"term", "files", "mines", "editor"}
  ScreenW = 4
  ScreenH = 4
  MenuH = 1
  TitleH = 1
  MinW = 2
  MinH = 2
  Opened <- Windows
PROPERTY OpenShowsTheFile
CHECK_DEADLOCK FALSE
