SPECIFICATION ShellSpec
CONSTANTS
  Cols = 2
  Rows = 4
  Chars = {"a", " "}
  MaxLine = 4
  HistMax = 1
  Cmds <- CmdNames
  Files <- FileNames
  Prompt <- PromptIs
  Refusal <- RefusalIs
  TtyMax = 3
  Values = {0, 1}
  MaxScript = 2
  EdChars = {"a", "b"}
  EdNL = "n"
  EdMaxLines = 3
  EdMaxCols = 2
  EdFiles <- EdTexts
  EdMaxText = 3
  HxWidth = 3
  HxRows = 2
  HxSizes = {0, 5, 10}
  HxMaxSize = 14
INVARIANTS
  LineIsShown
  TerminalsAreKept
  HexCursorInView
PROPERTIES
  EditKeepsText
CHECK_DEADLOCK FALSE
