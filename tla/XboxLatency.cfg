SPECIFICATION BufferSpec
CONSTANTS
  BaselineWindow = 6
  BadWindows = 2
  GoodWindows = 3
  Loads <- MCLoads
  Inflations = {0, 25}
PROPERTIES BufferSafety BufferLiveness
