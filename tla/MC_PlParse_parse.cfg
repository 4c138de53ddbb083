SPECIFICATION Spec
CONSTANTS
  r = r
  a = a
  b = b
  File <- MCFile
  Root = r
  Libraries <- AllLibraries
  Options <- AllOptions
  RecurseLevelMax = 2
  TextTypes <- MCTextTypes
  IgnoredSchemes <- IgnoreStream
  IgnoredMimes <- IgnoreSome
INVARIANTS TypeOK LevelAccounting FramesWait FallbackDiscipline TitleBelongs OnlyRootWithoutRecurse UnsafeNotParsed SignalsPaired
PROPERTY Termination
