SPECIFICATION Spec
CONSTANTS
  r = r
  a = a
  b = b
  File <- MCFile
  Root = r
  Libraries <- NestingLibraries
  Options <- SafeRecursing
  RecurseLevelMax = 1
  TextTypes <- MCTextTypes
  IgnoredSchemes <- NoIgnored
  IgnoredMimes <- NoIgnored
PROPERTY Flattens
