SPECIFICATION StageSpec
CONSTANTS
  Cases <- Shapes
  Fields <- Structs
INVARIANT ResultsReplaced
