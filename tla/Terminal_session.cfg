\* Three requests, with questions, /plan and Esc at any moment.
SPECIFICATION FairSpec
CONSTANTS
  MaxOps = 3
  MaxModes = 2
  MaxAsks = 2
INVARIANTS
  PipeSound
  ModesAgree
PROPERTIES
  RequestEnds
