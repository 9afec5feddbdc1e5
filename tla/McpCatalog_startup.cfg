\* Two processes, two versions of the project's file, two sessions.
SPECIFICATION FairSpec
CONSTANTS
  Names = {"a", "b"}
  User = {"a"}
  Versions = {"v1", "v2"}
  Declared <- MCDeclared
  Parsed <- MCParsed
  Tools = {"t1", "t2"}
  Offers <- MCOffers
  Sessions = {"s1", "s2"}
  NoFile = NoFile
  MaxRuns = 2
  MaxEdits = 1
  MaxLoads = 1
INVARIANTS
  StartedWasAllowed
  SiblingsServe
  CallableIsLogged
PROPERTIES
  StartupEnds
