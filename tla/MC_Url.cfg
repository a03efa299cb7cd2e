CONSTANTS
  Handles = {h1, h2}
  Chars <- MCChars
  Schemes <- MCSchemes
  Users <- MCUsers
  Hosts <- MCHosts
  Paths <- MCPaths
  Segments <- MCSegments
  MaxPathLen = 4

SPECIFICATION Spec

INVARIANTS
  TypeOK
  SameResourceSameIdentity
  EqualSameResource
