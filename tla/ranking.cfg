SPECIFICATION Spec
CONSTANTS
  a = a
  b = b
  x = x
  y = y
  z = z
  words = words
  both = both
  self = self
  none = none
  Uris = {a, b}
  Texts = {x, y, z}
  Names <- MCNames
  NoName = none
  MaxImplicit = 1
  CandidatesPerHit = 1
  CandidatesMin = 1
  CandidatesMax = 4
  Docs <- MCDocs
  Self = self
  Cosine <- MCCosine
  Stem <- MCStem
  Path <- MCPath
  Searches <- MCSearches
  Likes <- MCLikes
CHECK_DEADLOCK FALSE
INVARIANTS AnswersComplete CopiesLead
