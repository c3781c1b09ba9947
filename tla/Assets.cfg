SPECIFICATION Spec
CONSTANTS
  d1 = d1
  d2 = d2
  d3 = d3
  d4 = d4
  u1 = u1
  plain = plain
  metadata = metadata
  None = None
  Downloads <- MCDownloads
  Uploads <- MCUploads
  Names <- MCNames
  MetadataName = metadata
  Pieces = 2
  MaxCrashes = 1
SYMMETRY Symmetric
CHECK_DEADLOCK FALSE
INVARIANTS
  CachedComplete
  TempOwned
  AttachesContents
