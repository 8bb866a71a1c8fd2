SPECIFICATION Spec
CONSTANTS
  minPartSize = 2
  maxParts = 4
  MaxUploadBytes = 16
  u1 = u1
  u2 = u2
  v1 = v1
  NoUpload = NoUpload
  NoBody = NoBody
  Uploads = {u1, u2}
  Versions = {v1}
  Tags = {a, b}
  Procs = {p1, p2, p3}
  VersionOf <- MCVersionOf
  Size <- MCSize
INVARIANTS SourceIsWhole UploadInvariant
PROPERTIES VerdictFinal
SYMMETRY Symmetry
CHECK_DEADLOCK FALSE
