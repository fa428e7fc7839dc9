SPECIFICATION Spec
CONSTANTS
  Users = {u1, u2}
  Repos = {r1, r2}
  Dockerfiles = {d1, d2}
  Images = {i1}
  Versions = {}
  ScanConfigs = {c1}
  Flags = {f1, f2}
  ScanEvents = {}
  Names = {n1, n2}
  NoName = NoName
  Paths = {p1, p2}
  NewId = NewId
  Deleted = Deleted
  NoId = NoId
  MaxObjects = 0
SYMMETRY Symmetry
INVARIANTS
  FlagRefsAgree
  ChildrenListed
  NamesUnique
  DefaultReposAgree
  FilesKept
