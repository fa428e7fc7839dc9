SPECIFICATION Spec
CONSTANTS
  Users = {}
  Repos = {r1}
  Dockerfiles = {d1}
  Images = {11, 12, 13}
  Versions = {21, 22, 23}
  ScanConfigs = {31, 32, 33}
  Flags = {41}
  ScanEvents = {51}
  Names = {1, 2, 3}
  NoName = NoName
  Paths = {p1}
  NewId = NewId
  Deleted = Deleted
  NoId = NoId
  MaxObjects = 5
CONSTRAINTS InOrder NamesInOrder FewObjects
INVARIANTS
  TypeOK
  ScanLinksAgree
  EventsResolve
  VersionsAgree
  NamesUnique
PROPERTIES
  DeletesUnlink
