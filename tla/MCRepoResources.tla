-------------------------- MODULE MCRepoResources --------------------------
(***************************************************************************)
(* RepoResources for TLC.  Ids, names and paths are only compared: a run   *)
(* either exchanges those of a kind with each other (Symmetry); or numbers *)
(* the ids and gives them in order, as the server does, each image and     *)
(* configuration with the name of its number, and only to so many objects  *)
(* (InOrder, NamesInOrder, FewObjects; the step of a request that gives    *)
(* another name, or one object more, is checked, but none after it).       *)
(***************************************************************************)
EXTENDS RepoResources, TLC

CONSTANT MaxObjects   \* bound on the objects that are ever stored

Symmetry ==
    UNION {Permutations(Users), Permutations(Repos), Permutations(Dockerfiles),
           Permutations(Images), Permutations(Versions), Permutations(ScanConfigs),
           Permutations(Flags), Permutations(ScanEvents), Permutations(Names),
           Permutations(Paths)}

Given(f) == {x \in DOMAIN f : f[x] # NewId}

GivenInOrder(f) == \A x \in Given(f), y \in DOMAIN f : y < x => y \in Given(f)

InOrder ==
    /\ GivenInOrder(image) /\ GivenInOrder(version) /\ GivenInOrder(scanConfig)
    /\ GivenInOrder(flag) /\ GivenInOrder(scanEvent)

NamedInOrder(f) == \A x \in Live(f) : f[x].Name = Cardinality({y \in DOMAIN f : y <= x})

NamesInOrder == NamedInOrder(image) /\ NamedInOrder(scanConfig)

FewObjects ==
     Cardinality(Given(image)) + Cardinality(Given(version)) + Cardinality(Given(scanConfig))
         + Cardinality(Given(flag)) + Cardinality(Given(scanEvent)) <= MaxObjects
=============================================================================
