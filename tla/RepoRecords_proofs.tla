------------------------ MODULE RepoRecords_proofs ------------------------
(***************************************************************************)
(* What else the objects of a repo record of each other, given that their  *)
(* lists resolve and links agree (Structure): default repos, versions, events,   *)
(* flags, files and names.                                                 *)
(***************************************************************************)
EXTENDS RepoResources_proofs, FiniteSetTheorems

-----------------------------------------------------------------------------
(***************************************************************************)
(* Default repos.                                                          *)
(***************************************************************************)
\* A server keeps the mode it was started in, and only the requests to repos
\* change which there are and whose default repos they are.
LEMMA ModeKept == [Next]_vars => /\ UNCHANGED inMemoryOnly
                                 /\ RepoStep \/ UNCHANGED <<RepoIds, DefaultRepoId>>
<1> SUFFICES ASSUME [Next]_vars
             PROVE  /\ UNCHANGED inMemoryOnly
                    /\ RepoStep \/ UNCHANGED <<RepoIds, DefaultRepoId>>
  OBVIOUS
<1>1. CASE RepoStep
  <2>1. ASSUME NEW r \in Repos,
               createRepo(r) \/ deleteRepo(r) \/ deleteRepo_Aborted(r) \/ deleteRepo_Fails(r)
        PROVE  inMemoryOnly' = inMemoryOnly
    BY <2>1, Zenon DEF createRepo, deleteRepo, deleteRepo_Aborted, deleteRepo_Fails
  <2>2. ASSUME NEW r, NEW d, NEW n, NEW p, NEW via, NEW m, NEW i, NEW v,
               \/ addDockerfile(via, r, d, n, p) \/ addDockerfile_NameTaken(r, d, n, p)
               \/ addAndExecDockerfile(via, r, d, n, p, m, i, v)
        PROVE  inMemoryOnly' = inMemoryOnly
    BY <2>2, Zenon DEF addDockerfile, addDockerfile_NameTaken, addAndExecDockerfile,
       buildDockerfile
  <2>3. ASSUME NEW r, NEW c, NEW n, NEW f, NEW p, NEW via,
               \/ defineScanConfig(via, r, c, n) \/ defineScanConfig_WithFlag(via, r, c, n, f, p)
               \/ defineScanConfig_FlagNameTaken(r, c, n, f, p)
        PROVE  inMemoryOnly' = inMemoryOnly
    BY <2>3, Zenon DEF defineScanConfig, defineScanConfig_WithFlag,
       defineScanConfig_FlagNameTaken
  <2>4. ASSUME NEW r, NEW f, NEW n, NEW p, NEW via,
               defineFlag(via, r, f, n, p) \/ defineFlag_NameTaken(r, f, n, p)
        PROVE  inMemoryOnly' = inMemoryOnly
    BY <2>4, Zenon DEF defineFlag, defineFlag_NameTaken
  <2> QED  BY <1>1, <2>1, <2>2, <2>3, <2>4 DEF RepoStep
<1>2. CASE DockerStep
  <2>1. ASSUME NEW d, NEW n, NEW p, NEW i, NEW v,
               \/ remDockerfile(d) \/ replaceDockerfile(d, p) \/ execDockerfile(d, n, i, v)
               \/ execDockerfile_BuildFails(d, n, i)
        PROVE  UNCHANGED <<inMemoryOnly, RepoIds, DefaultRepoId>>
    BY <2>1, Zenon DEF remDockerfile, replaceDockerfile, execDockerfile, buildDockerfile,
       execDockerfile_BuildFails
  <2>2. ASSUME NEW i, NEW v, NEW c, NEW e,
               \/ remDockerImage(i) \/ remDockerImage_Fails(i) \/ remImageVersion(v)
               \/ remImageVersion_DockerFails(v) \/ scanImage(c, v, e)
        PROVE  UNCHANGED <<inMemoryOnly, RepoIds, DefaultRepoId>>
    BY <2>2, Zenon DEF remDockerImage, remDockerImage_Fails, remImageVersion,
       remImageVersion_DockerFails, scanImage
  <2> QED  BY <1>2, <2>1, <2>2 DEF DockerStep
<1>3. CASE ScanConfigStep
  <2>1. ASSUME NEW c, NEW n, NEW f, NEW p,
               \/ remScanConfig(c) \/ remScanConfig_Fails(c) \/ updateScanConfig(c, n)
               \/ updateScanConfig_WithFlag(c, n, f, p) \/ updateScanConfig_Fails(c, n, f, p)
        PROVE  UNCHANGED <<inMemoryOnly, RepoIds, DefaultRepoId>>
    BY <2>1, Zenon DEF remScanConfig, remScanConfig_Fails, updateScanConfig,
       updateScanConfig_WithFlag, updateScanConfig_Fails
  <2>2. ASSUME NEW c, NEW x,
               \/ useScanConfigForImage(c, x) \/ stopUsingScanConfigForImage(c, x)
               \/ useScanConfigForImage_NotAnImage(c, x)
               \/ stopUsingScanConfigForImage_NotAnImage(c, x)
        PROVE  UNCHANGED <<inMemoryOnly, RepoIds, DefaultRepoId>>
    BY <2>2, Zenon DEF useScanConfigForImage, stopUsingScanConfigForImage,
       useScanConfigForImage_NotAnImage, stopUsingScanConfigForImage_NotAnImage
  <2> QED  BY <1>3, <2>1, <2>2 DEF ScanConfigStep
<1>4. CASE FlagStep
  BY <1>4, Zenon DEF FlagStep, remFlag, remFlag_Aborted
<1>5. CASE \E p \in Paths : AbandonedUpload(p)
  BY <1>5, Zenon DEF AbandonedUpload
<1>6. CASE UNCHANGED vars
  BY <1>6 DEF vars
<1> QED  BY <1>1, <1>2, <1>3, <1>4, <1>5, <1>6 DEF Next

\* Repos list the users whose default repos they are.
UsersAgree == \A u \in Users, r \in Repos :
                DefaultRepoId[u] = r <=> r \in Live(repo) /\ u \in repo[r].DefaultUserIds

DefaultUsersOf(repos, r) == IF r \in Live(repos) THEN repos[r].DefaultUserIds ELSE {}

\* The property, by the users that each repo lists.
LEMMA DefaultsUnfold ==
    UsersAgree <=> \A u \in Users, r \in Repos :
                             DefaultRepoId[u] = r <=> u \in DefaultUsersOf(repo, r)
BY DEF UsersAgree, DefaultUsersOf

LEMMA DefaultsUnfoldNext ==
    UsersAgree' <=> \A u \in Users, r \in Repos :
                              DefaultRepoId'[u] = r <=> u \in DefaultUsersOf(repo', r)
BY DEF UsersAgree, DefaultUsersOf

\* Repo r is written; the users that it lists then are those of obj.
LEMMA DefaultUsersWritten ==
    ASSUME TypeOK, TypeOK', NEW r \in Repos, NEW obj \in RepoObjects,
           repo' = [repo EXCEPT ![r] = obj]
    PROVE  /\ DefaultUsersOf(repo', r) = obj.DefaultUserIds
           /\ \A q \in Repos \ {r} : DefaultUsersOf(repo', q) = DefaultUsersOf(repo, q)
<1>1. LiveAreObjects /\ LiveAreObjects'
  BY LiveObjects, LiveObjectsNext
<1>2. repo'[r] = obj /\ \A q \in Repos \ {r} : repo'[q] = repo[q]
  BY DEF TypeOK
<1>3. r \in Live(repo') /\ \A q \in Repos \ {r} : q \in Live(repo') <=> q \in Live(repo)
  BY <1>1, <1>2 DEF LiveAreObjects
<1>4. DefaultUsersOf(repo', r) = obj.DefaultUserIds
  BY <1>2, <1>3 DEF DefaultUsersOf
<1>5. ASSUME NEW q \in Repos \ {r}
      PROVE  DefaultUsersOf(repo', q) = DefaultUsersOf(repo, q)
  <2>1. repo'[q] = repo[q] /\ (q \in Live(repo') <=> q \in Live(repo))
    BY <1>2, <1>3
  <2> QED  BY <2>1 DEF DefaultUsersOf
<1> QED  BY <1>4, <1>5

\* A repo that is written with the same default users,
LEMMA DefaultsKept ==
    ASSUME TypeOK, TypeOK', UsersAgree, NEW r \in Live(repo), NEW obj \in RepoObjects,
           repo' = [repo EXCEPT ![r] = obj], obj.DefaultUserIds = repo[r].DefaultUserIds,
           UNCHANGED DefaultRepoId
    PROVE  UsersAgree'
<1>1. r \in Repos
  BY LiveObjects DEF LiveAreObjects
<1>2. DefaultUsersOf(repo, r) = obj.DefaultUserIds
  BY DEF DefaultUsersOf
<1>3. \A q \in Repos : DefaultUsersOf(repo', q) = DefaultUsersOf(repo, q)
  BY <1>1, <1>2, DefaultUsersWritten
<1> QED  BY <1>3, DefaultsUnfold, DefaultsUnfoldNext

\* and the repo that a handler works in, which may become a user's.
LEMMA DefaultsTargeted ==
    ASSUME TypeOK, TypeOK', UsersAgree, NEW r \in Repos, NEW via \in Vias,
           Target(via, r), NEW obj \in RepoObjects, repo' = [repo EXCEPT ![r] = obj],
           obj.DefaultUserIds = Base(via, r).DefaultUserIds
    PROVE  UsersAgree'
<1>1. DefaultRepoId' = [u \in Users |-> IF u = via THEN r ELSE DefaultRepoId[u]]
  BY DEF Target
<1>2. obj.DefaultUserIds = DefaultUsersOf(repo, r) \cup (Users \cap {via})
  <2>1. CASE repo[r] = NewId
    <3>1. r \notin Live(repo)
      BY <2>1 DEF Live
    <3> QED  BY <2>1, <3>1 DEF Base, EmptyRepo, DefaultUsersOf
  <2>2. CASE repo[r] # NewId
    <3>1. r \in Live(repo) /\ repo[r] \in RepoObjects
      BY <2>2, LiveObjects DEF LiveAreObjects, TypeOK
    <3> QED  BY <2>2, <3>1 DEF Base, RepoObjects, DefaultUsersOf
  <2> QED  BY <2>1, <2>2
<1>3. via \in Users => DefaultRepoId[via] \in {r, NoId}
  BY RepoConstants DEF Target
<1>4. NoId \notin Repos
  BY RepoConstants
<1>5. ASSUME NEW u \in Users, NEW q \in Repos
      PROVE  DefaultRepoId'[u] = q <=> u \in DefaultUsersOf(repo', q)
  <2>1. DefaultRepoId[u] = q <=> u \in DefaultUsersOf(repo, q)
    BY DefaultsUnfold
  <2>2. CASE q = r
    BY <1>1, <1>2, <2>1, <2>2, DefaultUsersWritten
  <2>3. CASE q # r
    BY <1>1, <1>3, <1>4, <2>1, <2>3, DefaultUsersWritten
  <2> QED  BY <2>2, <2>3
<1> QED  BY <1>5, DefaultsUnfoldNext

\* A step of a repo keeps default repos in agreement.
LEMMA RepoStepDefaults == Structure /\ TypeOK' /\ UsersAgree /\ RepoStep
                            => UsersAgree'
<1> SUFFICES ASSUME Structure, TypeOK', UsersAgree, RepoStep PROVE UsersAgree'
  OBVIOUS
<1>0. TypeOK /\ LiveAreObjects
  BY LiveObjects DEF Structure
<1>same. ASSUME UNCHANGED <<repo, DefaultRepoId>> PROVE UsersAgree'
  BY <1>same DEF UsersAgree
<1>1. ASSUME NEW r \in Repos, createRepo(r)
      PROVE  UsersAgree'
  <2>1. EmptyRepo \in RepoObjects /\ EmptyRepo.DefaultUserIds = {}
    BY DEF EmptyRepo, RepoObjects
  <2>2. repo' = [repo EXCEPT ![r] = EmptyRepo] /\ UNCHANGED DefaultRepoId
    BY <1>1 DEF createRepo
  <2>3. DefaultUsersOf(repo, r) = {}
    BY <1>1 DEF createRepo, DefaultUsersOf, Live
  <2> QED  BY <1>0, <2>1, <2>2, <2>3, DefaultUsersWritten, DefaultsUnfold, DefaultsUnfoldNext
<1>2. ASSUME NEW r \in Repos, NEW d \in Dockerfiles, NEW n \in Names, NEW p \in Paths,
             NEW via \in Vias, addDockerfile(via, r, d, n, p)
      PROVE  UsersAgree'
  <2> DEFINE obj == [Base(via, r) EXCEPT !.DockerfileIds = @ \cup {d}]
  <2>1. obj \in RepoObjects /\ obj.DefaultUserIds = Base(via, r).DefaultUserIds
    BY <1>0, BaseLists DEF RepoObjects
  <2>2. Target(via, r) /\ repo' = [repo EXCEPT ![r] = obj]
    BY <1>2 DEF addDockerfile
  <2> HIDE DEF obj
  <2> QED  BY <1>0, <2>1, <2>2, DefaultsTargeted
<1>3. ASSUME NEW r \in Repos, NEW d \in Dockerfiles, NEW n \in Names, NEW p \in Paths,
             addDockerfile_NameTaken(r, d, n, p)
      PROVE  UsersAgree'
  BY <1>3, <1>same DEF addDockerfile_NameTaken
<1>4. ASSUME NEW r \in Repos, NEW d \in Dockerfiles, NEW n \in Names, NEW p \in Paths,
             NEW via \in Vias, NEW m \in Names, NEW i \in Images, NEW v \in Versions,
             addAndExecDockerfile(via, r, d, n, p, m, i, v)
      PROVE  UsersAgree'
  <2> DEFINE obj == [[Base(via, r) EXCEPT !.DockerfileIds = @ \cup {d}]
                       EXCEPT !.DockerImageIds = @ \cup {i}]
  <2>1. obj \in RepoObjects /\ obj.DefaultUserIds = Base(via, r).DefaultUserIds
    BY <1>0, BaseLists DEF RepoObjects
  <2>2. Target(via, r) /\ repo' = [repo EXCEPT ![r] = obj]
    BY <1>4 DEF addAndExecDockerfile, buildDockerfile
  <2> HIDE DEF obj
  <2> QED  BY <1>0, <2>1, <2>2, DefaultsTargeted
<1>5. ASSUME NEW r \in Repos, NEW c \in ScanConfigs, NEW n \in Names, NEW via \in Vias,
             defineScanConfig(via, r, c, n)
      PROVE  UsersAgree'
  <2> DEFINE obj == [Base(via, r) EXCEPT !.ScanConfigIds = @ \cup {c}]
  <2>1. obj \in RepoObjects /\ obj.DefaultUserIds = Base(via, r).DefaultUserIds
    BY <1>0, BaseLists DEF RepoObjects
  <2>2. Target(via, r) /\ repo' = [repo EXCEPT ![r] = obj]
    BY <1>5 DEF defineScanConfig
  <2> HIDE DEF obj
  <2> QED  BY <1>0, <2>1, <2>2, DefaultsTargeted
<1>6. ASSUME NEW r \in Repos, NEW c \in ScanConfigs, NEW n \in Names, NEW f \in Flags,
             NEW p \in Paths, NEW via \in Vias, defineScanConfig_WithFlag(via, r, c, n, f, p)
      PROVE  UsersAgree'
  <2> DEFINE obj == [Base(via, r) EXCEPT !.ScanConfigIds = @ \cup {c}, !.FlagIds = @ \cup {f}]
  <2>1. obj \in RepoObjects /\ obj.DefaultUserIds = Base(via, r).DefaultUserIds
    BY <1>0, BaseLists DEF RepoObjects
  <2>2. Target(via, r) /\ repo' = [repo EXCEPT ![r] = obj]
    BY <1>6 DEF defineScanConfig_WithFlag
  <2> HIDE DEF obj
  <2> QED  BY <1>0, <2>1, <2>2, DefaultsTargeted
<1>7. ASSUME NEW r \in Repos, NEW c \in ScanConfigs, NEW n \in Names, NEW f \in Flags,
             NEW p \in Paths, defineScanConfig_FlagNameTaken(r, c, n, f, p)
      PROVE  UsersAgree'
  <2> DEFINE obj == [repo[r] EXCEPT !.ScanConfigIds = @ \cup {c}]
  <2>1. /\ r \in Live(repo) /\ UNCHANGED DefaultRepoId
        /\ repo' = [repo EXCEPT ![r] = obj]
    BY <1>7 DEF defineScanConfig_FlagNameTaken
  <2>2. obj \in RepoObjects /\ obj.DefaultUserIds = repo[r].DefaultUserIds
    BY <1>0, <2>1 DEF LiveAreObjects, RepoObjects
  <2> HIDE DEF obj
  <2> QED  BY <1>0, <2>1, <2>2, DefaultsKept
<1>8. ASSUME NEW r \in Repos, NEW f \in Flags, NEW n \in Names, NEW p \in Paths,
             NEW via \in Vias, defineFlag(via, r, f, n, p)
      PROVE  UsersAgree'
  <2> DEFINE obj == [Base(via, r) EXCEPT !.FlagIds = @ \cup {f}]
  <2>1. obj \in RepoObjects /\ obj.DefaultUserIds = Base(via, r).DefaultUserIds
    BY <1>0, BaseLists DEF RepoObjects
  <2>2. Target(via, r) /\ repo' = [repo EXCEPT ![r] = obj]
    BY <1>8 DEF defineFlag
  <2> HIDE DEF obj
  <2> QED  BY <1>0, <2>1, <2>2, DefaultsTargeted
<1>9. ASSUME NEW r \in Repos, NEW f \in Flags, NEW n \in Names, NEW p \in Paths,
             defineFlag_NameTaken(r, f, n, p)
      PROVE  UsersAgree'
  BY <1>9, <1>same DEF defineFlag_NameTaken
\* The default users of a deleted repo have no default repo any more.
<1>10. ASSUME NEW r \in Repos, deleteRepo(r)
       PROVE  UsersAgree'
  <2>0. PICK cs : /\ cs \subseteq repo[r].ScanConfigIds
                  /\ repo' = [repo EXCEPT ![r] =
                       [EmptyRepo EXCEPT !.DockerfileIds = repo[r].DockerfileIds,
                                         !.ScanConfigIds = repo[r].ScanConfigIds \ cs]]
    BY <1>10, RepoPurge, Zenon
  <2> DEFINE obj == [EmptyRepo EXCEPT !.DockerfileIds = repo[r].DockerfileIds,
                                      !.ScanConfigIds = repo[r].ScanConfigIds \ cs]
  <2>1. /\ r \in Live(repo) /\ repo' = [repo EXCEPT ![r] = obj]
        /\ DefaultRepoId' = [u \in Users |-> IF u \in repo[r].DefaultUserIds
                                             THEN NoId ELSE DefaultRepoId[u]]
    BY <1>10, <2>0, Zenon DEF deleteRepo
  <2>2. obj \in RepoObjects /\ obj.DefaultUserIds = {}
    BY <1>0, <2>1 DEF LiveAreObjects, RepoObjects, EmptyRepo
  <2> HIDE DEF obj
  <2>3. DefaultUsersOf(repo, r) = repo[r].DefaultUserIds
    BY <2>1 DEF DefaultUsersOf
  <2>4. NoId \notin Repos
    BY RepoConstants
  <2>5. ASSUME NEW u \in Users, NEW q \in Repos
        PROVE  DefaultRepoId'[u] = q <=> u \in DefaultUsersOf(repo', q)
    <3>1. DefaultRepoId[u] = q <=> u \in DefaultUsersOf(repo, q)
      BY DefaultsUnfold
    <3>2. DefaultRepoId[u] = r <=> u \in DefaultUsersOf(repo, r)
      BY DefaultsUnfold
    <3>3. DefaultUsersOf(repo', q) = IF q = r THEN {} ELSE DefaultUsersOf(repo, q)
      BY <1>0, <2>1, <2>2, DefaultUsersWritten
    <3> QED  BY <2>1, <2>3, <2>4, <3>1, <3>2, <3>3
  <2> QED  BY <2>5, DefaultsUnfoldNext
<1>11. ASSUME NEW r \in Repos, deleteRepo_Aborted(r) \/ deleteRepo_Fails(r)
       PROVE  UsersAgree'
  BY <1>11, <1>same DEF deleteRepo_Aborted, deleteRepo_Fails
<1> QED  BY <1>1, <1>2, <1>3, <1>4, <1>5, <1>6, <1>7, <1>8, <1>9, <1>10, <1>11 DEF RepoStep

\* No other step changes who has a default repo.
LEMMA NextDefaults == Structure /\ TypeOK' /\ UsersAgree /\ [Next]_vars
                        => UsersAgree'
<1> SUFFICES ASSUME Structure, TypeOK', UsersAgree, [Next]_vars PROVE UsersAgree'
  OBVIOUS
<1>0. TypeOK /\ LiveAreObjects
  BY LiveObjects DEF Structure
<1>same. ASSUME UNCHANGED <<repo, DefaultRepoId>> PROVE UsersAgree'
  BY <1>same DEF UsersAgree
<1>list. ASSUME NEW r \in Live(repo), NEW ids, UNCHANGED DefaultRepoId,
                \/ ids \in SUBSET Images /\ repo' = [repo EXCEPT ![r].DockerImageIds = ids]
                \/ ids \in SUBSET ScanConfigs /\ repo' = [repo EXCEPT ![r].ScanConfigIds = ids]
                \/ ids \in SUBSET Flags /\ repo' = [repo EXCEPT ![r].FlagIds = ids]
         PROVE  UsersAgree'
  <2>1. r \in Repos /\ repo[r] \in RepoObjects
    BY <1>0 DEF LiveAreObjects
  <2>2. PICK obj \in RepoObjects : /\ repo' = [repo EXCEPT ![r] = obj]
                                   /\ obj.DefaultUserIds = repo[r].DefaultUserIds
    BY <1>list, <2>1 DEF RepoObjects
  <2> QED  BY <1>0, <1>list, <2>2, DefaultsKept
\* The lists of a stored repo.
<1>lists. \A r \in Live(repo) : /\ repo[r].DockerImageIds \in SUBSET Images
                                /\ repo[r].ScanConfigIds \in SUBSET ScanConfigs
                                /\ repo[r].FlagIds \in SUBSET Flags
  BY <1>0 DEF LiveAreObjects, RepoObjects
<1>1. ASSUME NEW d \in Dockerfiles, remDockerfile(d)
      PROVE  UsersAgree'
  BY <1>1, <1>same DEF remDockerfile
<1>2. ASSUME NEW d \in Dockerfiles, NEW p \in Paths, replaceDockerfile(d, p)
      PROVE  UsersAgree'
  BY <1>2, <1>same DEF replaceDockerfile
<1>3. ASSUME NEW d \in Dockerfiles, NEW n \in Names, NEW i \in Images,
             execDockerfile_BuildFails(d, n, i)
      PROVE  UsersAgree'
  <2>1. dockerfile[d].ParentId \in Live(repo)
    BY <1>3 DEF execDockerfile_BuildFails, Structure, ParentsStored
  <2> QED  BY <1>3, <1>list, <1>lists, <2>1 DEF execDockerfile_BuildFails
<1>4. ASSUME NEW d \in Dockerfiles, NEW n \in Names, NEW i \in Images, NEW v \in Versions,
             execDockerfile(d, n, i, v)
      PROVE  UsersAgree'
  <2>1. dockerfile[d].ParentId \in Live(repo)
    BY <1>4 DEF execDockerfile, Structure, ParentsStored
  <2> QED  BY <1>4, <1>list, <1>lists, <2>1 DEF execDockerfile, buildDockerfile
<1>5. ASSUME NEW i \in Images, remDockerImage(i)
      PROVE  UsersAgree'
  <2>1. image[i].ParentId \in Live(repo)
    BY <1>5 DEF remDockerImage, Structure, ParentsStored
  <2> QED  BY <1>5, <1>list, <1>lists, <2>1 DEF remDockerImage
<1>6. ASSUME NEW v \in Versions,
             remImageVersion(v) \/ remImageVersion_DockerFails(v)
      PROVE  UsersAgree'
  BY <1>6, <1>same DEF remImageVersion, remImageVersion_DockerFails
<1>7. ASSUME NEW c \in ScanConfigs, NEW v \in Versions, NEW e \in ScanEvents, scanImage(c, v, e)
      PROVE  UsersAgree'
  BY <1>7, <1>same DEF scanImage
<1>8. ASSUME NEW c \in ScanConfigs, remScanConfig(c)
      PROVE  UsersAgree'
  <2>1. scanConfig[c].ParentId \in Live(repo)
    BY <1>8 DEF remScanConfig, Structure, ParentsStored
  <2> QED  BY <1>8, <1>list, <1>lists, <2>1 DEF remScanConfig
<1>9. ASSUME NEW c \in ScanConfigs,
             \/ remScanConfig_Fails(c)
             \/ \E n \in Names : updateScanConfig(c, n)
             \/ \E i \in Images : useScanConfigForImage(c, i) \/ stopUsingScanConfigForImage(c, i)
             \/ \E d \in Dockerfiles : \/ useScanConfigForImage_NotAnImage(c, d)
                                       \/ stopUsingScanConfigForImage_NotAnImage(c, d)
      PROVE  UsersAgree'
  BY <1>9, <1>same DEF remScanConfig_Fails, updateScanConfig, useScanConfigForImage,
     stopUsingScanConfigForImage, useScanConfigForImage_NotAnImage,
     stopUsingScanConfigForImage_NotAnImage
<1>10. ASSUME NEW c \in ScanConfigs, NEW n \in Names \cup {NoName}, NEW f \in Flags,
              NEW p \in Paths,
              updateScanConfig_WithFlag(c, n, f, p) \/ updateScanConfig_Fails(c, n, f, p)
       PROVE  UsersAgree'
  <2>1. scanConfig[c].ParentId \in Live(repo)
    BY <1>10 DEF updateScanConfig_WithFlag, updateScanConfig_Fails, Structure, ParentsStored
  <2>2. /\ UNCHANGED DefaultRepoId
        /\ \/ UNCHANGED repo
           \/ repo' = [repo EXCEPT ![scanConfig[c].ParentId].FlagIds = @ \cup {f}]
    BY <1>10, Zenon DEF updateScanConfig_WithFlag, updateScanConfig_Fails
  <2>3. CASE UNCHANGED repo
    BY <1>same, <2>2, <2>3
  <2>4. CASE repo' = [repo EXCEPT ![scanConfig[c].ParentId].FlagIds = @ \cup {f}]
    BY <1>list, <1>lists, <2>1, <2>2, <2>4
  <2> QED  BY <2>2, <2>3, <2>4
<1>11. ASSUME NEW f \in Flags, remFlag(f)
       PROVE  UsersAgree'
  <2>1. flag[f].ParentId \in Live(repo)
    BY <1>11 DEF remFlag, Structure, ParentsStored
  <2> QED  BY <1>11, <1>list, <1>lists, <2>1 DEF remFlag
<1>12. ASSUME NEW f \in Flags, remFlag_Aborted(f)
       PROVE  UsersAgree'
  BY <1>12, <1>same DEF remFlag_Aborted
<1>19. ASSUME NEW i \in Images, remDockerImage_Fails(i)
       PROVE  UsersAgree'
  BY <1>19, <1>same, Zenon DEF remDockerImage_Fails
<1>13. CASE \E p \in Paths : AbandonedUpload(p)
  BY <1>13, <1>same DEF AbandonedUpload
<1>14. CASE UNCHANGED vars
  BY <1>14, <1>same DEF vars
<1>15. CASE RepoStep
  BY <1>15, RepoStepDefaults
<1>16. CASE DockerStep
  BY <1>16, <1>1, <1>2, <1>3, <1>4, <1>5, <1>6, <1>7, <1>19 DEF DockerStep
<1>17. CASE ScanConfigStep
  BY <1>17, <1>8, <1>9, <1>10 DEF ScanConfigStep
<1>18. CASE FlagStep
  BY <1>18, <1>11, <1>12 DEF FlagStep
<1> QED  BY <1>13, <1>14, <1>15, <1>16, <1>17, <1>18 DEF Next

\* What a request does to the realm's list of repos and to default repos.
RealmStep ==
    \/ UNCHANGED DefaultRepoId /\ (inMemoryOnly \/ RepoIds \subseteq RepoIds')
    \/ \E r \in Repos, via \in Vias : Target(via, r)
    \/ \E r \in Repos : /\ RepoIds' = RepoIds \ {r} /\ r \in Live(repo)
                         /\ DefaultRepoId' = [u \in Users |-> IF u \in repo[r].DefaultUserIds
                                                              THEN NoId ELSE DefaultRepoId[u]]

LEMMA RealmSteps == [Next]_vars => RealmStep
<1> SUFFICES ASSUME [Next]_vars PROVE RealmStep
  OBVIOUS
<1>1. CASE UNCHANGED <<RepoIds, DefaultRepoId>>
  BY <1>1 DEF RealmStep
<1>2. CASE RepoStep
  <2>1. ASSUME NEW r \in Repos, createRepo(r) \/ deleteRepo_Aborted(r) \/ deleteRepo_Fails(r)
        PROVE  RealmStep
    BY <2>1 DEF RealmStep, createRepo, deleteRepo_Aborted, deleteRepo_Fails
  <2>2. ASSUME NEW r \in Repos, deleteRepo(r)
        PROVE  RealmStep
    BY <2>2, Zenon DEF RealmStep, deleteRepo
  <2>3. ASSUME NEW r \in Repos, NEW d, NEW n, NEW p, NEW via \in Vias, NEW m, NEW i, NEW v,
               addDockerfile(via, r, d, n, p) \/ addAndExecDockerfile(via, r, d, n, p, m, i, v)
        PROVE  RealmStep
    BY <2>3, Zenon DEF RealmStep, addDockerfile, addAndExecDockerfile
  <2>4. ASSUME NEW r \in Repos, NEW c, NEW n, NEW f, NEW p, NEW via \in Vias,
               \/ defineScanConfig(via, r, c, n) \/ defineScanConfig_WithFlag(via, r, c, n, f, p)
               \/ defineFlag(via, r, f, n, p)
        PROVE  RealmStep
    BY <2>4, Zenon DEF RealmStep, defineScanConfig, defineScanConfig_WithFlag, defineFlag
  <2>5. ASSUME NEW r, NEW d, NEW c, NEW f, NEW n, NEW p,
               \/ addDockerfile_NameTaken(r, d, n, p) \/ defineFlag_NameTaken(r, f, n, p)
               \/ defineScanConfig_FlagNameTaken(r, c, n, f, p)
        PROVE  RealmStep
    <3>1. UNCHANGED <<RepoIds, DefaultRepoId>>
      BY <2>5, Zenon DEF addDockerfile_NameTaken, defineFlag_NameTaken,
         defineScanConfig_FlagNameTaken
    <3> QED  BY <1>1, <3>1
  <2> QED  BY <1>2, <2>1, <2>2, <2>3, <2>4, <2>5, Zenon DEF RepoStep
<1> QED  BY <1>1, <1>2, ModeKept

\* With redis a default repo is one of the realm.
DefaultsInRealm == ~inMemoryOnly => \A u \in Users : DefaultRepoId[u] \in RepoIds \cup {NoId}

\* No two users have the same default repo.
DefaultsApart ==
    \A u, w \in Users : DefaultRepoId[u] = DefaultRepoId[w] => u = w \/ DefaultRepoId[u] = NoId

\* A repo that becomes a user's is new, so it is no other's; and a deleted repo
\* is taken from all the users that had it.
LEMMA NextRealm ==
    ASSUME TypeOK, UsersAgree, DefaultsApart, DefaultsInRealm, [Next]_vars
    PROVE  DefaultsApart' /\ DefaultsInRealm'
<1>0. inMemoryOnly' = inMemoryOnly /\ RealmStep
  BY ModeKept, RealmSteps
<1>1. CASE UNCHANGED DefaultRepoId /\ (inMemoryOnly \/ RepoIds \subseteq RepoIds')
  BY <1>0, <1>1 DEF DefaultsApart, DefaultsInRealm
<1>2. ASSUME NEW r \in Repos, NEW via \in Vias, Target(via, r)
      PROVE  DefaultsApart' /\ DefaultsInRealm'
  <2>1. /\ DefaultRepoId' = [u \in Users |-> IF u = via THEN r ELSE DefaultRepoId[u]]
        /\ RepoIds' = IF repo[r] = NewId THEN RepoIds \cup {r} ELSE RepoIds
    BY <1>2 DEF Target
  <2>2. via \in Users => DefaultRepoId[via] = r \/ repo[r] = NewId
    BY <1>2, RepoConstants DEF Target
  <2>3. repo[r] = NewId => \A u \in Users : DefaultRepoId[u] # r
    BY DEF UsersAgree, Live
  <2>4. NoId # r
    BY RepoConstants
  <2>5. DefaultsApart'
    BY <2>1, <2>2, <2>3, <2>4 DEF DefaultsApart
  <2>6. DefaultsInRealm'
    BY <1>0, <2>1, <2>2, <2>4 DEF DefaultsInRealm
  <2> QED  BY <2>5, <2>6
<1>3. ASSUME NEW r \in Repos, RepoIds' = RepoIds \ {r}, r \in Live(repo),
             DefaultRepoId' = [u \in Users |-> IF u \in repo[r].DefaultUserIds
                                              THEN NoId ELSE DefaultRepoId[u]]
      PROVE  DefaultsApart' /\ DefaultsInRealm'
  <2>1. \A u \in Users : DefaultRepoId[u] = r <=> u \in repo[r].DefaultUserIds
    BY <1>3 DEF UsersAgree
  <2>2. DefaultsApart'
    BY <1>3, <2>1 DEF DefaultsApart
  <2>3. DefaultsInRealm'
    BY <1>0, <1>3, <2>1 DEF DefaultsInRealm
  <2> QED  BY <2>2, <2>3
<1> QED  BY <1>0, <1>1, <1>2, <1>3 DEF RealmStep

\* Who is listed as a default user of a repo has it as default repo, and the
\* converse, whatever repos are made for users and deleted; no two users have
\* the same; and with redis no user is left with one that is not in the realm.
THEOREM DefaultReposHold == Spec => []DefaultReposAgree
<1> DEFINE Inv == UsersAgree /\ DefaultsApart /\ DefaultsInRealm
<1>1. Init => Inv
  BY RepoConstants DEF Init, UsersAgree, DefaultsApart, DefaultsInRealm, Live
<1>2. Structure /\ Structure' /\ Inv /\ [Next]_vars => Inv'
  <2> SUFFICES ASSUME Structure, Structure', Inv, [Next]_vars PROVE Inv'
    OBVIOUS
  <2>1. UsersAgree'
    BY NextDefaults DEF Structure
  <2>2. DefaultsApart' /\ DefaultsInRealm'
    BY NextRealm DEF Structure
  <2> QED  BY <2>1, <2>2
<1>3. Inv => DefaultReposAgree
  BY DEF UsersAgree, DefaultsApart, DefaultsInRealm, DefaultReposAgree
<1> HIDE DEF Inv
<1> QED  BY <1>1, <1>2, <1>3, StructureHolds, PTL DEF Spec

-----------------------------------------------------------------------------
(***************************************************************************)
(* Deletes.                                                                *)
(***************************************************************************)

\* What each request that deletes does to what is left.
LEMMA RepoDeleted ==
    ASSUME Structure, NEW r \in Repos, deleteRepo(r)
    PROVE  \E cs, links :
             /\ PurgeEffects(cs, repo[r].FlagIds, repo[r].DockerImageIds,
                             UNION {image[i].VersionIds : i \in repo[r].DockerImageIds}, links)
             /\ Purge(repo[r].DockerfileIds, cs, repo[r].FlagIds, repo[r].DockerImageIds,
                      UNION {image[i].VersionIds : i \in repo[r].DockerImageIds}, links)
             /\ repo' = [repo EXCEPT ![r] =
                  [EmptyRepo EXCEPT !.DockerfileIds = repo[r].DockerfileIds,
                                    !.ScanConfigIds = repo[r].ScanConfigIds \ cs]]
             /\ cs \subseteq repo[r].ScanConfigIds
             /\ \A f \in repo[r].FlagIds : \A c \in flag[f].UsedByScanConfigIds :
                  c \in cs /\ scanConfig[c].FlagId = f
             /\ \E unlinked \in WalksOfScanConfigs(cs) :
                \E more \in WalksOfImages(repo[r].DockerImageIds, unlinked) :
                   links = unlinked \cup more
<1>1. PICK cs, links :
        /\ PurgeArguments(repo[r].DockerfileIds, cs, repo[r].FlagIds, repo[r].DockerImageIds,
                          UNION {image[i].VersionIds : i \in repo[r].DockerImageIds})
        /\ Purge(repo[r].DockerfileIds, cs, repo[r].FlagIds, repo[r].DockerImageIds,
                 UNION {image[i].VersionIds : i \in repo[r].DockerImageIds}, links)
        /\ repo' = [repo EXCEPT ![r] =
             [EmptyRepo EXCEPT !.DockerfileIds = repo[r].DockerfileIds,
                               !.ScanConfigIds = repo[r].ScanConfigIds \ cs]]
        /\ cs \subseteq repo[r].ScanConfigIds
        /\ \A f \in repo[r].FlagIds : \A c \in flag[f].UsedByScanConfigIds :
             c \in cs /\ scanConfig[c].FlagId = f
        /\ \E unlinked \in WalksOfScanConfigs(cs) :
           \E more \in WalksOfImages(repo[r].DockerImageIds, unlinked) : links = unlinked \cup more
  BY RepoPurge, Zenon
<1>2. PurgeEffects(cs, repo[r].FlagIds, repo[r].DockerImageIds,
                   UNION {image[i].VersionIds : i \in repo[r].DockerImageIds}, links)
  BY <1>1, PurgeEffect, Zenon DEF Structure
<1> QED  BY <1>1, <1>2, Zenon

LEMMA ImageDeleted ==
    ASSUME Structure, NEW i \in Images, remDockerImage(i)
    PROVE  \E links \in WalksOfImages({i}, {}) :
              /\ Purge({}, {}, {}, {i}, image[i].VersionIds, links)
              /\ PurgeEffects({}, {}, {i}, image[i].VersionIds, links)
<1>1. PurgeArguments({}, {}, {}, {i}, image[i].VersionIds)
  BY DEF PurgeArguments, remDockerImage
<1>2. PICK links \in WalksOfImages({i}, {}) : Purge({}, {}, {}, {i}, image[i].VersionIds, links)
  BY Zenon DEF remDockerImage
<1> QED  BY <1>1, <1>2, PurgeEffect DEF Structure

\* Versions that a delete of their image has taken when it fails.
LEMMA ImageFails ==
    ASSUME Structure, NEW i \in Images, remDockerImage_Fails(i)
    PROVE  \E vs, links : /\ Purge({}, {}, {}, {}, vs, links)
                          /\ PurgeEffects({}, {}, {}, vs, links)
<1>1. \A vs : PurgeArguments({}, {}, {}, {}, vs)
  BY DEF PurgeArguments
<1>2. PICK vs, links : Purge({}, {}, {}, {}, vs, links)
  BY Zenon DEF remDockerImage_Fails
<1> QED  BY <1>1, <1>2, PurgeEffect DEF Structure

LEMMA VersionDeleted ==
    ASSUME Structure, NEW v \in Versions, remImageVersion(v)
    PROVE  PurgeEffects({}, {}, {}, {v}, {})
<1>1. PurgeArguments({}, {}, {}, {}, {v})
  BY DEF PurgeArguments
<1> QED  BY <1>1, PurgeEffect DEF remImageVersion, Structure

LEMMA ScanConfigDeleted ==
    ASSUME Structure, NEW c \in ScanConfigs, remScanConfig(c)
    PROVE  \E links \in WalksOfScanConfigs({c}) :
              Purge({}, {c}, {}, {}, {}, links) /\ PurgeEffects({c}, {}, {}, {}, links)
<1>1. PurgeArguments({}, {c}, {}, {}, {})
  BY DEF PurgeArguments, remScanConfig
<1>2. PICK links \in WalksOfScanConfigs({c}) : Purge({}, {c}, {}, {}, {}, links)
  BY Zenon DEF remScanConfig
<1> QED  BY <1>1, <1>2, PurgeEffect DEF Structure

LEMMA FlagDeleted ==
    ASSUME Structure, NEW f \in Flags, remFlag(f)
    PROVE  PurgeEffects({}, {f}, {}, {}, {})
<1>1. PurgeArguments({}, {}, {f}, {}, {})
  BY DEF PurgeArguments, remFlag
<1> QED  BY <1>1, PurgeEffect DEF remFlag, Structure

-----------------------------------------------------------------------------
(***************************************************************************)
(* Images and versions.                                                    *)
(***************************************************************************)
VersionsInv ==
    /\ VersionsAgree
    /\ \A v \in Live(version) : version[v].ImageObjId \in Live(image)

\* Versions stay, and images keep them; new images have none.
VersionsSame ==
    /\ Live(version') = Live(version)
    /\ \A v \in Live(version) : version'[v].ImageObjId = version[v].ImageObjId
    /\ Live(image) \subseteq Live(image')
    /\ \A i \in Live(image') :
         image'[i].VersionIds = IF i \in Live(image) THEN image[i].VersionIds ELSE {}

\* Where versions and what lists them stay, so does the invariant.
LEMMA VersionsKept == VersionsInv /\ VersionsSame => VersionsInv'
BY DEF VersionsInv, VersionsSame, VersionsAgree

\* A delete of images takes all of their versions with it.
LEMMA VersionsPurged ==
    ASSUME VersionsInv, NEW cs, NEW fs, NEW is, NEW vs, NEW links,
           PurgeEffects(cs, fs, is, vs, links),
           \A v \in Live(version) : version[v].ImageObjId \in is => v \in vs
    PROVE  VersionsInv'
<1>1. ASSUME NEW v \in Live(version')
      PROVE  version'[v].ImageObjId \in Live(image')
  BY <1>1 DEF PurgeEffects, VersionsInv
<1>2. ASSUME NEW v \in Versions, NEW i \in Live(image')
      PROVE  v \in image'[i].VersionIds <=> v \in Live(version') /\ version'[v].ImageObjId = i
  BY <1>2 DEF PurgeEffects, VersionsInv, VersionsAgree
<1> QED  BY <1>1, <1>2 DEF VersionsInv, VersionsAgree

\* The version that a build makes is the image's.
LEMMA VersionBuilt ==
    ASSUME TypeOK, TypeOK', VersionsInv, NEW d, NEW obj, NEW r \in Repos, NEW robj,
           robj.DockerImageIds \subseteq Live(image), NEW n \in Names, NEW i \in Images,
           NEW v \in Versions, buildDockerfile(d, obj, r, robj, n, i, v)
    PROVE  VersionsInv'
<1> DEFINE iobj == IF image[i] = NewId THEN NewDockerImage(r, n) ELSE image[i]
           inew == [iobj EXCEPT !.VersionIds = @ \cup {v}]
<1>0. LiveAreObjects /\ LiveAreObjects'
  BY LiveObjects, LiveObjectsNext
<1>1. /\ i \in Live(image) \/ image[i] = NewId
      /\ version[v] = NewId
      /\ image' = [image EXCEPT ![i] = inew]
      /\ version' = [version EXCEPT ![v] = NewVersion(i)]
  BY DEF buildDockerfile
<1>2. v \notin Live(version) /\ (image[i] = NewId => i \notin Live(image))
  BY <1>1 DEF Live
<1>3. iobj \in ImageObjects /\ iobj.VersionIds = IF i \in Live(image) THEN image[i].VersionIds ELSE {}
  <2>1. CASE image[i] = NewId
    BY <1>2, <2>1 DEF NewDockerImage, ImageObjects
  <2>2. CASE image[i] # NewId
    BY <1>0, <1>1, <2>2 DEF LiveAreObjects
  <2> QED  BY <2>1, <2>2
<1> HIDE DEF iobj
<1>4. inew \in ImageObjects /\ inew.VersionIds = iobj.VersionIds \cup {v}
  BY <1>3 DEF ImageObjects
<1> HIDE DEF inew
<1>5. NewVersion(i) \in VersionObjects /\ NewVersion(i).ImageObjId = i
  BY DEF NewVersion, VersionObjects
<1>6. /\ image'[i] = inew /\ \A j \in Images \ {i} : image'[j] = image[j]
      /\ version'[v] = NewVersion(i) /\ \A w \in Versions \ {v} : version'[w] = version[w]
  BY <1>1 DEF TypeOK
<1>7. /\ i \in Live(image') /\ \A j \in Images \ {i} : j \in Live(image') <=> j \in Live(image)
      /\ v \in Live(version')
      /\ \A w \in Versions \ {v} : w \in Live(version') <=> w \in Live(version)
  BY <1>0, <1>4, <1>5, <1>6 DEF LiveAreObjects
<1>8. Live(image') \subseteq Images /\ Live(version') \subseteq Versions /\ Live(image) \subseteq Images
  BY <1>0 DEF LiveAreObjects
<1>9. ASSUME NEW w \in Live(version')
      PROVE  version'[w].ImageObjId \in Live(image')
  BY <1>5, <1>6, <1>7, <1>8 DEF VersionsInv
<1>10. ASSUME NEW w \in Versions, NEW j \in Live(image')
       PROVE  w \in image'[j].VersionIds <=> w \in Live(version') /\ version'[w].ImageObjId = j
  <2>1. CASE j = i
    <3>1. w \in inew.VersionIds <=> w = v \/ (i \in Live(image) /\ w \in image[i].VersionIds)
      BY <1>3, <1>4
    <3>2. i \in Live(image) => (w \in image[i].VersionIds
                                  <=> w \in Live(version) /\ version[w].ImageObjId = i)
      BY DEF VersionsInv, VersionsAgree
    <3>3. w \in Live(version) => version[w].ImageObjId \in Live(image)
      BY DEF VersionsInv
    <3> QED  BY <1>2, <1>5, <1>6, <1>7, <2>1, <3>1, <3>2, <3>3
  <2>2. CASE j # i
    <3>1. j \in Live(image) /\ image'[j] = image[j]
      BY <1>6, <1>7, <1>8, <2>2
    <3>2. w \in image[j].VersionIds <=> w \in Live(version) /\ version[w].ImageObjId = j
      BY <3>1 DEF VersionsInv, VersionsAgree
    <3> QED  BY <1>2, <1>5, <1>6, <1>7, <2>2, <3>1, <3>2
  <2> QED  BY <2>1, <2>2
<1> QED  BY <1>9, <1>10 DEF VersionsInv, VersionsAgree

\* An image is written, with the versions it had; a new one has none.
LEMMA VersionsImageWritten ==
    ASSUME TypeOK, TypeOK', VersionsInv, NEW i \in Images, NEW obj \in ImageObjects,
           image' = [image EXCEPT ![i] = obj],
           obj.VersionIds = IF i \in Live(image) THEN image[i].VersionIds ELSE {},
           UNCHANGED version
    PROVE  VersionsInv'
<1>1. LiveAreObjects /\ LiveAreObjects'
  BY LiveObjects, LiveObjectsNext
<1>2. image'[i] = obj /\ \A j \in Images \ {i} : image'[j] = image[j]
  BY DEF TypeOK
<1>3. Live(image') = Live(image) \cup {i}
  <2>1. \A j : j \in Live(image') <=> j \in Live(image) \/ j = i
    BY <1>1, <1>2 DEF LiveAreObjects
  <2> QED  BY <2>1
<1>4. Live(image) \subseteq Images
  BY <1>1 DEF LiveAreObjects
<1>5. \A j \in Live(image') :
         image'[j].VersionIds = IF j \in Live(image) THEN image[j].VersionIds ELSE {}
  <2>1. ASSUME NEW j \in Live(image'), j # i
        PROVE  j \in Live(image) /\ image'[j] = image[j]
    BY <1>2, <1>3, <1>4, <2>1
  <2> QED  BY <1>2, <2>1
<1>6. VersionsSame
  BY <1>3, <1>5 DEF VersionsSame
<1> QED  BY <1>6, VersionsKept

\* Every step keeps versions and images in agreement.
LEMMA NextVersions == Structure /\ TypeOK' /\ VersionsInv /\ [Next]_vars => VersionsInv'
<1> SUFFICES ASSUME Structure, TypeOK', VersionsInv, [Next]_vars PROVE VersionsInv'
  OBVIOUS
<1>0. TypeOK /\ LiveAreObjects /\ ChildrenListed /\ ParentsStored
  BY LiveObjects DEF Structure
<1>same. ASSUME UNCHANGED <<image, version>> PROVE VersionsInv'
  BY <1>same DEF VersionsInv, VersionsAgree
<1>1. ASSUME NEW r \in Repos, NEW d \in Dockerfiles, NEW n \in Names, NEW p \in Paths,
             NEW via \in Vias, NEW m \in Names, NEW i \in Images, NEW v \in Versions,
             addAndExecDockerfile(via, r, d, n, p, m, i, v)
      PROVE  VersionsInv'
  <2> DEFINE robj == [Base(via, r) EXCEPT !.DockerfileIds = @ \cup {d}]
  <2>1. robj.DockerImageIds \subseteq Live(image)
    BY <1>0, BaseRepo DEF RepoObjects, ChildrenListed
  <2>2. buildDockerfile(d, NewDockerfile(r, n, p), r, robj, m, i, v)
    BY <1>1 DEF addAndExecDockerfile
  <2> HIDE DEF robj
  <2> QED  BY <1>0, <2>1, <2>2, VersionBuilt
<1>2. ASSUME NEW r \in Repos, deleteRepo(r)
      PROVE  VersionsInv'
  <2> DEFINE vs == UNION {image[i].VersionIds : i \in repo[r].DockerImageIds}
  <2>1. PICK cs, links : PurgeEffects(cs, repo[r].FlagIds, repo[r].DockerImageIds, vs, links)
    BY <1>2, RepoDeleted, Zenon
  <2>2. \A v \in Live(version) : version[v].ImageObjId \in repo[r].DockerImageIds => v \in vs
    <3>1. repo[r].DockerImageIds \subseteq Live(image)
      <4>1. r \in Live(repo)
        BY <1>2 DEF deleteRepo
      <4> QED  BY <1>0, <4>1 DEF ChildrenListed
    <3> QED  BY <1>0, <3>1 DEF VersionsInv, VersionsAgree, LiveAreObjects
  <2> HIDE DEF vs
  <2> QED  BY <2>1, <2>2, VersionsPurged
<1>3. ASSUME NEW r \in Repos,
             \/ createRepo(r) \/ deleteRepo_Aborted(r) \/ deleteRepo_Fails(r)
             \/ \E d \in Dockerfiles, n \in Names, p \in Paths :
                  \/ \E via \in Vias : addDockerfile(via, r, d, n, p)
                  \/ addDockerfile_NameTaken(r, d, n, p)
             \/ \E c \in ScanConfigs, n \in Names :
                  \/ \E via \in Vias : defineScanConfig(via, r, c, n)
                  \/ \E f \in Flags, p \in Paths :
                       \/ \E via \in Vias : defineScanConfig_WithFlag(via, r, c, n, f, p)
                       \/ defineScanConfig_FlagNameTaken(r, c, n, f, p)
             \/ \E f \in Flags, n \in Names, p \in Paths :
                  \/ \E via \in Vias : defineFlag(via, r, f, n, p)
                  \/ defineFlag_NameTaken(r, f, n, p)
      PROVE  VersionsInv'
  <2>1. CASE createRepo(r) \/ deleteRepo_Aborted(r) \/ deleteRepo_Fails(r)
    BY <1>same, <2>1 DEF createRepo, deleteRepo_Aborted, deleteRepo_Fails
  <2>2. ASSUME NEW d \in Dockerfiles, NEW n \in Names, NEW p \in Paths,
               \/ \E via \in Vias : addDockerfile(via, r, d, n, p)
               \/ addDockerfile_NameTaken(r, d, n, p)
        PROVE  VersionsInv'
    BY <1>same, <2>2 DEF addDockerfile, addDockerfile_NameTaken
  <2>3. ASSUME NEW c \in ScanConfigs, NEW n \in Names, NEW via \in Vias,
               defineScanConfig(via, r, c, n)
        PROVE  VersionsInv'
    BY <1>same, <2>3 DEF defineScanConfig
  <2>4. ASSUME NEW c \in ScanConfigs, NEW n \in Names, NEW f \in Flags, NEW p \in Paths,
               \/ \E via \in Vias : defineScanConfig_WithFlag(via, r, c, n, f, p)
               \/ defineScanConfig_FlagNameTaken(r, c, n, f, p)
        PROVE  VersionsInv'
    BY <1>same, <2>4, Zenon DEF defineScanConfig_WithFlag, defineScanConfig_FlagNameTaken
  <2>5. ASSUME NEW f \in Flags, NEW n \in Names, NEW p \in Paths,
               \/ \E via \in Vias : defineFlag(via, r, f, n, p)
               \/ defineFlag_NameTaken(r, f, n, p)
        PROVE  VersionsInv'
    BY <1>same, <2>5 DEF defineFlag, defineFlag_NameTaken
  <2> QED  BY <1>3, <2>1, <2>2, <2>3, <2>4, <2>5
<1>4. CASE RepoStep
  BY <1>4, <1>1, <1>2, <1>3 DEF RepoStep
<1>5. ASSUME NEW d \in Dockerfiles,
             remDockerfile(d) \/ \E p \in Paths : replaceDockerfile(d, p)
      PROVE  VersionsInv'
  BY <1>5, <1>same DEF remDockerfile, replaceDockerfile
<1>6. ASSUME NEW d \in Dockerfiles, NEW n \in Names, NEW i \in Images,
             execDockerfile_BuildFails(d, n, i)
      PROVE  VersionsInv'
  <2> DEFINE obj == NewDockerImage(dockerfile[d].ParentId, n)
  <2>1. dockerfile[d].ParentId \in Repos
    BY <1>0, <1>6 DEF execDockerfile_BuildFails, ParentsStored, LiveAreObjects
  <2>2. obj \in ImageObjects /\ obj.VersionIds = {}
    BY <2>1 DEF NewDockerImage, ImageObjects
  <2>3. image' = [image EXCEPT ![i] = obj] /\ i \notin Live(image) /\ UNCHANGED version
    BY <1>6 DEF execDockerfile_BuildFails, Live
  <2> HIDE DEF obj
  <2> QED  BY <1>0, <2>2, <2>3, VersionsImageWritten
<1>7. ASSUME NEW d \in Dockerfiles, NEW n \in Names, NEW i \in Images, NEW v \in Versions,
             execDockerfile(d, n, i, v)
      PROVE  VersionsInv'
  <2>1. dockerfile[d].ParentId \in Live(repo) /\ dockerfile[d].ParentId \in Repos
    BY <1>0, <1>7 DEF execDockerfile, ParentsStored, LiveAreObjects
  <2>2. repo[dockerfile[d].ParentId].DockerImageIds \subseteq Live(image)
    BY <1>0, <2>1 DEF ChildrenListed
  <2> QED  BY <1>0, <1>7, <2>1, <2>2, VersionBuilt DEF execDockerfile
<1>8. ASSUME NEW i \in Images, remDockerImage(i)
      PROVE  VersionsInv'
  <2>1. PICK links : PurgeEffects({}, {}, {i}, image[i].VersionIds, links)
    BY <1>8, ImageDeleted, Zenon
  <2>2. \A v \in Live(version) : version[v].ImageObjId \in {i} => v \in image[i].VersionIds
    BY <1>0, <1>8 DEF remDockerImage, VersionsInv, VersionsAgree, LiveAreObjects
  <2> QED  BY <2>1, <2>2, VersionsPurged
\* Where it fails the image stays, without the versions that have gone.
<1>21. ASSUME NEW i \in Images, remDockerImage_Fails(i)
       PROVE  VersionsInv'
  <2>1. PICK vs, links : PurgeEffects({}, {}, {}, vs, links)
    BY <1>21, ImageFails, Zenon
  <2> QED  BY <2>1, VersionsPurged
<1>9. ASSUME NEW v \in Versions, remImageVersion(v)
      PROVE  VersionsInv'
  BY <1>9, VersionDeleted, VersionsPurged
<1>10. ASSUME NEW v \in Versions, remImageVersion_DockerFails(v)
       PROVE  VersionsInv'
  BY <1>10, <1>same DEF remImageVersion_DockerFails
<1>11. ASSUME NEW c \in ScanConfigs, NEW v \in Versions, NEW e \in ScanEvents, scanImage(c, v, e)
       PROVE  VersionsInv'
  <2>1. /\ v \in Live(version) /\ version[v] \in VersionObjects
        /\ version' = [version EXCEPT ![v].ScanEventIds = @ \cup {e}]
        /\ UNCHANGED image
    BY <1>0, <1>11 DEF scanImage, LiveAreObjects
  <2>2. LiveAreObjects'
    BY LiveObjectsNext
  <2>3. [version[v] EXCEPT !.ScanEventIds = @ \cup {e}].ImageObjId = version[v].ImageObjId
    BY <2>1 DEF VersionObjects
  <2>4. /\ version'[v].ImageObjId = version[v].ImageObjId
        /\ \A w \in Versions \ {v} : version'[w] = version[w]
    BY <1>0, <2>1, <2>3 DEF TypeOK
  <2>5. [version[v] EXCEPT !.ScanEventIds = @ \cup {e}] \in VersionObjects
    BY <2>1 DEF VersionObjects
  <2>6. \A w : w \in Live(version') <=> w \in Live(version)
    BY <1>0, <2>1, <2>2, <2>4, <2>5 DEF LiveAreObjects, TypeOK
  <2>7. VersionsSame
    BY <1>0, <2>1, <2>4, <2>6 DEF VersionsSame, LiveAreObjects
  <2> QED  BY <2>7, VersionsKept
<1>12. CASE DockerStep
  BY <1>12, <1>5, <1>6, <1>7, <1>8, <1>9, <1>10, <1>11, <1>21 DEF DockerStep
<1>13. ASSUME NEW c \in ScanConfigs, remScanConfig(c)
       PROVE  VersionsInv'
  <2>1. PICK links : PurgeEffects({c}, {}, {}, {}, links)
    BY <1>13, ScanConfigDeleted, Zenon
  <2> QED  BY <2>1, VersionsPurged
<1>14. ASSUME NEW c \in ScanConfigs, remScanConfig_Fails(c)
       PROVE  VersionsInv'
  <2>1. CASE UNCHANGED image
    BY <1>14, <1>same, <2>1 DEF remScanConfig_Fails
  <2>2. ASSUME NEW is \in SUBSET Live(image),
               image' = [i \in Images |->
                    IF i \in is THEN [image[i] EXCEPT !.ScanConfigsToUse = @ \ {c}]
                                ELSE image[i]]
        PROVE  VersionsInv'
    <3>1. ASSUME NEW i \in Live(image)
          PROVE  image'[i] \in ImageObjects /\ image'[i].VersionIds = image[i].VersionIds
      <4>1. i \in Images /\ image[i] \in ImageObjects
        BY <1>0 DEF LiveAreObjects
      <4> QED  BY <2>2, <4>1 DEF ImageObjects
    <3>2. \A i \in Images \ Live(image) : image'[i] = image[i]
      BY <2>2
    <3>3. LiveAreObjects'
      BY LiveObjectsNext
    <3>4. \A i : i \in Live(image') <=> i \in Live(image)
      BY <1>0, <3>1, <3>2, <3>3 DEF LiveAreObjects
    <3>5. VersionsSame
      BY <1>14, <3>1, <3>4 DEF VersionsSame, remScanConfig_Fails
    <3> QED  BY <3>5, VersionsKept
  <2> QED  BY <1>14, <2>1, <2>2 DEF remScanConfig_Fails
<1>15. ASSUME NEW c \in ScanConfigs, NEW i \in Images,
              useScanConfigForImage(c, i) \/ stopUsingScanConfigForImage(c, i)
       PROVE  VersionsInv'
  <2>1. i \in Live(image) /\ image[i] \in ImageObjects /\ UNCHANGED version
    BY <1>0, <1>15 DEF useScanConfigForImage, stopUsingScanConfigForImage, LiveAreObjects
  <2>2. PICK ids \in SUBSET ScanConfigs : image' = [image EXCEPT ![i].ScanConfigsToUse = ids]
    BY <1>15, <2>1 DEF useScanConfigForImage, stopUsingScanConfigForImage, ImageObjects
  <2> DEFINE obj == [image[i] EXCEPT !.ScanConfigsToUse = ids]
  <2>3. obj \in ImageObjects /\ obj.VersionIds = image[i].VersionIds
    BY <2>1 DEF ImageObjects
  <2>4. image' = [image EXCEPT ![i] = obj]
    BY <2>2
  <2> HIDE DEF obj
  <2> QED  BY <1>0, <2>1, <2>3, <2>4, VersionsImageWritten
<1>16. ASSUME NEW c \in ScanConfigs,
              \/ \E n \in Names : updateScanConfig(c, n)
              \/ \E n \in Names \cup {NoName}, f \in Flags, p \in Paths :
                   updateScanConfig_WithFlag(c, n, f, p) \/ updateScanConfig_Fails(c, n, f, p)
              \/ \E d \in Dockerfiles : \/ useScanConfigForImage_NotAnImage(c, d)
                                        \/ stopUsingScanConfigForImage_NotAnImage(c, d)
       PROVE  VersionsInv'
  <2>1. UNCHANGED <<image, version>>
    BY <1>16 DEF updateScanConfig, updateScanConfig_WithFlag, updateScanConfig_Fails,
       useScanConfigForImage_NotAnImage, stopUsingScanConfigForImage_NotAnImage
  <2> QED  BY <1>same, <2>1
<1>17. CASE ScanConfigStep
  BY <1>17, <1>13, <1>14, <1>15, <1>16 DEF ScanConfigStep
<1>18. CASE FlagStep
  <2>1. ASSUME NEW f \in Flags, remFlag(f)
        PROVE  VersionsInv'
    BY <2>1, FlagDeleted, VersionsPurged
  <2> QED  BY <1>18, <1>same, <2>1 DEF FlagStep, remFlag_Aborted
<1>19. CASE \E p \in Paths : AbandonedUpload(p)
  BY <1>19, <1>same DEF AbandonedUpload
<1>20. CASE UNCHANGED vars
  BY <1>20, <1>same DEF vars
<1> QED  BY <1>4, <1>12, <1>17, <1>18, <1>19, <1>20 DEF Next

\* An image lists exactly the stored versions that name it.
THEOREM VersionsHold == Spec => []VersionsAgree
<1>1. Init => VersionsInv
  BY DEF Init, VersionsInv, VersionsAgree, Live
<1>2. Structure /\ Structure' /\ VersionsInv /\ [Next]_vars => VersionsInv'
  BY NextVersions DEF Structure
<1>3. VersionsInv => VersionsAgree
  BY DEF VersionsInv
<1> QED  BY <1>1, <1>2, <1>3, StructureHolds, PTL DEF Spec

-----------------------------------------------------------------------------
(***************************************************************************)
(* Events.                                                                 *)
(***************************************************************************)

\* What an event names lists the event, and is stored.
EventsInv ==
    /\ \A e \in Live(scanEvent) :
         /\ scanEvent[e].ScanConfigId # NoId =>
              /\ scanEvent[e].ScanConfigId \in Live(scanConfig)
              /\ e \in scanConfig[scanEvent[e].ScanConfigId].ScanEventIds
         /\ scanEvent[e].DockerImageVersionId # NoId =>
              /\ scanEvent[e].DockerImageVersionId \in Live(version)
              /\ e \in version[scanEvent[e].DockerImageVersionId].ScanEventIds
    /\ \A v \in Live(execEvent) :
         execEvent[v].ImageVersionId # NoId => execEvent[v].ImageVersionId = v /\ v \in Live(version)

\* But for cs and vs, configurations and versions stay and go on listing events.
ListsKept(cs, vs) ==
    /\ \A c \in Live(scanConfig) \ cs :
         c \in Live(scanConfig') /\ scanConfig[c].ScanEventIds \subseteq scanConfig'[c].ScanEventIds
    /\ \A v \in Live(version) \ vs :
         v \in Live(version') /\ version[v].ScanEventIds \subseteq version'[v].ScanEventIds

\* Where events and the lists of events stay, so does the invariant.
LEMMA EventsKept == EventsInv /\ ListsKept({}, {}) /\ UNCHANGED <<scanEvent, execEvent>>
                      => EventsInv'
BY DEF EventsInv, ListsKept

\* Events of what goes are nullified.
LEMMA EventsNullified ==
    ASSUME TypeOK, TypeOK', EventsInv, NEW ds, NEW cs, NEW vs, Nullify(ds, cs, vs),
           ListsKept(cs, vs)
    PROVE  EventsInv'
<1>0. LiveAreObjects /\ LiveAreObjects'
  BY LiveObjects, LiveObjectsNext
<1>1. ASSUME NEW e \in Live(scanEvent')
      PROVE  /\ scanEvent'[e].ScanConfigId # NoId =>
                  /\ scanEvent'[e].ScanConfigId \in Live(scanConfig')
                  /\ e \in scanConfig'[scanEvent'[e].ScanConfigId].ScanEventIds
             /\ scanEvent'[e].DockerImageVersionId # NoId =>
                  /\ scanEvent'[e].DockerImageVersionId \in Live(version')
                  /\ e \in version'[scanEvent'[e].DockerImageVersionId].ScanEventIds
  <2>1. e \in ScanEvents /\ e \in Live(scanEvent)
    BY <1>0, <1>1 DEF Nullify, LiveAreObjects
  <2>2. /\ scanEvent'[e].ScanConfigId =
             IF \E c \in cs : e \in scanConfig[c].ScanEventIds
             THEN NoId ELSE scanEvent[e].ScanConfigId
        /\ scanEvent'[e].DockerImageVersionId =
             IF \E v \in vs : e \in version[v].ScanEventIds
             THEN NoId ELSE scanEvent[e].DockerImageVersionId
    BY <2>1 DEF Nullify, NewScanEvent
  <2> QED  BY <2>1, <2>2 DEF EventsInv, ListsKept
<1>2. ASSUME NEW v \in Live(execEvent'), execEvent'[v].ImageVersionId # NoId
      PROVE  execEvent'[v].ImageVersionId = v /\ v \in Live(version')
  <2>1. v \in Versions /\ v \in Live(execEvent)
    BY <1>0, <1>2 DEF Nullify, LiveAreObjects
  <2>2. execEvent'[v].ImageVersionId = IF v \in vs THEN NoId ELSE execEvent[v].ImageVersionId
    BY <2>1 DEF Nullify, NewExecEvent
  <2> QED  BY <1>2, <2>1, <2>2 DEF EventsInv, ListsKept
<1> QED  BY <1>1, <1>2 DEF EventsInv

\* Purge nullifies the events of what it deletes.
LEMMA EventsPurged ==
    ASSUME TypeOK, TypeOK', EventsInv, NEW ds, NEW cs, NEW fs, NEW is, NEW vs, NEW links,
           Purge(ds, cs, fs, is, vs, links), PurgeEffects(cs, fs, is, vs, links)
    PROVE  EventsInv'
<1>1. ListsKept(cs, vs)
  BY DEF PurgeEffects, ListsKept
<1>2. Nullify(ds, cs, vs)
  BY Zenon DEF Purge
<1> QED  BY <1>1, <1>2, EventsNullified

\* A configuration is written, and goes on listing its events.
LEMMA ListsWritten ==
    ASSUME TypeOK, TypeOK', NEW c \in ScanConfigs, NEW obj \in ScanConfigObjects,
           scanConfig' = [scanConfig EXCEPT ![c] = obj],
           c \in Live(scanConfig) => obj.ScanEventIds = scanConfig[c].ScanEventIds,
           UNCHANGED version
    PROVE  ListsKept({}, {})
<1>0. LiveAreObjects /\ LiveAreObjects'
  BY LiveObjects, LiveObjectsNext
<1>1. scanConfig'[c] = obj /\ \A y \in ScanConfigs \ {c} : scanConfig'[y] = scanConfig[y]
  BY DEF TypeOK
<1>2. ASSUME NEW y \in Live(scanConfig)
      PROVE  y \in Live(scanConfig') /\ scanConfig[y].ScanEventIds \subseteq scanConfig'[y].ScanEventIds
  BY <1>0, <1>1, <1>2 DEF LiveAreObjects
<1> QED  BY <1>2 DEF ListsKept

\* A build makes a version and the event that names it.
LEMMA EventBuilt ==
    ASSUME TypeOK, TypeOK', EventsInv, NEW d \in Dockerfiles, NEW obj, NEW r, NEW robj,
           NEW n, NEW i \in Images, NEW v \in Versions, buildDockerfile(d, obj, r, robj, n, i, v)
    PROVE  EventsInv'
<1>0. LiveAreObjects /\ LiveAreObjects'
  BY LiveObjects, LiveObjectsNext
<1>1. /\ version[v] = NewId /\ version' = [version EXCEPT ![v] = NewVersion(i)]
      /\ execEvent' = [execEvent EXCEPT ![v] = NewExecEvent(d, v)]
      /\ UNCHANGED <<scanConfig, scanEvent>>
  BY DEF buildDockerfile
<1>2. /\ version'[v] = NewVersion(i) /\ \A w \in Versions \ {v} : version'[w] = version[w]
      /\ execEvent'[v] = NewExecEvent(d, v)
      /\ \A w \in Versions \ {v} : execEvent'[w] = execEvent[w]
  BY <1>1 DEF TypeOK
<1>3. v \notin Live(version)
  BY <1>1 DEF Live
<1>4. v \in Live(version')
  <2>1. NewVersion(i) \in VersionObjects
    BY DEF NewVersion, VersionObjects
  <2> QED  BY <1>0, <1>2, <2>1 DEF LiveAreObjects
<1>5. ASSUME NEW w \in Live(version)
      PROVE  w \in Live(version') /\ version'[w] = version[w]
  BY <1>0, <1>2, <1>3, <1>5 DEF LiveAreObjects
<1>6. ASSUME NEW w \in Live(execEvent'), execEvent'[w].ImageVersionId # NoId
      PROVE  execEvent'[w].ImageVersionId = w /\ w \in Live(version')
  <2>1. CASE w = v
    BY <1>2, <1>4, <2>1 DEF NewExecEvent
  <2>2. CASE w # v
    <3>1. w \in Live(execEvent) /\ execEvent'[w] = execEvent[w]
      BY <1>0, <1>2, <1>6, <2>2 DEF LiveAreObjects
    <3> QED  BY <1>5, <1>6, <3>1 DEF EventsInv
  <2> QED  BY <2>1, <2>2
<1>7. ASSUME NEW e \in Live(scanEvent')
      PROVE  /\ scanEvent'[e].ScanConfigId # NoId =>
                  /\ scanEvent'[e].ScanConfigId \in Live(scanConfig')
                  /\ e \in scanConfig'[scanEvent'[e].ScanConfigId].ScanEventIds
             /\ scanEvent'[e].DockerImageVersionId # NoId =>
                  /\ scanEvent'[e].DockerImageVersionId \in Live(version')
                  /\ e \in version'[scanEvent'[e].DockerImageVersionId].ScanEventIds
  <2>1. e \in Live(scanEvent) /\ scanEvent'[e] = scanEvent[e] /\ scanConfig' = scanConfig
    BY <1>1, <1>7
  <2> QED  BY <1>5, <2>1 DEF EventsInv
<1> QED  BY <1>6, <1>7 DEF EventsInv

\* A scan makes an event that both the configuration and the version list.
LEMMA EventScanned ==
    ASSUME TypeOK, TypeOK', EventsInv, NEW c \in ScanConfigs, NEW v \in Versions,
           NEW e \in ScanEvents, scanImage(c, v, e)
    PROVE  EventsInv'
<1> DEFINE cnew == [scanConfig[c] EXCEPT !.ScanEventIds = @ \cup {e}]
           vnew == [version[v] EXCEPT !.ScanEventIds = @ \cup {e}]
<1>0. LiveAreObjects /\ LiveAreObjects'
  BY LiveObjects, LiveObjectsNext
<1>1. /\ c \in Live(scanConfig) /\ v \in Live(version) /\ UNCHANGED execEvent
      /\ scanEvent' = [scanEvent EXCEPT ![e] = NewScanEvent(c, v)]
      /\ scanConfig' = [scanConfig EXCEPT ![c] = cnew]
      /\ version' = [version EXCEPT ![v] = vnew]
  BY DEF scanImage
<1>2. /\ cnew \in ScanConfigObjects /\ cnew.ScanEventIds = scanConfig[c].ScanEventIds \cup {e}
      /\ vnew \in VersionObjects /\ vnew.ScanEventIds = version[v].ScanEventIds \cup {e}
  BY <1>0, <1>1 DEF LiveAreObjects, ScanConfigObjects, VersionObjects
<1> HIDE DEF cnew, vnew
<1>3. /\ scanEvent'[e] = NewScanEvent(c, v)
      /\ \A x \in ScanEvents \ {e} : scanEvent'[x] = scanEvent[x]
      /\ scanConfig'[c] = cnew /\ \A y \in ScanConfigs \ {c} : scanConfig'[y] = scanConfig[y]
      /\ version'[v] = vnew /\ \A w \in Versions \ {v} : version'[w] = version[w]
  BY <1>1 DEF TypeOK
<1>4. ASSUME NEW y \in Live(scanConfig)
      PROVE  y \in Live(scanConfig') /\ scanConfig[y].ScanEventIds \subseteq scanConfig'[y].ScanEventIds
  BY <1>0, <1>2, <1>3, <1>4 DEF LiveAreObjects
<1>5. ASSUME NEW w \in Live(version)
      PROVE  w \in Live(version') /\ version[w].ScanEventIds \subseteq version'[w].ScanEventIds
  BY <1>0, <1>2, <1>3, <1>5 DEF LiveAreObjects
<1>6. ASSUME NEW x \in Live(scanEvent')
      PROVE  /\ scanEvent'[x].ScanConfigId # NoId =>
                  /\ scanEvent'[x].ScanConfigId \in Live(scanConfig')
                  /\ x \in scanConfig'[scanEvent'[x].ScanConfigId].ScanEventIds
             /\ scanEvent'[x].DockerImageVersionId # NoId =>
                  /\ scanEvent'[x].DockerImageVersionId \in Live(version')
                  /\ x \in version'[scanEvent'[x].DockerImageVersionId].ScanEventIds
  <2>1. CASE x = e
    <3>1. scanEvent'[x].ScanConfigId = c /\ scanEvent'[x].DockerImageVersionId = v
      BY <1>3, <2>1 DEF NewScanEvent
    <3>2. c \in Live(scanConfig') /\ e \in scanConfig'[c].ScanEventIds
      BY <1>1, <1>2, <1>3, <1>4
    <3>3. v \in Live(version') /\ e \in version'[v].ScanEventIds
      BY <1>1, <1>2, <1>3, <1>5
    <3> QED  BY <2>1, <3>1, <3>2, <3>3
  <2>2. CASE x # e
    <3>1. x \in Live(scanEvent) /\ scanEvent'[x] = scanEvent[x]
      BY <1>0, <1>3, <1>6, <2>2 DEF LiveAreObjects
    <3> QED  BY <1>4, <1>5, <3>1 DEF EventsInv
  <2> QED  BY <2>1, <2>2
<1> QED  BY <1>1, <1>5, <1>6 DEF EventsInv

\* Every step keeps events in agreement with what they name.
LEMMA NextEvents == Structure /\ TypeOK' /\ EventsInv /\ [Next]_vars => EventsInv'
<1> SUFFICES ASSUME Structure, TypeOK', EventsInv, [Next]_vars PROVE EventsInv'
  OBVIOUS
<1>0. TypeOK /\ LiveAreObjects /\ LiveAreObjects'
  BY LiveObjects, LiveObjectsNext DEF Structure
<1>same. ASSUME UNCHANGED <<scanConfig, version, scanEvent, execEvent>> PROVE EventsInv'
  BY <1>same DEF EventsInv
<1>null. ASSUME NEW ds, NEW cs, NEW vs, Nullify(ds, cs, vs), UNCHANGED <<scanConfig, version>>
         PROVE  EventsInv'
  <2>1. ListsKept(cs, vs)
    BY <1>null DEF ListsKept
  <2> QED  BY <1>0, <1>null, <2>1, EventsNullified
<1>write. ASSUME NEW c \in ScanConfigs, NEW obj \in ScanConfigObjects,
                 scanConfig' = [scanConfig EXCEPT ![c] = obj],
                 c \in Live(scanConfig) => obj.ScanEventIds = scanConfig[c].ScanEventIds,
                 UNCHANGED <<version, scanEvent, execEvent>>
          PROVE  EventsInv'
  BY <1>0, <1>write, ListsWritten, EventsKept
<1>1. ASSUME NEW r \in Repos, NEW d \in Dockerfiles, NEW n \in Names, NEW p \in Paths,
             NEW via \in Vias, NEW m \in Names, NEW i \in Images, NEW v \in Versions,
             addAndExecDockerfile(via, r, d, n, p, m, i, v)
      PROVE  EventsInv'
  BY <1>0, <1>1, EventBuilt, Zenon DEF addAndExecDockerfile
<1>2. ASSUME NEW r \in Repos, deleteRepo(r)
      PROVE  EventsInv'
  <2> DEFINE vs == UNION {image[i].VersionIds : i \in repo[r].DockerImageIds}
             ds == repo[r].DockerfileIds
             fs == repo[r].FlagIds
             is == repo[r].DockerImageIds
  <2>1. PICK cs, links : Purge(ds, cs, fs, is, vs, links) /\ PurgeEffects(cs, fs, is, vs, links)
    BY <1>2, RepoDeleted, Zenon
  <2> QED  BY <1>0, <2>1, EventsPurged, Zenon
<1>3. ASSUME NEW r \in Repos, createRepo(r) \/ deleteRepo_Aborted(r)
      PROVE  EventsInv'
  BY <1>3, <1>same DEF createRepo, deleteRepo_Aborted
<1>4. ASSUME NEW r \in Repos, deleteRepo_Fails(r)
      PROVE  EventsInv'
  BY <1>4, <1>null DEF deleteRepo_Fails
<1>5. ASSUME NEW r \in Repos, NEW d \in Dockerfiles, NEW n \in Names, NEW p \in Paths,
             \/ \E via \in Vias : addDockerfile(via, r, d, n, p)
             \/ addDockerfile_NameTaken(r, d, n, p)
      PROVE  EventsInv'
  BY <1>5, <1>same DEF addDockerfile, addDockerfile_NameTaken
<1>6. ASSUME NEW r \in Repos, NEW c \in ScanConfigs, NEW n \in Names, NEW f \in Flags \cup {NoId},
             scanConfig[c] = NewId, scanConfig' = [scanConfig EXCEPT ![c] = NewScanConfig(r, n, f)],
             UNCHANGED <<version, scanEvent, execEvent>>
      PROVE  EventsInv'
  <2>1. NewScanConfig(r, n, f) \in ScanConfigObjects
    BY DEF NewScanConfig, ScanConfigObjects
  <2>2. c \notin Live(scanConfig)
    BY <1>6 DEF Live
  <2> QED  BY <1>6, <1>write, <2>1, <2>2
<1>7. ASSUME NEW r \in Repos, NEW c \in ScanConfigs, NEW n \in Names, NEW via \in Vias,
             defineScanConfig(via, r, c, n)
      PROVE  EventsInv'
  BY <1>6, <1>7 DEF defineScanConfig
<1>8. ASSUME NEW r \in Repos, NEW c \in ScanConfigs, NEW n \in Names, NEW f \in Flags,
             NEW p \in Paths,
             \/ \E via \in Vias : defineScanConfig_WithFlag(via, r, c, n, f, p)
             \/ defineScanConfig_FlagNameTaken(r, c, n, f, p)
      PROVE  EventsInv'
  <2>1. /\ scanConfig[c] = NewId /\ UNCHANGED <<version, scanEvent, execEvent>>
        /\ \/ scanConfig' = [scanConfig EXCEPT ![c] = NewScanConfig(r, n, f)]
           \/ scanConfig' = [scanConfig EXCEPT ![c] = NewScanConfig(r, n, NoId)]
    BY <1>8, Zenon DEF defineScanConfig_WithFlag, defineScanConfig_FlagNameTaken
  <2> QED  BY <1>6, <2>1
<1>9. ASSUME NEW r \in Repos, NEW f \in Flags, NEW n \in Names, NEW p \in Paths,
             \/ \E via \in Vias : defineFlag(via, r, f, n, p)
             \/ defineFlag_NameTaken(r, f, n, p)
      PROVE  EventsInv'
  BY <1>9, <1>same DEF defineFlag, defineFlag_NameTaken
<1>10. CASE RepoStep
  BY <1>10, <1>1, <1>2, <1>3, <1>4, <1>5, <1>7, <1>8, <1>9 DEF RepoStep
<1>11. ASSUME NEW d \in Dockerfiles, remDockerfile(d)
       PROVE  EventsInv'
  BY <1>11, <1>null DEF remDockerfile
<1>12. ASSUME NEW d \in Dockerfiles,
              \/ \E p \in Paths : replaceDockerfile(d, p)
              \/ \E n \in Names, i \in Images : execDockerfile_BuildFails(d, n, i)
       PROVE  EventsInv'
  BY <1>12, <1>same DEF replaceDockerfile, execDockerfile_BuildFails
<1>13. ASSUME NEW d \in Dockerfiles, NEW n \in Names, NEW i \in Images, NEW v \in Versions,
              execDockerfile(d, n, i, v)
       PROVE  EventsInv'
  BY <1>0, <1>13, EventBuilt, Zenon DEF execDockerfile
<1>14. ASSUME NEW i \in Images, remDockerImage(i)
       PROVE  EventsInv'
  <2>1. PICK links : /\ Purge({}, {}, {}, {i}, image[i].VersionIds, links)
                     /\ PurgeEffects({}, {}, {i}, image[i].VersionIds, links)
    BY <1>14, ImageDeleted, Zenon
  <2> QED  BY <1>0, <2>1, EventsPurged, Zenon
<1>30. ASSUME NEW i \in Images, remDockerImage_Fails(i)
       PROVE  EventsInv'
  <2>1. PICK vs, links : Purge({}, {}, {}, {}, vs, links) /\ PurgeEffects({}, {}, {}, vs, links)
    BY <1>30, ImageFails, Zenon
  <2> QED  BY <1>0, <2>1, EventsPurged, Zenon
<1>15. ASSUME NEW v \in Versions, remImageVersion(v)
       PROVE  EventsInv'
  BY <1>0, <1>15, VersionDeleted, EventsPurged, Zenon DEF remImageVersion
<1>16. ASSUME NEW v \in Versions, remImageVersion_DockerFails(v)
       PROVE  EventsInv'
  BY <1>16, <1>null DEF remImageVersion_DockerFails
<1>17. ASSUME NEW c \in ScanConfigs, NEW v \in Versions, NEW e \in ScanEvents, scanImage(c, v, e)
       PROVE  EventsInv'
  BY <1>0, <1>17, EventScanned
<1>18. CASE DockerStep
  BY <1>18, <1>11, <1>12, <1>13, <1>14, <1>15, <1>16, <1>17, <1>30 DEF DockerStep
<1>19. ASSUME NEW c \in ScanConfigs, remScanConfig(c)
       PROVE  EventsInv'
  <2>1. PICK links : Purge({}, {c}, {}, {}, {}, links) /\ PurgeEffects({c}, {}, {}, {}, links)
    BY <1>19, ScanConfigDeleted, Zenon
  <2> QED  BY <1>0, <2>1, EventsPurged, Zenon
<1>20. ASSUME NEW c \in ScanConfigs, remScanConfig_Fails(c)
       PROVE  EventsInv'
  <2>1. CASE UNCHANGED scanConfig
    BY <1>20, <1>null, <2>1 DEF remScanConfig_Fails
  <2>2. ASSUME NEW ids, scanConfig' = [scanConfig EXCEPT ![c].DockerImageIdsThatUse = @ \ ids]
        PROVE  EventsInv'
    <3>1. c \in Live(scanConfig) /\ Nullify({}, {c}, {}) /\ UNCHANGED version
      BY <1>20 DEF remScanConfig_Fails
    <3> DEFINE obj == [scanConfig[c] EXCEPT !.DockerImageIdsThatUse = @ \ ids]
    <3>2. obj \in ScanConfigObjects /\ obj.ScanEventIds = scanConfig[c].ScanEventIds
      BY <1>0, <3>1 DEF LiveAreObjects, ScanConfigObjects
    <3>3. scanConfig' = [scanConfig EXCEPT ![c] = obj]
      BY <2>2
    <3> HIDE DEF obj
    <3>4. ListsKept({}, {})
      BY <1>0, <3>1, <3>2, <3>3, ListsWritten
    <3>5. ListsKept({c}, {})
      BY <3>4 DEF ListsKept
    <3> QED  BY <1>0, <3>1, <3>5, EventsNullified
  <2> QED  BY <1>20, <2>1, <2>2 DEF remScanConfig_Fails
<1>21. ASSUME NEW c \in Live(scanConfig), NEW n \in Names \cup {NoName}
       PROVE  /\ c \in ScanConfigs /\ scanConfig[c] \in ScanConfigObjects
              /\ Renamed(c, n) \in ScanConfigObjects
              /\ Renamed(c, n).ScanEventIds = scanConfig[c].ScanEventIds
  <2>1. c \in ScanConfigs /\ scanConfig[c] \in ScanConfigObjects
    BY <1>0 DEF LiveAreObjects
  <2>2. CASE n = NoName
    BY <2>1, <2>2 DEF Renamed
  <2>3. CASE n # NoName
    BY <2>1, <2>3 DEF Renamed, ScanConfigObjects
  <2> QED  BY <2>1, <2>2, <2>3
<1>22. ASSUME NEW c \in ScanConfigs, NEW n \in Names, updateScanConfig(c, n)
       PROVE  EventsInv'
  BY <1>22, <1>21, <1>write DEF updateScanConfig
<1>23. ASSUME NEW c \in ScanConfigs, NEW n \in Names \cup {NoName}, NEW f \in Flags,
              NEW p \in Paths, updateScanConfig_Fails(c, n, f, p)
       PROVE  EventsInv'
  <2>1. c \in Live(scanConfig) /\ scanConfig' = [scanConfig EXCEPT ![c] = Renamed(c, n)]
    BY <1>23 DEF updateScanConfig_Fails
  <2> QED  BY <1>23, <1>21, <1>write, <2>1 DEF updateScanConfig_Fails
<1>24. ASSUME NEW c \in ScanConfigs, NEW n \in Names \cup {NoName}, NEW f \in Flags,
              NEW p \in Paths, updateScanConfig_WithFlag(c, n, f, p)
       PROVE  EventsInv'
  <2> DEFINE obj == [Renamed(c, n) EXCEPT !.FlagId = f]
  <2>1. /\ c \in Live(scanConfig) /\ scanConfig' = [scanConfig EXCEPT ![c] = obj]
        /\ UNCHANGED <<version, scanEvent, execEvent>>
    BY <1>24 DEF updateScanConfig_WithFlag
  <2>2. Renamed(c, n) \in ScanConfigObjects /\ Renamed(c, n).ScanEventIds = scanConfig[c].ScanEventIds
    BY <1>21, <2>1
  <2>3. obj \in ScanConfigObjects /\ obj.ScanEventIds = scanConfig[c].ScanEventIds
    BY <2>2 DEF ScanConfigObjects
  <2> HIDE DEF obj
  <2> QED  BY <1>write, <2>1, <2>3
<1>25. ASSUME NEW c \in ScanConfigs,
              \/ \E i \in Images : useScanConfigForImage(c, i) \/ stopUsingScanConfigForImage(c, i)
              \/ \E d \in Dockerfiles : \/ useScanConfigForImage_NotAnImage(c, d)
                                        \/ stopUsingScanConfigForImage_NotAnImage(c, d)
       PROVE  EventsInv'
  <2>1. PICK ids \in SUBSET (Images \cup Dockerfiles) :
          scanConfig' = [scanConfig EXCEPT ![c].DockerImageIdsThatUse = ids]
    <3>1. c \in Live(scanConfig) => scanConfig[c].DockerImageIdsThatUse \in SUBSET (Images \cup Dockerfiles)
      BY <1>0 DEF LiveAreObjects, ScanConfigObjects
    <3> QED  BY <1>25, <3>1 DEF useScanConfigForImage, stopUsingScanConfigForImage,
                useScanConfigForImage_NotAnImage, stopUsingScanConfigForImage_NotAnImage
  <2>2. c \in Live(scanConfig) /\ UNCHANGED <<version, scanEvent, execEvent>>
    BY <1>25 DEF useScanConfigForImage, stopUsingScanConfigForImage,
       useScanConfigForImage_NotAnImage, stopUsingScanConfigForImage_NotAnImage
  <2> DEFINE obj == [scanConfig[c] EXCEPT !.DockerImageIdsThatUse = ids]
  <2>3. obj \in ScanConfigObjects /\ obj.ScanEventIds = scanConfig[c].ScanEventIds
    BY <1>0, <2>2 DEF LiveAreObjects, ScanConfigObjects
  <2>4. scanConfig' = [scanConfig EXCEPT ![c] = obj]
    BY <2>1
  <2> HIDE DEF obj
  <2> QED  BY <1>write, <2>2, <2>3, <2>4
<1>26. CASE ScanConfigStep
  BY <1>26, <1>19, <1>20, <1>22, <1>23, <1>24, <1>25 DEF ScanConfigStep
<1>27. CASE FlagStep
  <2>1. ASSUME NEW f \in Flags, remFlag(f)
        PROVE  EventsInv'
    BY <1>0, <2>1, FlagDeleted, EventsPurged, Zenon DEF remFlag
  <2> QED  BY <1>27, <1>same, <2>1 DEF FlagStep, remFlag_Aborted
<1>28. CASE \E p \in Paths : AbandonedUpload(p)
  BY <1>28, <1>same DEF AbandonedUpload
<1>29. CASE UNCHANGED vars
  BY <1>29, <1>same DEF vars
<1> QED  BY <1>10, <1>18, <1>26, <1>27, <1>28, <1>29 DEF Next

\* No event names a configuration or version that is not stored any more.
THEOREM EventsHold == Spec => []EventsResolve
<1>1. Init => EventsInv
  BY DEF Init, EventsInv, Live
<1>2. Structure /\ Structure' /\ EventsInv /\ [Next]_vars => EventsInv'
  BY NextEvents DEF Structure
<1>3. EventsInv => EventsResolve
  BY DEF EventsInv, EventsResolve
<1> QED  BY <1>1, <1>2, <1>3, StructureHolds, PTL DEF Spec

-----------------------------------------------------------------------------
(***************************************************************************)
(* Flags and the configurations that have them, with redis.                *)
(***************************************************************************)
FlagsInv ==
    /\ \A f \in Live(flag) : \A c :
         c \in flag[f].UsedByScanConfigIds <=> c \in Live(scanConfig) /\ scanConfig[c].FlagId = f
    /\ \A c \in Live(scanConfig) : scanConfig[c].FlagId \in Live(flag) \cup {NoId}

\* The property is about a server that uses redis.
LEMMA FlagsUnfold == FlagRefsAgree <=> (~inMemoryOnly => FlagsInv)
BY DEF FlagRefsAgree, FlagsInv, FlagReadable

LEMMA FlagsUnfoldNext == FlagRefsAgree' <=> (~inMemoryOnly' => FlagsInv')
BY FlagsUnfold, PTL

\* Flags stay as they are, and configurations with the flags that they have; a
\* new configuration has none.
LEMMA FlagsKept ==
    ASSUME FlagsInv, UNCHANGED flag,
           Live(scanConfig) \subseteq Live(scanConfig'),
           \A c \in Live(scanConfig') :
              scanConfig'[c].FlagId = IF c \in Live(scanConfig) THEN scanConfig[c].FlagId ELSE NoId,
           NoId \notin Live(flag)
    PROVE  FlagsInv'
BY DEF FlagsInv

\* A delete takes no flag that a configuration has which stays.
LEMMA FlagsPurged ==
    ASSUME FlagsInv, NEW cs, NEW fs, NEW is, NEW vs, NEW links,
           PurgeEffects(cs, fs, is, vs, links),
           \A c \in Live(scanConfig) \ cs : scanConfig[c].FlagId \notin fs
    PROVE  FlagsInv'
BY DEF FlagsInv, PurgeEffects

\* Flag f is made for the configurations in cs, one or none, which may have
\* had another.
LEMMA FlagMade ==
    ASSUME FlagsInv, NEW f, f # NoId, f \notin Live(flag), Live(flag') = Live(flag) \cup {f},
           NEW cs, cs \subseteq Live(scanConfig'), Live(scanConfig') = Live(scanConfig) \cup cs,
           flag'[f].UsedByScanConfigIds = cs,
           \A g \in Live(flag) :
              flag'[g].UsedByScanConfigIds = flag[g].UsedByScanConfigIds \ cs,
           \A c \in Live(scanConfig') :
              scanConfig'[c].FlagId = IF c \in cs THEN f ELSE scanConfig[c].FlagId
    PROVE  FlagsInv'
<1>1. ASSUME NEW g \in Live(flag'), NEW c
      PROVE  c \in flag'[g].UsedByScanConfigIds
               <=> c \in Live(scanConfig') /\ scanConfig'[c].FlagId = g
  <2>1. CASE g = f
    BY <2>1 DEF FlagsInv
  <2>2. CASE g # f
    BY <2>2 DEF FlagsInv
  <2> QED  BY <2>1, <2>2
<1>2. ASSUME NEW c \in Live(scanConfig')
      PROVE  scanConfig'[c].FlagId \in Live(flag') \cup {NoId}
  BY <1>2 DEF FlagsInv
<1> QED  BY <1>1, <1>2 DEF FlagsInv

\* A configuration or a flag is written.
LEMMA ConfigStored ==
    ASSUME TypeOK, TypeOK', NEW c \in ScanConfigs, NEW obj \in ScanConfigObjects,
           scanConfig' = [scanConfig EXCEPT ![c] = obj]
    PROVE  /\ Live(scanConfig') = Live(scanConfig) \cup {c}
           /\ scanConfig'[c] = obj
           /\ \A y \in Live(scanConfig) \ {c} : scanConfig'[y] = scanConfig[y]
<1>0. LiveAreObjects /\ LiveAreObjects'
  BY LiveObjects, LiveObjectsNext
<1>1. scanConfig'[c] = obj /\ \A y \in ScanConfigs \ {c} : scanConfig'[y] = scanConfig[y]
  BY DEF TypeOK
<1>2. \A y : y \in Live(scanConfig') <=> y \in Live(scanConfig) \/ y = c
  BY <1>0, <1>1 DEF LiveAreObjects
<1>3. Live(scanConfig) \subseteq ScanConfigs
  BY <1>0 DEF LiveAreObjects
<1> QED  BY <1>1, <1>2, <1>3

LEMMA FlagStored ==
    ASSUME TypeOK, TypeOK', NEW f \in Flags, NEW obj \in FlagObjects,
           flag' = [flag EXCEPT ![f] = obj]
    PROVE  /\ Live(flag') = Live(flag) \cup {f}
           /\ flag'[f] = obj
           /\ \A y \in Live(flag) \ {f} : flag'[y] = flag[y]
<1>0. LiveAreObjects /\ LiveAreObjects'
  BY LiveObjects, LiveObjectsNext
<1>1. flag'[f] = obj /\ \A y \in Flags \ {f} : flag'[y] = flag[y]
  BY DEF TypeOK
<1>2. \A y : y \in Live(flag') <=> y \in Live(flag) \/ y = f
  BY <1>0, <1>1 DEF LiveAreObjects
<1>3. Live(flag) \subseteq Flags
  BY <1>0 DEF LiveAreObjects
<1> QED  BY <1>1, <1>2, <1>3

\* Every step keeps flags in agreement with the configurations that have them.
LEMMA NextFlags == Structure /\ TypeOK' /\ ~inMemoryOnly /\ FlagsInv /\ [Next]_vars => FlagsInv'
<1> SUFFICES ASSUME Structure, TypeOK', ~inMemoryOnly, FlagsInv, [Next]_vars PROVE FlagsInv'
  OBVIOUS
<1>0. TypeOK /\ LiveAreObjects /\ LiveAreObjects'
  BY LiveObjects, LiveObjectsNext DEF Structure
<1>no. NoId \notin Flags /\ NoId \notin Live(flag)
  BY <1>0, RepoConstants DEF LiveAreObjects
<1>same. ASSUME UNCHANGED <<scanConfig, flag>> PROVE FlagsInv'
  BY <1>same DEF FlagsInv
<1>write. ASSUME NEW c \in Live(scanConfig), NEW obj \in ScanConfigObjects, UNCHANGED flag,
                 scanConfig' = [scanConfig EXCEPT ![c] = obj], obj.FlagId = scanConfig[c].FlagId
          PROVE  FlagsInv'
  <2>1. c \in ScanConfigs
    BY <1>0 DEF LiveAreObjects
  <2>2. /\ Live(scanConfig') = Live(scanConfig)
        /\ \A y \in Live(scanConfig) : scanConfig'[y].FlagId = scanConfig[y].FlagId
    <3>1. Live(scanConfig') = Live(scanConfig) \cup {c} /\ scanConfig'[c] = obj
      BY <1>0, <1>write, <2>1, ConfigStored
    <3>2. \A y \in Live(scanConfig) \ {c} : scanConfig'[y] = scanConfig[y]
      BY <1>0, <1>write, <2>1, ConfigStored
    <3> QED  BY <1>write, <3>1, <3>2
  <2> QED  BY <1>no, <1>write, <2>2, FlagsKept
\* A flag that is defined for itself.
<1>flag. ASSUME NEW r \in Repos, NEW f \in Flags, NEW n \in Names, NEW p \in Paths,
                flag[f] = NewId, flag' = [flag EXCEPT ![f] = NewFlag(r, n, p, {})],
                UNCHANGED scanConfig
         PROVE  FlagsInv'
  <2>1. NewFlag(r, n, p, {}) \in FlagObjects /\ NewFlag(r, n, p, {}).UsedByScanConfigIds = {}
    BY DEF NewFlag, FlagObjects
  <2>2. f \notin Live(flag)
    BY <1>flag DEF Live
  <2>3. /\ Live(flag') = Live(flag) \cup {f} /\ flag'[f].UsedByScanConfigIds = {}
        /\ \A g \in Live(flag) : flag'[g].UsedByScanConfigIds = flag[g].UsedByScanConfigIds \ {}
    BY <1>0, <1>flag, <2>1, <2>2, FlagStored
  <2>4. Live(scanConfig') = Live(scanConfig) \cup {} /\ {} \subseteq Live(scanConfig')
    BY <1>flag
  <2>5. \A c \in Live(scanConfig') :
          scanConfig'[c].FlagId = IF c \in {} THEN f ELSE scanConfig[c].FlagId
    BY <1>flag
  <2> QED  BY <1>no, <2>2, <2>3, <2>4, <2>5, FlagMade
<1>1. ASSUME NEW r \in Repos, NEW c \in ScanConfigs, NEW n \in Names, NEW via \in Vias,
             defineScanConfig(via, r, c, n)
      PROVE  FlagsInv'
  <2>1. /\ NewScanConfig(r, n, NoId) \in ScanConfigObjects
        /\ NewScanConfig(r, n, NoId).FlagId = NoId
    BY DEF NewScanConfig, ScanConfigObjects
  <2>2. /\ scanConfig[c] = NewId /\ UNCHANGED flag
        /\ scanConfig' = [scanConfig EXCEPT ![c] = NewScanConfig(r, n, NoId)]
    BY <1>1 DEF defineScanConfig
  <2>3. c \notin Live(scanConfig)
    BY <2>2 DEF Live
  <2>4. /\ Live(scanConfig') = Live(scanConfig) \cup {c}
        /\ scanConfig'[c].FlagId = NoId
        /\ \A y \in Live(scanConfig) : scanConfig'[y].FlagId = scanConfig[y].FlagId
    BY <1>0, <2>1, <2>2, <2>3, ConfigStored
  <2> QED  BY <1>no, <2>2, <2>3, <2>4, FlagsKept
<1>2. ASSUME NEW r \in Repos, NEW c \in ScanConfigs, NEW n \in Names, NEW f \in Flags,
             NEW p \in Paths, NEW via \in Vias, defineScanConfig_WithFlag(via, r, c, n, f, p)
      PROVE  FlagsInv'
  <2>1. /\ NewScanConfig(r, n, f) \in ScanConfigObjects /\ NewScanConfig(r, n, f).FlagId = f
        /\ NewFlag(r, n, p, {c}) \in FlagObjects
        /\ NewFlag(r, n, p, {c}).UsedByScanConfigIds = {c}
    BY DEF NewScanConfig, ScanConfigObjects, NewFlag, FlagObjects
  <2>2. /\ scanConfig[c] = NewId /\ flag[f] = NewId
        /\ scanConfig' = [scanConfig EXCEPT ![c] = NewScanConfig(r, n, f)]
        /\ flag' = [flag EXCEPT ![f] = NewFlag(r, n, p, {c})]
    BY <1>2, Zenon DEF defineScanConfig_WithFlag
  <2>3. c \notin Live(scanConfig) /\ f \notin Live(flag)
    BY <2>2 DEF Live
  <2>4. /\ Live(scanConfig') = Live(scanConfig) \cup {c} /\ scanConfig'[c].FlagId = f
        /\ \A y \in Live(scanConfig) : scanConfig'[y].FlagId = scanConfig[y].FlagId
    BY <1>0, <2>1, <2>2, <2>3, ConfigStored
  <2>5. /\ Live(flag') = Live(flag) \cup {f} /\ flag'[f].UsedByScanConfigIds = {c}
        /\ \A g \in Live(flag) : flag'[g].UsedByScanConfigIds = flag[g].UsedByScanConfigIds
    BY <1>0, <2>1, <2>2, <2>3, FlagStored
  <2>6. \A g \in Live(flag) : c \notin flag[g].UsedByScanConfigIds
    BY <2>3 DEF FlagsInv
  <2>7. \A g \in Live(flag) : flag'[g].UsedByScanConfigIds = flag[g].UsedByScanConfigIds \ {c}
    BY <2>5, <2>6
  <2> QED  BY <1>no, <2>3, <2>4, <2>5, <2>7, FlagMade
<1>3. ASSUME NEW r \in Repos, NEW f \in Flags, NEW n \in Names, NEW p \in Paths,
             NEW via \in Vias, defineFlag(via, r, f, n, p)
      PROVE  FlagsInv'
  BY <1>3, <1>flag DEF defineFlag
\* No configuration that has a flag of the repo stays, though others may.
<1>4. ASSUME NEW r \in Repos, deleteRepo(r)
      PROVE  FlagsInv'
  <2> DEFINE vs == UNION {image[i].VersionIds : i \in repo[r].DockerImageIds}
  <2>1. PICK cs, links :
          /\ PurgeEffects(cs, repo[r].FlagIds, repo[r].DockerImageIds, vs, links)
          /\ \A f \in repo[r].FlagIds : \A c \in flag[f].UsedByScanConfigIds : c \in cs
    BY <1>4, RepoDeleted, Zenon
  <2>2. \A f \in repo[r].FlagIds : f \in Live(flag)
    <3>1. r \in Live(repo)
      BY <1>4 DEF deleteRepo
    <3> QED  BY <3>1 DEF Structure, ChildrenListed
  <2>3. \A c \in Live(scanConfig) \ cs : scanConfig[c].FlagId \notin repo[r].FlagIds
    BY <2>1, <2>2 DEF FlagsInv
  <2> HIDE DEF vs
  <2> QED  BY <2>1, <2>3, FlagsPurged
<1>5. ASSUME NEW r \in Repos, createRepo(r) \/ deleteRepo_Aborted(r)
      PROVE  FlagsInv'
  BY <1>5, <1>same DEF createRepo, deleteRepo_Aborted
<1>6. ASSUME NEW r \in Repos, NEW d \in Dockerfiles, NEW n \in Names, NEW p \in Paths,
             NEW via \in Vias,
             \/ addDockerfile(via, r, d, n, p)
             \/ \E m \in Names, i \in Images, v \in Versions :
                   addAndExecDockerfile(via, r, d, n, p, m, i, v)
      PROVE  FlagsInv'
  <2>1. UNCHANGED <<scanConfig, flag>>
    BY <1>6, Zenon DEF addDockerfile, addAndExecDockerfile, buildDockerfile
  <2> QED  BY <1>same, <2>1
<1>7. CASE RepoStep
  BY <1>7, <1>1, <1>2, <1>3, <1>4, <1>5, <1>6 DEF RepoStep, deleteRepo_Fails,
     addDockerfile_NameTaken, defineScanConfig_FlagNameTaken, defineFlag_NameTaken
<1>8. ASSUME NEW i \in Images, remDockerImage(i)
      PROVE  FlagsInv'
  <2>1. PICK links : PurgeEffects({}, {}, {i}, image[i].VersionIds, links)
    BY <1>8, ImageDeleted, Zenon
  <2>2. \A c \in Live(scanConfig) \ {} : scanConfig[c].FlagId \notin {}
    OBVIOUS
  <2> QED  BY <2>1, <2>2, FlagsPurged
<1>9. ASSUME NEW v \in Versions, remImageVersion(v)
      PROVE  FlagsInv'
  <2>1. PurgeEffects({}, {}, {}, {v}, {})
    BY <1>9, VersionDeleted
  <2>2. \A c \in Live(scanConfig) \ {} : scanConfig[c].FlagId \notin {}
    OBVIOUS
  <2> QED  BY <2>1, <2>2, FlagsPurged
<1>10. ASSUME NEW c \in ScanConfigs, NEW v \in Versions, NEW e \in ScanEvents, scanImage(c, v, e)
       PROVE  FlagsInv'
  BY <1>10 DEF scanImage, Readable
<1>11. ASSUME NEW d \in Dockerfiles,
              \/ remDockerfile(d) \/ \E p \in Paths : replaceDockerfile(d, p)
              \/ \E n \in Names, i \in Images, v \in Versions : execDockerfile(d, n, i, v)
       PROVE  FlagsInv'
  <2>1. UNCHANGED <<scanConfig, flag>>
    BY <1>11, Zenon DEF remDockerfile, replaceDockerfile, execDockerfile, buildDockerfile
  <2> QED  BY <1>same, <2>1
<1>12. CASE DockerStep
  <2>1. \A i : ~remDockerImage_Fails(i)
    BY Zenon DEF remDockerImage_Fails
  <2> QED  BY <1>12, <1>8, <1>9, <1>10, <1>11, <2>1 DEF DockerStep, execDockerfile_BuildFails,
           remImageVersion_DockerFails
<1>13. ASSUME NEW c \in ScanConfigs, remScanConfig(c)
       PROVE  FlagsInv'
  <2>1. PICK links : PurgeEffects({c}, {}, {}, {}, links)
    BY <1>13, ScanConfigDeleted, Zenon
  <2>2. \A d \in Live(scanConfig) \ {c} : scanConfig[d].FlagId \notin {}
    OBVIOUS
  <2> QED  BY <2>1, <2>2, FlagsPurged
<1>14. ASSUME NEW c \in Live(scanConfig), NEW n \in Names \cup {NoName}
       PROVE  /\ c \in ScanConfigs /\ scanConfig[c] \in ScanConfigObjects
              /\ Renamed(c, n) \in ScanConfigObjects
              /\ Renamed(c, n).FlagId = scanConfig[c].FlagId
  <2>1. c \in ScanConfigs /\ scanConfig[c] \in ScanConfigObjects
    BY <1>0 DEF LiveAreObjects
  <2>2. CASE n = NoName
    BY <2>1, <2>2 DEF Renamed
  <2>3. CASE n # NoName
    BY <2>1, <2>3 DEF Renamed, ScanConfigObjects
  <2> QED  BY <2>1, <2>2, <2>3
<1>15. ASSUME NEW c \in ScanConfigs, NEW n \in Names, updateScanConfig(c, n)
       PROVE  FlagsInv'
  BY <1>15, <1>14, <1>write DEF updateScanConfig
\* The former flag forgets the configuration, the new one has it.
<1>16. ASSUME NEW c \in ScanConfigs, NEW n \in Names \cup {NoName}, NEW f \in Flags,
              NEW p \in Paths, updateScanConfig_WithFlag(c, n, f, p)
       PROVE  FlagsInv'
  <2> DEFINE r == scanConfig[c].ParentId
             obj == [Renamed(c, n) EXCEPT !.FlagId = f]
  <2>1. /\ c \in Live(scanConfig) /\ flag[f] = NewId
        /\ scanConfig' = [scanConfig EXCEPT ![c] = obj]
        /\ flag' = [g \in Flags |->
                  IF g = f THEN NewFlag(r, n, p, {c})
                  ELSE IF g = scanConfig[c].FlagId
                  THEN [flag[g] EXCEPT !.UsedByScanConfigIds = @ \ {c}]
                  ELSE flag[g]]
    BY <1>16 DEF updateScanConfig_WithFlag
  <2>2. f \notin Live(flag)
    BY <2>1 DEF Live
  <2>3. obj \in ScanConfigObjects /\ obj.FlagId = f
    BY <1>14, <2>1 DEF ScanConfigObjects
  <2> HIDE DEF obj
  <2>4. /\ Live(scanConfig') = Live(scanConfig) \cup {c} /\ scanConfig'[c].FlagId = f
        /\ \A y \in Live(scanConfig) \ {c} : scanConfig'[y].FlagId = scanConfig[y].FlagId
    BY <1>0, <2>1, <2>3, ConfigStored
  <2>5. r \in Repos
    BY <1>0, <2>1 DEF LiveAreObjects, ScanConfigObjects
  <2> HIDE DEF r
  <2>6. /\ NewFlag(r, n, p, {c}) \in FlagObjects
        /\ NewFlag(r, n, p, {c}).UsedByScanConfigIds = {c}
    BY <2>5 DEF NewFlag, FlagObjects
  <2>7. f \in Live(flag') /\ flag'[f].UsedByScanConfigIds = {c}
    BY <1>0, <2>1, <2>6 DEF LiveAreObjects
  <2>8. ASSUME NEW g \in Live(flag)
        PROVE  /\ g \in Live(flag')
               /\ flag'[g].UsedByScanConfigIds = flag[g].UsedByScanConfigIds \ {c}
    <3>1. g \in Flags /\ flag[g] \in FlagObjects /\ g # f
      BY <1>0, <2>2 DEF LiveAreObjects
    <3>2. CASE g = scanConfig[c].FlagId
      <4>1. flag'[g] = [flag[g] EXCEPT !.UsedByScanConfigIds = @ \ {c}]
        BY <2>1, <3>1, <3>2
      <4> QED  BY <1>0, <3>1, <4>1 DEF LiveAreObjects, FlagObjects
    <3>3. CASE g # scanConfig[c].FlagId
      <4>1. flag'[g] = flag[g] /\ c \notin flag[g].UsedByScanConfigIds
        BY <2>1, <3>1, <3>3 DEF FlagsInv
      <4> QED  BY <1>0, <3>1, <4>1 DEF LiveAreObjects
    <3> QED  BY <3>2, <3>3
  <2>9. ASSUME NEW g \in Live(flag'), g # f
        PROVE  g \in Live(flag)
    <3>1. g \in Flags /\ flag'[g] \in FlagObjects
      BY <1>0, <2>9 DEF LiveAreObjects
    <3>2. CASE g = scanConfig[c].FlagId
      BY <1>no, <2>1, <3>1, <3>2 DEF FlagsInv
    <3>3. CASE g # scanConfig[c].FlagId
      BY <1>0, <2>1, <2>9, <3>1, <3>3 DEF LiveAreObjects
    <3> QED  BY <3>2, <3>3
  <2>10. Live(flag') = Live(flag) \cup {f}
    BY <2>7, <2>8, <2>9
  <2> QED  BY <1>no, <2>2, <2>4, <2>7, <2>8, <2>10, FlagMade
<1>17. ASSUME NEW c \in ScanConfigs, NEW i \in Images,
              useScanConfigForImage(c, i) \/ stopUsingScanConfigForImage(c, i)
       PROVE  FlagsInv'
  <2>1. c \in Live(scanConfig) /\ scanConfig[c] \in ScanConfigObjects /\ UNCHANGED flag
    BY <1>0, <1>17 DEF useScanConfigForImage, stopUsingScanConfigForImage, LiveAreObjects
  <2>2. PICK ids \in SUBSET (Images \cup Dockerfiles) :
          scanConfig' = [scanConfig EXCEPT ![c].DockerImageIdsThatUse = ids]
    BY <1>17, <2>1 DEF useScanConfigForImage, stopUsingScanConfigForImage, ScanConfigObjects
  <2> DEFINE obj == [scanConfig[c] EXCEPT !.DockerImageIdsThatUse = ids]
  <2>3. obj \in ScanConfigObjects /\ obj.FlagId = scanConfig[c].FlagId
    BY <2>1 DEF ScanConfigObjects
  <2>4. scanConfig' = [scanConfig EXCEPT ![c] = obj]
    BY <2>2
  <2> HIDE DEF obj
  <2> QED  BY <1>write, <2>1, <2>3, <2>4
<1>18. CASE ScanConfigStep
  <2>1. /\ \A c : ~remScanConfig_Fails(c)
        /\ \A c, n, f, p : ~updateScanConfig_Fails(c, n, f, p)
        /\ \A c, d : /\ ~useScanConfigForImage_NotAnImage(c, d)
                     /\ ~stopUsingScanConfigForImage_NotAnImage(c, d)
    BY DEF remScanConfig_Fails, updateScanConfig_Fails, useScanConfigForImage_NotAnImage,
       stopUsingScanConfigForImage_NotAnImage
  <2> QED  BY <1>18, <1>13, <1>15, <1>16, <1>17, <2>1 DEF ScanConfigStep
<1>19. CASE FlagStep
  <2>1. ASSUME NEW f \in Flags, remFlag(f)
        PROVE  FlagsInv'
    <3>1. f \in Live(flag) /\ flag[f].UsedByScanConfigIds = {}
      BY <2>1 DEF remFlag
    <3>2. \A c \in Live(scanConfig) \ {} : scanConfig[c].FlagId \notin {f}
      BY <3>1 DEF FlagsInv
    <3> QED  BY <2>1, <3>2, FlagDeleted, FlagsPurged
  <2> QED  BY <1>19, <1>same, <2>1 DEF FlagStep, remFlag_Aborted
<1>20. CASE \E p \in Paths : AbandonedUpload(p)
  BY <1>20, <1>same DEF AbandonedUpload
<1>21. CASE UNCHANGED vars
  BY <1>21, <1>same DEF vars
<1> QED  BY <1>7, <1>12, <1>18, <1>19, <1>20, <1>21 DEF Next

\* With redis the flag of a configuration is stored and knows it, and a flag
\* knows nothing else: no flag in use is deleted.
THEOREM FlagRefsHold == Spec => []FlagRefsAgree
<1>1. Init => FlagRefsAgree
  BY DEF Init, FlagRefsAgree, Live
<1>2. Structure /\ Structure' /\ FlagRefsAgree /\ [Next]_vars => FlagRefsAgree'
  BY NextFlags, ModeKept, FlagsUnfold, FlagsUnfoldNext DEF Structure
<1> QED  BY <1>1, <1>2, StructureHolds, PTL DEF Spec

-----------------------------------------------------------------------------
(***************************************************************************)
(* Names.                                                                  *)
(***************************************************************************)
Apart(f, ids) == \A x, y \in ids : f[x].Name = f[y].Name => x = y

\* Resources keep the names that they are made with.
NamesKept(f, g) == \A x \in Live(f) \cap Live(g) : g[x].Name = f[x].Name

\* A list gets at most one resource, whose name is new in it.
ListGrows(f, g, old, now) ==
    \/ now \subseteq old
    \/ \E x : now \subseteq old \cup {x} /\ \A y \in old : f[y].Name # g[x].Name

\* The property, list by list, before and after a step.
LEMMA NamesUnfold ==
    NamesUnique <=> \A r \in Live(repo) : /\ Apart(image, repo[r].DockerImageIds)
                                          /\ Apart(flag, repo[r].FlagIds)
                                          /\ Apart(dockerfile, repo[r].DockerfileIds)
BY DEF NamesUnique, Apart

LEMMA NamesUnfoldNext ==
    NamesUnique' <=> \A r \in Live(repo') : /\ Apart(image', repo'[r].DockerImageIds)
                                            /\ Apart(flag', repo'[r].FlagIds)
                                            /\ Apart(dockerfile', repo'[r].DockerfileIds)
BY DEF NamesUnique, Apart

\* A list whose members keep their names, and which grows by a new one at most,
\* has no name twice.
LEMMA ApartStep ==
    ASSUME NEW f, NEW g, NEW old, NEW now, Apart(f, old), NamesKept(f, g),
           old \subseteq Live(f), now \subseteq Live(g), ListGrows(f, g, old, now)
    PROVE  Apart(g, now)
<1>1. CASE now \subseteq old
  BY <1>1 DEF Apart, NamesKept
<1>2. CASE \E x : now \subseteq old \cup {x} /\ \A y \in old : f[y].Name # g[x].Name
  BY <1>2 DEF Apart, NamesKept
<1> QED  BY <1>1, <1>2 DEF ListGrows

\* The lists of a stored repo after a step.
LEMMA ListsOfNext ==
    ASSUME TypeOK', NEW q \in Live(repo')
    PROVE  /\ DockerfileLists'[q] = repo'[q].DockerfileIds
           /\ DockerImageLists'[q] = repo'[q].DockerImageIds
           /\ FlagLists'[q] = repo'[q].FlagIds
<1>1. q \in Repos
  BY LiveObjectsNext DEF LiveAreObjects
<1> QED  BY <1>1 DEF DockerfileLists, DockerImageLists, FlagLists

\* A step that writes one repo,
LEMMA NamesFollow ==
    ASSUME Structure, Structure', NamesUnique, NamesKept(dockerfile, dockerfile'),
           NamesKept(image, image'), NamesKept(flag, flag'),
           NEW r \in Repos, NEW ds, NEW is, NEW cs, NEW fs, RepoLists(r, ds, is, cs, fs),
           ListGrows(dockerfile, dockerfile', DockerfileLists[r], ds),
           ListGrows(image, image', DockerImageLists[r], is),
           ListGrows(flag, flag', FlagLists[r], fs)
    PROVE  NamesUnique'
<1>0. TypeOK /\ TypeOK' /\ ChildrenListed /\ ChildrenListed'
  BY DEF Structure
<1>1. ASSUME NEW q \in Live(repo')
      PROVE  /\ ListGrows(dockerfile, dockerfile', DockerfileLists[q], repo'[q].DockerfileIds)
             /\ ListGrows(image, image', DockerImageLists[q], repo'[q].DockerImageIds)
             /\ ListGrows(flag, flag', FlagLists[q], repo'[q].FlagIds)
  <2>1. CASE q = r
    BY <1>0, <2>1, ListsOfNext DEF RepoLists, ListsFollow
  <2>2. CASE q # r
    <3>1. q \in Live(repo) \ {r}
      BY <2>2 DEF RepoLists
    <3>2. /\ repo'[q].DockerfileIds = DockerfileLists[q]
          /\ repo'[q].DockerImageIds = DockerImageLists[q]
          /\ repo'[q].FlagIds = FlagLists[q]
      BY <1>0, <3>1, ListsOfNext DEF RepoLists, ListsFollow
    <3> QED  BY <3>2 DEF ListGrows
  <2> QED  BY <2>1, <2>2
<1>2. ASSUME NEW q \in Live(repo')
      PROVE  /\ Apart(dockerfile, DockerfileLists[q]) /\ DockerfileLists[q] \subseteq Live(dockerfile)
             /\ Apart(image, DockerImageLists[q]) /\ DockerImageLists[q] \subseteq Live(image)
             /\ Apart(flag, FlagLists[q]) /\ FlagLists[q] \subseteq Live(flag)
  <2>1. CASE q \in Live(repo)
    BY <1>0, <2>1, ListsOf, NamesUnfold DEF ChildrenListed
  <2>2. CASE q \notin Live(repo)
    <3>1. q \in Repos
      BY <1>0, LiveObjectsNext DEF LiveAreObjects
    <3>2. DockerfileLists[q] = {} /\ DockerImageLists[q] = {} /\ FlagLists[q] = {}
      BY <2>2, <3>1 DEF DockerfileLists, DockerImageLists, FlagLists
    <3> QED  BY <3>2 DEF Apart
  <2> QED  BY <2>1, <2>2
<1>3. ASSUME NEW q \in Live(repo')
      PROVE  /\ repo'[q].DockerfileIds \subseteq Live(dockerfile')
             /\ repo'[q].DockerImageIds \subseteq Live(image')
             /\ repo'[q].FlagIds \subseteq Live(flag')
  BY <1>0 DEF ChildrenListed
<1>4. ASSUME NEW q \in Live(repo')
      PROVE  Apart(dockerfile', repo'[q].DockerfileIds)
  BY <1>1, <1>2, <1>3, ApartStep
<1>5. ASSUME NEW q \in Live(repo')
      PROVE  Apart(image', repo'[q].DockerImageIds)
  BY <1>1, <1>2, <1>3, ApartStep
<1>6. ASSUME NEW q \in Live(repo')
      PROVE  Apart(flag', repo'[q].FlagIds)
  BY <1>1, <1>2, <1>3, ApartStep
<1> QED  BY <1>4, <1>5, <1>6, NamesUnfoldNext

\* and one that writes none.
LEMMA NamesStay ==
    ASSUME Structure, NamesUnique, NamesKept(dockerfile, dockerfile'),
           NamesKept(image, image'), NamesKept(flag, flag'), Structure', UNCHANGED repo
    PROVE  NamesUnique'
<1>1. ChildrenListed /\ ChildrenListed'
  BY DEF Structure
<1>2. ASSUME NEW r \in Live(repo')
      PROVE  /\ r \in Live(repo)
             /\ repo'[r].DockerImageIds \subseteq Live(image) \cap Live(image')
             /\ repo'[r].FlagIds \subseteq Live(flag) \cap Live(flag')
             /\ repo'[r].DockerfileIds \subseteq Live(dockerfile) \cap Live(dockerfile')
  BY <1>1 DEF ChildrenListed
<1>3. ASSUME NEW r \in Live(repo')
      PROVE  /\ Apart(image', repo'[r].DockerImageIds)
             /\ Apart(flag', repo'[r].FlagIds)
             /\ Apart(dockerfile', repo'[r].DockerfileIds)
  <2>1. /\ Apart(image, repo'[r].DockerImageIds)
        /\ Apart(flag, repo'[r].FlagIds)
        /\ Apart(dockerfile, repo'[r].DockerfileIds)
    BY <1>2, NamesUnfold
  <2> QED  BY <1>2, <2>1 DEF Apart, NamesKept
<1> QED  BY <1>3, NamesUnfoldNext

\* Names are kept where nothing, or one resource, is written, and by deletes.
LEMMA NamesWritten ==
    ASSUME NEW f, NEW g, NEW x, NEW obj, g = [f EXCEPT ![x] = obj],
           x \in Live(f) => obj.Name = f[x].Name
    PROVE  NamesKept(f, g)
BY DEF NamesKept, Live

LEMMA NamesSame == ASSUME NEW f PROVE NamesKept(f, f)
BY DEF NamesKept

LEMMA NamesPurged ==
    ASSUME NEW cs, NEW fs, NEW is, NEW vs, NEW links,
           PurgeEffects(cs, fs, is, vs, links)
    PROVE  NamesKept(image, image') /\ NamesKept(flag, flag')
BY DEF PurgeEffects, NamesKept

LEMMA ListSame == ASSUME NEW f, NEW g, NEW old PROVE ListGrows(f, g, old, old)
BY DEF ListGrows

\* A resource of a name that was not taken is listed.
LEMMA ListAdded ==
    ASSUME NEW f, NEW g, NEW old, NEW x, NEW n, g[x].Name = n, ~Taken(f, old, n)
    PROVE  ListGrows(f, g, old, old \cup {x})
BY DEF ListGrows, Taken

\* Every step keeps the names in each list apart.
LEMMA NextNames == Structure /\ Structure' /\ NamesUnique /\ [Next]_vars => NamesUnique'
<1> SUFFICES ASSUME Structure, Structure', NamesUnique, [Next]_vars PROVE NamesUnique'
  OBVIOUS
<1>0. TypeOK /\ TypeOK' /\ LiveAreObjects /\ LiveAreObjects' /\ ParentsStored
  BY LiveObjects, LiveObjectsNext DEF Structure
<1>same. ASSUME UNCHANGED <<repo, dockerfile, image, flag>> PROVE NamesUnique'
  BY <1>same, NamesSame, NamesStay
\* Repo r is written.
<1>list. ASSUME NEW r \in Repos, NEW obj \in RepoObjects, repo' = [repo EXCEPT ![r] = obj],
                NamesKept(dockerfile, dockerfile'), NamesKept(image, image'), NamesKept(flag, flag'),
                ListGrows(dockerfile, dockerfile', DockerfileLists[r], obj.DockerfileIds),
                ListGrows(image, image', DockerImageLists[r], obj.DockerImageIds),
                ListGrows(flag, flag', FlagLists[r], obj.FlagIds)
         PROVE  NamesUnique'
  <2>1. RepoLists(r, obj.DockerfileIds, obj.DockerImageIds, obj.ScanConfigIds, obj.FlagIds)
    BY <1>0, <1>list, RepoStored
  <2> QED  BY <1>list, <2>1, NamesFollow
<1>1. ASSUME NEW r \in Repos, createRepo(r)
      PROVE  NamesUnique'
  <2>1. /\ EmptyRepo \in RepoObjects /\ EmptyRepo.DockerfileIds = {}
        /\ EmptyRepo.DockerImageIds = {} /\ EmptyRepo.FlagIds = {}
    BY DEF EmptyRepo, RepoObjects
  <2>2. repo' = [repo EXCEPT ![r] = EmptyRepo] /\ UNCHANGED <<dockerfile, image, flag>>
    BY <1>1 DEF createRepo
  <2>3. /\ ListGrows(dockerfile, dockerfile', DockerfileLists[r], {})
        /\ ListGrows(image, image', DockerImageLists[r], {})
        /\ ListGrows(flag, flag', FlagLists[r], {})
    BY DEF ListGrows
  <2> QED  BY <1>list, <2>1, <2>2, <2>3, NamesSame
<1>2. ASSUME NEW r \in Repos, NEW d \in Dockerfiles, NEW n \in Names, NEW p \in Paths,
             NEW via \in Vias, addDockerfile(via, r, d, n, p)
      PROVE  NamesUnique'
  <2> DEFINE obj == [Base(via, r) EXCEPT !.DockerfileIds = @ \cup {d}]
  <2>1. /\ obj \in RepoObjects /\ obj.DockerfileIds = DockerfileLists[r] \cup {d}
        /\ obj.DockerImageIds = DockerImageLists[r] /\ obj.FlagIds = FlagLists[r]
    BY <1>0, BaseLists DEF RepoObjects
  <2>2. /\ repo' = [repo EXCEPT ![r] = obj] /\ UNCHANGED <<image, flag>>
        /\ dockerfile[d] = NewId /\ ~Taken(dockerfile, DockerfileLists[r], n)
        /\ dockerfile' = [dockerfile EXCEPT ![d] = NewDockerfile(r, n, p)]
    BY <1>0, <1>2, BaseLists DEF addDockerfile
  <2> HIDE DEF obj
  <2>3. d \notin Live(dockerfile)
    BY <2>2 DEF Live
  <2>4. NamesKept(dockerfile, dockerfile')
    BY <2>2, <2>3, NamesWritten
  <2>5. dockerfile'[d].Name = n
    BY <1>0, <2>2 DEF TypeOK, NewDockerfile
  <2>6. ListGrows(dockerfile, dockerfile', DockerfileLists[r], obj.DockerfileIds)
    <3>1. ~Taken(dockerfile, DockerfileLists[r], n)
      BY <2>2
    <3>2. ListGrows(dockerfile, dockerfile', DockerfileLists[r], DockerfileLists[r] \cup {d})
      BY <2>5, <3>1, ListAdded
    <3> QED  BY <2>1, <3>2
  <2> QED  BY <1>list, <2>1, <2>2, <2>4, <2>6, NamesSame, ListSame
<1>3. ASSUME NEW r \in Repos, NEW d \in Dockerfiles, NEW n \in Names, NEW p \in Paths,
             addDockerfile_NameTaken(r, d, n, p)
      PROVE  NamesUnique'
  <2>1. /\ dockerfile[d] = NewId /\ UNCHANGED <<repo, image, flag>>
        /\ dockerfile' = [dockerfile EXCEPT ![d] = NewDockerfile(r, n, p)]
    BY <1>3 DEF addDockerfile_NameTaken
  <2>2. d \notin Live(dockerfile)
    BY <2>1 DEF Live
  <2> QED  BY <2>1, <2>2, NamesWritten, NamesSame, NamesStay
\* A build, which may come with a new dockerfile.
<1>build. ASSUME NEW r \in Repos, NEW d \in Dockerfiles, NEW dobj, NEW robj \in RepoObjects,
                 NEW n \in Names, NEW i \in Images, NEW v \in Versions,
                 buildDockerfile(d, dobj, r, robj, n, i, v), dobj \in DockerfileObjects,
                 robj.DockerImageIds = DockerImageLists[r], robj.FlagIds = FlagLists[r],
                 \/ /\ d \in Live(dockerfile) /\ dobj = dockerfile[d]
                    /\ robj.DockerfileIds = DockerfileLists[r]
                 \/ /\ d \notin Live(dockerfile) /\ ~Taken(dockerfile, DockerfileLists[r], dobj.Name)
                    /\ robj.DockerfileIds = DockerfileLists[r] \cup {d}
          PROVE  NamesUnique'
  <2> DEFINE dnew == [dobj EXCEPT !.DockerfileExecEventIds = @ \cup {v}]
             iobj == IF image[i] = NewId THEN NewDockerImage(r, n) ELSE image[i]
             inew == [iobj EXCEPT !.VersionIds = @ \cup {v}]
             rnew == [robj EXCEPT !.DockerImageIds = @ \cup {i}]
  <2>1. /\ \/ i \in DockerImageLists[r] /\ image[i].Name = n
           \/ image[i] = NewId /\ ~Taken(image, DockerImageLists[r], n)
        /\ image' = [image EXCEPT ![i] = inew]
        /\ dockerfile' = [dockerfile EXCEPT ![d] = dnew]
        /\ repo' = [repo EXCEPT ![r] = rnew]
        /\ UNCHANGED flag
    BY <1>build DEF buildDockerfile
  <2>2. dnew.Name = dobj.Name
    BY <1>build DEF DockerfileObjects
  <2>3. /\ rnew \in RepoObjects /\ rnew.DockerfileIds = robj.DockerfileIds
        /\ rnew.DockerImageIds = DockerImageLists[r] \cup {i} /\ rnew.FlagIds = FlagLists[r]
    BY <1>build DEF RepoObjects
  <2>4. i \in DockerImageLists[r] => i \in Live(image) /\ image[i] \in ImageObjects
    BY <1>0 DEF DockerImageLists, Structure, ChildrenListed, LiveAreObjects
  <2>5. image[i] = NewId => i \notin Live(image)
    BY DEF Live
  <2>6. inew.Name = n /\ (i \in Live(image) => inew.Name = image[i].Name)
    <3>1. CASE image[i] = NewId
      BY <2>5, <3>1 DEF NewDockerImage
    <3>2. CASE image[i] # NewId
      BY <2>1, <2>4, <3>2 DEF ImageObjects
    <3> QED  BY <3>1, <3>2
  <2> HIDE DEF dnew, inew, rnew
  <2>7. NamesKept(image, image') /\ NamesKept(dockerfile, dockerfile')
    BY <1>build, <2>1, <2>2, <2>6, NamesWritten
  <2>8. ListGrows(image, image', DockerImageLists[r], rnew.DockerImageIds)
    <3>1. CASE i \in DockerImageLists[r]
      <4>1. rnew.DockerImageIds \subseteq DockerImageLists[r]
        BY <2>3, <3>1
      <4> QED  BY <4>1 DEF ListGrows
    <3>2. CASE ~Taken(image, DockerImageLists[r], n)
      <4>1. image'[i].Name = n
        BY <1>0, <2>1, <2>6 DEF TypeOK
      <4> QED  BY <2>3, <3>2, <4>1, ListAdded
    <3> QED  BY <2>1, <3>1, <3>2
  <2>9. ListGrows(dockerfile, dockerfile', DockerfileLists[r], rnew.DockerfileIds)
    <3>1. CASE robj.DockerfileIds = DockerfileLists[r]
      BY <2>3, <3>1, ListSame
    <3>2. CASE /\ ~Taken(dockerfile, DockerfileLists[r], dobj.Name)
               /\ robj.DockerfileIds = DockerfileLists[r] \cup {d}
      <4>1. dockerfile'[d].Name = dobj.Name
        BY <1>0, <2>1, <2>2 DEF TypeOK
      <4> QED  BY <2>3, <3>2, <4>1, ListAdded
    <3> QED  BY <1>build, <3>1, <3>2
  <2> QED  BY <1>list, <2>1, <2>3, <2>7, <2>8, <2>9, NamesSame, ListSame
<1>4. ASSUME NEW r \in Repos, NEW d \in Dockerfiles, NEW n \in Names, NEW p \in Paths,
             NEW via \in Vias, NEW m \in Names, NEW i \in Images, NEW v \in Versions,
             addAndExecDockerfile(via, r, d, n, p, m, i, v)
      PROVE  NamesUnique'
  <2> DEFINE robj == [Base(via, r) EXCEPT !.DockerfileIds = @ \cup {d}]
             dobj == NewDockerfile(r, n, p)
  <2>1. /\ robj \in RepoObjects /\ robj.DockerfileIds = DockerfileLists[r] \cup {d}
        /\ robj.DockerImageIds = DockerImageLists[r] /\ robj.FlagIds = FlagLists[r]
    BY <1>0, BaseLists DEF RepoObjects
  <2>2. /\ dockerfile[d] = NewId /\ ~Taken(dockerfile, DockerfileLists[r], n)
        /\ buildDockerfile(d, dobj, r, robj, m, i, v)
    BY <1>0, <1>4, BaseLists DEF addAndExecDockerfile
  <2>3. d \notin Live(dockerfile) /\ dobj.Name = n /\ dobj \in DockerfileObjects
    BY <2>2 DEF Live, NewDockerfile, DockerfileObjects
  <2> HIDE DEF robj, dobj
  <2> QED  BY <1>build, <2>1, <2>2, <2>3
<1>5. ASSUME NEW r \in Repos, NEW c \in ScanConfigs, NEW n \in Names, NEW via \in Vias,
             defineScanConfig(via, r, c, n)
      PROVE  NamesUnique'
  <2> DEFINE obj == [Base(via, r) EXCEPT !.ScanConfigIds = @ \cup {c}]
  <2>1. /\ obj \in RepoObjects /\ obj.DockerfileIds = DockerfileLists[r]
        /\ obj.DockerImageIds = DockerImageLists[r] /\ obj.FlagIds = FlagLists[r]
    BY <1>0, BaseLists DEF RepoObjects
  <2>2. repo' = [repo EXCEPT ![r] = obj] /\ UNCHANGED <<dockerfile, image, flag>>
    BY <1>5 DEF defineScanConfig
  <2> HIDE DEF obj
  <2> QED  BY <1>list, <2>1, <2>2, NamesSame, ListSame
\* A flag is made, and listed if its name is free.
<1>flag. ASSUME NEW r \in Repos, NEW f \in Flags, NEW n, NEW p, NEW users, flag[f] = NewId,
                flag' = [flag EXCEPT ![f] = NewFlag(r, n, p, users)],
                UNCHANGED <<dockerfile, image>>, NEW robj \in RepoObjects,
                repo' = [repo EXCEPT ![r] = robj], robj.DockerfileIds = DockerfileLists[r],
                robj.DockerImageIds = DockerImageLists[r],
                \/ robj.FlagIds = FlagLists[r]
                \/ robj.FlagIds = FlagLists[r] \cup {f} /\ ~Taken(flag, FlagLists[r], n)
         PROVE  NamesUnique'
  <2>1. f \notin Live(flag)
    BY <1>flag DEF Live
  <2>2. NamesKept(flag, flag')
    BY <1>flag, <2>1, NamesWritten
  <2>3. flag'[f].Name = n
    BY <1>0, <1>flag DEF TypeOK, NewFlag
  <2>4. ListGrows(flag, flag', FlagLists[r], robj.FlagIds)
    <3>1. ListGrows(flag, flag', FlagLists[r], FlagLists[r])
      BY ListSame
    <3>2. CASE robj.FlagIds = FlagLists[r]
      BY <3>1, <3>2
    <3>3. CASE robj.FlagIds = FlagLists[r] \cup {f} /\ ~Taken(flag, FlagLists[r], n)
      <4>1. ~Taken(flag, FlagLists[r], n)
        BY <3>3
      <4>2. ListGrows(flag, flag', FlagLists[r], FlagLists[r] \cup {f})
        BY <2>3, <4>1, ListAdded
      <4> QED  BY <3>3, <4>2
    <3> QED  BY <1>flag, <3>2, <3>3
  <2> QED  BY <1>list, <1>flag, <2>2, <2>4, NamesSame, ListSame
<1>6. ASSUME NEW r \in Repos, NEW c \in ScanConfigs, NEW n \in Names, NEW f \in Flags,
             NEW p \in Paths, NEW via \in Vias, defineScanConfig_WithFlag(via, r, c, n, f, p)
      PROVE  NamesUnique'
  <2> DEFINE obj == [Base(via, r) EXCEPT !.ScanConfigIds = @ \cup {c}, !.FlagIds = @ \cup {f}]
  <2>1. /\ obj \in RepoObjects /\ obj.DockerfileIds = DockerfileLists[r]
        /\ obj.DockerImageIds = DockerImageLists[r] /\ obj.FlagIds = FlagLists[r] \cup {f}
    BY <1>0, BaseLists DEF RepoObjects
  <2>2. /\ repo' = [repo EXCEPT ![r] = obj] /\ UNCHANGED <<dockerfile, image>>
        /\ flag[f] = NewId /\ ~Taken(flag, Base(via, r).FlagIds, n)
        /\ flag' = [flag EXCEPT ![f] = NewFlag(r, n, p, {c})]
    BY <1>6, Zenon DEF defineScanConfig_WithFlag
  <2>3. ~Taken(flag, FlagLists[r], n)
    BY <1>0, <2>2, BaseLists
  <2> HIDE DEF obj
  <2> QED  BY <1>flag, <2>1, <2>2, <2>3
<1>7. ASSUME NEW r \in Repos, NEW c \in ScanConfigs, NEW n \in Names, NEW f \in Flags,
             NEW p \in Paths, defineScanConfig_FlagNameTaken(r, c, n, f, p)
      PROVE  NamesUnique'
  <2> DEFINE obj == [repo[r] EXCEPT !.ScanConfigIds = @ \cup {c}]
  <2>1. /\ r \in Live(repo) /\ repo' = [repo EXCEPT ![r] = obj] /\ UNCHANGED <<dockerfile, image>>
        /\ flag[f] = NewId /\ flag' = [flag EXCEPT ![f] = NewFlag(r, n, p, {})]
    BY <1>7, Zenon DEF defineScanConfig_FlagNameTaken
  <2>2. /\ obj \in RepoObjects /\ obj.DockerfileIds = DockerfileLists[r]
        /\ obj.DockerImageIds = DockerImageLists[r] /\ obj.FlagIds = FlagLists[r]
    BY <1>0, <2>1, ListsOf DEF LiveAreObjects, RepoObjects
  <2> HIDE DEF obj
  <2> QED  BY <1>flag, <2>1, <2>2
<1>8. ASSUME NEW r \in Repos, NEW f \in Flags, NEW n \in Names, NEW p \in Paths,
             NEW via \in Vias, defineFlag(via, r, f, n, p)
      PROVE  NamesUnique'
  <2> DEFINE obj == [Base(via, r) EXCEPT !.FlagIds = @ \cup {f}]
  <2>1. /\ obj \in RepoObjects /\ obj.DockerfileIds = DockerfileLists[r]
        /\ obj.DockerImageIds = DockerImageLists[r] /\ obj.FlagIds = FlagLists[r] \cup {f}
    BY <1>0, BaseLists DEF RepoObjects
  <2>2. /\ repo' = [repo EXCEPT ![r] = obj] /\ UNCHANGED <<dockerfile, image>>
        /\ flag[f] = NewId /\ ~Taken(flag, FlagLists[r], n)
        /\ flag' = [flag EXCEPT ![f] = NewFlag(r, n, p, {})]
    BY <1>0, <1>8, BaseLists DEF defineFlag
  <2> HIDE DEF obj
  <2> QED  BY <1>flag, <2>1, <2>2
<1>9. ASSUME NEW r \in Repos, NEW f \in Flags, NEW n \in Names, NEW p \in Paths,
             defineFlag_NameTaken(r, f, n, p)
      PROVE  NamesUnique'
  <2>1. /\ flag[f] = NewId /\ UNCHANGED <<repo, image, dockerfile>>
        /\ flag' = [flag EXCEPT ![f] = NewFlag(r, n, p, {})]
    BY <1>9 DEF defineFlag_NameTaken
  <2>2. f \notin Live(flag)
    BY <2>1 DEF Live
  <2> QED  BY <2>1, <2>2, NamesWritten, NamesSame, NamesStay
\* A delete takes ids out of the lists of repo r.
<1>purge. ASSUME NEW cs, NEW fs, NEW is, NEW vs, NEW links,
                 PurgeEffects(cs, fs, is, vs, links),
                 UNCHANGED dockerfile, NEW r \in Live(repo), NEW robj \in RepoObjects,
                 repo' = [repo EXCEPT ![r] = robj], robj.DockerfileIds \subseteq repo[r].DockerfileIds,
                 robj.DockerImageIds \subseteq repo[r].DockerImageIds,
                 robj.FlagIds \subseteq repo[r].FlagIds
          PROVE  NamesUnique'
  <2>1. r \in Repos
    BY <1>0 DEF LiveAreObjects
  <2>2. NamesKept(image, image') /\ NamesKept(flag, flag') /\ NamesKept(dockerfile, dockerfile')
    BY <1>purge, NamesPurged, NamesSame
  <2>3. /\ ListGrows(dockerfile, dockerfile', DockerfileLists[r], robj.DockerfileIds)
        /\ ListGrows(image, image', DockerImageLists[r], robj.DockerImageIds)
        /\ ListGrows(flag, flag', FlagLists[r], robj.FlagIds)
    BY <1>0, <1>purge, ListsOf DEF ListGrows
  <2> QED  BY <1>list, <1>purge, <2>1, <2>2, <2>3
<1>10. ASSUME NEW r \in Repos, deleteRepo(r)
       PROVE  NamesUnique'
  <2> DEFINE vs == UNION {image[i].VersionIds : i \in repo[r].DockerImageIds}
  <2>0. PICK cs, links :
          /\ PurgeEffects(cs, repo[r].FlagIds, repo[r].DockerImageIds, vs, links)
          /\ repo' = [repo EXCEPT ![r] =
               [EmptyRepo EXCEPT !.DockerfileIds = repo[r].DockerfileIds,
                                 !.ScanConfigIds = repo[r].ScanConfigIds \ cs]]
    BY <1>10, RepoDeleted, Zenon
  <2> DEFINE obj == [EmptyRepo EXCEPT !.DockerfileIds = repo[r].DockerfileIds,
                                      !.ScanConfigIds = repo[r].ScanConfigIds \ cs]
  <2>1. r \in Live(repo) /\ repo' = [repo EXCEPT ![r] = obj] /\ UNCHANGED dockerfile
    BY <1>10, <2>0, Zenon DEF deleteRepo
  <2>2. /\ obj \in RepoObjects /\ obj.DockerfileIds = repo[r].DockerfileIds
        /\ obj.DockerImageIds = {} /\ obj.FlagIds = {}
    BY <1>0, <2>1 DEF LiveAreObjects, RepoObjects, EmptyRepo
  <2> HIDE DEF obj, vs
  <2> QED  BY <1>purge, <2>0, <2>1, <2>2
<1>11. ASSUME NEW r \in Repos, deleteRepo_Aborted(r) \/ deleteRepo_Fails(r)
       PROVE  NamesUnique'
  BY <1>11, <1>same DEF deleteRepo_Aborted, deleteRepo_Fails
<1>12. CASE RepoStep
  BY <1>12, <1>1, <1>2, <1>3, <1>4, <1>5, <1>6, <1>7, <1>8, <1>9, <1>10, <1>11 DEF RepoStep
<1>13. ASSUME NEW d \in Dockerfiles, remDockerfile(d)
       PROVE  NamesUnique'
  BY <1>13, <1>same DEF remDockerfile
<1>14. ASSUME NEW d \in Dockerfiles, NEW p \in Paths, replaceDockerfile(d, p)
       PROVE  NamesUnique'
  <2>1. [dockerfile[d] EXCEPT !.FilePath = p].Name = dockerfile[d].Name
    BY <1>0, <1>14 DEF replaceDockerfile, LiveAreObjects, DockerfileObjects
  <2>2. NamesKept(dockerfile, dockerfile')
    BY <1>14, <2>1, NamesWritten, NamesSame DEF replaceDockerfile, WrittenIfInMemory
  <2>3. UNCHANGED <<repo, image, flag>>
    BY <1>14 DEF replaceDockerfile
  <2> QED  BY <2>2, <2>3, NamesSame, NamesStay
<1>15. ASSUME NEW d \in Dockerfiles, NEW n \in Names, NEW i \in Images,
              execDockerfile_BuildFails(d, n, i)
       PROVE  NamesUnique'
  <2> DEFINE r == dockerfile[d].ParentId
             robj == [repo[r] EXCEPT !.DockerImageIds = @ \cup {i}]
  <2>1. r \in Live(repo) /\ r \in Repos
    BY <1>0, <1>15 DEF execDockerfile_BuildFails, ParentsStored, LiveAreObjects
  <2>2. /\ image[i] = NewId /\ ~Taken(image, repo[r].DockerImageIds, n)
        /\ image' = [image EXCEPT ![i] = NewDockerImage(r, n)]
        /\ repo' = [repo EXCEPT ![r] = robj]
        /\ UNCHANGED <<dockerfile, flag>>
    BY <1>15 DEF execDockerfile_BuildFails
  <2>3. /\ robj \in RepoObjects /\ robj.DockerfileIds = DockerfileLists[r]
        /\ robj.DockerImageIds = DockerImageLists[r] \cup {i} /\ robj.FlagIds = FlagLists[r]
        /\ DockerImageLists[r] = repo[r].DockerImageIds
    BY <1>0, <2>1, ListsOf DEF LiveAreObjects, RepoObjects
  <2> HIDE DEF r, robj
  <2>4. i \notin Live(image)
    BY <2>2 DEF Live
  <2>5. NamesKept(image, image')
    BY <2>2, <2>4, NamesWritten
  <2>6. image'[i].Name = n
    BY <1>0, <2>2 DEF TypeOK, NewDockerImage
  <2>7. ListGrows(image, image', DockerImageLists[r], robj.DockerImageIds)
    <3>1. ~Taken(image, DockerImageLists[r], n)
      BY <2>2, <2>3
    <3>2. ListGrows(image, image', DockerImageLists[r], DockerImageLists[r] \cup {i})
      BY <2>6, <3>1, ListAdded
    <3> QED  BY <2>3, <3>2
  <2> QED  BY <1>list, <2>1, <2>2, <2>3, <2>5, <2>7, NamesSame, ListSame
<1>16. ASSUME NEW d \in Dockerfiles, NEW n \in Names, NEW i \in Images, NEW v \in Versions,
              execDockerfile(d, n, i, v)
       PROVE  NamesUnique'
  <2> DEFINE r == dockerfile[d].ParentId
  <2>1. /\ d \in Live(dockerfile) /\ dockerfile[d] \in DockerfileObjects
        /\ buildDockerfile(d, dockerfile[d], r, repo[r], n, i, v)
    BY <1>0, <1>16 DEF execDockerfile, LiveAreObjects
  <2>2. r \in Live(repo) /\ r \in Repos /\ repo[r] \in RepoObjects
    BY <1>0, <2>1 DEF ParentsStored, LiveAreObjects
  <2> HIDE DEF r
  <2>3. /\ repo[r].DockerfileIds = DockerfileLists[r] /\ repo[r].DockerImageIds = DockerImageLists[r]
        /\ repo[r].FlagIds = FlagLists[r]
    BY <1>0, <2>2, ListsOf
  <2> QED  BY <1>build, <2>1, <2>2, <2>3
<1>17. ASSUME NEW i \in Images, remDockerImage(i)
       PROVE  NamesUnique'
  <2> DEFINE r == image[i].ParentId
             robj == [repo[r] EXCEPT !.DockerImageIds = @ \ {i}]
  <2>1. r \in Live(repo) /\ repo' = [repo EXCEPT ![r] = robj] /\ UNCHANGED dockerfile
    BY <1>0, <1>17 DEF remDockerImage, ParentsStored
  <2>2. /\ robj \in RepoObjects /\ robj.DockerfileIds = repo[r].DockerfileIds
        /\ robj.DockerImageIds \subseteq repo[r].DockerImageIds /\ robj.FlagIds = repo[r].FlagIds
    BY <1>0, <2>1 DEF LiveAreObjects, RepoObjects
  <2> HIDE DEF r, robj
  <2>3. PICK links : PurgeEffects({}, {}, {i}, image[i].VersionIds, links)
    BY <1>17, ImageDeleted, Zenon
  <2> QED  BY <1>purge, <2>1, <2>2, <2>3
<1>32. ASSUME NEW i \in Images, remDockerImage_Fails(i)
       PROVE  NamesUnique'
  <2>1. PICK vs, links : PurgeEffects({}, {}, {}, vs, links)
    BY <1>32, ImageFails, Zenon
  <2>2. UNCHANGED <<repo, dockerfile>>
    BY <1>32, Zenon DEF remDockerImage_Fails
  <2> QED  BY <2>1, <2>2, NamesPurged, NamesSame, NamesStay
<1>18. ASSUME NEW v \in Versions, remImageVersion(v)
       PROVE  NamesUnique'
  <2>1. NamesKept(image, image') /\ NamesKept(flag, flag')
    BY <1>18, VersionDeleted, NamesPurged
  <2>2. UNCHANGED <<repo, dockerfile>>
    BY <1>18 DEF remImageVersion
  <2> QED  BY <2>1, <2>2, NamesSame, NamesStay
<1>19. ASSUME NEW v \in Versions,
              \/ remImageVersion_DockerFails(v)
              \/ \E c \in ScanConfigs, e \in ScanEvents : scanImage(c, v, e)
       PROVE  NamesUnique'
  BY <1>19, <1>same DEF remImageVersion_DockerFails, scanImage
<1>20. CASE DockerStep
  BY <1>20, <1>13, <1>14, <1>15, <1>16, <1>17, <1>18, <1>19, <1>32 DEF DockerStep
<1>21. ASSUME NEW c \in ScanConfigs, remScanConfig(c)
       PROVE  NamesUnique'
  <2> DEFINE r == scanConfig[c].ParentId
             robj == [repo[r] EXCEPT !.ScanConfigIds = @ \ {c}]
  <2>1. r \in Live(repo) /\ repo' = [repo EXCEPT ![r] = robj] /\ UNCHANGED dockerfile
    BY <1>0, <1>21 DEF remScanConfig, ParentsStored
  <2>2. /\ robj \in RepoObjects /\ robj.DockerfileIds = repo[r].DockerfileIds
        /\ robj.DockerImageIds = repo[r].DockerImageIds /\ robj.FlagIds = repo[r].FlagIds
    BY <1>0, <2>1 DEF LiveAreObjects, RepoObjects
  <2> HIDE DEF r, robj
  <2>3. PICK links : PurgeEffects({c}, {}, {}, {}, links)
    BY <1>21, ScanConfigDeleted, Zenon
  <2> QED  BY <1>purge, <2>1, <2>2, <2>3
<1>22. ASSUME NEW c \in ScanConfigs, remScanConfig_Fails(c)
       PROVE  NamesUnique'
  <2>1. NamesKept(image, image')
    <3>1. CASE UNCHANGED image
      BY <3>1, NamesSame
    <3>2. ASSUME NEW is, image' = [i \in Images |->
                    IF i \in is THEN [image[i] EXCEPT !.ScanConfigsToUse = @ \ {c}] ELSE image[i]]
          PROVE  NamesKept(image, image')
      BY <1>0, <3>2 DEF NamesKept, LiveAreObjects, ImageObjects
    <3> QED  BY <1>22, <3>1, <3>2 DEF remScanConfig_Fails
  <2>2. NamesKept(flag, flag')
    <3>1. CASE UNCHANGED flag
      BY <3>1, NamesSame
    <3>2. CASE flag' = [f \in Flags |->
               IF f = scanConfig[c].FlagId
               THEN [flag[f] EXCEPT !.UsedByScanConfigIds = @ \ {c}] ELSE flag[f]]
      BY <1>0, <3>2 DEF NamesKept, LiveAreObjects, FlagObjects
    <3> QED  BY <1>22, <3>1, <3>2 DEF remScanConfig_Fails
  <2>3. UNCHANGED <<repo, dockerfile>>
    BY <1>22 DEF remScanConfig_Fails
  <2> QED  BY <2>1, <2>2, <2>3, NamesSame, NamesStay
<1>23. ASSUME NEW c \in ScanConfigs, NEW i \in Images,
              useScanConfigForImage(c, i) \/ stopUsingScanConfigForImage(c, i)
       PROVE  NamesUnique'
  <2>1. i \in Live(image) /\ image[i] \in ImageObjects /\ UNCHANGED <<repo, dockerfile, flag>>
    BY <1>0, <1>23 DEF useScanConfigForImage, stopUsingScanConfigForImage, LiveAreObjects
  <2>2. PICK ids : image' = [image EXCEPT ![i].ScanConfigsToUse = ids]
    BY <1>23 DEF useScanConfigForImage, stopUsingScanConfigForImage
  <2>3. [image[i] EXCEPT !.ScanConfigsToUse = ids].Name = image[i].Name
    BY <2>1 DEF ImageObjects
  <2>4. image' = [image EXCEPT ![i] = [image[i] EXCEPT !.ScanConfigsToUse = ids]]
    BY <2>2
  <2>5. NamesKept(image, image')
    BY <2>3, <2>4, NamesWritten
  <2> QED  BY <2>1, <2>5, NamesSame, NamesStay
<1>24. ASSUME NEW c \in ScanConfigs,
              \/ \E n \in Names : updateScanConfig(c, n)
              \/ \E d \in Dockerfiles : \/ useScanConfigForImage_NotAnImage(c, d)
                                        \/ stopUsingScanConfigForImage_NotAnImage(c, d)
       PROVE  NamesUnique'
  BY <1>24, <1>same DEF updateScanConfig, useScanConfigForImage_NotAnImage,
     stopUsingScanConfigForImage_NotAnImage
<1>25. ASSUME NEW c \in ScanConfigs, NEW n \in Names \cup {NoName}, NEW f \in Flags,
              NEW p \in Paths, updateScanConfig_WithFlag(c, n, f, p)
       PROVE  NamesUnique'
  <2> DEFINE r == scanConfig[c].ParentId
             robj == [repo[r] EXCEPT !.FlagIds = @ \cup {f}]
  <2>1. /\ flag[f] = NewId /\ ~Taken(flag, repo[r].FlagIds, n)
        /\ flag' = [g \in Flags |->
                  IF g = f THEN NewFlag(r, n, p, {c})
                  ELSE IF g = scanConfig[c].FlagId
                  THEN [flag[g] EXCEPT !.UsedByScanConfigIds = @ \ {c}]
                  ELSE flag[g]]
        /\ repo' = [repo EXCEPT ![r] = robj] /\ UNCHANGED <<dockerfile, image>>
    BY <1>25 DEF updateScanConfig_WithFlag
  <2>2. r \in Live(repo) /\ r \in Repos
    BY <1>0, <1>25 DEF updateScanConfig_WithFlag, ParentsStored, LiveAreObjects
  <2>3. /\ robj \in RepoObjects /\ robj.DockerfileIds = DockerfileLists[r]
        /\ robj.DockerImageIds = DockerImageLists[r] /\ robj.FlagIds = FlagLists[r] \cup {f}
        /\ FlagLists[r] = repo[r].FlagIds
    BY <1>0, <2>2, ListsOf DEF LiveAreObjects, RepoObjects
  <2> HIDE DEF r, robj
  <2>4. f \notin Live(flag)
    BY <2>1 DEF Live
  <2>5. NamesKept(flag, flag')
    BY <1>0, <2>1, <2>4 DEF NamesKept, LiveAreObjects, FlagObjects
  <2>6. flag'[f].Name = n
    BY <2>1 DEF NewFlag
  <2>7. ListGrows(flag, flag', FlagLists[r], robj.FlagIds)
    <3>1. ~Taken(flag, FlagLists[r], n)
      BY <2>1, <2>3
    <3>2. ListGrows(flag, flag', FlagLists[r], FlagLists[r] \cup {f})
      BY <2>6, <3>1, ListAdded
    <3> QED  BY <2>3, <3>2
  <2> QED  BY <1>list, <2>1, <2>2, <2>3, <2>5, <2>7, NamesSame, ListSame
<1>26. ASSUME NEW c \in ScanConfigs, NEW n \in Names \cup {NoName}, NEW f \in Flags,
              NEW p \in Paths, updateScanConfig_Fails(c, n, f, p)
       PROVE  NamesUnique'
  <2> DEFINE r == scanConfig[c].ParentId
             robj == [repo[r] EXCEPT !.FlagIds = @ \cup {f}]
  <2>1. /\ flag[f] = NewId /\ flag' = [flag EXCEPT ![f] = NewFlag(r, n, p, {})]
        /\ \/ UNCHANGED repo
           \/ ~Taken(flag, repo[r].FlagIds, n) /\ repo' = [repo EXCEPT ![r] = robj]
        /\ UNCHANGED <<dockerfile, image>>
    BY <1>26 DEF updateScanConfig_Fails
  <2>2. r \in Live(repo) /\ r \in Repos
    BY <1>0, <1>26 DEF updateScanConfig_Fails, ParentsStored, LiveAreObjects
  <2>3. /\ robj \in RepoObjects /\ robj.DockerfileIds = DockerfileLists[r]
        /\ robj.DockerImageIds = DockerImageLists[r] /\ robj.FlagIds = FlagLists[r] \cup {f}
        /\ FlagLists[r] = repo[r].FlagIds
    BY <1>0, <2>2, ListsOf DEF LiveAreObjects, RepoObjects
  <2> HIDE DEF r, robj
  <2>4. CASE UNCHANGED repo
    <3>1. f \notin Live(flag)
      BY <2>1 DEF Live
    <3> QED  BY <2>1, <2>4, <3>1, NamesWritten, NamesSame, NamesStay
  <2>5. CASE ~Taken(flag, repo[r].FlagIds, n) /\ repo' = [repo EXCEPT ![r] = robj]
    BY <1>flag, <2>1, <2>2, <2>3, <2>5
  <2> QED  BY <2>1, <2>4, <2>5
<1>27. CASE ScanConfigStep
  BY <1>27, <1>21, <1>22, <1>23, <1>24, <1>25, <1>26 DEF ScanConfigStep
<1>28. ASSUME NEW f \in Flags, remFlag(f)
       PROVE  NamesUnique'
  <2> DEFINE r == flag[f].ParentId
             robj == [repo[r] EXCEPT !.FlagIds = @ \ {f}]
  <2>1. r \in Live(repo) /\ repo' = [repo EXCEPT ![r] = robj] /\ UNCHANGED dockerfile
    BY <1>0, <1>28 DEF remFlag, ParentsStored
  <2>2. /\ robj \in RepoObjects /\ robj.DockerfileIds = repo[r].DockerfileIds
        /\ robj.DockerImageIds = repo[r].DockerImageIds /\ robj.FlagIds \subseteq repo[r].FlagIds
    BY <1>0, <2>1 DEF LiveAreObjects, RepoObjects
  <2> HIDE DEF r, robj
  <2> QED  BY <1>28, <1>purge, <2>1, <2>2, FlagDeleted
<1>29. CASE FlagStep
  BY <1>29, <1>28, <1>same DEF FlagStep, remFlag_Aborted
<1>30. CASE \E p \in Paths : AbandonedUpload(p)
  BY <1>30, <1>same DEF AbandonedUpload
<1>31. CASE UNCHANGED vars
  BY <1>31, <1>same DEF vars
<1> QED  BY <1>12, <1>20, <1>27, <1>29, <1>30, <1>31 DEF Next

\* No repo lists two images, flags or dockerfiles with one name, whatever
\* failed requests have left behind.
THEOREM NamesHold == Spec => []NamesUnique
<1>1. Init => NamesUnique
  BY DEF Init, NamesUnique, Live
<1>2. Structure /\ Structure' /\ NamesUnique /\ [Next]_vars => NamesUnique'
  BY NextNames
<1> QED  BY <1>1, <1>2, StructureHolds, PTL DEF Spec

-----------------------------------------------------------------------------
(***************************************************************************)
(* Files, of a server that keeps its objects in memory.                    *)
(***************************************************************************)

\* What dockerfiles and flags there are but x were there, with their files.
DockerfilesStayBut(x) ==
    \A d \in Live(dockerfile') \ {x} :
       d \in Live(dockerfile) /\ dockerfile'[d].FilePath = dockerfile[d].FilePath
FlagsStayBut(x) ==
    \A f \in Live(flag') \ {x} :
       f \in Live(flag) /\ flag'[f].SuccessImagePath = flag[f].SuccessImagePath
DockerfilesStay ==
    \A d \in Live(dockerfile') :
       d \in Live(dockerfile) /\ dockerfile'[d].FilePath = dockerfile[d].FilePath
FlagsStay ==
    \A f \in Live(flag') :
       f \in Live(flag) /\ flag'[f].SuccessImagePath = flag[f].SuccessImagePath

\* A dockerfile that is written has the uploaded file, or the one it had;
LEMMA DockerfileUploaded ==
    ASSUME FilesKept, inMemoryOnly' = inMemoryOnly, NEW x, NEW p, p \notin files,
           dockerfile'[x].FilePath = p, DockerfilesStayBut(x), FlagsStay,
           files \cup {p} \subseteq files'
    PROVE  FilesKept'
BY DEF FilesKept, DockerfilesStayBut, FlagsStay

\* or it has the uploaded file in place of one that goes;
LEMMA DockerfileReplaced ==
    ASSUME FilesKept, inMemoryOnly' = inMemoryOnly, NEW x \in Live(dockerfile), NEW p,
           p \notin files, dockerfile'[x].FilePath = p, DockerfilesStayBut(x), FlagsStay,
           files' = (files \cup {p}) \ {dockerfile[x].FilePath}
    PROVE  FilesKept'
BY DEF FilesKept, DockerfilesStayBut, FlagsStay

\* a new flag has the uploaded file;
LEMMA FlagUploaded ==
    ASSUME FilesKept, inMemoryOnly' = inMemoryOnly, NEW x, NEW p, p \notin files,
           flag'[x].SuccessImagePath = p, FlagsStayBut(x), DockerfilesStay,
           files \cup {p} \subseteq files'
    PROVE  FilesKept'
BY DEF FilesKept, FlagsStayBut, DockerfilesStay

\* the flags that go take their files with them.
LEMMA FlagFilesRemoved ==
    ASSUME FilesKept, inMemoryOnly' = inMemoryOnly, NEW fs \in SUBSET Live(flag),
           DockerfilesStay, FlagsStay, fs \cap Live(flag') = {},
           files' = files \ {flag[f].SuccessImagePath : f \in fs}
    PROVE  FilesKept'
BY DEF FilesKept, FlagsStay, DockerfilesStay

\* Where files and what has them stay, so does the property.
LEMMA FilesStay ==
    ASSUME FilesKept, inMemoryOnly' = inMemoryOnly, DockerfilesStay, FlagsStay, UNCHANGED files
    PROVE  FilesKept'
BY DEF FilesKept, FlagsStay, DockerfilesStay

LEMMA SameStay ==
    /\ UNCHANGED dockerfile => DockerfilesStay
    /\ UNCHANGED flag => FlagsStay
BY DEF DockerfilesStay, FlagsStay

\* One dockerfile or flag is written.
LEMMA OneDockerfileWritten ==
    ASSUME TypeOK, NEW d \in Dockerfiles, NEW obj, dockerfile' = [dockerfile EXCEPT ![d] = obj]
    PROVE  dockerfile'[d] = obj /\ DockerfilesStayBut(d)
<1>1. dockerfile \in [Dockerfiles -> DockerfileObjects \cup {NewId}]
  BY DEF TypeOK
<1> QED  BY <1>1 DEF DockerfilesStayBut, Live

LEMMA OneFlagWritten ==
    ASSUME TypeOK, NEW f \in Flags, NEW obj, flag' = [flag EXCEPT ![f] = obj]
    PROVE  flag'[f] = obj /\ FlagsStayBut(f)
<1>1. flag \in [Flags -> FlagObjects \cup {NewId, Deleted}]
  BY DEF TypeOK
<1> QED  BY <1>1 DEF FlagsStayBut, Live

\* Every step keeps the files.
LEMMA NextFiles == Structure /\ Structure' /\ FilesKept /\ [Next]_vars => FilesKept'
<1> SUFFICES ASSUME Structure, Structure', FilesKept, [Next]_vars PROVE FilesKept'
  OBVIOUS
<1>0. /\ TypeOK /\ TypeOK' /\ LiveAreObjects /\ LiveAreObjects' /\ ParentsStored
      /\ ChildrenListed /\ inMemoryOnly' = inMemoryOnly
  BY LiveObjects, LiveObjectsNext, ModeKept DEF Structure
<1>redis. ASSUME ~inMemoryOnly PROVE FilesKept'
  BY <1>0, <1>redis DEF FilesKept
<1>same. ASSUME UNCHANGED <<dockerfile, flag, files>> PROVE FilesKept'
  BY <1>0, <1>same, SameStay, FilesStay
\* A dockerfile is made, or a flag.
<1>docker. ASSUME NEW d \in Dockerfiles, NEW obj, NEW p, p \notin files, obj.FilePath = p,
                  files' = files \cup {p}, dockerfile' = [dockerfile EXCEPT ![d] = obj],
                  UNCHANGED flag
           PROVE  FilesKept'
  <2>1. dockerfile'[d] = obj /\ DockerfilesStayBut(d)
    BY <1>0, <1>docker, OneDockerfileWritten
  <2>2. FlagsStay /\ files \cup {p} \subseteq files'
    BY <1>docker, SameStay
  <2> QED  BY <1>0, <1>docker, <2>1, <2>2, DockerfileUploaded
<1>flag. ASSUME NEW f \in Flags, NEW obj, NEW p, p \notin files, obj.SuccessImagePath = p,
                files' = files \cup {p}, flag' = [flag EXCEPT ![f] = obj],
                UNCHANGED dockerfile
         PROVE  FilesKept'
  <2>1. flag'[f] = obj /\ FlagsStayBut(f)
    BY <1>0, <1>flag, OneFlagWritten
  <2>2. DockerfilesStay /\ files \cup {p} \subseteq files'
    BY <1>flag, SameStay
  <2> QED  BY <1>0, <1>flag, <2>1, <2>2, FlagUploaded
\* A delete takes the files of the flags fs.
<1>purge. ASSUME NEW cs, NEW fs \in SUBSET Live(flag), NEW is, NEW vs, NEW links,
                 PurgeEffects(cs, fs, is, vs, links),
                 UNCHANGED dockerfile, files' = files \ {flag[f].SuccessImagePath : f \in fs}
          PROVE  FilesKept'
  <2>1. FlagsStay /\ fs \cap Live(flag') = {}
    BY <1>purge DEF PurgeEffects, FlagsStay
  <2> QED  BY <1>0, <1>purge, <2>1, SameStay, FlagFilesRemoved
\* A delete of no flag.
<1>keep. ASSUME NEW cs, NEW is, NEW vs, NEW links,
                PurgeEffects(cs, {}, is, vs, links),
                UNCHANGED <<dockerfile, files>>
         PROVE  FilesKept'
  <2>1. FlagsStay
    BY <1>keep DEF PurgeEffects, FlagsStay
  <2> QED  BY <1>0, <1>keep, <2>1, SameStay, FilesStay
<1>1. ASSUME NEW r \in Repos, createRepo(r) \/ deleteRepo_Aborted(r) \/ deleteRepo_Fails(r)
      PROVE  FilesKept'
  BY <1>1, <1>same, <1>redis DEF createRepo, deleteRepo_Aborted, deleteRepo_Fails
<1>2. ASSUME NEW r \in Repos, deleteRepo(r)
      PROVE  FilesKept'
  <2>1. repo[r].FlagIds \in SUBSET Live(flag)
    <3>1. r \in Live(repo)
      BY <1>2 DEF deleteRepo
    <3> QED  BY <1>0, <3>1 DEF ChildrenListed
  <2>2. /\ files' = files \ {flag[f].SuccessImagePath : f \in repo[r].FlagIds}
        /\ UNCHANGED dockerfile
    BY <1>2, Zenon DEF deleteRepo
  <2>3. \E cs, is, vs, links : PurgeEffects(cs, repo[r].FlagIds, is, vs, links)
    BY <1>2, RepoDeleted, Zenon
  <2> QED  BY <1>purge, <2>1, <2>2, <2>3
<1>3. ASSUME NEW r \in Repos, NEW d \in Dockerfiles, NEW n \in Names, NEW p \in Paths,
             \/ \E via \in Vias : addDockerfile(via, r, d, n, p)
             \/ addDockerfile_NameTaken(r, d, n, p)
      PROVE  FilesKept'
  <2>1. NewDockerfile(r, n, p).FilePath = p
    BY DEF NewDockerfile
  <2>2. /\ p \notin files /\ files' = files \cup {p} /\ UNCHANGED flag
        /\ dockerfile' = [dockerfile EXCEPT ![d] = NewDockerfile(r, n, p)]
    BY <1>3, Zenon DEF addDockerfile, addDockerfile_NameTaken, captureFile
  <2> QED  BY <1>docker, <2>1, <2>2
<1>4. ASSUME NEW r \in Repos, NEW d \in Dockerfiles, NEW dn \in Names, NEW p \in Paths,
             NEW via \in Vias, NEW n \in Names, NEW i \in Images, NEW v \in Versions,
             addAndExecDockerfile(via, r, d, dn, p, n, i, v)
      PROVE  FilesKept'
  <2> DEFINE obj == [NewDockerfile(r, dn, p) EXCEPT !.DockerfileExecEventIds = @ \cup {v}]
  <2>1. obj.FilePath = p
    BY DEF NewDockerfile
  <2>2. /\ p \notin files /\ files' = files \cup {p} /\ UNCHANGED flag
        /\ dockerfile' = [dockerfile EXCEPT ![d] = obj]
    BY <1>4, Zenon DEF addAndExecDockerfile, captureFile, buildDockerfile
  <2> HIDE DEF obj
  <2> QED  BY <1>docker, <2>1, <2>2
<1>5. ASSUME NEW r \in Repos, NEW c \in ScanConfigs, NEW n \in Names, NEW f \in Flags,
             NEW p \in Paths,
             \/ \E via \in Vias : defineScanConfig_WithFlag(via, r, c, n, f, p)
             \/ defineScanConfig_FlagNameTaken(r, c, n, f, p)
      PROVE  FilesKept'
  <2>1. PICK users : /\ p \notin files /\ files' = files \cup {p} /\ UNCHANGED dockerfile
                     /\ flag' = [flag EXCEPT ![f] = NewFlag(r, n, p, users)]
    BY <1>5, Zenon DEF defineScanConfig_WithFlag, defineScanConfig_FlagNameTaken, captureFile
  <2>2. NewFlag(r, n, p, users).SuccessImagePath = p
    BY DEF NewFlag
  <2> QED  BY <1>flag, <2>1, <2>2
<1>6. ASSUME NEW r \in Repos, NEW c \in ScanConfigs, NEW n \in Names, NEW via \in Vias,
             defineScanConfig(via, r, c, n)
      PROVE  FilesKept'
  BY <1>6, <1>same DEF defineScanConfig
<1>7. ASSUME NEW r \in Repos, NEW f \in Flags, NEW n \in Names, NEW p \in Paths,
             \/ \E via \in Vias : defineFlag(via, r, f, n, p)
             \/ defineFlag_NameTaken(r, f, n, p)
      PROVE  FilesKept'
  <2>1. /\ p \notin files /\ files' = files \cup {p} /\ UNCHANGED dockerfile
        /\ flag' = [flag EXCEPT ![f] = NewFlag(r, n, p, {})]
    BY <1>7, Zenon DEF defineFlag, defineFlag_NameTaken, captureFile
  <2>2. NewFlag(r, n, p, {}).SuccessImagePath = p
    BY DEF NewFlag
  <2> QED  BY <1>flag, <2>1, <2>2
<1>8. CASE RepoStep
  BY <1>8, <1>1, <1>2, <1>3, <1>4, <1>5, <1>6, <1>7 DEF RepoStep
<1>9. ASSUME NEW d \in Dockerfiles, NEW n, NEW i,
             remDockerfile(d) \/ execDockerfile_BuildFails(d, n, i)
      PROVE  FilesKept'
  BY <1>9, <1>same DEF remDockerfile, execDockerfile_BuildFails
<1>10. ASSUME NEW d \in Dockerfiles, NEW p \in Paths, replaceDockerfile(d, p)
       PROVE  FilesKept'
  <2> DEFINE obj == [dockerfile[d] EXCEPT !.FilePath = p]
  <2>1. CASE inMemoryOnly
    <3>1. /\ d \in Live(dockerfile) /\ p \notin files /\ UNCHANGED flag
          /\ files' = (files \cup {p}) \ {dockerfile[d].FilePath}
          /\ dockerfile' = [dockerfile EXCEPT ![d] = obj]
      BY <1>10, <2>1 DEF replaceDockerfile, WrittenIfInMemory
    <3>2. obj.FilePath = p
      BY <1>0, <3>1 DEF LiveAreObjects, DockerfileObjects
    <3> HIDE DEF obj
    <3>3. dockerfile'[d] = obj /\ DockerfilesStayBut(d)
      BY <1>0, <3>1, OneDockerfileWritten
    <3> QED  BY <1>0, <3>1, <3>2, <3>3, SameStay, DockerfileReplaced
  <2> QED  BY <2>1, <1>redis
<1>11. ASSUME NEW d \in Dockerfiles, NEW n \in Names, NEW i \in Images, NEW v \in Versions,
              execDockerfile(d, n, i, v)
       PROVE  FilesKept'
  <2> DEFINE obj == [dockerfile[d] EXCEPT !.DockerfileExecEventIds = @ \cup {v}]
  <2>1. /\ d \in Live(dockerfile) /\ UNCHANGED <<flag, files>>
        /\ dockerfile' = [dockerfile EXCEPT ![d] = obj]
    BY <1>11, Zenon DEF execDockerfile, buildDockerfile
  <2>2. obj.FilePath = dockerfile[d].FilePath
    BY <1>0, <2>1 DEF LiveAreObjects, DockerfileObjects
  <2> HIDE DEF obj
  <2>3. DockerfilesStay
    <3>1. dockerfile'[d] = obj /\ DockerfilesStayBut(d)
      BY <1>0, <2>1, OneDockerfileWritten
    <3> QED  BY <2>1, <2>2, <3>1 DEF DockerfilesStay, DockerfilesStayBut
  <2> QED  BY <1>0, <2>1, <2>3, SameStay, FilesStay
<1>12. ASSUME NEW i \in Images, remDockerImage(i)
       PROVE  FilesKept'
  <2>1. PICK links : PurgeEffects({}, {}, {i}, image[i].VersionIds, links)
    BY <1>12, ImageDeleted, Zenon
  <2>2. UNCHANGED <<dockerfile, files>>
    BY <1>12, Zenon DEF remDockerImage
  <2> QED  BY <1>keep, <2>1, <2>2
<1>26. ASSUME NEW i \in Images, remDockerImage_Fails(i)
       PROVE  FilesKept'
  <2>1. PICK vs, links : PurgeEffects({}, {}, {}, vs, links)
    BY <1>26, ImageFails, Zenon
  <2>2. UNCHANGED <<dockerfile, files>>
    BY <1>26, Zenon DEF remDockerImage_Fails
  <2> QED  BY <1>keep, <2>1, <2>2
<1>13. ASSUME NEW v \in Versions, remImageVersion(v)
       PROVE  FilesKept'
  BY <1>13, <1>keep, VersionDeleted DEF remImageVersion
<1>14. ASSUME NEW v \in Versions,
              \/ remImageVersion_DockerFails(v)
              \/ \E c \in ScanConfigs, e \in ScanEvents : scanImage(c, v, e)
       PROVE  FilesKept'
  BY <1>14, <1>same DEF remImageVersion_DockerFails, scanImage
<1>15. CASE DockerStep
  BY <1>15, <1>9, <1>10, <1>11, <1>12, <1>13, <1>14, <1>26 DEF DockerStep
<1>16. ASSUME NEW c \in ScanConfigs, remScanConfig(c)
       PROVE  FilesKept'
  <2>1. PICK links : PurgeEffects({c}, {}, {}, {}, links)
    BY <1>16, ScanConfigDeleted, Zenon
  <2>2. UNCHANGED <<dockerfile, files>>
    BY <1>16, Zenon DEF remScanConfig
  <2> QED  BY <1>keep, <2>1, <2>2
<1>17. ASSUME NEW c \in ScanConfigs, remScanConfig_Fails(c)
       PROVE  FilesKept'
  <2>1. FlagsStay
    <3>1. CASE /\ FlagReadable(c)
               /\ flag' = [f \in Flags |->
                    IF f = scanConfig[c].FlagId
                    THEN [flag[f] EXCEPT !.UsedByScanConfigIds = @ \ {c}] ELSE flag[f]]
      <4>1. ASSUME NEW f \in Live(flag')
            PROVE  f \in Live(flag) /\ flag'[f].SuccessImagePath = flag[f].SuccessImagePath
        <5>1. f \in Flags
          BY <1>0 DEF LiveAreObjects
        <5>2. CASE f # scanConfig[c].FlagId
          BY <3>1, <5>1, <5>2, <1>0 DEF LiveAreObjects
        <5>3. CASE f = scanConfig[c].FlagId /\ f \in Live(flag)
          BY <3>1, <5>1, <5>3, <1>0 DEF LiveAreObjects, FlagObjects
        <5>4. CASE f = scanConfig[c].FlagId /\ f \notin Live(flag)
          BY <3>1, <5>1, <5>4, RepoConstants DEF FlagReadable
        <5> QED  BY <5>2, <5>3, <5>4
      <4> QED  BY <4>1 DEF FlagsStay
    <3> QED  BY <1>17, <3>1, SameStay DEF remScanConfig_Fails
  <2>2. UNCHANGED <<dockerfile, files>>
    BY <1>17 DEF remScanConfig_Fails
  <2> QED  BY <1>0, <2>1, <2>2, SameStay, FilesStay
<1>18. ASSUME NEW c \in ScanConfigs, NEW i, NEW n,
              \/ useScanConfigForImage(c, i) \/ stopUsingScanConfigForImage(c, i)
              \/ useScanConfigForImage_NotAnImage(c, i)
              \/ stopUsingScanConfigForImage_NotAnImage(c, i)
              \/ updateScanConfig(c, n)
       PROVE  FilesKept'
  BY <1>18, <1>same DEF useScanConfigForImage, stopUsingScanConfigForImage,
     useScanConfigForImage_NotAnImage, stopUsingScanConfigForImage_NotAnImage, updateScanConfig
<1>19. ASSUME NEW c \in ScanConfigs, NEW n \in Names \cup {NoName}, NEW f \in Flags,
              NEW p \in Paths, updateScanConfig_WithFlag(c, n, f, p)
       PROVE  FilesKept'
  <2> DEFINE r == scanConfig[c].ParentId
  <2>1. /\ p \notin files /\ files' = files \cup {p} /\ UNCHANGED dockerfile /\ FlagReadable(c)
        /\ flag' = [g \in Flags |->
                      IF g = f THEN NewFlag(r, n, p, {c})
                      ELSE IF g = scanConfig[c].FlagId
                      THEN [flag[g] EXCEPT !.UsedByScanConfigIds = @ \ {c}]
                      ELSE flag[g]]
    BY <1>19, Zenon DEF updateScanConfig_WithFlag, captureFile
  <2>2. NewFlag(r, n, p, {c}).SuccessImagePath = p
    BY DEF NewFlag
  <2> HIDE DEF r
  <2>3. flag'[f].SuccessImagePath = p
    BY <2>1, <2>2
  <2>4. ASSUME NEW g \in Live(flag') \ {f}
        PROVE  g \in Live(flag) /\ flag'[g].SuccessImagePath = flag[g].SuccessImagePath
    <3>1. g \in Flags
      BY <1>0 DEF LiveAreObjects
    <3>2. CASE g # scanConfig[c].FlagId
      BY <1>0, <2>1, <3>1, <3>2 DEF LiveAreObjects
    <3>3. CASE g = scanConfig[c].FlagId
      <4>1. g \in Live(flag)
        BY <2>1, <3>1, <3>3, RepoConstants DEF FlagReadable
      <4> QED  BY <1>0, <2>1, <3>1, <3>3, <4>1 DEF LiveAreObjects, FlagObjects
    <3> QED  BY <3>2, <3>3
  <2>5. FlagsStayBut(f)
    BY <2>4 DEF FlagsStayBut
  <2> QED  BY <1>0, <2>1, <2>3, <2>5, SameStay, FlagUploaded
<1>20. ASSUME NEW c \in ScanConfigs, NEW n \in Names \cup {NoName}, NEW f \in Flags,
              NEW p \in Paths, updateScanConfig_Fails(c, n, f, p)
       PROVE  FilesKept'
  <2>1. /\ p \notin files /\ files' = files \cup {p} /\ UNCHANGED dockerfile
        /\ flag' = [flag EXCEPT ![f] = NewFlag(scanConfig[c].ParentId, n, p, {})]
    BY <1>20, Zenon DEF updateScanConfig_Fails, captureFile
  <2>2. NewFlag(scanConfig[c].ParentId, n, p, {}).SuccessImagePath = p
    BY DEF NewFlag
  <2> QED  BY <1>flag, <2>1, <2>2
<1>21. CASE ScanConfigStep
  BY <1>21, <1>16, <1>17, <1>18, <1>19, <1>20 DEF ScanConfigStep
<1>22. ASSUME NEW f \in Flags, remFlag(f)
       PROVE  FilesKept'
  <2>1. /\ f \in Live(flag) /\ UNCHANGED dockerfile
        /\ files' = files \ {flag[f].SuccessImagePath}
    BY <1>22 DEF remFlag
  <2>2. files' = files \ {flag[g].SuccessImagePath : g \in {f}}
    BY <2>1
  <2> QED  BY <1>22, <1>purge, <2>1, <2>2, FlagDeleted
<1>23. CASE FlagStep
  BY <1>23, <1>22, <1>redis DEF FlagStep, remFlag_Aborted
<1>24. CASE \E p \in Paths : AbandonedUpload(p)
  <2>1. DockerfilesStay /\ FlagsStay
    BY <1>24, SameStay DEF AbandonedUpload
  <2>2. files \subseteq files'
    BY <1>24 DEF AbandonedUpload, captureFile
  <2> QED  BY <1>0, <2>1, <2>2 DEF FilesKept, DockerfilesStay, FlagsStay
<1>25. CASE UNCHANGED vars
  BY <1>25, <1>same DEF vars
<1> QED  BY <1>8, <1>15, <1>21, <1>23, <1>24, <1>25 DEF Next

\* With -inmem every dockerfile and flag has a file of its own, and it is
\* there, whatever is uploaded, replaced, deleted and left by failed requests.
THEOREM FilesHold == Spec => []FilesKept
<1>1. Init => FilesKept
  BY DEF Init, FilesKept, Live
<1>2. Structure /\ Structure' /\ FilesKept /\ [Next]_vars => FilesKept'
  BY NextFiles
<1> QED  BY <1>1, <1>2, StructureHolds, PTL DEF Spec
-----------------------------------------------------------------------------
(***************************************************************************)
(* What deletes leave of links.                                            *)
(***************************************************************************)

\* Loops miss fewer than half of the ids of a list.
LEMMA FewMissed ==
    ASSUME NEW all, IsFiniteSet(all), NEW ids \in SUBSET all, NEW reached \in Walked(ids),
           NEW left \in SUBSET (ids \ reached)
    PROVE  Few(left, all)
<1>1. CASE reached = ids
  BY <1>1 DEF Few
<1>2. CASE 2 * Cardinality(ids \ reached) \in {Cardinality(ids) - 1, Cardinality(ids) - 2}
  <2>1. IsFiniteSet(ids) /\ Cardinality(ids) <= Cardinality(all)
    BY FS_Subset
  <2>2. ids \ reached \in SUBSET ids
    OBVIOUS
  <2>3. IsFiniteSet(ids \ reached)
    BY <2>1, <2>2, FS_Subset
  <2>4. IsFiniteSet(left) /\ Cardinality(left) <= Cardinality(ids \ reached)
    BY <2>3, FS_Subset
  <2>5. /\ Cardinality(all) \in Nat /\ Cardinality(ids) \in Nat
        /\ Cardinality(ids \ reached) \in Nat /\ Cardinality(left) \in Nat
    BY <2>1, <2>3, <2>4, FS_CardinalityType
  <2> HIDE <1>2
  <2>6. 2 * Cardinality(left) < Cardinality(all)
    BY <1>2, <2>1, <2>4, <2>5
  <2> QED  BY <2>6 DEF Few
<1> QED  BY <1>1, <1>2 DEF Walked

\* What DeletesUnlink says of a step.
Unlinks ==
    /\ \A c \in Live(scanConfig) \ Live(scanConfig') :
         Few({i \in Live(image') : c \in image'[i].ScanConfigsToUse},
             scanConfig[c].DockerImageIdsThatUse)
    /\ \A i \in Live(image) \ Live(image') :
         Few({c \in Live(scanConfig') : i \in scanConfig'[c].DockerImageIdsThatUse},
             image[i].ScanConfigsToUse)

\* The loops of a delete go by one of the two lists; since links agree, what they
\* miss are all that go on naming what is deleted.
LEMMA PurgeUnlinks ==
    ASSUME Structure, NEW cs, NEW fs, NEW is, NEW vs, NEW unlinked \in WalksOfScanConfigs(cs),
           NEW more \in WalksOfImages(is, unlinked),
           PurgeEffects(cs, fs, is, vs, unlinked \cup more)
    PROVE  Unlinks
<1>0. TypeOK /\ LiveAreObjects /\ ScanLinksAgree
  BY LiveObjects DEF Structure, LinksHold
<1>1. /\ Live(scanConfig') = Live(scanConfig) \ cs /\ Live(image') = Live(image) \ is
      /\ \A c \in Live(scanConfig') :
           scanConfig'[c].DockerImageIdsThatUse =
             scanConfig[c].DockerImageIdsThatUse \ {i \in Images : <<c, i>> \in unlinked \cup more}
      /\ \A i \in Live(image') :
           image'[i].ScanConfigsToUse =
             image[i].ScanConfigsToUse \ {c \in ScanConfigs : <<c, i>> \in unlinked \cup more}
  BY DEF PurgeEffects
<1>2. ASSUME NEW c \in Live(scanConfig) \ Live(scanConfig')
      PROVE  Few({i \in Live(image') : c \in image'[i].ScanConfigsToUse},
                 scanConfig[c].DockerImageIdsThatUse)
  <2> DEFINE all == scanConfig[c].DockerImageIdsThatUse
             reached == {i \in Images : <<c, i>> \in unlinked}
             left == {i \in Live(image') : c \in image'[i].ScanConfigsToUse}
  <2>1. c \in cs /\ c \in ScanConfigs /\ all \in SUBSET (Images \cup Dockerfiles)
    BY <1>0, <1>1 DEF LiveAreObjects, ScanConfigObjects
  <2>2. IsFiniteSet(all)
    BY <2>1, FiniteIds, FS_Union, FS_Subset
  <2>3. reached \in Walked(all)
    BY <2>1 DEF WalksOfScanConfigs
  <2>4. ASSUME NEW i \in left
        PROVE  i \in all \ reached
    <3>1. i \in Live(image) /\ i \in Images /\ c \in image[i].ScanConfigsToUse
      BY <1>0, <1>1 DEF LiveAreObjects
    <3>2. <<c, i>> \notin unlinked
      BY <1>1, <2>1
    <3> QED  BY <1>0, <3>1, <3>2 DEF ScanLinksAgree
  <2> HIDE DEF all, reached, left
  <2>5. left \in SUBSET (all \ reached)
    BY <2>4
  <2>6. Few(left, all)
    BY <2>2, <2>3, <2>5, FewMissed
  <2> QED  BY <2>6 DEF left, all
<1>3. ASSUME NEW i \in Live(image) \ Live(image')
      PROVE  Few({c \in Live(scanConfig') : i \in scanConfig'[c].DockerImageIdsThatUse},
                 image[i].ScanConfigsToUse)
  <2> DEFINE all == image[i].ScanConfigsToUse
             ids == {c \in all : <<c, i>> \notin unlinked}
             reached == {c \in ScanConfigs : <<c, i>> \in more}
             left == {c \in Live(scanConfig') : i \in scanConfig'[c].DockerImageIdsThatUse}
  <2>1. i \in is /\ i \in Images /\ all \in SUBSET ScanConfigs
    BY <1>0, <1>1 DEF LiveAreObjects, ImageObjects
  <2>2. IsFiniteSet(all)
    BY <2>1, FiniteIds, FS_Subset
  <2>3. reached \in Walked(ids)
    BY <2>1 DEF WalksOfImages
  <2>4. ASSUME NEW c \in left
        PROVE  c \in ids \ reached
    <3>1. /\ c \in Live(scanConfig) /\ c \notin cs
          /\ i \in scanConfig[c].DockerImageIdsThatUse /\ <<c, i>> \notin unlinked \cup more
      BY <1>1, <2>1
    <3> QED  BY <1>0, <3>1 DEF ScanLinksAgree
  <2> HIDE DEF all, ids, reached, left
  <2>5. left \in SUBSET (ids \ reached)
    BY <2>4
  <2>6. ids \in SUBSET all
    BY DEF ids
  <2>7. Few(left, all)
    BY <2>2, <2>3, <2>5, <2>6, FewMissed
  <2> QED  BY <2>7 DEF left, all
<1> QED  BY <1>2, <1>3 DEF Unlinks


\* An object that is written stays stored,
LEMMA WrittenStays ==
    ASSUME NEW f, NEW x, NEW obj \in ScanConfigObjects \cup ImageObjects
    PROVE  Live(f) \subseteq Live([f EXCEPT ![x] = obj])
<1>1. obj \in Objects
  BY DEF Objects
<1>2. obj \notin {NewId, Deleted}
  BY <1>1, RepoConstants, Zenon
<1> QED  BY <1>2 DEF Live

\* and a step that deletes no configuration or image leaves them all stored.
AllStay == Live(scanConfig) \subseteq Live(scanConfig') /\ Live(image) \subseteq Live(image')

LEMMA BuildStays ==
    ASSUME LiveAreObjects, NEW d, NEW obj, NEW r \in Repos, NEW robj,
           robj.DockerImageIds \subseteq Live(image), NEW n \in Names, NEW i \in Images,
           NEW v \in Versions, buildDockerfile(d, obj, r, robj, n, i, v)
    PROVE  AllStay
<1> DEFINE iobj == IF image[i] = NewId THEN NewDockerImage(r, n) ELSE image[i]
           inew == [iobj EXCEPT !.VersionIds = @ \cup {v}]
<1>1. /\ i \in Live(image) \/ image[i] = NewId
      /\ image' = [image EXCEPT ![i] = inew] /\ UNCHANGED scanConfig
  BY DEF buildDockerfile
<1>2. NewDockerImage(r, n) \in ImageObjects
  BY DEF NewDockerImage, ImageObjects
<1>3. iobj \in ImageObjects
  BY <1>1, <1>2 DEF LiveAreObjects
<1> HIDE DEF iobj
<1>4. inew \in ImageObjects
  BY <1>3 DEF ImageObjects
<1> HIDE DEF inew
<1> QED  BY <1>1, <1>4, WrittenStays DEF AllStay

LEMMA RepoStepStays ==
    ASSUME Structure, RepoStep, \A r \in Repos : ~deleteRepo(r)
    PROVE  AllStay
<1>0. LiveAreObjects /\ ChildrenListed /\ TypeOK
  BY LiveObjects DEF Structure
<1>same. ASSUME UNCHANGED <<scanConfig, image>> PROVE AllStay
  BY <1>same DEF AllStay
<1>1. ASSUME NEW r \in Repos, createRepo(r) \/ deleteRepo_Aborted(r) \/ deleteRepo_Fails(r)
      PROVE  AllStay
  BY <1>1, <1>same DEF createRepo, deleteRepo_Aborted, deleteRepo_Fails
<1>2. ASSUME NEW r, NEW d, NEW f, NEW n, NEW p, NEW via,
             \/ addDockerfile(via, r, d, n, p) \/ addDockerfile_NameTaken(r, d, n, p)
             \/ defineFlag(via, r, f, n, p) \/ defineFlag_NameTaken(r, f, n, p)
      PROVE  AllStay
  <2>1. UNCHANGED <<scanConfig, image>>
    BY <1>2, Zenon DEF addDockerfile, addDockerfile_NameTaken, defineFlag, defineFlag_NameTaken
  <2> QED  BY <1>same, <2>1
<1>3. ASSUME NEW r \in Repos, NEW d \in Dockerfiles, NEW n \in Names, NEW p \in Paths,
             NEW via \in Vias, NEW m \in Names, NEW i \in Images, NEW v \in Versions,
             addAndExecDockerfile(via, r, d, n, p, m, i, v)
      PROVE  AllStay
  <2> DEFINE robj == [Base(via, r) EXCEPT !.DockerfileIds = @ \cup {d}]
  <2>1. robj.DockerImageIds \subseteq Live(image)
    BY <1>0, BaseRepo DEF RepoObjects, ChildrenListed
  <2>2. buildDockerfile(d, NewDockerfile(r, n, p), r, robj, m, i, v)
    BY <1>3 DEF addAndExecDockerfile
  <2> HIDE DEF robj
  <2> QED  BY <1>0, <2>1, <2>2, BuildStays
<1>new. ASSUME NEW r \in Repos, NEW c, NEW n \in Names, NEW f \in Flags \cup {NoId},
               UNCHANGED image, scanConfig' = [scanConfig EXCEPT ![c] = NewScanConfig(r, n, f)]
        PROVE  AllStay
  <2>1. NewScanConfig(r, n, f) \in ScanConfigObjects
    BY DEF NewScanConfig, ScanConfigObjects
  <2> QED  BY <1>new, <2>1, WrittenStays DEF AllStay
<1>4. ASSUME NEW r \in Repos, NEW c \in ScanConfigs, NEW n \in Names, NEW via,
             defineScanConfig(via, r, c, n)
      PROVE  AllStay
  <2>1. /\ UNCHANGED image
        /\ scanConfig' = [scanConfig EXCEPT ![c] = NewScanConfig(r, n, NoId)]
    BY <1>4, Zenon DEF defineScanConfig
  <2> QED  BY <1>new, <2>1
<1>5. ASSUME NEW r \in Repos, NEW c \in ScanConfigs, NEW n \in Names, NEW f \in Flags, NEW p,
             NEW via, \/ defineScanConfig_WithFlag(via, r, c, n, f, p)
                      \/ defineScanConfig_FlagNameTaken(r, c, n, f, p)
      PROVE  AllStay
  <2>1. UNCHANGED image
    BY <1>5, Zenon DEF defineScanConfig_WithFlag, defineScanConfig_FlagNameTaken
  <2>2. \E g \in {NoId, f} : scanConfig' = [scanConfig EXCEPT ![c] = NewScanConfig(r, n, g)]
    BY <1>5, Zenon DEF defineScanConfig_WithFlag, defineScanConfig_FlagNameTaken
  <2> QED  BY <1>new, <2>1, <2>2
<1>6. PICK r \in Repos :
         \/ createRepo(r) \/ deleteRepo(r) \/ deleteRepo_Aborted(r) \/ deleteRepo_Fails(r)
         \/ \E d \in Dockerfiles, n \in Names, p \in Paths :
              \/ \E via \in Vias : addDockerfile(via, r, d, n, p)
              \/ addDockerfile_NameTaken(r, d, n, p)
              \/ \E via \in Vias, m \in Names, i \in Images, v \in Versions :
                    addAndExecDockerfile(via, r, d, n, p, m, i, v)
         \/ \E c \in ScanConfigs, n \in Names :
              \/ \E via \in Vias : defineScanConfig(via, r, c, n)
              \/ \E f \in Flags, p \in Paths :
                   \/ \E via \in Vias : defineScanConfig_WithFlag(via, r, c, n, f, p)
                   \/ defineScanConfig_FlagNameTaken(r, c, n, f, p)
         \/ \E f \in Flags, n \in Names, p \in Paths :
              \/ \E via \in Vias : defineFlag(via, r, f, n, p)
              \/ defineFlag_NameTaken(r, f, n, p)
  BY Zenon DEF RepoStep
<1> QED  BY <1>1, <1>2, <1>3, <1>4, <1>5, <1>6, Zenon

LEMMA DockerStepStays ==
    ASSUME Structure, TypeOK', DockerStep, \A i \in Images : ~remDockerImage(i)
    PROVE  AllStay
<1>0. LiveAreObjects /\ ChildrenListed /\ ParentsStored /\ TypeOK
  BY LiveObjects DEF Structure
<1>same. ASSUME UNCHANGED <<scanConfig, image>> PROVE AllStay
  BY <1>same DEF AllStay
<1>1. ASSUME NEW d, NEW p, NEW v, \/ remDockerfile(d) \/ replaceDockerfile(d, p)
                                   \/ remImageVersion_DockerFails(v)
      PROVE  AllStay
  <2>1. UNCHANGED <<scanConfig, image>>
    BY <1>1, Zenon DEF remDockerfile, replaceDockerfile, remImageVersion_DockerFails
  <2> QED  BY <1>same, <2>1
<1>2. ASSUME NEW d \in Dockerfiles, NEW n \in Names, NEW i \in Images,
             execDockerfile_BuildFails(d, n, i)
      PROVE  AllStay
  <2>1. dockerfile[d].ParentId \in Repos
    BY <1>0, <1>2 DEF execDockerfile_BuildFails, ParentsStored, LiveAreObjects
  <2>2. NewDockerImage(dockerfile[d].ParentId, n) \in ImageObjects
    BY <2>1 DEF NewDockerImage, ImageObjects
  <2>3. /\ UNCHANGED scanConfig
        /\ image' = [image EXCEPT ![i] = NewDockerImage(dockerfile[d].ParentId, n)]
    BY <1>2 DEF execDockerfile_BuildFails
  <2> QED  BY <2>2, <2>3, WrittenStays DEF AllStay
<1>3. ASSUME NEW d \in Dockerfiles, NEW n \in Names, NEW i \in Images, NEW v \in Versions,
             execDockerfile(d, n, i, v)
      PROVE  AllStay
  <2>1. dockerfile[d].ParentId \in Live(repo) /\ dockerfile[d].ParentId \in Repos
    BY <1>0, <1>3 DEF execDockerfile, ParentsStored, LiveAreObjects
  <2>2. repo[dockerfile[d].ParentId].DockerImageIds \subseteq Live(image)
    BY <1>0, <2>1 DEF ChildrenListed
  <2> QED  BY <1>0, <1>3, <2>1, <2>2, BuildStays DEF execDockerfile
<1>4. ASSUME NEW vs, NEW links, PurgeEffects({}, {}, {}, vs, links)
      PROVE  AllStay
  BY <1>4 DEF PurgeEffects, AllStay
<1>5. ASSUME NEW i \in Images, remDockerImage_Fails(i)
      PROVE  AllStay
  BY <1>4, <1>5, ImageFails, Zenon
<1>6. ASSUME NEW v \in Versions, remImageVersion(v)
      PROVE  AllStay
  BY <1>4, <1>6, VersionDeleted, Zenon
<1>7. ASSUME NEW c \in ScanConfigs, NEW v \in Versions, NEW e \in ScanEvents, scanImage(c, v, e)
      PROVE  AllStay
  <2>1. [scanConfig[c] EXCEPT !.ScanEventIds = @ \cup {e}] \in ScanConfigObjects
    BY <1>0, <1>7 DEF scanImage, LiveAreObjects, ScanConfigObjects
  <2>2. /\ UNCHANGED image
        /\ scanConfig' = [scanConfig EXCEPT ![c] = [scanConfig[c] EXCEPT !.ScanEventIds = @ \cup {e}]]
    BY <1>7 DEF scanImage
  <2> QED  BY <2>1, <2>2, WrittenStays DEF AllStay
<1> QED  BY <1>1, <1>2, <1>3, <1>5, <1>6, <1>7 DEF DockerStep

LEMMA ScanConfigStepStays ==
    ASSUME Structure, ScanConfigStep, \A c \in ScanConfigs : ~remScanConfig(c)
    PROVE  AllStay
<1>0. LiveAreObjects /\ TypeOK
  BY LiveObjects DEF Structure
<1>write. ASSUME NEW c, NEW obj \in ScanConfigObjects, UNCHANGED image,
                 scanConfig' = [scanConfig EXCEPT ![c] = obj]
          PROVE  AllStay
  BY <1>write, WrittenStays DEF AllStay
<1>1. ASSUME NEW c \in Live(scanConfig), NEW n \in Names \cup {NoName}, NEW f \in Flags
      PROVE  /\ Renamed(c, n) \in ScanConfigObjects
             /\ [Renamed(c, n) EXCEPT !.FlagId = f] \in ScanConfigObjects
  <2>1. scanConfig[c] \in ScanConfigObjects
    BY <1>0 DEF LiveAreObjects
  <2>2. Renamed(c, n) \in ScanConfigObjects
    BY <2>1 DEF Renamed, ScanConfigObjects
  <2> QED  BY <2>2 DEF ScanConfigObjects
<1>2. ASSUME NEW c \in ScanConfigs, NEW n \in Names, updateScanConfig(c, n)
      PROVE  AllStay
  <2>1. scanConfig[c] \in ScanConfigObjects
    BY <1>0, <1>2 DEF updateScanConfig, LiveAreObjects
  <2>2. Renamed(c, n) \in ScanConfigObjects
    BY <2>1 DEF Renamed, ScanConfigObjects
  <2> QED  BY <1>2, <1>write, <2>2 DEF updateScanConfig
<1>3. ASSUME NEW c \in ScanConfigs, NEW n \in Names \cup {NoName}, NEW f \in Flags, NEW p,
             updateScanConfig_WithFlag(c, n, f, p)
      PROVE  AllStay
  <2>1. /\ c \in Live(scanConfig) /\ UNCHANGED image
        /\ scanConfig' = [scanConfig EXCEPT ![c] = [Renamed(c, n) EXCEPT !.FlagId = f]]
    BY <1>3, Zenon DEF updateScanConfig_WithFlag
  <2> QED  BY <1>1, <1>write, <2>1
<1>4. ASSUME NEW c \in ScanConfigs, NEW n \in Names \cup {NoName}, NEW f \in Flags, NEW p,
             updateScanConfig_Fails(c, n, f, p)
      PROVE  AllStay
  <2>1. /\ c \in Live(scanConfig) /\ UNCHANGED image
        /\ scanConfig' = [scanConfig EXCEPT ![c] = Renamed(c, n)]
    BY <1>4, Zenon DEF updateScanConfig_Fails
  <2> QED  BY <1>1, <1>write, <2>1
\* Both sides of a link are written.
<1>5. ASSUME NEW c \in ScanConfigs, NEW x \in Images \cup Dockerfiles,
             \/ useScanConfigForImage(c, x) \/ stopUsingScanConfigForImage(c, x)
             \/ useScanConfigForImage_NotAnImage(c, x)
             \/ stopUsingScanConfigForImage_NotAnImage(c, x)
      PROVE  AllStay
  <2>1. c \in Live(scanConfig) /\ scanConfig[c] \in ScanConfigObjects
    BY <1>0, <1>5 DEF LiveAreObjects, useScanConfigForImage, stopUsingScanConfigForImage,
       useScanConfigForImage_NotAnImage, stopUsingScanConfigForImage_NotAnImage
  <2>2. /\ [scanConfig[c] EXCEPT !.DockerImageIdsThatUse = @ \cup {x}] \in ScanConfigObjects
        /\ [scanConfig[c] EXCEPT !.DockerImageIdsThatUse = @ \ {x}] \in ScanConfigObjects
    BY <2>1 DEF ScanConfigObjects
  <2>3. \E obj \in ScanConfigObjects : scanConfig' = [scanConfig EXCEPT ![c] = obj]
    BY <1>5, <2>2 DEF useScanConfigForImage, stopUsingScanConfigForImage,
       useScanConfigForImage_NotAnImage, stopUsingScanConfigForImage_NotAnImage
  <2>4. x \in Live(image) =>
          /\ [image[x] EXCEPT !.ScanConfigsToUse = @ \cup {c}] \in ImageObjects
          /\ [image[x] EXCEPT !.ScanConfigsToUse = @ \ {c}] \in ImageObjects
    BY <1>0 DEF LiveAreObjects, ImageObjects
  <2>5. \/ UNCHANGED image
        \/ \E obj \in ImageObjects : image' = [image EXCEPT ![x] = obj]
    BY <1>5, <2>4 DEF useScanConfigForImage, stopUsingScanConfigForImage,
       useScanConfigForImage_NotAnImage, stopUsingScanConfigForImage_NotAnImage
  <2>6. Live(scanConfig) \subseteq Live(scanConfig')
    BY <2>3, WrittenStays
  <2>7. Live(image) \subseteq Live(image')
    BY <2>5, WrittenStays
  <2> QED  BY <2>6, <2>7 DEF AllStay
<1>6. ASSUME NEW c \in ScanConfigs, remScanConfig_Fails(c)
      PROVE  AllStay
  <2>1. CASE UNCHANGED <<scanConfig, image>>
    BY <2>1 DEF AllStay
  <2>2. ASSUME NEW is \in SUBSET Live(image), NEW ids,
               scanConfig' = [scanConfig EXCEPT ![c].DockerImageIdsThatUse = @ \ ids],
               image' = [i \in Images |->
                    IF i \in is THEN [image[i] EXCEPT !.ScanConfigsToUse = @ \ {c}] ELSE image[i]]
        PROVE  AllStay
    <3>1. scanConfig[c] \in ScanConfigObjects
      BY <1>0, <1>6 DEF remScanConfig_Fails, LiveAreObjects
    <3>2. [scanConfig[c] EXCEPT !.DockerImageIdsThatUse = @ \ ids] \in ScanConfigObjects
      BY <3>1 DEF ScanConfigObjects
    <3>3. Live(scanConfig) \subseteq Live(scanConfig')
      BY <2>2, <3>2, WrittenStays
    <3>4. \A i \in is : [image[i] EXCEPT !.ScanConfigsToUse = @ \ {c}] \in ImageObjects
      BY <1>0 DEF LiveAreObjects, ImageObjects
    <3>5. ImageObjects \cap {NewId, Deleted} = {}
      BY RepoConstants, Zenon DEF Objects
    <3>6. Live(image) \subseteq Live(image')
      BY <1>0, <2>2, <3>4, <3>5 DEF Live, TypeOK
    <3> QED  BY <3>3, <3>6 DEF AllStay
  <2>3. ASSUME NEW x, NEW is \in SUBSET (scanConfig[c].DockerImageIdsThatUse \cap Live(image)),
               scanConfig' = [scanConfig EXCEPT ![c].DockerImageIdsThatUse = @ \ (is \cup {x})],
               image' = [i \in Images |->
                    IF i \in is THEN [image[i] EXCEPT !.ScanConfigsToUse = @ \ {c}] ELSE image[i]]
        PROVE  AllStay
    <3>1. is \in SUBSET Live(image)
      OBVIOUS
    <3> QED  BY <2>2, <2>3, <3>1
  <2> QED  BY <1>6, <2>1, <2>3, Zenon DEF remScanConfig_Fails
<1> QED  BY <1>2, <1>3, <1>4, <1>5, <1>6 DEF ScanConfigStep

LEMMA NextUnlinks == Structure /\ Structure' /\ [Next]_vars => Unlinks
<1> SUFFICES ASSUME Structure, Structure', [Next]_vars PROVE Unlinks
  OBVIOUS
<1>0. TypeOK'
  BY DEF Structure
<1>stay. ASSUME AllStay PROVE Unlinks
  BY <1>stay DEF AllStay, Unlinks
<1>1. ASSUME NEW r \in Repos, deleteRepo(r)
      PROVE  Unlinks
  <2>1. PICK cs, links :
          /\ PurgeEffects(cs, repo[r].FlagIds, repo[r].DockerImageIds,
                          UNION {image[i].VersionIds : i \in repo[r].DockerImageIds}, links)
          /\ Purge(repo[r].DockerfileIds, cs, repo[r].FlagIds, repo[r].DockerImageIds,
                   UNION {image[i].VersionIds : i \in repo[r].DockerImageIds}, links)
          /\ repo' = [repo EXCEPT ![r] =
               [EmptyRepo EXCEPT !.DockerfileIds = repo[r].DockerfileIds,
                                 !.ScanConfigIds = repo[r].ScanConfigIds \ cs]]
          /\ cs \subseteq repo[r].ScanConfigIds
          /\ \A f \in repo[r].FlagIds : \A c \in flag[f].UsedByScanConfigIds :
               c \in cs /\ scanConfig[c].FlagId = f
          /\ \E unlinked \in WalksOfScanConfigs(cs) :
             \E more \in WalksOfImages(repo[r].DockerImageIds, unlinked) :
                links = unlinked \cup more
    BY <1>1, RepoDeleted, Zenon
  <2> QED  BY <2>1, PurgeUnlinks
<1>2. ASSUME NEW i \in Images, remDockerImage(i)
      PROVE  Unlinks
  <2>1. PICK links \in WalksOfImages({i}, {}) : PurgeEffects({}, {}, {i}, image[i].VersionIds, links)
    BY <1>2, ImageDeleted, Zenon
  <2>2. {} \in WalksOfScanConfigs({})
    BY DEF WalksOfScanConfigs
  <2>3. links = {} \cup links
    OBVIOUS
  <2> QED  BY <2>1, <2>2, <2>3, PurgeUnlinks
<1>3. ASSUME NEW c \in ScanConfigs, remScanConfig(c)
      PROVE  Unlinks
  <2>1. PICK links \in WalksOfScanConfigs({c}) : PurgeEffects({c}, {}, {}, {}, links)
    BY <1>3, ScanConfigDeleted, Zenon
  <2>2. {} \in WalksOfImages({}, links)
    BY DEF WalksOfImages
  <2>3. links = links \cup {}
    OBVIOUS
  <2> QED  BY <2>1, <2>2, <2>3, PurgeUnlinks
<1>4. CASE RepoStep
  BY <1>stay, <1>1, <1>4, RepoStepStays
<1>5. CASE DockerStep
  BY <1>stay, <1>0, <1>2, <1>5, DockerStepStays
<1>6. CASE ScanConfigStep
  BY <1>stay, <1>3, <1>6, ScanConfigStepStays
<1>7. CASE FlagStep
  <2>1. ASSUME NEW f \in Flags, remFlag(f)
        PROVE  AllStay
    <3>1. PurgeEffects({}, {f}, {}, {}, {})
      BY <2>1, FlagDeleted
    <3> QED  BY <3>1 DEF PurgeEffects, AllStay
  <2>2. ASSUME NEW f \in Flags, remFlag_Aborted(f)
        PROVE  AllStay
    BY <2>2 DEF remFlag_Aborted, AllStay
  <2> QED  BY <1>stay, <1>7, <2>1, <2>2 DEF FlagStep
<1>8. CASE \E p \in Paths : AbandonedUpload(p)
  BY <1>8, <1>stay DEF AbandonedUpload, AllStay
<1>9. CASE UNCHANGED vars
  BY <1>9, <1>stay DEF vars, AllStay
<1> QED  BY <1>4, <1>5, <1>6, <1>7, <1>8, <1>9 DEF Next

\* Whatever is deleted, stored objects that go on naming it are fewer than half
\* of those that its list named, and none if that list was of two or less.
THEOREM DeletesDoUnlink == Spec => DeletesUnlink
<1>1. Structure /\ Structure' /\ [Next]_vars =>
        [/\ \A c \in Live(scanConfig) \ Live(scanConfig)' :
              Few({i \in Live(image)' : c \in image'[i].ScanConfigsToUse},
                  scanConfig[c].DockerImageIdsThatUse)
         /\ \A i \in Live(image) \ Live(image)' :
              Few({c \in Live(scanConfig)' : i \in scanConfig'[c].DockerImageIdsThatUse},
                  image[i].ScanConfigsToUse)]_vars
  BY NextUnlinks, Zenon DEF Unlinks, Live
<1> QED  BY <1>1, StructureHolds, PTL DEF Spec, DeletesUnlink
=============================================================================
